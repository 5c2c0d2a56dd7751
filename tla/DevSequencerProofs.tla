------------------------- MODULE DevSequencerProofs -------------------------
(***************************************************************************)
(* The dev Sequencer, for every set of writers, branches and claims and    *)
(* every bound: what it acknowledged stays in the archive, through crashes *)
(* at every point of a merge, its receipts are true, and it implements     *)
(* ArchiveLog.                                                             *)
(***************************************************************************)
EXTENDS DevSequencer, FiniteSetTheorems, TLAPS

-----------------------------------------------------------------------------
(* What walks over the claim graph reach, for every graph of claims. *)

LEMMA WalkIsClosed ==
    ASSUME NEW roots \in SUBSET Claims, NEW trusted
    PROVE  ClosedUnder(Walk(roots, trusted), roots, trusted)
<1>1. roots \subseteq Walk(roots, trusted)
  BY DEF Walk, ClosedUnder
<1>2. ASSUME NEW x \in Walk(roots, trusted) \ trusted PROVE Refs[x] \subseteq Walk(roots, trusted)
  <2> SUFFICES ASSUME NEW y \in Refs[x] PROVE y \in Walk(roots, trusted)
    OBVIOUS
  <2>1. x \in Claims /\ y \in Claims
    BY RefsAssumption DEF Walk
  <2>2. ASSUME NEW X \in SUBSET Claims, ClosedUnder(X, roots, trusted) PROVE y \in X
    <3>1. x \in X
      BY <2>2 DEF Walk
    <3>2. QED
      BY <3>1, <2>2 DEF ClosedUnder
  <2>3. QED
    BY <2>1, <2>2 DEF Walk
<1>3. QED
  BY <1>1, <1>2 DEF ClosedUnder

LEMMA WalkIsLeast ==
    ASSUME NEW roots, NEW trusted, NEW X \in SUBSET Claims, ClosedUnder(X, roots, trusted)
    PROVE  Walk(roots, trusted) \subseteq X
BY DEF Walk

(* closure(c) holds c and, with each claim, that claim's closure. *)
LEMMA ReachIsTransitive ==
    ASSUME NEW c \in Claims
    PROVE  /\ ReachFrom[c] \subseteq Claims
           /\ c \in ReachFrom[c]
           /\ \A d \in ReachFrom[c] : ReachFrom[d] \subseteq ReachFrom[c]
<1>1. ReachFrom[c] = Walk({c}, {})
  BY DEF ReachFrom
<1>2. ReachFrom[c] \subseteq Claims
  BY <1>1 DEF Walk
<1>3. ClosedUnder(ReachFrom[c], {c}, {})
  BY <1>1, WalkIsClosed
<1>4. ASSUME NEW d \in ReachFrom[c] PROVE ReachFrom[d] \subseteq ReachFrom[c]
  <2>1. ReachFrom[d] = Walk({d}, {})
    BY <1>2 DEF ReachFrom
  <2>2. ClosedUnder(ReachFrom[c], {d}, {})
    BY <1>3 DEF ClosedUnder
  <2>3. QED
    BY <2>1, <2>2, <1>2, WalkIsLeast
<1>5. QED
  BY <1>2, <1>3, <1>4 DEF ClosedUnder

LEMMA ReachIsClosed ==
    ASSUME NEW S \in SUBSET Claims
    PROVE  /\ S \subseteq Reach(S)
           /\ Reach(S) \subseteq Claims
           /\ \A d \in Reach(S) : ReachFrom[d] \subseteq Reach(S)
BY ReachIsTransitive DEF Reach

(* The frontier of a set of claims brings the whole set along. *)
LEMMA ReachOfRoots ==
    ASSUME NEW S \in SUBSET Claims
    PROVE  Reach(Roots(S)) = Reach(S)
<1>1. Roots(S) \subseteq S /\ Roots(S) \in SUBSET Claims
  BY DEF Roots
<1>2. Reach(Roots(S)) \subseteq Reach(S)
  BY <1>1 DEF Reach
<1>3. S \subseteq Reach(Roots(S))
  BY RootsCover
<1>4. \A d \in S : ReachFrom[d] \subseteq Reach(Roots(S))
  BY <1>1, <1>3, ReachIsClosed
<1>5. QED
  BY <1>2, <1>4 DEF Reach

(* A claim that cites nothing is its own closure. *)
LEMMA ReachOfLeaf ==
    ASSUME NEW c \in Claims, Refs[c] = {}
    PROVE  ReachFrom[c] = {c}
<1>1. ReachFrom[c] = Walk({c}, {})
  BY DEF ReachFrom
<1>2. ClosedUnder({c}, {c}, {})
  BY DEF ClosedUnder
<1>3. Walk({c}, {}) \subseteq {c}
  BY <1>2, WalkIsLeast
<1>4. QED
  BY <1>1, <1>3, ReachIsTransitive

-----------------------------------------------------------------------------
(* The archive. *)

(* No write fails, with an error, between the assignment of s.heads and    *)
(* that of s.head; the process may die there.                              *)
DevReliable ==
    Faults \cap {"table", "mark", "landed", "foundTable", "foundMark", "foundLanded"} = {}

(* A claim, or a head claim that is in 𝒰. *)
Present(i) == i \in Claims \cup 1..Len(folds)

(* A head claim's closure is closed, so a fold keeps all its heads reach. *)
FoldsOK ==
    \A i \in 1..Len(folds) :
        i \in folds[i] /\ \A j \in folds[i] : Present(j) /\ ClosureOf(j) \subseteq folds[i]

(* An id that names nothing, or something that is there. *)
Known(i) == i = None \/ Present(i)

(* What the tables and the list name is there. *)
IdsOK ==
    /\ \A t \in 1..Len(tables), b \in Branches : Known(tables[t].heads[b])
    /\ \A i \in 1..Len(marks) : marks[i] \in 1..Len(tables)

(* A running Sequencer stands at the newest bookmark and writes the next. *)
AtTop ==
    /\ process = "up" => head = Latest /\ heads = TableAt(Latest) /\ cursor \in {0, Len(marks)}
    /\ process = "down" => cursor = 0

(* A sealed head stands for what was staged and what that cites; nothing   *)
(* is staged after it, and a receipt is held by who merged.                *)
Whole(w) ==
    /\ IsFiniteSet(Named(w))
    /\ \A b \in Branches : Known(contribution[w].heads[b])
    /\ \A b \in Branches : contribution[w].heads[b] # None =>
          ClosureOf(contribution[w].heads[b]) \cap Claims = Reach(contribution[w].staged[b])
    /\ pc[w] = "open" => contribution[w].heads = NoHeads
    /\ pc[w] \in {"sealed", "mergable", "returning"} =>
          Named(w) # {} /\ \A b \in Named(w) : contribution[w].heads[b] # None
    /\ receipt[w] \in 0..Len(tables)
    /\ receipt[w] # 0 =>
          /\ pc[w] \in {"mergable", "returning"}
          /\ \A b \in Branches : contribution[w].staged[b] \subseteq BranchClosure(receipt[w], b)
    /\ pc[w] = "returning" =>
          \A b \in Branches : contribution[w].staged[b] \subseteq BranchClosure(Latest, b)

DevInv ==
    /\ TypeOK /\ FoldsOK /\ IdsOK /\ AtTop
    /\ \A w \in Writers : Whole(w)
    /\ NoLostContribution

-----------------------------------------------------------------------------
(* Closures *)

(* Closures and branches over a given Universe, to compare two states. *)
ClosureIn(f, i) ==
    IF i = None THEN {} ELSE IF i \in Claims THEN ReachFrom[i] ELSE f[i]
BranchIn(f, ts, t, b) == IF t = 0 THEN {} ELSE ClosureIn(f, ts[t].heads[b])

Table == [prev : Nat, heads : HeadMap]
Contributions ==
    [base : Nat, scope : ReadScopes, staged : [Branches -> SUBSET Claims], heads : HeadMap]

(* A step that only adds to 𝒰. *)
FoldsGrown ==
    /\ folds' \in Seq(SUBSET Id) /\ Len(folds) <= Len(folds')
    /\ \A i \in 1..Len(folds) : folds'[i] = folds[i]

Grown ==
    /\ FoldsGrown
    /\ Len(tables) <= Len(tables') /\ Len(tables') \in Nat
    /\ \A t \in 1..Len(tables) : tables'[t] = tables[t]

LEMMA Ids ==
    /\ None \notin Claims /\ None \notin Nat /\ Claims \cap Nat = {}
    /\ Operator \in Claims /\ ReachFrom[Operator] = {Operator}
BY DevConstantsAssumption, ReachOfLeaf

LEMMA ClosureFacts ==
    ASSUME TypeOK, FoldsOK, NEW i, Known(i)
    PROVE  /\ ClosureOf(i) \subseteq Id
           /\ \A j \in ClosureOf(i) : Present(j) /\ ClosureOf(j) \subseteq ClosureOf(i)
           /\ i # None => i \in ClosureOf(i)
<1>1. Len(folds) \in Nat /\ folds \in Seq(SUBSET Id)
  BY DEF TypeOK
<1>2. CASE i = None
  BY <1>2 DEF ClosureOf
<1>3. CASE i \in Claims
  <2>1. i # None /\ ClosureOf(i) = ReachFrom[i]
    BY <1>3, Ids DEF ClosureOf
  <2>2. /\ ReachFrom[i] \subseteq Claims /\ i \in ReachFrom[i]
        /\ \A j \in ReachFrom[i] : ReachFrom[j] \subseteq ReachFrom[i]
    BY <1>3, ReachIsTransitive
  <2>3. \A j \in Claims : ClosureOf(j) = ReachFrom[j]
    BY Ids DEF ClosureOf
  <2>4. \A j \in ClosureOf(i) : Present(j) /\ ClosureOf(j) \subseteq ClosureOf(i)
    BY <2>1, <2>2, <2>3 DEF Present
  <2> QED BY <2>1, <2>2, <2>4 DEF Id
<1>4. CASE i \in 1..Len(folds) /\ i \notin Claims
  <2>1. i # None /\ ClosureOf(i) = folds[i]
    BY <1>1, <1>4, Ids DEF ClosureOf
  <2>2. folds[i] \subseteq Id
    BY <1>1, <1>4
  <2> QED BY <1>4, <2>1, <2>2 DEF FoldsOK
<1> QED BY <1>2, <1>3, <1>4 DEF Known, Present

LEMMA ClosuresKept ==
    ASSUME TypeOK, FoldsGrown
    PROVE  \A i : Known(i) => Known(i)' /\ ClosureIn(folds', i) = ClosureOf(i)
<1>1. Len(folds) \in Nat /\ Len(folds') \in Nat
  BY DEF TypeOK, FoldsGrown
<1>2. \A i : Present(i) => Present(i)'
  BY <1>1 DEF Present, FoldsGrown
<1> QED BY <1>1, <1>2 DEF Known, Present, FoldsGrown, ClosureIn, ClosureOf

(* A head claim minted over what is there keeps the folds closed. *)
LEMMA FoldsClosed ==
    ASSUME TypeOK, FoldsOK, FoldsGrown,
           \A i \in 1..Len(folds') : i > Len(folds) =>
              i \in folds'[i] /\ \A j \in folds'[i] \ {i} :
                                     Present(j) /\ ClosureOf(j) \subseteq folds'[i]
    PROVE  FoldsOK'
<1>1. Len(folds) \in Nat /\ Len(folds') \in Nat
  BY DEF TypeOK, FoldsGrown
<1>2. \A j : Present(j) => Present(j)' /\ ClosureOf(j)' = ClosureOf(j)
  <2>1. \A j : ClosureOf(j)' = ClosureIn(folds', j)
    BY DEF ClosureOf, ClosureIn
  <2>2. \A j : Present(j) => Known(j)
    BY DEF Known
  <2>3. \A j : Present(j) => Present(j)'
    BY <1>1 DEF Present, FoldsGrown
  <2> QED BY <2>1, <2>2, <2>3, ClosuresKept
<1> SUFFICES ASSUME NEW i \in 1..Len(folds')
             PROVE  i \in folds'[i] /\ \A j \in folds'[i] :
                                          Present(j)' /\ ClosureOf(j)' \subseteq folds'[i]
  BY DEF FoldsOK
<1>3. CASE i <= Len(folds)
  <2>1. i \in 1..Len(folds) /\ folds'[i] = folds[i]
    BY <1>1, <1>3 DEF FoldsGrown
  <2> QED BY <1>2, <2>1 DEF FoldsOK
<1>4. CASE i > Len(folds)
  <2>1. i # None /\ i \notin Claims
    BY <1>1, Ids
  <2>2. Present(i)' /\ ClosureOf(i)' = folds'[i]
    BY <2>1 DEF Present, ClosureOf
  <2> QED BY <1>2, <1>4, <2>2
<1> QED BY <1>1, <1>3, <1>4

LEMMA TablesKnown ==
    ASSUME TypeOK, IdsOK
    PROVE  /\ Latest \in 0..Len(tables) /\ (marks # <<>> => Latest # 0)
           /\ \A t \in 0..Len(tables), b \in Branches :
                 /\ Known(TableAt(t)[b]) /\ BranchClosure(t, b) = BranchIn(folds, tables, t, b)
           /\ \A t \in 0..Len(tables) : TableAt(t) \in HeadMap
<1>1. Len(tables) \in Nat /\ marks \in Seq(Nat) /\ tables \in Seq(Table)
  BY DEF TypeOK, Table
<1>2. Latest \in 0..Len(tables) /\ (marks # <<>> => Latest # 0)
  <2>1. CASE marks = <<>>
    BY <1>1, <2>1 DEF Latest
  <2>2. CASE marks # <<>>
    <3>1. Len(marks) \in 1..Len(marks)
      BY <1>1, <2>2
    <3>2. Latest = marks[Len(marks)]
      BY <2>2 DEF Latest, Last
    <3> QED BY <1>1, <3>1, <3>2 DEF IdsOK
  <2> QED BY <2>1, <2>2
<1>3. ASSUME NEW t \in 0..Len(tables)
      PROVE  /\ TableAt(t) \in HeadMap
             /\ \A b \in Branches : Known(TableAt(t)[b]) /\ BranchClosure(t, b) = BranchIn(folds, tables, t, b)
  <2>1. CASE t = 0
    BY <2>1 DEF TableAt, NoHeads, HeadMap, Known, BranchClosure, BranchIn, ClosureOf
  <2>2. CASE t # 0
    <3>1. t \in 1..Len(tables) /\ TableAt(t) = tables[t].heads
      BY <1>1, <2>2 DEF TableAt
    <3>2. tables[t].heads \in HeadMap
      <4>1. tables[t] \in Table
        BY <1>1, <3>1
      <4> QED BY <4>1 DEF Table
    <3> QED BY <2>2, <3>1, <3>2 DEF IdsOK, Known, BranchClosure, BranchIn, ClosureOf, ClosureIn
  <2> QED BY <2>1, <2>2
<1> QED BY <1>2, <1>3

(* What the tables said before a step they say after it. *)
LEMMA BranchesKept ==
    ASSUME TypeOK, IdsOK, Grown
    PROVE  \A t \in 0..Len(tables), b \in Branches :
              BranchClosure(t, b)' = BranchClosure(t, b) /\ TableAt(t)' = TableAt(t)
<1> SUFFICES ASSUME NEW t \in 0..Len(tables), NEW b \in Branches
             PROVE  BranchClosure(t, b)' = BranchClosure(t, b) /\ TableAt(t)' = TableAt(t)
  OBVIOUS
<1>1. Len(tables) \in Nat
  BY DEF TypeOK
<1>2. TableAt(t)' = TableAt(t)
  BY <1>1 DEF TableAt, Grown
<1>3. Known(TableAt(t)[b])
  BY TablesKnown
<1>4. BranchClosure(t, b)' = ClosureIn(folds', TableAt(t)[b])
  BY <1>2 DEF BranchClosure, ClosureOf, ClosureIn
<1>5. BranchClosure(t, b) = ClosureOf(TableAt(t)[b])
  BY DEF BranchClosure
<1> QED BY <1>2, <1>3, <1>4, <1>5, ClosuresKept DEF Grown

-----------------------------------------------------------------------------
(* What a step leaves alone *)

LEMMA TypesOf ==
    ASSUME TypeOK
    PROVE  /\ Len(folds) \in Nat /\ Len(tables) \in Nat /\ Len(marks) \in Nat
           /\ \A w \in Writers :
                 /\ contribution[w] \in Contributions
                 /\ contribution[w].staged \in [Branches -> SUBSET Claims]
                 /\ contribution[w].heads \in HeadMap
                 /\ \A b \in Branches : contribution[w].staged[b] \subseteq Claims
<1>1. Len(folds) \in Nat /\ Len(tables) \in Nat /\ Len(marks) \in Nat
  BY DEF TypeOK
<1>2. ASSUME NEW w \in Writers
      PROVE  /\ contribution[w] \in Contributions
             /\ contribution[w].staged \in [Branches -> SUBSET Claims]
             /\ contribution[w].heads \in HeadMap
             /\ \A b \in Branches : contribution[w].staged[b] \subseteq Claims
  <2>1. contribution[w] \in Contributions
    BY DEF TypeOK, Contributions
  <2>2. contribution[w].staged \in [Branches -> SUBSET Claims] /\ contribution[w].heads \in HeadMap
    BY <2>1 DEF Contributions
  <2> QED BY <2>1, <2>2
<1> QED BY <1>1, <1>2

(* The archive the list records only grows. *)
ArchiveKept ==
    /\ Latest' \in 0..Len(tables')
    /\ \A b \in Branches : BranchClosure(Latest, b) \subseteq BranchClosure(Latest, b)'

(* A step that leaves the list alone leaves the archive alone. *)
LEMMA ListUntouched ==
    ASSUME TypeOK, IdsOK, Grown, marks' = marks
    PROVE  /\ ArchiveKept /\ Latest' = Latest /\ TableAt(Latest)' = TableAt(Latest)
           /\ \A b \in Branches : BranchClosure(Latest, b)' = BranchClosure(Latest, b)
<1>1. Latest' = Latest /\ Latest \in 0..Len(tables)
  BY TablesKnown DEF Latest
<1>2. \A t \in 0..Len(tables) : t = Latest =>
         \A b \in Branches : BranchClosure(Latest, b)' = BranchClosure(t, b)
  BY <1>1, BranchesKept DEF BranchClosure, TableAt, ClosureOf
<1>3. TableAt(Latest)' = TableAt(Latest)
  <2>1. Len(tables) \in Nat
    BY DEF TypeOK
  <2>2. Latest # 0 => Latest \in 1..Len(tables) /\ tables'[Latest] = tables[Latest]
    BY <1>1, <2>1 DEF Grown
  <2> QED BY <1>1, <2>2 DEF TableAt
<1>4. \A b \in Branches : BranchClosure(Latest, b)' = BranchClosure(Latest, b)
  BY <1>1, <1>2
<1> QED BY <1>1, <1>3, <1>4 DEF ArchiveKept, Grown, TypeOK

(* A writer the step is not about. *)
LEMMA WholeKept ==
    ASSUME TypeOK, IdsOK, Grown, ArchiveKept, NEW w \in Writers, Whole(w),
           contribution'[w] = contribution[w], pc'[w] = pc[w], receipt'[w] = receipt[w]
    PROVE  Whole(w)'
<1>1. Named(w)' = Named(w)
  BY DEF Named
<1>2. \A b \in Branches : Known(contribution[w].heads[b])
  BY DEF Whole
<1>3. ASSUME NEW b \in Branches
      PROVE  /\ Known(contribution[w].heads[b])'
             /\ ClosureOf(contribution[w].heads[b])' = ClosureOf(contribution[w].heads[b])
  <2>1. Len(folds) \in Nat /\ Len(folds') \in Nat /\ Len(folds) <= Len(folds')
    BY DEF TypeOK, Grown, FoldsGrown
  <2>2. ClosureIn(folds', contribution[w].heads[b]) = ClosureOf(contribution[w].heads[b])
    BY <1>2, ClosuresKept DEF Grown
  <2>3. ClosureOf(contribution[w].heads[b])' = ClosureIn(folds', contribution[w].heads[b])
    BY DEF ClosureOf, ClosureIn
  <2>4. Known(contribution[w].heads[b])'
    BY <1>2, <2>1 DEF Known, Present
  <2> QED BY <2>2, <2>3, <2>4
<1>4. receipt[w] \in 0..Len(tables) /\ receipt'[w] \in 0..Len(tables')
  BY DEF Whole, Grown, TypeOK
<1>5. \A b \in Branches : BranchClosure(receipt[w], b)' = BranchClosure(receipt[w], b)
  <2>1. \A t \in 0..Len(tables) : t = receipt'[w] =>
           \A b \in Branches : BranchClosure(receipt[w], b)' = BranchClosure(t, b)
    BY BranchesKept DEF BranchClosure, TableAt, ClosureOf
  <2> QED BY <1>4, <2>1
<1> QED BY <1>1, <1>3, <1>4, <1>5 DEF Whole, ArchiveKept

LEMMA AckedKept ==
    ASSUME TypeOK, NoLostContribution, ArchiveKept, acked' = acked
    PROVE  NoLostContribution'
BY DEF NoLostContribution, ArchiveKept, TypeOK

-----------------------------------------------------------------------------
(* The heads a merge mints *)

(* SetToSeq lists a finite set: every element of it, nothing else. *)
LEMMA SetToSeqLists ==
    ASSUME NEW S, IsFiniteSet(S)
    PROVE  /\ Cardinality(S) \in Nat
           /\ SetToSeq(S) \in [1..Cardinality(S) -> S]
           /\ \A s \in S : \E i \in 1..Cardinality(S) : SetToSeq(S)[i] = s
<1> DEFINE n == Cardinality(S)
           f == SetToSeq(S)
<1>1. n \in Nat /\ ExistsBijection(1..n, S)
  BY FS_CardinalityType
<1>2. \E g \in [1..n -> S] : IsInjective(g)
  BY <1>1 DEF ExistsBijection, Bijection, Injection
<1>3. f \in [1..n -> S] /\ IsInjective(f)
  BY <1>2 DEF SetToSeq
<1>4. f \in Injection(1..n, S)
  BY <1>3 DEF Injection
<1>5. Cardinality(1..n) = n
  BY <1>1, FS_Interval
<1>6. f \in Surjection(1..n, S)
  BY <1>4, <1>5, FS_Injection
<1> QED BY <1>1, <1>3, <1>6 DEF Surjection

(* What writer w is about to merge, on a Sequencer that runs. *)
Merging(w) == DevInv /\ w \in Writers /\ process = "up" /\ head # 0 /\ pc[w] = "mergable"

(* The branch's own head is kept as a head of its own unless the new one   *)
(* reaches it, so the heads of a branch reach what both of them did.       *)
LEMMA HeadSets ==
    ASSUME NEW w, Merging(w), NEW b \in Advanced(w)
    PROVE  LET c == contribution[w].heads[b]
               o == heads[b]
           IN  /\ b \in Branches /\ c # None /\ Known(c) /\ Known(o)
               /\ UNION {ClosureOf(h) : h \in HeadSet(w, b)} = ClosureOf(c) \cup ClosureOf(o)
               /\ \/ Cardinality(HeadSet(w, b)) > 1
                  \/ HeadSet(w, b) = {c} /\ ClosureOf(o) \subseteq ClosureOf(c)
<1> DEFINE c == contribution[w].heads[b]
           o == heads[b]
<1>0. /\ TypeOK /\ FoldsOK /\ IdsOK /\ w \in Writers
      /\ heads = TableAt(Latest)
  BY DEF Merging, DevInv, AtTop
<1>1. b \in Branches /\ Fresh(w, b) # {}
  BY DEF Advanced, Named
<1>2. Fresh(w, b) = {c} /\ c # None /\ c \notin ClosureOf(o)
  BY <1>1 DEF Fresh
<1>3. Known(c) /\ Known(o)
  BY <1>0, <1>1, TablesKnown DEF Merging, DevInv, Whole
<1>4. HeadSet(w, b) = {c} \cup ({o} \ (ClosureOf(c) \cup {None}))
  BY <1>2 DEF HeadSet
<1>5. CASE o = None
  BY <1>1, <1>2, <1>3, <1>4, <1>5 DEF ClosureOf
<1>6. CASE o # None /\ o \in ClosureOf(c)
  <2>1. ClosureOf(o) \subseteq ClosureOf(c)
    BY <1>0, <1>3, <1>6, ClosureFacts
  <2> QED BY <1>1, <1>2, <1>3, <1>4, <1>6, <2>1
<1>7. CASE o # None /\ o \notin ClosureOf(c)
  <2>1. HeadSet(w, b) = {c} \cup {o}
    BY <1>4, <1>7
  <2>2. o \in ClosureOf(o)
    BY <1>0, <1>3, <1>7, ClosureFacts
  <2>3. o \notin {c}
    BY <1>2, <2>2
  <2>4. IsFiniteSet({c}) /\ Cardinality({c}) = 1
    BY FS_Singleton
  <2>5. Cardinality({c} \cup {o}) = 1 + 1
    BY <2>3, <2>4, FS_AddElement, Zenon
  <2>6. Cardinality(HeadSet(w, b)) > 1
    BY <2>1, <2>5
  <2>7. UNION {ClosureOf(h) : h \in HeadSet(w, b)} = ClosureOf(c) \cup ClosureOf(o)
    BY <2>1
  <2> QED BY <1>1, <1>2, <1>3, <2>6, <2>7
<1> QED BY <1>5, <1>6, <1>7

(* The branches that take a consolidating head are listed, each once. *)
LEMMA FoldedLists ==
    ASSUME NEW w, Merging(w)
    PROVE  LET S == {b \in Advanced(w) : Cardinality(HeadSet(w, b)) > 1}
           IN  /\ Cardinality(S) \in Nat
               /\ Folded(w) \in [1..Cardinality(S) -> S]
               /\ \A s \in S : \E i \in 1..Cardinality(S) : Folded(w)[i] = s
<1> DEFINE S == {b \in Advanced(w) : Cardinality(HeadSet(w, b)) > 1}
<1>1. IsFiniteSet(Named(w))
  BY DEF Merging, DevInv, Whole
<1>2. S \in SUBSET Named(w)
  BY DEF Advanced
<1>3. IsFiniteSet(S)
  BY <1>1, <1>2, FS_Subset
<1> QED BY <1>3, SetToSeqLists DEF Folded

(* The head claims a merge mints, as far as it gets, and what they reach. *)
LEMMA MergeFolds ==
    ASSUME NEW w, Merging(w), NEW n \in 0..Len(NewFolds(w)),
           folds' = folds \o SubSeq(NewFolds(w), 1, n)
    PROVE  /\ FoldsGrown /\ FoldsOK'
           /\ n = Len(NewFolds(w)) => \A b \in Advanced(w) :
                 LET h == NewHeads(w)[b]
                     both == ClosureOf(contribution[w].heads[b]) \cup ClosureOf(heads[b])
                 IN  /\ h \in Claims \cup 1..Len(folds')
                     /\ both \subseteq ClosureIn(folds', h)
                     /\ ClosureIn(folds', h) \cap Claims = both \cap Claims
<1> DEFINE S == {b \in Advanced(w) : Cardinality(HeadSet(w, b)) > 1}
           k == Cardinality(S)
           Both(b) == ClosureOf(contribution[w].heads[b]) \cup ClosureOf(heads[b])
<1>0. TypeOK /\ FoldsOK /\ Len(folds) \in Nat /\ folds \in Seq(SUBSET Id)
  BY SMTT(40) DEF Merging, DevInv, TypeOK
<1>1. /\ k \in Nat /\ Folded(w) \in [1..k -> S]
      /\ \A s \in S : \E i \in 1..k : Folded(w)[i] = s
  BY FoldedLists
<1>2. ASSUME NEW b \in Advanced(w)
      PROVE  /\ Both(b) \subseteq Id
             /\ \A j \in Both(b) : Present(j) /\ ClosureOf(j) \subseteq Both(b)
  BY <1>0, HeadSets, ClosureFacts
<1>3. \A i \in 1..k : Folded(w)[i] \in Advanced(w)
  BY <1>1
<1>4. \A i \in 1..k : NewFolds(w)[i] = {Len(folds) + i} \cup Both(Folded(w)[i])
  <2> SUFFICES ASSUME NEW i \in 1..k
               PROVE  NewFolds(w)[i] = {Len(folds) + i} \cup Both(Folded(w)[i])
    OBVIOUS
  <2>1. DOMAIN Folded(w) = 1..k
    BY <1>1
  <2>2. NewFolds(w)[i] = {Len(folds) + i} \cup UNION {ClosureOf(h) : h \in HeadSet(w, Folded(w)[i])}
    BY <2>1 DEF NewFolds
  <2> QED BY <1>3, <2>2, HeadSets
<1>5. NewFolds(w) \in [1..k -> SUBSET Id]
  <2>1. \A i \in 1..k : Len(folds) + i \in Id
    BY <1>0, <1>1 DEF Id
  <2>2. \A i \in 1..k : NewFolds(w)[i] \in SUBSET Id
    BY <1>2, <1>3, <1>4, <2>1
  <2>3. DOMAIN Folded(w) = 1..k
    BY <1>1
  <2>4. NewFolds(w) = [i \in 1..k |-> NewFolds(w)[i]]
    BY <2>3 DEF NewFolds
  <2> HIDE DEF k
  <2> QED BY <2>2, <2>4
<1>6. NewFolds(w) \in Seq(SUBSET Id) /\ Len(NewFolds(w)) = k
  <2> HIDE DEF k
  <2> QED BY <1>1, <1>5
<1>7. /\ SubSeq(NewFolds(w), 1, n) \in Seq(SUBSET Id) /\ Len(SubSeq(NewFolds(w), 1, n)) = n
      /\ \A i \in 1..n : SubSeq(NewFolds(w), 1, n)[i] = NewFolds(w)[i]
  <2> HIDE DEF k
  <2> QED BY <1>1, <1>6
<1>8. /\ folds' \in Seq(SUBSET Id) /\ Len(folds') = Len(folds) + n
      /\ \A i \in 1..Len(folds) : folds'[i] = folds[i]
      /\ \A i \in 1..n : folds'[Len(folds) + i] = NewFolds(w)[i]
  <2> HIDE DEF k
  <2> DEFINE T == SubSeq(NewFolds(w), 1, n)
  <2>1. T \in Seq(SUBSET Id) /\ Len(T) = n /\ \A i \in 1..n : T[i] = NewFolds(w)[i]
    BY <1>7
  <2> HIDE DEF T
  <2>2. folds' = folds \o T
    BY DEF T
  <2> QED BY <1>0, <2>1, <2>2
<1>9. n \in Nat /\ n <= k /\ FoldsGrown
  BY <1>0, <1>1, <1>6, <1>8 DEF FoldsGrown
<1>10. FoldsOK'
  <2>1. ASSUME NEW i \in 1..Len(folds'), i > Len(folds)
        PROVE  i \in folds'[i] /\ \A j \in folds'[i] \ {i} :
                                     Present(j) /\ ClosureOf(j) \subseteq folds'[i]
    <3> DEFINE m == i - Len(folds)
    <3>1. m \in 1..n /\ m \in 1..k /\ i = Len(folds) + m
      BY <1>0, <1>1, <1>8, <1>9, <2>1
    <3> HIDE DEF m
    <3>2. folds'[i] = {i} \cup Both(Folded(w)[m])
      BY <1>4, <1>8, <3>1
    <3> QED BY <1>2, <1>3, <3>1, <3>2
  <2> QED BY <1>0, <1>9, <2>1, FoldsClosed
<1>11. ASSUME n = Len(NewFolds(w)), NEW b \in Advanced(w)
       PROVE  /\ NewHeads(w)[b] \in Claims \cup 1..Len(folds')
              /\ Both(b) \subseteq ClosureIn(folds', NewHeads(w)[b])
              /\ ClosureIn(folds', NewHeads(w)[b]) \cap Claims = Both(b) \cap Claims
  <2> DEFINE c == contribution[w].heads[b]
             h == NewHeads(w)[b]
  <2>0. n = k /\ DOMAIN Folded(w) = 1..k /\ b \in Branches
    BY <1>1, <1>6, <1>11, HeadSets
  <2>1. CASE b \in S
    <3>1. \E i \in 1..k : Folded(w)[i] = b
      BY <1>1, <2>1
    <3>2. h = Len(folds) + CHOOSE i \in 1..k : Folded(w)[i] = b
      BY <2>0, <3>1 DEF NewHeads
    <3>3. PICK i \in 1..k : Folded(w)[i] = b /\ h = Len(folds) + i
      BY <3>1, <3>2
    <3>4. h \in 1..Len(folds') /\ folds'[h] = {h} \cup Both(b) /\ h \in Nat
      <4>1. h \in 1..Len(folds') /\ h \in Nat
        <5> HIDE DEF k, h
        <5> QED BY <1>0, <1>1, <1>8, <2>0, <3>3
      <4>2. folds'[Len(folds) + i] = NewFolds(w)[i]
        BY <1>8, <2>0, <3>3
      <4>3. NewFolds(w)[i] = {Len(folds) + i} \cup Both(b)
        BY <1>4, <3>3
      <4> QED BY <3>3, <4>1, <4>2, <4>3
    <3>5. h # None /\ h \notin Claims
      BY <3>4, Ids
    <3>6. ClosureIn(folds', h) = {h} \cup Both(b)
      BY <3>4, <3>5 DEF ClosureIn
    <3> QED BY <3>4, <3>5, <3>6
  <2>2. CASE b \notin S
    <3>1. HeadSet(w, b) = {c} /\ Known(c) /\ c # None /\ ClosureOf(heads[b]) \subseteq ClosureOf(c)
      BY <2>2, HeadSets
    <3>2. \A i \in 1..k : Folded(w)[i] # b
      BY <1>1, <2>2
    <3>3. h = c
      BY <2>0, <3>1, <3>2 DEF NewHeads
    <3>4. ClosureIn(folds', c) = ClosureOf(c)
      BY <1>0, <1>9, <3>1, ClosuresKept
    <3>5. c \in Claims \cup 1..Len(folds')
      BY <3>1, <1>8, <1>9, <1>0 DEF Known, Present
    <3> QED BY <3>1, <3>3, <3>4, <3>5
  <2> QED BY <2>1, <2>2
<1> QED BY <1>9, <1>10, <1>11

-----------------------------------------------------------------------------
(* What a merge writes *)

(* A branch a merge does not move holds what the merge brings to it. *)
LEMMA AlreadyHeld ==
    ASSUME NEW w, Merging(w), NEW b \in Branches, b \notin Advanced(w)
    PROVE  /\ Reach(contribution[w].staged[b]) \subseteq ClosureOf(heads[b])
           /\ contribution[w].staged[b] \subseteq ClosureOf(heads[b])
<1> DEFINE c == contribution[w].heads[b]
           staged == contribution[w].staged[b]
<1>0. /\ TypeOK /\ FoldsOK /\ IdsOK /\ w \in Writers /\ Whole(w)
      /\ heads = TableAt(Latest) /\ pc[w] = "mergable"
  BY DEF Merging, DevInv, AtTop
<1>1. staged \subseteq Reach(staged)
  BY <1>0, TypesOf, ReachIsClosed
<1>2. CASE b \notin Named(w)
  BY <1>2 DEF Named, Reach
<1>3. CASE b \in Named(w)
  <2>1. c # None /\ ClosureOf(c) \cap Claims = Reach(staged)
    BY <1>0, <1>3 DEF Whole
  <2>2. c \in ClosureOf(heads[b])
    BY <1>3, <2>1 DEF Advanced, Fresh
  <2>3. ClosureOf(c) \subseteq ClosureOf(heads[b])
    BY <1>0, <2>2, TablesKnown, ClosureFacts
  <2> QED BY <1>1, <2>1, <2>3
<1> QED BY <1>2, <1>3

(* The bookmark of a merge by w: every branch keeps what it had and takes  *)
(* in what w staged and what that cites, and nothing else.                 *)
Took(w) ==
    /\ Len(tables') = Len(tables) + 1 /\ Latest' = Len(tables) + 1
    /\ Len(marks') = NextIndex /\ TableAt(Latest)' = Overlay(heads, NewHeads(w))
    /\ \A b \in Branches :
          /\ BranchClosure(Latest, b) \subseteq BranchClosure(Latest, b)'
          /\ contribution[w].staged[b] \subseteq BranchClosure(Latest, b)'
          /\ BranchClosure(Latest, b)' \cap Claims =
                (BranchClosure(Latest, b) \cap Claims) \cup Reach(contribution[w].staged[b])

(* The table's new heads: the branches w moves, and the old ones elsewhere. *)
LEMMA NewTable ==
    ASSUME NEW w, Merging(w), folds' = folds \o SubSeq(NewFolds(w), 1, Len(NewFolds(w))),
           Len(NewFolds(w)) \in Nat
    PROVE  LET over == Overlay(heads, NewHeads(w))
           IN  /\ over \in HeadMap
               /\ \A b \in Branches :
                     /\ over[b] \in {None} \cup Claims \cup 1..Len(folds')
                     /\ ClosureOf(heads[b]) \subseteq ClosureIn(folds', over[b])
                     /\ contribution[w].staged[b] \subseteq ClosureIn(folds', over[b])
                     /\ ClosureIn(folds', over[b]) \cap Claims =
                           (ClosureOf(heads[b]) \cap Claims) \cup Reach(contribution[w].staged[b])
<1> DEFINE over == Overlay(heads, NewHeads(w))
           c(b) == contribution[w].heads[b]
           staged(b) == contribution[w].staged[b]
<1>0. /\ TypeOK /\ FoldsOK /\ IdsOK /\ w \in Writers /\ Whole(w)
      /\ heads = TableAt(Latest) /\ pc[w] = "mergable"
  BY DEF Merging, DevInv, AtTop
<1>1. /\ FoldsGrown /\ Len(folds) \in Nat /\ Len(folds') \in Nat /\ Len(folds) <= Len(folds')
      /\ \A b \in Advanced(w) :
            /\ NewHeads(w)[b] \in Claims \cup 1..Len(folds')
            /\ ClosureOf(c(b)) \cup ClosureOf(heads[b]) \subseteq ClosureIn(folds', NewHeads(w)[b])
            /\ ClosureIn(folds', NewHeads(w)[b]) \cap Claims
                  = (ClosureOf(c(b)) \cup ClosureOf(heads[b])) \cap Claims
  <2> DEFINE n == Len(NewFolds(w))
  <2>1. n \in 0..Len(NewFolds(w)) /\ folds' = folds \o SubSeq(NewFolds(w), 1, n)
    OBVIOUS
  <2>2. /\ FoldsGrown
        /\ \A b \in Advanced(w) :
              LET h == NewHeads(w)[b]
                  both == ClosureOf(contribution[w].heads[b]) \cup ClosureOf(heads[b])
              IN  /\ h \in Claims \cup 1..Len(folds')
                  /\ both \subseteq ClosureIn(folds', h)
                  /\ ClosureIn(folds', h) \cap Claims = both \cap Claims
    BY <2>1, MergeFolds, Zenon
  <2>3. Len(folds) \in Nat /\ Len(folds') \in Nat /\ Len(folds) <= Len(folds')
    BY <1>0, <2>2 DEF FoldsGrown, TypeOK
  <2> QED BY <2>2, <2>3
<1>2. \A b \in Branches : Known(heads[b])
  BY <1>0, TablesKnown
<1>3. \A b \in Branches : staged(b) \subseteq Reach(staged(b)) /\ Reach(staged(b)) \subseteq Claims
  BY <1>0, TypesOf, ReachIsClosed
<1>4. ASSUME NEW b \in Advanced(w)
      PROVE  /\ over[b] = NewHeads(w)[b] /\ over[b] # None
             /\ ClosureOf(c(b)) \cap Claims = Reach(staged(b))
  <2>1. b \in Branches /\ c(b) # None
    BY HeadSets
  <2>2. NewHeads(w)[b] # None
    BY <1>1, Ids
  <2>3. over[b] = NewHeads(w)[b]
    BY <2>1, <2>2 DEF Overlay
  <2> QED BY <1>0, <2>1, <2>2, <2>3 DEF Whole
<1>5. ASSUME NEW b \in Branches, b \notin Advanced(w)
      PROVE  over[b] = heads[b] /\ Reach(staged(b)) \subseteq ClosureOf(heads[b])
  <2>1. over[b] = heads[b]
    BY <1>5 DEF Overlay, NewHeads
  <2> QED BY <1>5, <2>1, AlreadyHeld
<1>6. ASSUME NEW b \in Branches
      PROVE  /\ over[b] \in {None} \cup Claims \cup 1..Len(folds')
             /\ ClosureOf(heads[b]) \subseteq ClosureIn(folds', over[b])
             /\ staged(b) \subseteq ClosureIn(folds', over[b])
             /\ ClosureIn(folds', over[b]) \cap Claims
                   = (ClosureOf(heads[b]) \cap Claims) \cup Reach(staged(b))
  <2>1. CASE b \in Advanced(w)
    <3>1. ClosureIn(folds', over[b]) \cap Claims
             = (ClosureOf(heads[b]) \cap Claims) \cup Reach(staged(b))
      BY <1>1, <1>4, <2>1
    <3>2. staged(b) \subseteq ClosureIn(folds', over[b])
      BY <1>3, <3>1
    <3> QED BY <1>1, <1>4, <2>1, <3>1, <3>2
  <2>2. CASE b \notin Advanced(w)
    <3>1. over[b] = heads[b] /\ ClosureIn(folds', over[b]) = ClosureOf(heads[b])
      BY <1>0, <1>1, <1>2, <1>5, <2>2, ClosuresKept
    <3>2. over[b] \in {None} \cup Claims \cup 1..Len(folds')
      BY <1>1, <1>2, <3>1 DEF Known, Present
    <3>3. staged(b) \subseteq ClosureIn(folds', over[b])
      BY <1>3, <1>5, <2>2, <3>1
    <3>4. (ClosureOf(heads[b]) \cap Claims) = (ClosureOf(heads[b]) \cap Claims) \cup Reach(staged(b))
      BY <1>3, <1>5, <2>2
    <3> QED BY <3>1, <3>2, <3>3, <3>4
  <2> QED BY <2>1, <2>2
<1>7. over \in HeadMap
  <2>1. \A b \in Branches : over[b] \in Id \cup {None}
    BY <1>1, <1>6 DEF Id
  <2>2. over = [b \in Branches |-> over[b]]
    BY DEF Overlay
  <2> HIDE DEF over
  <2> QED BY <2>1, <2>2 DEF HeadMap
<1> QED BY <1>6, <1>7

LEMMA MergeEffect ==
    ASSUME NEW w, Merging(w), NEW stop, MergeWrites(w, stop)
    PROVE  /\ Grown /\ FoldsOK' /\ IdsOK' /\ ArchiveKept
           /\ tables' \in Seq(Table) /\ marks' \in Seq(Nat)
           /\ IF stop \in {"fold", "table", "mark"}
              THEN marks' = marks /\ \A b \in Branches : BranchClosure(Latest, b)' = BranchClosure(Latest, b)
              ELSE Took(w)
<1> DEFINE over == Overlay(heads, NewHeads(w))
           new == Minted(head, TableAt(head), NewHeads(w))
           k == Len(NewFolds(w))
<1>0. /\ TypeOK /\ FoldsOK /\ IdsOK /\ w \in Writers
      /\ head = Latest /\ heads = TableAt(Latest) /\ cursor \in {0, Len(marks)}
      /\ tables \in Seq(Table) /\ marks \in Seq(Nat) /\ head \in Nat
      /\ Len(tables) \in Nat /\ Len(marks) \in Nat
  BY DEF Merging, DevInv, AtTop, TypeOK, Table
<1>1. PICK n \in 0..k : (stop # "fold" => n = k) /\ folds' = folds \o SubSeq(NewFolds(w), 1, n)
  BY DEF MergeWrites
<1>2. FoldsGrown /\ FoldsOK'
  BY <1>1, MergeFolds
<1>3. /\ Len(folds) \in Nat /\ Len(folds') \in Nat /\ Len(folds) <= Len(folds')
      /\ \A i : Known(i) => Known(i)'
  BY <1>0, <1>2, ClosuresKept, SMTT(40) DEF FoldsGrown, TypeOK
<1>4. \A i \in 1..Len(marks) : marks[i] \in 1..Len(tables)
  BY <1>0 DEF IdsOK
<1>5. \A t \in 1..Len(tables), b \in Branches : Known(tables[t].heads[b])
  BY <1>0 DEF IdsOK
<1>6. ASSUME Grown, marks' = marks
      PROVE  /\ \A b \in Branches : BranchClosure(Latest, b)' = BranchClosure(Latest, b)
             /\ ArchiveKept
  BY <1>0, <1>6, ListUntouched
<1>7. CASE stop \in {"fold", "table"}
  <2>1. tables' = tables /\ marks' = marks
    BY <1>7 DEF MergeWrites
  <2>2. Grown
    BY <1>0, <1>2, <2>1 DEF Grown
  <2>3. IdsOK'
    BY <1>3, <1>4, <1>5, <2>1 DEF IdsOK, Known, Present
  <2> QED BY <1>0, <1>2, <1>6, <1>7, <2>1, <2>2, <2>3
<1>8. CASE stop \notin {"fold", "table"}
  <2>1. n = k /\ k \in Nat
    BY <1>1, <1>8
  <2>2. folds' = folds \o SubSeq(NewFolds(w), 1, Len(NewFolds(w))) /\ Len(NewFolds(w)) \in Nat
    BY <1>1, <2>1
  <2>3. /\ over \in HeadMap
        /\ \A b \in Branches :
              /\ over[b] \in {None} \cup Claims \cup 1..Len(folds')
              /\ ClosureOf(heads[b]) \subseteq ClosureIn(folds', over[b])
              /\ contribution[w].staged[b] \subseteq ClosureIn(folds', over[b])
              /\ ClosureIn(folds', over[b]) \cap Claims =
                    (ClosureOf(heads[b]) \cap Claims) \cup Reach(contribution[w].staged[b])
    BY <2>2, NewTable
  <2>4. tables' = Append(tables, new) /\ new = [prev |-> head, heads |-> over]
    BY <1>0, <1>8 DEF MergeWrites, Minted
  <2>5. new \in Table /\ new.heads = over
    BY <1>0, <2>3, <2>4 DEF Table
  <2> HIDE DEF new, over
  <2>6. /\ tables' \in Seq(Table) /\ Len(tables') = Len(tables) + 1
        /\ \A t \in 1..Len(tables) : tables'[t] = tables[t]
        /\ tables'[Len(tables) + 1] = new
    BY <1>0, <2>4, <2>5
  <2>7. Grown
    BY <1>0, <1>2, <2>6 DEF Grown
  <2>8. \A t \in 1..Len(tables'), b \in Branches : tables'[t].heads[b] \in {None} \cup Claims \cup 1..Len(folds')
    <3> SUFFICES ASSUME NEW t \in 1..Len(tables'), NEW b \in Branches
                 PROVE  tables'[t].heads[b] \in {None} \cup Claims \cup 1..Len(folds')
      OBVIOUS
    <3>1. CASE t \in 1..Len(tables)
      BY <1>3, <1>5, <2>6, <3>1 DEF Known, Present
    <3>2. CASE t = Len(tables) + 1
      BY <2>3, <2>5, <2>6, <3>2
    <3> QED BY <1>0, <2>6, <3>1, <3>2
  <2>9. CASE stop = "mark"
    <3>1. marks' = marks
      BY <2>9 DEF MergeWrites
    <3>2. IdsOK'
      BY <1>0, <1>4, <2>6, <2>8, <3>1 DEF IdsOK, Known, Present
    <3> QED BY <1>0, <1>2, <1>6, <2>6, <2>7, <2>9, <3>1, <3>2
  <2>10. CASE stop # "mark"
    <3>1. NextIndex = Len(marks) + 1
      BY <1>0 DEF NextIndex
    <3>2. marks' = Append(marks, Len(tables) + 1)
      BY <1>0, <1>8, <2>10, <3>1 DEF MergeWrites, PutMark
    <3>3. /\ marks' \in Seq(Nat) /\ Len(marks') = Len(marks) + 1 /\ marks' # <<>>
          /\ \A i \in 1..Len(marks) : marks'[i] = marks[i]
          /\ marks'[Len(marks) + 1] = Len(tables) + 1
      BY <1>0, <3>2, SMTT(40)
    <3>4. Latest' = Len(tables) + 1
      BY <3>3 DEF Latest, Last
    <3>5. IdsOK'
      <4>1. \A i \in 1..Len(marks') : marks'[i] \in 1..Len(tables')
        <5> SUFFICES ASSUME NEW i \in 1..Len(marks') PROVE marks'[i] \in 1..Len(tables')
          OBVIOUS
        <5>1. CASE i = Len(marks) + 1
          BY <1>0, <2>6, <3>3, <5>1
        <5>2. CASE i \in 1..Len(marks)
          <6>1. marks'[i] \in 1..Len(tables)
            BY <1>4, <3>3, <5>2
          <6> QED BY <1>0, <2>6, <6>1
        <5> QED BY <1>0, <3>3, <5>1, <5>2
      <4> QED BY <2>8, <4>1 DEF IdsOK, Known, Present
    <3>6. TableAt(Latest)' = over
      BY <1>0, <2>5, <2>6, <3>4 DEF TableAt
    <3>7. \A b \in Branches : BranchClosure(Latest, b)' = ClosureIn(folds', over[b])
      BY <3>6 DEF BranchClosure, ClosureOf, ClosureIn
    <3>8. \A b \in Branches : BranchClosure(Latest, b) = ClosureOf(heads[b])
      BY <1>0 DEF BranchClosure
    <3>9. Took(w)
      BY <2>3, <2>6, <3>1, <3>3, <3>4, <3>6, <3>7, <3>8 DEF Took, over
    <3>10. ArchiveKept
      <4>1. Latest' \in 0..Len(tables')
        BY <1>0, <2>6, <3>4
      <4>2. \A b \in Branches : BranchClosure(Latest, b) \subseteq BranchClosure(Latest, b)'
        BY <2>3, <3>7, <3>8
      <4> QED BY <4>1, <4>2 DEF ArchiveKept
    <3> QED BY <1>2, <1>8, <2>6, <2>7, <2>10, <3>3, <3>5, <3>9, <3>10
  <2> QED BY <2>9, <2>10
<1> QED BY <1>7, <1>8

-----------------------------------------------------------------------------
(* What founding writes *)

(* Before genesis the list is empty and the Sequencer has no head. *)
LEMMA BeforeGenesis ==
    ASSUME DevInv, MayFound
    PROVE  /\ marks = <<>> /\ Latest = 0 /\ heads = NoHeads /\ NextIndex = 1
           /\ \A b \in Branches : BranchClosure(Latest, b) = {}
<1>1. Latest = 0 /\ heads = TableAt(Latest) /\ cursor \in {0, Len(marks)} /\ TypeOK /\ IdsOK
  BY DEF DevInv, MayFound, AtTop
<1>2. marks = <<>>
  BY <1>1, TablesKnown
<1>3. NextIndex = 1
  BY <1>1, <1>2 DEF NextIndex
<1>4. TableAt(Latest) = NoHeads
  BY <1>1 DEF TableAt
<1> QED BY <1>1, <1>2, <1>3, <1>4 DEF BranchClosure, ClosureOf, NoHeads

(* The bookmark of Found(b): the archive is the operator, on b. *)
Founded(b) ==
    /\ Len(tables') = Len(tables) + 2 /\ Latest' = Len(tables) + 2
    /\ Len(marks') = NextIndex /\ TableAt(Latest)' = [heads EXCEPT ![b] = Operator]
    /\ \A c \in Branches : BranchClosure(Latest, c)' = IF c = b THEN {Operator} ELSE {}

LEMMA FoundEffect ==
    ASSUME DevInv, MayFound, NEW b \in Branches, NEW stop, FoundWrites(b, stop)
    PROVE  /\ Grown /\ FoldsOK' /\ IdsOK' /\ ArchiveKept /\ stored' \subseteq Claims
           /\ tables' \in Seq(Table) /\ marks' \in Seq(Nat)
           /\ IF stop \in {"foundStore", "foundTable", "foundMark"} THEN marks' = marks ELSE Founded(b)
<1> DEFINE k1 == [NoHeads EXCEPT ![b] = Operator]
           t0 == Minted(0, NoHeads, NoHeads)
           t1 == Minted(Len(tables) + 1, NoHeads, k1)
<1>0. /\ TypeOK /\ FoldsOK /\ IdsOK /\ tables \in Seq(Table) /\ marks \in Seq(Nat)
      /\ Len(tables) \in Nat /\ folds \in Seq(SUBSET Id) /\ stored \subseteq Claims
  BY DEF DevInv, TypeOK, Table
<1>1. /\ marks = <<>> /\ Latest = 0 /\ heads = NoHeads /\ NextIndex = 1
      /\ \A c \in Branches : BranchClosure(Latest, c) = {}
  BY BeforeGenesis
<1>2. folds' = folds /\ FoldsGrown
  BY <1>0 DEF FoundWrites, FoldsGrown
<1>3. FoldsOK' /\ \A i : Known(i)' <=> Known(i)
  BY <1>0, <1>2 DEF FoldsOK, Known, Present, ClosureOf
<1>4. stored' \subseteq Claims
  BY <1>0, Ids DEF FoundWrites
<1>5. /\ t0 = [prev |-> 0, heads |-> NoHeads] /\ t1 = [prev |-> Len(tables) + 1, heads |-> k1]
      /\ NoHeads \in HeadMap /\ k1 \in HeadMap
  <2>1. NoHeads \in HeadMap /\ k1 \in HeadMap
    BY Ids DEF NoHeads, HeadMap, Id
  <2>2. Overlay(NoHeads, NoHeads) = NoHeads
    BY DEF Overlay, NoHeads
  <2>3. Overlay(NoHeads, k1) = k1
    BY <2>1 DEF Overlay, NoHeads, HeadMap
  <2> QED BY <2>1, <2>2, <2>3 DEF Minted
<1>6. /\ t0 \in Table /\ t1 \in Table /\ t0.heads = NoHeads /\ t1.heads = k1
      /\ GenesisTables(b) = <<t0, t1>>
  <2>1. GenesisTables(b) = <<t0, t1>>
    BY DEF GenesisTables
  <2> HIDE DEF t0, t1, k1
  <2>2. t0 \in Table /\ t1 \in Table /\ t0.heads = NoHeads /\ t1.heads = k1
    BY <1>0, <1>5 DEF Table
  <2> QED BY <2>1, <2>2
<1>7. \A c \in Branches : Known(NoHeads[c]) /\ Known(k1[c])
  BY Ids DEF NoHeads, Known, Present
<1> HIDE DEF t0, t1
<1>8. /\ tables' \in Seq(Table) /\ Len(tables') \in Nat /\ Len(tables) <= Len(tables')
      /\ \A t \in 1..Len(tables) : tables'[t] = tables[t]
      /\ \A t \in 1..Len(tables') : t > Len(tables) => tables'[t] \in {t0, t1}
      /\ stop \notin {"foundStore", "foundTable"} =>
            Len(tables') = Len(tables) + 2 /\ tables'[Len(tables) + 2] = t1
  <2>1. CASE stop = "foundStore"
    BY <1>0, <2>1 DEF FoundWrites
  <2>2. CASE stop = "foundTable"
    <3>1. tables' = Append(tables, t0)
      BY <1>6, <2>2 DEF FoundWrites
    <3> QED BY <1>0, <1>6, <2>2, <3>1
  <2>3. CASE stop \notin {"foundStore", "foundTable"}
    <3>1. tables' = tables \o <<t0, t1>>
      BY <1>6, <2>3 DEF FoundWrites
    <3>2. <<t0, t1>> \in Seq(Table) /\ Len(<<t0, t1>>) = 2
      BY <1>6
    <3> QED BY <1>0, <1>6, <2>3, <3>1, <3>2
  <2> QED BY <2>1, <2>2, <2>3
<1>9. Grown
  BY <1>2, <1>8 DEF Grown
<1>10. \A t \in 1..Len(tables'), c \in Branches : Known(tables'[t].heads[c])
  <2> SUFFICES ASSUME NEW t \in 1..Len(tables'), NEW c \in Branches
               PROVE  Known(tables'[t].heads[c])
    OBVIOUS
  <2>1. CASE t \in 1..Len(tables)
    BY <1>0, <1>8, <2>1 DEF IdsOK
  <2>2. CASE t > Len(tables)
    BY <1>6, <1>7, <1>8, <2>2
  <2> QED BY <1>0, <1>8, <2>1, <2>2
<1>11. \A t \in 1..Len(tables'), c \in Branches : Known(tables[t].heads[c])'
  BY <1>2, <1>10 DEF Known, Present
<1>12. CASE stop \in {"foundStore", "foundTable", "foundMark"}
  <2>1. marks' = marks
    BY <1>12 DEF FoundWrites
  <2>2. IdsOK'
    BY <1>1, <1>11, <2>1 DEF IdsOK
  <2>3. ArchiveKept
    BY <1>0, <1>9, <2>1, ListUntouched
  <2> QED BY <1>0, <1>3, <1>4, <1>8, <1>9, <1>12, <2>1, <2>2, <2>3
<1>13. CASE stop \notin {"foundStore", "foundTable", "foundMark"}
  <2>1. marks' = Append(marks, Len(tables) + 2)
    BY <1>0, <1>1, <1>13 DEF FoundWrites, PutMark
  <2>2. marks' = <<Len(tables) + 2>> /\ Len(marks') = 1 /\ marks' # <<>> /\ marks' \in Seq(Nat)
    BY <1>0, <1>1, <2>1
  <2>3. Latest' = Len(tables) + 2
    BY <2>2 DEF Latest, Last
  <2>4. IdsOK'
    <3>1. \A i \in 1..Len(marks') : marks'[i] \in 1..Len(tables')
      BY <1>0, <1>8, <1>13, <2>2
    <3> QED BY <1>11, <3>1 DEF IdsOK
  <2>5. TableAt(Latest)' = k1
    BY <1>0, <1>6, <1>8, <1>13, <2>3 DEF TableAt
  <2>6. \A c \in Branches : BranchClosure(Latest, c)' = IF c = b THEN {Operator} ELSE {}
    BY <2>5, Ids DEF BranchClosure, ClosureOf, NoHeads
  <2>7. Founded(b)
    BY <1>1, <1>8, <1>13, <2>2, <2>3, <2>5, <2>6 DEF Founded
  <2>8. ArchiveKept
    BY <1>0, <1>1, <1>8, <1>13, <2>3 DEF ArchiveKept
  <2> QED BY <1>3, <1>4, <1>8, <1>9, <1>13, <2>2, <2>4, <2>7, <2>8
<1> QED BY <1>12, <1>13

-----------------------------------------------------------------------------
(* The invariant holds at first, and every step keeps it *)

(* A writer that holds nothing. *)
LEMMA NothingHeld ==
    /\ NoContribution \in Contributions
    /\ NoContribution.heads = NoHeads /\ NoContribution.staged = [b \in Branches |-> {}]
    /\ NoContribution.base = 0 /\ NoHeads \in HeadMap
    /\ \A b \in Branches : NoHeads[b] = None
<1>1. NoHeads \in HeadMap /\ \A b \in Branches : NoHeads[b] = None
  BY DEF NoHeads, HeadMap
<1> QED BY <1>1 DEF NoContribution, ReadScopes, Contributions

LEMMA InitInv == Init => DevInv
<1> SUFFICES ASSUME Init PROVE DevInv
  OBVIOUS
<1>1. TypeOK
  BY NothingHeld DEF Init, TypeOK, Contributions
<1>2. FoldsOK /\ IdsOK /\ AtTop /\ NoLostContribution
  BY DEF Init, FoldsOK, IdsOK, AtTop, NoLostContribution
<1>3. ASSUME NEW w \in Writers PROVE Whole(w)
  <2>1. contribution[w] = NoContribution /\ pc[w] = "idle" /\ receipt[w] = 0 /\ tables = <<>>
    BY DEF Init
  <2>2. Named(w) = {}
    BY <2>1, NothingHeld DEF Named
  <2> QED BY <2>1, <2>2, NothingHeld, FS_EmptySet DEF Whole, Known
<1> QED BY <1>1, <1>2, <1>3 DEF DevInv

(* Nothing of 𝒰 and the list changes. *)
LEMMA UniverseUntouched ==
    ASSUME TypeOK, FoldsOK, IdsOK, UNCHANGED <<folds, tables, marks>>
    PROVE  /\ Grown /\ FoldsOK' /\ IdsOK' /\ ArchiveKept
           /\ Latest' = Latest /\ TableAt(Latest)' = TableAt(Latest)
           /\ \A b \in Branches : BranchClosure(Latest, b)' = BranchClosure(Latest, b)
<1>1. Grown
  BY DEF Grown, FoldsGrown, TypeOK
<1>2. FoldsOK' /\ IdsOK'
  BY DEF FoldsOK, IdsOK, Known, Present, ClosureOf
<1> QED BY <1>1, <1>2, ListUntouched

(* A step of one writer. *)
LEMMA OthersKept ==
    ASSUME DevInv, Grown, ArchiveKept, NEW w \in Writers, Whole(w)',
           \A v \in Writers \ {w} : contribution'[v] = contribution[v] /\ pc'[v] = pc[v]
                                    /\ receipt'[v] = receipt[v]
    PROVE  \A v \in Writers : Whole(v)'
<1> SUFFICES ASSUME NEW v \in Writers, v # w PROVE Whole(v)'
  OBVIOUS
<1> QED BY WholeKept DEF DevInv

LEMMA NewSequencerInv == DevInv /\ NewSequencer => DevInv'
<1> SUFFICES ASSUME DevInv, NewSequencer PROVE DevInv'
  OBVIOUS
<1>0. TypeOK /\ FoldsOK /\ IdsOK /\ AtTop /\ NoLostContribution /\ \A w \in Writers : Whole(w)
  BY DEF DevInv
<1>1. /\ Grown /\ FoldsOK' /\ IdsOK' /\ ArchiveKept
      /\ Latest' = Latest /\ TableAt(Latest)' = TableAt(Latest)
  BY <1>0, UniverseUntouched DEF NewSequencer, durable
<1>2. Latest \in Nat /\ TableAt(Latest) \in HeadMap
  BY <1>0, TablesKnown DEF TypeOK
<1>3. TypeOK'
  BY <1>0, <1>2 DEF TypeOK, NewSequencer, durable, writers, bounds
<1>4. AtTop'
  BY <1>0, <1>1 DEF AtTop, NewSequencer
<1>5. \A w \in Writers : Whole(w)'
  BY <1>0, <1>1, WholeKept DEF NewSequencer, writers
<1>6. NoLostContribution'
  BY <1>0, <1>1, AckedKept DEF NewSequencer
<1> QED BY <1>1, <1>3, <1>4, <1>5, <1>6 DEF DevInv

LEMMA CrashInv == DevInv /\ Crash => DevInv'
<1> SUFFICES ASSUME DevInv, Crash PROVE DevInv'
  OBVIOUS
<1>0. TypeOK /\ FoldsOK /\ IdsOK /\ NoLostContribution
  BY DEF DevInv
<1>1. Grown /\ FoldsOK' /\ IdsOK' /\ ArchiveKept
  BY <1>0, UniverseUntouched DEF Crash, durable
<1>2. TypeOK'
  BY <1>0, NothingHeld DEF TypeOK, Crash, durable, Contributions
<1>3. AtTop'
  BY DEF AtTop, Crash
<1>4. ASSUME NEW w \in Writers PROVE Whole(w)'
  <2>1. /\ contribution'[w] = NoContribution /\ pc'[w] = "idle" /\ receipt'[w] = 0
        /\ Len(tables') \in Nat
    BY <1>0 DEF Crash, durable, TypeOK
  <2>2. Named(w)' = {}
    BY <2>1, NothingHeld DEF Named
  <2> QED BY <2>1, <2>2, NothingHeld, FS_EmptySet DEF Whole, Known
<1>5. NoLostContribution'
  BY <1>0, <1>1, AckedKept DEF Crash
<1> QED BY <1>1, <1>2, <1>3, <1>4, <1>5 DEF DevInv

LEMMA FoundingInv ==
    ASSUME DevReliable, DevInv, Founding
    PROVE  DevInv'
<1>0. TypeOK /\ FoldsOK /\ IdsOK /\ AtTop /\ NoLostContribution /\ \A w \in Writers : Whole(w)
  BY DEF DevInv
<1>1. PICK b \in Branches :
         Found(b) \/ \E stop \in FoundFaults : FoundFails(b, stop) \/ FoundDies(b, stop)
  BY DEF Founding
<1>2. MayFound /\ UNCHANGED <<writers, acked>>
  BY <1>1 DEF Found, FoundFails, FoundDies, DiesLocked
<1>3. heads = NoHeads /\ NextIndex = 1 /\ head = 0 /\ Latest = 0
  BY <1>2, BeforeGenesis DEF MayFound
<1>4. ASSUME NEW stop, FoundWrites(b, stop),
             {faults', crashes', opened', merges'} \subseteq Nat,
             process' \in {"up", "dying"}, head' \in Nat, heads' \in HeadMap, cursor' \in Nat,
             process' = "up" => head' = Latest' /\ heads' = TableAt(Latest)' /\ cursor' \in {0, Len(marks')}
      PROVE  DevInv'
  <2>1. /\ Grown /\ FoldsOK' /\ IdsOK' /\ ArchiveKept /\ stored' \subseteq Claims
        /\ tables' \in Seq(Table) /\ marks' \in Seq(Nat)
    BY <1>2, <1>4, FoundEffect
  <2>2. TypeOK'
    BY <1>0, <1>2, <1>4, <2>1 DEF TypeOK, Grown, FoldsGrown, Table, writers
  <2>3. AtTop'
    BY <1>4 DEF AtTop
  <2>4. \A w \in Writers : Whole(w)'
    BY <1>0, <1>2, <2>1, WholeKept DEF writers
  <2>5. NoLostContribution'
    BY <1>0, <1>2, <2>1, AckedKept
  <2> QED BY <2>1, <2>2, <2>3, <2>4, <2>5 DEF DevInv
<1>5. [heads EXCEPT ![b] = Operator] \in HeadMap /\ Len(tables) \in Nat
  BY <1>0, Ids DEF TypeOK, HeadMap, Id
<1>6. CASE Found(b)
  <2>1. FoundWrites(b, "done") /\ Founded(b)
    BY <1>2, <1>6, FoundEffect DEF Found
  <2> QED BY <1>0, <1>2, <1>3, <1>4, <1>5, <1>6, <2>1 DEF Found, Founded, TypeOK, bounds, MayFound
<1>7. ASSUME NEW stop \in FoundFaults, FoundFails(b, stop) PROVE DevInv'
  <2>1. stop \in {"foundStore", "foundTag"} /\ FoundWrites(b, stop)
    BY <1>7 DEF DevReliable, FoundFaults, FoundFails, Fault
  <2>2. CASE stop = "foundStore"
    <3>1. /\ marks' = marks /\ head' = head /\ heads' = heads /\ cursor' = cursor
          /\ process' = "up" /\ process = "up"
      BY <1>7, <2>1, <2>2 DEF FoundFails, FoundWrites, MayFound
    <3>2. Latest' = Latest /\ TableAt(Latest)' = TableAt(Latest)
      BY <1>0, <1>2, <2>1, <3>1, FoundEffect, ListUntouched
    <3>3. process' = "up" => head' = Latest' /\ heads' = TableAt(Latest)' /\ cursor' \in {0, Len(marks')}
      BY <1>0, <3>1, <3>2 DEF AtTop
    <3>4. {faults', crashes', opened', merges'} \subseteq Nat
      BY <1>0, <1>7 DEF FoundFails, Fault, TypeOK
    <3> QED BY <1>0, <1>4, <2>1, <3>1, <3>3, <3>4 DEF TypeOK
  <2>3. CASE stop = "foundTag"
    <3>1. Founded(b)
      BY <1>2, <2>1, <2>3, FoundEffect
    <3>2. /\ head' = Len(tables) + 2 /\ heads' = [heads EXCEPT ![b] = Operator]
          /\ cursor' = NextIndex /\ process' = "up"
      BY <1>7, <2>3 DEF FoundFails, MayFound
    <3>4. {faults', crashes', opened', merges'} \subseteq Nat
      BY <1>0, <1>7 DEF FoundFails, Fault, TypeOK
    <3> QED BY <1>3, <1>4, <1>5, <2>1, <3>1, <3>2, <3>4 DEF Founded
  <2> QED BY <2>1, <2>2, <2>3
<1>8. ASSUME NEW stop \in FoundFaults, FoundDies(b, stop) PROVE DevInv'
  <2>1. /\ FoundWrites(b, stop) /\ process' = "dying" /\ UNCHANGED <<head, heads, cursor>>
        /\ UNCHANGED <<faults, crashes, opened, merges>>
    BY <1>8 DEF FoundDies, DiesLocked
  <2> QED BY <1>0, <1>4, <2>1 DEF TypeOK
<1> QED BY <1>1, <1>6, <1>7, <1>8

-----------------------------------------------------------------------------
(* Contributions *)

(* A step of one writer that leaves the Sequencer and the list alone. *)
LEMMA ContributorStep ==
    ASSUME DevInv, TypeOK', Grown, FoldsOK', UNCHANGED <<tables, marks, memory, acked>>,
           NEW w \in Writers, Whole(w)',
           \A v \in Writers \ {w} : contribution'[v] = contribution[v] /\ pc'[v] = pc[v]
                                    /\ receipt'[v] = receipt[v]
    PROVE  DevInv'
<1>0. TypeOK /\ FoldsOK /\ IdsOK /\ AtTop /\ NoLostContribution
  BY DEF DevInv
<1>1. ArchiveKept /\ Latest' = Latest /\ TableAt(Latest)' = TableAt(Latest)
  BY <1>0, ListUntouched
<1>2. IdsOK'
  <2>1. Len(folds) \in Nat /\ Len(folds') \in Nat /\ Len(folds) <= Len(folds')
    BY <1>0, SMTT(40) DEF Grown, FoldsGrown, TypeOK
  <2> QED BY <1>0, <2>1 DEF IdsOK, Known, Present
<1>3. AtTop'
  BY <1>0, <1>1 DEF AtTop, memory
<1>4. \A v \in Writers : Whole(v)'
  BY <1>1, OthersKept
<1>5. NoLostContribution'
  BY <1>0, <1>1, AckedKept
<1> QED BY <1>2, <1>3, <1>4, <1>5 DEF DevInv

LEMMA NewContributionInv ==
    ASSUME DevInv, NEW w \in Writers, NEW scope \in Scopes, NewContribution(w, scope)
    PROVE  DevInv'
<1> DEFINE new == [NoContribution EXCEPT !.base = head, !.scope = scope]
<1>0. TypeOK /\ FoldsOK /\ IdsOK /\ Whole(w) /\ Len(tables) \in Nat
  BY DEF DevInv, TypeOK
<1>1. Grown /\ FoldsOK'
  BY <1>0, UniverseUntouched DEF NewContribution, durable
<1>2. /\ new \in Contributions
      /\ new.heads = NoHeads /\ new.staged = [b \in Branches |-> {}]
  BY <1>0, NothingHeld, DevConstantsAssumption DEF TypeOK, NoContribution, Contributions
<1>3. contribution' = [contribution EXCEPT ![w] = new]
  BY DEF NewContribution
<1> HIDE DEF new
<1>4. /\ contribution'[w] = new /\ pc'[w] = "open" /\ receipt'[w] = receipt[w]
      /\ \A v \in Writers \ {w} : contribution'[v] = contribution[v] /\ pc'[v] = pc[v]
                                  /\ receipt'[v] = receipt[v]
  BY <1>0, <1>3 DEF NewContribution, TypeOK
<1>5. receipt[w] = 0
  BY <1>0 DEF Whole, NewContribution
<1>6. TypeOK'
  <2>1. contribution' \in [Writers -> Contributions]
    BY <1>0, <1>2, <1>3 DEF TypeOK, Contributions
  <2>2. pc' \in [Writers -> {"idle", "open", "completing", "sealed", "mergable", "returning"}]
    BY <1>0 DEF TypeOK, NewContribution
  <2>3. {faults', crashes', opened', merges'} \subseteq Nat
    BY <1>0 DEF TypeOK, NewContribution
  <2> QED BY <1>0, <2>1, <2>2, <2>3 DEF TypeOK, Contributions, NewContribution, durable, memory
<1>7. Whole(w)'
  <2>1. Named(w)' = {}
    BY <1>2, <1>4 DEF Named
  <2>2. Len(tables') \in Nat
    BY <1>6 DEF TypeOK
  <2> QED BY <1>2, <1>4, <1>5, <2>1, <2>2, NothingHeld, FS_EmptySet DEF Whole, Known
<1> QED BY <1>1, <1>4, <1>6, <1>7, ContributorStep DEF NewContribution, durable

LEMMA AddClaimsInv ==
    ASSUME DevInv, NEW w \in Writers, NEW b \in Branches, NEW S \in Batches, AddClaims(w, b, S)
    PROVE  DevInv'
<1> DEFINE old == contribution[w]
           new == [old EXCEPT !.staged = [old.staged EXCEPT ![b] = @ \cup S]]
<1>0. TypeOK /\ FoldsOK /\ IdsOK /\ Whole(w) /\ old \in Contributions /\ S \subseteq Claims
  BY DevConstantsAssumption, TypesOf DEF DevInv
<1>1. Grown /\ FoldsOK'
  BY <1>0, UniverseUntouched DEF AddClaims, durable
<1>2. /\ new \in Contributions /\ new.heads = old.heads
      /\ \A c \in Branches \ {b} : new.staged[c] = old.staged[c]
  BY <1>0 DEF Contributions
<1>3. contribution' = [contribution EXCEPT ![w] = new]
  BY DEF AddClaims
<1> HIDE DEF new
<1>4. /\ contribution'[w] = new /\ pc'[w] = "open" /\ receipt'[w] = receipt[w]
      /\ \A v \in Writers \ {w} : contribution'[v] = contribution[v] /\ pc'[v] = pc[v]
                                  /\ receipt'[v] = receipt[v]
  BY <1>0, <1>3 DEF AddClaims, TypeOK
<1>5. receipt[w] = 0 /\ old.heads = NoHeads
  BY <1>0 DEF Whole, AddClaims
<1>6. TypeOK'
  <2>1. contribution' \in [Writers -> Contributions]
    BY <1>0, <1>2, <1>3 DEF TypeOK, Contributions
  <2> QED BY <1>0, <2>1 DEF TypeOK, Contributions, AddClaims, durable, memory, bounds
<1>7. Whole(w)'
  <2>1. IsFiniteSet(Named(w)) /\ IsFiniteSet(Named(w) \cup {b})
    BY <1>0, FS_AddElement DEF Whole
  <2>2. Named(w)' \in SUBSET (Named(w) \cup {b})
    BY <1>2, <1>4 DEF Named
  <2>3. IsFiniteSet(Named(w)')
    BY <2>1, <2>2, FS_Subset
  <2>4. Len(tables') \in Nat
    BY <1>6 DEF TypeOK
  <2> QED BY <1>2, <1>4, <1>5, <2>3, <2>4, NothingHeld DEF Whole, Known
<1> QED BY <1>1, <1>4, <1>6, <1>7, ContributorStep DEF AddClaims, durable

LEMMA RefuseBranchInv ==
    ASSUME DevInv, NEW w \in Writers, NEW b \in Branches, RefuseBranch(w, b)
    PROVE  DevInv'
<1> DEFINE old == contribution[w]
           new == [old EXCEPT !.heads = NoHeads]
<1>0. TypeOK /\ FoldsOK /\ IdsOK /\ Whole(w) /\ old \in Contributions /\ old.staged[b] \subseteq Claims
  BY TypesOf DEF DevInv
<1>1. Grown /\ FoldsOK'
  BY <1>0, UniverseUntouched DEF RefuseBranch
<1>2. new \in Contributions /\ new.heads = NoHeads /\ new.staged = old.staged
  BY <1>0, NothingHeld DEF Contributions
<1>3. contribution' = [contribution EXCEPT ![w] = new]
  BY DEF RefuseBranch
<1> HIDE DEF new
<1>4. /\ contribution'[w] = new /\ pc'[w] = "open" /\ receipt'[w] = receipt[w]
      /\ \A v \in Writers \ {w} : contribution'[v] = contribution[v] /\ pc'[v] = pc[v]
                                  /\ receipt'[v] = receipt[v]
  BY <1>0, <1>3 DEF RefuseBranch, TypeOK
<1>5. receipt[w] = 0
  BY <1>0 DEF Whole, RefuseBranch
<1>6. TypeOK'
  <2>1. contribution' \in [Writers -> Contributions]
    BY <1>0, <1>2, <1>3 DEF TypeOK, Contributions
  <2>2. {faults', crashes', opened', merges'} \subseteq Nat
    BY <1>0 DEF TypeOK, RefuseBranch, Fault, bounds
  <2>3. pc' \in [Writers -> {"idle", "open", "completing", "sealed", "mergable", "returning"}]
    BY <1>0 DEF TypeOK, RefuseBranch
  <2>4. stored' \subseteq Claims
    BY <1>0 DEF TypeOK, RefuseBranch
  <2> QED BY <1>0, <2>1, <2>2, <2>3, <2>4 DEF TypeOK, Contributions, RefuseBranch, memory
<1>7. Whole(w)'
  <2>1. Named(w)' = Named(w) /\ IsFiniteSet(Named(w))
    BY <1>0, <1>2, <1>4 DEF Named, Whole
  <2>2. Len(tables') \in Nat
    BY <1>6 DEF TypeOK
  <2> QED BY <1>2, <1>4, <1>5, <2>1, <2>2, NothingHeld DEF Whole, Known
<1> QED BY <1>1, <1>4, <1>6, <1>7, ContributorStep DEF RefuseBranch

LEMMA PersistInv ==
    ASSUME DevInv, NEW w \in Writers, Persist(w)
    PROVE  DevInv'
<1>0. TypeOK /\ FoldsOK /\ IdsOK /\ Whole(w)
  BY DEF DevInv
<1>1. /\ Grown /\ FoldsOK'
      /\ \A b \in Branches : BranchClosure(Latest, b)' = BranchClosure(Latest, b)
  BY <1>0, UniverseUntouched DEF Persist, durable
<1>2. /\ contribution' = contribution /\ pc'[w] = "mergable" /\ pc[w] = "sealed" /\ receipt' = receipt
      /\ tables' = tables /\ folds' = folds
      /\ \A v \in Writers \ {w} : pc'[v] = pc[v]
  BY <1>0 DEF Persist, durable, TypeOK
<1>3. TypeOK'
  BY <1>0 DEF TypeOK, Persist, durable, memory, bounds
<1>4. Whole(w)'
  <2>1. Named(w)' = Named(w) /\ receipt[w] = 0
    BY <1>0, <1>2 DEF Named, Whole
  <2> QED BY <1>0, <1>2, <2>1 DEF Whole, Known, Present, ClosureOf
<1> QED BY <1>1, <1>2, <1>3, <1>4, ContributorStep DEF Persist, durable

LEMMA DropInv ==
    ASSUME DevInv, NEW w \in Writers, Drop(w)
    PROVE  DevInv'
<1>0. TypeOK /\ FoldsOK /\ IdsOK /\ Whole(w)
  BY DEF DevInv
<1>1. Grown /\ FoldsOK'
  BY <1>0, UniverseUntouched DEF Drop, durable
<1>2. /\ contribution'[w] = NoContribution /\ pc'[w] = "idle" /\ receipt'[w] = 0
      /\ \A v \in Writers \ {w} : contribution'[v] = contribution[v] /\ pc'[v] = pc[v]
                                  /\ receipt'[v] = receipt[v]
  BY <1>0 DEF Drop, TypeOK
<1>3. TypeOK'
  <2>1. contribution' \in [Writers -> Contributions]
    BY <1>0, NothingHeld DEF TypeOK, Contributions, Drop
  <2> QED BY <1>0, <2>1 DEF TypeOK, Contributions, Drop, durable, memory, bounds
<1>4. Whole(w)'
  <2>1. Named(w)' = {} /\ Len(tables') \in Nat
    BY <1>2, <1>3, NothingHeld DEF Named, TypeOK
  <2> QED BY <1>2, <2>1, NothingHeld, FS_EmptySet DEF Whole, Known
<1> QED BY <1>1, <1>2, <1>3, <1>4, ContributorStep DEF Drop, durable

(* The sealed head reaches what was staged and what that cites: the open   *)
(* frontier is one claim, or one head claim over it.                       *)
LEMMA CompleteBranchInv ==
    ASSUME DevInv, NEW w \in Writers, NEW b \in Branches, CompleteBranch(w, b)
    PROVE  DevInv' /\ Grown
<1> DEFINE old == contribution[w]
           S == old.staged[b]
           roots == Roots(S)
           fold == Len(folds) + 1
           h == IF \E r \in roots : roots = {r} THEN CHOOSE r \in roots : TRUE ELSE fold
           new == [old EXCEPT !.heads = [old.heads EXCEPT ![b] = h]]
<1>0. /\ TypeOK /\ FoldsOK /\ IdsOK /\ Whole(w) /\ old \in Contributions /\ S \subseteq Claims
      /\ Len(folds) \in Nat /\ folds \in Seq(SUBSET Id) /\ Len(tables) \in Nat
  BY TypesOf DEF DevInv, TypeOK
<1>1. /\ roots \subseteq Claims /\ Reach(roots) = Reach(S) /\ Reach(S) \subseteq Claims
      /\ \A d \in Reach(S) : ReachFrom[d] \subseteq Reach(S)
  <2>1. roots \subseteq Claims
    BY <1>0 DEF Roots
  <2> QED BY <1>0, <2>1, ReachOfRoots, ReachIsClosed
<1>2. /\ fold \in Nat /\ fold \notin Claims /\ fold # None /\ fold \in Id
  BY <1>0, Ids DEF Id
<1>3. /\ folds' = IF h = fold THEN Append(folds, {fold} \cup Reach(roots)) ELSE folds
      /\ contribution' = [contribution EXCEPT ![w] = new]
      /\ stored' = stored \cup S /\ b \in Named(w) /\ pc[w] \in {"open", "completing"}
      /\ pc' = [pc EXCEPT ![w] = IF \A n \in Named(w) \ {b} : old.heads[n] # None
                                 THEN "sealed" ELSE "completing"]
      /\ UNCHANGED <<tables, marks, memory, receipt, acked, bounds>>
  BY DEF CompleteBranch
<1>4. \/ /\ h \in Claims /\ folds' = folds /\ ReachFrom[h] = Reach(S)
      \/ /\ h = fold /\ folds' = Append(folds, {fold} \cup Reach(S))
  <2>1. CASE \E r \in roots : roots = {r}
    <3>1. h \in roots /\ roots = {h}
      BY <2>1
    <3>2. h \in Claims /\ h # fold
      BY <1>1, <1>2, <3>1
    <3>3. Reach(roots) = ReachFrom[h]
      BY <3>1 DEF Reach
    <3> QED BY <1>1, <1>3, <3>2, <3>3
  <2>2. CASE ~ \E r \in roots : roots = {r}
    <3>1. h = fold
      BY <2>2
    <3> QED BY <1>1, <1>3, <3>1
  <2> QED BY <2>1, <2>2
<1>5. h \in Claims \cup 1..Len(folds') /\ h # None /\ h \in Id /\ FoldsGrown
      /\ ClosureIn(folds', h) \cap Claims = Reach(S)
      /\ FoldsOK'
  <2>1. CASE h \in Claims /\ folds' = folds /\ ReachFrom[h] = Reach(S)
    <3> HIDE DEF h
    <3>1. FoldsGrown /\ FoldsOK'
      BY <1>0, <2>1 DEF FoldsGrown, FoldsOK, Present, ClosureOf
    <3> QED BY <1>1, <2>1, <3>1, Ids DEF ClosureIn, Id
  <2>2. CASE h = fold /\ folds' = Append(folds, {fold} \cup Reach(S))
    <3> DEFINE X == {fold} \cup Reach(S)
    <3>1. X \in SUBSET Id
      BY <1>1, <1>2 DEF Id
    <3> HIDE DEF X
    <3>2. /\ folds' \in Seq(SUBSET Id) /\ Len(folds') = Len(folds) + 1
          /\ \A i \in 1..Len(folds) : folds'[i] = folds[i]
          /\ folds'[Len(folds) + 1] = X
      BY <1>0, <2>2, <3>1 DEF X
    <3>3. FoldsGrown
      BY <1>0, <3>2 DEF FoldsGrown
    <3>4. \A j \in Reach(S) : Present(j) /\ ClosureOf(j) \subseteq Reach(S)
      BY <1>1, Ids DEF Present, ClosureOf
    <3>5. ASSUME NEW i \in 1..Len(folds'), i > Len(folds)
          PROVE  i \in folds'[i] /\ \A j \in folds'[i] \ {i} :
                                       Present(j) /\ ClosureOf(j) \subseteq folds'[i]
      <4>1. i = fold /\ folds'[i] = {i} \cup Reach(S)
        BY <1>0, <3>2, <3>5 DEF X
      <4> QED BY <3>4, <4>1
    <3>6. FoldsOK'
      BY <1>0, <3>3, <3>5, FoldsClosed
    <3>7. ClosureIn(folds', fold) = {fold} \cup Reach(S)
      BY <1>2, <3>2 DEF ClosureIn, X
    <3>8. ({fold} \cup Reach(S)) \cap Claims = Reach(S)
      BY <1>1, <1>2
    <3>9. fold \in 1..Len(folds')
      BY <1>0, <3>2
    <3> QED BY <1>2, <2>2, <3>3, <3>6, <3>7, <3>8, <3>9
  <2> QED BY <1>4, <2>1, <2>2
<1> HIDE DEF h
<1>6. /\ new \in Contributions /\ new.staged = old.staged /\ new.heads[b] = h
      /\ \A c \in Branches \ {b} : new.heads[c] = old.heads[c]
  BY <1>0, <1>5 DEF Contributions, HeadMap
<1> HIDE DEF new
<1>7. /\ contribution'[w] = new /\ pc'[w] \in {"sealed", "completing"} /\ receipt'[w] = receipt[w]
      /\ pc'[w] = "sealed" => \A n \in Named(w) \ {b} : old.heads[n] # None
      /\ \A v \in Writers \ {w} : contribution'[v] = contribution[v] /\ pc'[v] = pc[v]
                                  /\ receipt'[v] = receipt[v]
  BY <1>0, <1>3 DEF TypeOK
<1>8. receipt[w] = 0
  BY <1>0, <1>3 DEF Whole
<1>9. TypeOK'
  <2>1. contribution' \in [Writers -> Contributions]
    BY <1>0, <1>3, <1>6 DEF TypeOK, Contributions
  <2>2. pc' \in [Writers -> {"idle", "open", "completing", "sealed", "mergable", "returning"}]
    BY <1>0, <1>3 DEF TypeOK
  <2>3. stored' \subseteq Claims
    BY <1>0, <1>3 DEF TypeOK
  <2> QED BY <1>0, <1>3, <1>5, <2>1, <2>2, <2>3 DEF TypeOK, Contributions, FoldsGrown, memory, bounds
<1>10. Grown
  BY <1>0, <1>3, <1>5 DEF Grown
<1>11. Whole(w)'
  <2>1. Named(w)' = Named(w) /\ IsFiniteSet(Named(w)) /\ Named(w) # {}
    BY <1>0, <1>3, <1>6, <1>7 DEF Named, Whole
  <2>2. ASSUME NEW c \in Branches
        PROVE  /\ Known(contribution[w].heads[c])'
               /\ contribution'[w].heads[c] # None =>
                     ClosureOf(contribution[w].heads[c])' \cap Claims = Reach(contribution'[w].staged[c])
    <3>0. ClosureOf(contribution[w].heads[c])' = ClosureIn(folds', new.heads[c])
      BY <1>7 DEF ClosureOf, ClosureIn
    <3>1. CASE c = b
      BY <1>5, <1>6, <1>7, <3>0, <3>1 DEF Known, Present
    <3>2. CASE c # b
      <4>1. new.heads[c] = old.heads[c] /\ Known(old.heads[c])
        BY <1>0, <1>6, <3>2 DEF Whole
      <4>2. ClosureIn(folds', old.heads[c]) = ClosureOf(old.heads[c])
        BY <1>0, <1>5, <4>1, ClosuresKept
      <4>3. old.heads[c] # None => ClosureOf(old.heads[c]) \cap Claims = Reach(old.staged[c])
        BY <1>0 DEF Whole
      <4>4. Known(contribution[w].heads[c])'
        BY <1>0, <1>5, <1>7, <4>1 DEF Known, Present, FoldsGrown
      <4> QED BY <1>6, <1>7, <3>0, <4>1, <4>2, <4>3, <4>4
    <3> QED BY <3>1, <3>2
  <2>3. pc'[w] = "sealed" => \A n \in Named(w) : contribution'[w].heads[n] # None
    BY <1>5, <1>6, <1>7 DEF Named
  <2>4. receipt'[w] = 0 /\ Len(tables') \in Nat
    BY <1>0, <1>3, <1>8
  <2> QED BY <1>7, <2>1, <2>2, <2>3, <2>4 DEF Whole
<1>12. DevInv'
  BY <1>3, <1>5, <1>7, <1>9, <1>10, <1>11, ContributorStep
<1> QED BY <1>10, <1>12

-----------------------------------------------------------------------------
(* Merges *)

LEMMA MergeNothingInv ==
    ASSUME DevInv, NEW w \in Writers, MergeNothing(w)
    PROVE  DevInv'
<1>0. TypeOK /\ FoldsOK /\ IdsOK /\ Whole(w) /\ AtTop /\ Merging(w) /\ Advanced(w) = {}
  BY DEF DevInv, Merging, MergeNothing, MayMerge
<1>1. /\ Grown /\ FoldsOK' /\ Latest' = Latest
      /\ \A b \in Branches : BranchClosure(Latest, b)' = BranchClosure(Latest, b)
  BY <1>0, UniverseUntouched DEF MergeNothing, durable
<1>2. /\ head = Latest /\ heads = TableAt(Latest) /\ Latest \in 0..Len(tables) /\ head # 0
  BY <1>0, TablesKnown DEF AtTop, Merging
<1>3. \A b \in Branches : contribution[w].staged[b] \subseteq BranchClosure(Latest, b)
  BY <1>0, <1>2, AlreadyHeld DEF BranchClosure
<1>4. /\ contribution' = contribution /\ pc'[w] = "returning" /\ receipt'[w] = head
      /\ tables' = tables /\ folds' = folds
      /\ \A v \in Writers \ {w} : pc'[v] = pc[v] /\ receipt'[v] = receipt[v]
  BY <1>0 DEF MergeNothing, durable, TypeOK
<1>5. TypeOK'
  BY <1>0 DEF TypeOK, MergeNothing, MayMerge, durable, memory
<1>6. Whole(w)'
  <2>1. Named(w)' = Named(w) /\ pc[w] = "mergable"
    BY <1>0, <1>4 DEF Named, Merging
  <2>2. \A b \in Branches : BranchClosure(receipt[w], b)' = BranchClosure(Latest, b)
    BY <1>1, <1>2, <1>4 DEF BranchClosure, TableAt, ClosureOf
  <2> QED BY <1>0, <1>1, <1>2, <1>3, <1>4, <2>1, <2>2 DEF Whole, Known, Present, ClosureOf
<1> QED BY <1>1, <1>4, <1>5, <1>6, ContributorStep DEF MergeNothing, durable

(* Who waits for a merge to end: what was staged does not change, and the  *)
(* receipt it holds, or gets, names an archive that has it.                *)
LEMMA MergerKept ==
    ASSUME TypeOK, IdsOK, Grown, ArchiveKept, NEW w \in Writers, Whole(w), pc[w] = "mergable",
           contribution' = contribution, receipt'[w] \in 0..Len(tables'),
           \/ pc'[w] = "mergable" /\ receipt'[w] = 0
           \/ pc'[w] = "returning" /\ receipt'[w] = Latest'
                /\ \A b \in Branches : contribution[w].staged[b] \subseteq BranchClosure(Latest, b)'
    PROVE  Whole(w)'
<1>1. Named(w)' = Named(w)
  BY DEF Named
<1>2. ASSUME NEW b \in Branches
      PROVE  /\ Known(contribution[w].heads[b])'
             /\ ClosureOf(contribution[w].heads[b])' = ClosureOf(contribution[w].heads[b])
  <2>1. Len(folds) \in Nat /\ Len(folds') \in Nat /\ Len(folds) <= Len(folds')
    BY DEF TypeOK, Grown, FoldsGrown
  <2>2. Known(contribution[w].heads[b])
    BY DEF Whole
  <2>3. ClosureIn(folds', contribution[w].heads[b]) = ClosureOf(contribution[w].heads[b])
    BY <2>2, ClosuresKept DEF Grown
  <2>4. ClosureOf(contribution[w].heads[b])' = ClosureIn(folds', contribution[w].heads[b])
    BY DEF ClosureOf, ClosureIn
  <2>5. Known(contribution[w].heads[b])'
    BY <2>1, <2>2 DEF Known, Present
  <2> QED BY <2>3, <2>4, <2>5
<1>3. receipt'[w] = Latest' => \A b \in Branches : BranchClosure(receipt[w], b)' = BranchClosure(Latest, b)'
  BY DEF BranchClosure, TableAt
<1> QED BY <1>1, <1>2, <1>3 DEF Whole

(* A merge, whatever became of it, given where it left the Sequencer. *)
LEMMA MergeStep ==
    ASSUME NEW w, Merging(w), NEW stop, MergeWrites(w, stop), contribution' = contribution, acked' = acked,
           {faults', crashes', opened', merges'} \subseteq Nat,
           process' \in {"up", "dying"}, head' \in Nat, heads' \in HeadMap, cursor' \in Nat,
           process' = "up" => head' = Latest' /\ heads' = TableAt(Latest)' /\ cursor' \in {0, Len(marks')},
           \A v \in Writers \ {w} : pc'[v] = pc[v] /\ receipt'[v] = receipt[v],
           pc' \in [Writers -> {"idle", "open", "completing", "sealed", "mergable", "returning"}],
           receipt' \in [Writers -> Nat], Whole(w)'
    PROVE  DevInv'
<1>0. TypeOK /\ FoldsOK /\ IdsOK /\ w \in Writers /\ NoLostContribution /\ DevInv
  BY DEF Merging, DevInv
<1>1. /\ Grown /\ FoldsOK' /\ IdsOK' /\ ArchiveKept
      /\ tables' \in Seq(Table) /\ marks' \in Seq(Nat)
  BY MergeEffect
<1>2. TypeOK'
  BY <1>0, <1>1 DEF TypeOK, Grown, FoldsGrown, Table, MergeWrites
<1>3. AtTop'
  BY DEF AtTop
<1>4. \A v \in Writers : Whole(v)'
  BY <1>0, <1>1, OthersKept
<1>5. NoLostContribution'
  BY <1>0, <1>1, AckedKept
<1> QED BY <1>1, <1>2, <1>3, <1>4, <1>5 DEF DevInv

LEMMA MergeInv ==
    ASSUME DevInv, NEW w \in Writers, Merge(w)
    PROVE  DevInv'
<1>0. /\ TypeOK /\ IdsOK /\ Whole(w) /\ Merging(w) /\ MergeWrites(w, "done") /\ Len(tables) \in Nat
      /\ contribution' = contribution /\ acked' = acked
  BY DEF DevInv, Merging, Merge, MayMerge, TypeOK
<1>1. Grown /\ ArchiveKept /\ IdsOK' /\ Took(w) /\ marks' \in Seq(Nat)
  BY <1>0, MergeEffect
<1>2. Overlay(heads, NewHeads(w)) \in HeadMap
  <2>1. PICK n \in 0..Len(NewFolds(w)) :
           n = Len(NewFolds(w)) /\ folds' = folds \o SubSeq(NewFolds(w), 1, n)
    BY <1>0 DEF MergeWrites
  <2> QED BY <1>0, <2>1, NewTable
<1>3. /\ head' = Latest' /\ heads' = TableAt(Latest)' /\ cursor' = Len(marks') /\ process' = "up"
      /\ head' = Len(tables) + 1 /\ head' \in 0..Len(tables')
  BY <1>0, <1>1 DEF Merge, Took, MayMerge
<1>4. /\ pc' = [pc EXCEPT ![w] = "returning"] /\ receipt' = [receipt EXCEPT ![w] = head']
      /\ {faults', crashes', opened', merges'} \subseteq Nat
  BY <1>0 DEF Merge, MayMerge, TypeOK
<1>5. /\ pc' \in [Writers -> {"idle", "open", "completing", "sealed", "mergable", "returning"}]
      /\ receipt' \in [Writers -> Nat]
      /\ pc'[w] = "returning" /\ receipt'[w] = Latest'
      /\ \A v \in Writers \ {w} : pc'[v] = pc[v] /\ receipt'[v] = receipt[v]
  BY <1>0, <1>3, <1>4 DEF TypeOK
<1>6. Whole(w)'
  <2>1. pc[w] = "mergable" /\ receipt'[w] \in 0..Len(tables')
    BY <1>0, <1>3, <1>5 DEF Merging
  <2>2. \A b \in Branches : contribution[w].staged[b] \subseteq BranchClosure(Latest, b)'
    BY <1>1 DEF Took
  <2> QED BY <1>0, <1>1, <1>5, <2>1, <2>2, MergerKept
<1>7. heads' \in HeadMap /\ cursor' \in Nat /\ head' \in Nat
  BY <1>0, <1>1, <1>2, <1>3 DEF Merge
<1> QED BY <1>0, <1>3, <1>4, <1>5, <1>6, <1>7, MergeStep

(* An error, with the storage DevReliable describes: the Sequencer stands  *)
(* where it stood, or everything was published and only the tags failed.   *)
LEMMA MergeFailsInv ==
    ASSUME DevReliable, DevInv, NEW w \in Writers, NEW stop \in MergeFaults, MergeFails(w, stop)
    PROVE  DevInv'
<1>0. /\ TypeOK /\ IdsOK /\ AtTop /\ Whole(w) /\ Merging(w) /\ MergeWrites(w, stop) /\ Len(tables) \in Nat
      /\ contribution' = contribution /\ acked' = acked /\ pc' = pc /\ process' = "up" /\ process = "up"
      /\ pc[w] = "mergable"
  BY SMTT(40) DEF DevInv, Merging, MergeFails, MayMerge, TypeOK
<1>1. stop \in {"fold", "tag"}
  BY DEF DevReliable, MergeFaults, MergeFails, Fault
<1>2. Grown /\ ArchiveKept /\ IdsOK' /\ marks' \in Seq(Nat)
  BY <1>0, MergeEffect
<1>3. /\ receipt' = [receipt EXCEPT ![w] = 0] /\ {faults', crashes', opened', merges'} \subseteq Nat
  BY <1>0 DEF MergeFails, MayMerge, Fault, TypeOK
<1>4. /\ receipt' \in [Writers -> Nat] /\ receipt'[w] = 0
      /\ \A v \in Writers \ {w} : pc'[v] = pc[v] /\ receipt'[v] = receipt[v]
      /\ pc' \in [Writers -> {"idle", "open", "completing", "sealed", "mergable", "returning"}]
  BY <1>0, <1>3 DEF TypeOK
<1>5. Whole(w)'
  <2>1. receipt'[w] \in 0..Len(tables')
    BY <1>2, <1>4 DEF Grown
  <2> QED BY <1>0, <1>2, <1>4, <2>1, MergerKept
<1>6. /\ head' = Latest' /\ heads' = TableAt(Latest)' /\ cursor' \in {0, Len(marks')}
      /\ head' \in Nat /\ heads' \in HeadMap /\ cursor' \in Nat
  <2>1. CASE stop = "fold"
    <3>1. marks' = marks /\ UNCHANGED <<head, heads, cursor>>
      BY <2>1 DEF MergeFails, MergeWrites
    <3>2. Latest' = Latest /\ TableAt(Latest)' = TableAt(Latest)
      BY <1>0, <1>2, <3>1, ListUntouched
    <3> QED BY <1>0, <3>1, <3>2 DEF AtTop, TypeOK
  <2>2. CASE stop = "tag"
    <3>1. /\ head' = Len(tables) + 1 /\ heads' = Overlay(heads, NewHeads(w)) /\ cursor' = NextIndex
      BY <2>2 DEF MergeFails
    <3>2. Took(w)
      BY <1>0, <2>2, MergeEffect
    <3>3. Overlay(heads, NewHeads(w)) \in HeadMap
      <4>1. PICK n \in 0..Len(NewFolds(w)) :
               n = Len(NewFolds(w)) /\ folds' = folds \o SubSeq(NewFolds(w), 1, n)
        BY <1>0, <2>2 DEF MergeWrites
      <4> QED BY <1>0, <4>1, NewTable
    <3> QED BY <1>0, <1>2, <3>1, <3>2, <3>3 DEF Took
  <2> QED BY <1>1, <2>1, <2>2
<1> QED BY <1>0, <1>3, <1>4, <1>5, <1>6, MergeStep

(* The process dies in a merge: the list has its bookmark, or it has not. *)
LEMMA MergeDiesInv ==
    ASSUME DevInv, NEW w \in Writers, NEW stop \in MergeFaults, MergeDies(w, stop)
    PROVE  DevInv'
<1>0. /\ TypeOK /\ IdsOK /\ Whole(w) /\ Merging(w) /\ MergeWrites(w, stop)
      /\ contribution' = contribution /\ acked' = acked /\ pc' = pc /\ receipt' = receipt
      /\ process' = "dying" /\ UNCHANGED <<head, heads, cursor>>
      /\ {faults', crashes', opened', merges'} \subseteq Nat
  BY DEF DevInv, Merging, MergeDies, DiesLocked, MayMerge, TypeOK, writers
<1>1. Grown /\ ArchiveKept
  BY <1>0, MergeEffect
<1>2. Whole(w)'
  BY <1>0, <1>1, WholeKept
<1> QED BY <1>0, <1>2, MergeStep DEF TypeOK

LEMMA ReturnInv ==
    ASSUME DevInv, NEW w \in Writers, Return(w)
    PROVE  DevInv'
<1>0. /\ TypeOK /\ FoldsOK /\ IdsOK /\ Whole(w) /\ AtTop /\ NoLostContribution
      /\ \A v \in Writers : Whole(v)
  BY DEF DevInv
<1>1. /\ Grown /\ FoldsOK' /\ IdsOK' /\ ArchiveKept
      /\ Latest' = Latest /\ TableAt(Latest)' = TableAt(Latest)
      /\ \A b \in Branches : BranchClosure(Latest, b)' = BranchClosure(Latest, b)
  BY <1>0, UniverseUntouched DEF Return, durable
<1>2. /\ contribution' = contribution /\ receipt' = receipt
      /\ tables' = tables /\ folds' = folds /\ pc[w] = "returning" /\ pc'[w] = "mergable"
      /\ \A v \in Writers \ {w} : pc'[v] = pc[v]
      /\ acked' = acked \cup {p \in Branches \X Claims : p[2] \in contribution[w].staged[p[1]]}
  BY <1>0 DEF Return, durable, TypeOK
<1>3. TypeOK'
  BY <1>0, <1>2 DEF TypeOK, Return, durable, memory, bounds
<1>4. Whole(w)'
  <2>1. Named(w)' = Named(w)
    BY <1>2 DEF Named
  <2> QED BY <1>0, <1>2, <2>1 DEF Whole, Known, Present, ClosureOf, BranchClosure, TableAt
<1>5. \A v \in Writers : Whole(v)'
  BY <1>1, <1>2, <1>4, OthersKept
<1>6. NoLostContribution'
  <2>1. \A p \in acked' : p \in Branches \X Claims
    BY <1>3 DEF TypeOK
  <2>2. \A b \in Branches : contribution[w].staged[b] \subseteq BranchClosure(Latest, b)
    BY <1>0, <1>2 DEF Whole
  <2>3. \A p \in acked' : p[2] \in BranchClosure(Latest, p[1])
    BY <1>0, <1>2, <2>1, <2>2 DEF NoLostContribution
  <2>4. \A p \in acked' : p[2] \in BranchClosure(Latest, p[1])'
    BY <1>1, <2>1, <2>3
  <2> QED BY <2>4 DEF NoLostContribution
<1>7. AtTop'
  BY <1>0, <1>1 DEF AtTop, Return, durable, memory
<1> QED BY <1>1, <1>3, <1>5, <1>6, <1>7 DEF DevInv

LEMMA StutterInv == DevInv /\ UNCHANGED vars => DevInv'
<1> SUFFICES ASSUME DevInv, UNCHANGED vars PROVE DevInv'
  OBVIOUS
<1>0. /\ TypeOK /\ FoldsOK /\ IdsOK /\ AtTop /\ NoLostContribution
      /\ \A w \in Writers : Whole(w)
  BY DEF DevInv
<1>1. /\ Grown /\ FoldsOK' /\ IdsOK' /\ ArchiveKept
      /\ Latest' = Latest /\ TableAt(Latest)' = TableAt(Latest)
  BY <1>0, UniverseUntouched DEF vars, durable
<1>2. TypeOK' /\ AtTop'
  BY <1>0, <1>1 DEF TypeOK, AtTop, vars, durable, memory, writers, bounds
<1>3. \A w \in Writers : Whole(w)'
  BY <1>0, <1>1, WholeKept DEF vars, writers
<1>4. NoLostContribution'
  BY <1>0, <1>1, AckedKept DEF vars
<1> QED BY <1>1, <1>2, <1>3, <1>4 DEF DevInv

LEMMA NextInv == DevReliable /\ DevInv /\ [Next]_vars => DevInv'
<1> SUFFICES ASSUME DevReliable, DevInv, [Next]_vars PROVE DevInv'
  OBVIOUS
<1>1. CASE UNCHANGED vars
  BY <1>1, StutterInv
<1>2. CASE NewSequencer \/ Crash
  BY <1>2, NewSequencerInv, CrashInv
<1>3. CASE Founding
  BY <1>3, FoundingInv
<1>4. ASSUME NEW w \in Writers, Contribute(w) PROVE DevInv'
  BY <1>4, NewContributionInv, AddClaimsInv, CompleteBranchInv, RefuseBranchInv, PersistInv, DropInv
     DEF Contribute
<1>5. ASSUME NEW w \in Writers, Commit(w) PROVE DevInv'
  BY <1>5, MergeNothingInv, MergeInv, ReturnInv, MergeFailsInv, MergeDiesInv DEF Commit
<1> QED BY <1>1, <1>2, <1>3, <1>4, <1>5 DEF Next

LEMMA DevInvHolds ==
    ASSUME DevReliable
    PROVE  Spec => []DevInv
<1>1. Init => DevInv
  BY InitInv
<1>2. DevInv /\ [Next]_vars => DevInv'
  BY NextInv
<1> QED BY <1>1, <1>2, PTL DEF Spec

(* A claim Merge returned a receipt for stays on its branch, in the archive *)
(* the newest bookmark records: later merges fold its head in, and a crash  *)
(* inside of one leaves the list with or without the new bookmark, never    *)
(* with less than it had.                                                   *)
THEOREM NothingIsLost ==
    ASSUME DevReliable
    PROVE  Spec => []NoLostContribution
<1>1. DevInv => NoLostContribution
  BY DEF DevInv
<1> QED BY <1>1, DevInvHolds, PTL

(* The head a receipt carries is an archive that holds the contribution,    *)
(* of a merge that moved the branches and of one that found nothing to do.  *)
THEOREM ReceiptsHold ==
    ASSUME DevReliable
    PROVE  Spec => []ReceiptHolds
<1>1. DevInv => ReceiptHolds
  BY DEF DevInv, Whole, ReceiptHolds
<1> QED BY <1>1, DevInvHolds, PTL

-----------------------------------------------------------------------------
(* The dev Sequencer implements ArchiveLog *)

(* The archive and the offers, as ArchiveLog sees them. *)
Content == [b \in Branches |-> BranchClosure(Latest, b) \cap Claims]
Offer == [w \in Writers |->
             IF pc[w] \in {"mergable", "returning"} THEN contribution[w].staged
             ELSE [b \in Branches |-> {}]]

LEMMA ContentKept ==
    ASSUME TypeOK, IdsOK, Grown, marks' = marks
    PROVE  Content' = Content
BY ListUntouched DEF Content

(* The bookmark write of Found is the abstract genesis. *)
LEMMA FoundingFounds ==
    ASSUME DevInv, Founding
    PROVE  [Log!Next]_(Log!vars)
<1>1. PICK b \in Branches :
         Found(b) \/ \E stop \in FoundFaults : FoundFails(b, stop) \/ FoundDies(b, stop)
  BY DEF Founding
<1>2. MayFound /\ UNCHANGED <<writers, acked>> /\ \E stop : FoundWrites(b, stop)
  BY <1>1 DEF Found, FoundFails, FoundDies, DiesLocked
<1>3. PICK stop : FoundWrites(b, stop)
  BY <1>2
<1>4. Grown /\ IF stop \in {"foundStore", "foundTable", "foundMark"} THEN marks' = marks ELSE Founded(b)
  BY <1>2, <1>3, FoundEffect
<1>5. Offer' = Offer
  BY <1>2 DEF Offer, writers
<1>6. CASE marks' = marks
  <2>1. Content' = Content
    BY <1>4, <1>6, ContentKept DEF DevInv
  <2> QED BY <1>2, <1>5, <2>1 DEF Log!vars, Content, Offer
<1>7. CASE Founded(b)
  <2>1. Content = [c \in Branches |-> {}]
    BY <1>2, BeforeGenesis DEF Content
  <2>2. Content' = [c \in Branches |-> IF c = b THEN {Operator} ELSE {}]
    BY <1>7, Ids DEF Founded, Content
  <2>3. Content' = [Content EXCEPT ![b] = {Operator}] /\ \A c \in Branches : Content[c] = {}
    BY <2>1, <2>2
  <2>4. Log!Found(b)
    BY <1>2, <1>5, <2>3 DEF Log!Found, Content, Offer
  <2> QED BY <2>4 DEF Log!Next
<1> QED BY <1>4, <1>6, <1>7

(* The bookmark write of a merge takes the whole contribution in. *)
LEMMA MergeAdvances ==
    ASSUME NEW w, Merging(w), NEW stop, MergeWrites(w, stop), acked' = acked, contribution' = contribution,
           \A v \in Writers : pc'[v] \in {"mergable", "returning"} <=> pc[v] \in {"mergable", "returning"}
    PROVE  [Log!Next]_(Log!vars)
<1>0. TypeOK /\ IdsOK /\ w \in Writers /\ Whole(w) /\ pc[w] = "mergable"
  BY DEF Merging, DevInv
<1>1. Offer' = Offer
  BY DEF Offer
<1>2. Grown /\ IF stop \in {"fold", "table", "mark"} THEN marks' = marks ELSE Took(w)
  BY MergeEffect
<1>3. CASE marks' = marks
  <2>1. Content' = Content
    BY <1>0, <1>2, <1>3, ContentKept
  <2> QED BY <1>1, <2>1 DEF Log!vars, Content, Offer
<1>4. CASE Took(w)
  <2>1. Offer[w] = contribution[w].staged
    BY <1>0 DEF Offer
  <2>2. Offer[w] # [b \in Branches |-> {}]
    BY <1>0, <2>1 DEF Whole, Named
  <2>3. Content' = [b \in Branches |-> Content[b] \cup UNION {Reach(Offer[v][b]) : v \in {w}}]
    <3>1. \A b \in Branches : Content'[b] = Content[b] \cup Reach(contribution[w].staged[b])
      BY <1>4 DEF Took, Content
    <3>2. \A b \in Branches : UNION {Reach(Offer[v][b]) : v \in {w}} = Reach(contribution[w].staged[b])
      BY <2>1
    <3> QED BY <3>1, <3>2 DEF Content
  <2>4. Log!Advance({w})
    BY <1>1, <2>2, <2>3 DEF Log!Advance, Log!NoOffer, Content, Offer
  <2> QED BY <1>0, <2>4 DEF Log!Next
<1> QED BY <1>2, <1>3, <1>4

(* A receipt is given for what is in. *)
LEMMA ReturnAcknowledges ==
    ASSUME DevInv, NEW w \in Writers, Return(w)
    PROVE  [Log!Next]_(Log!vars)
<1>0. TypeOK /\ IdsOK /\ FoldsOK /\ Whole(w) /\ pc[w] = "returning" /\ UNCHANGED <<durable, contribution>>
  BY DEF DevInv, Return
<1>1. Content' = Content
  BY <1>0, UniverseUntouched, ContentKept DEF durable
<1>2. Offer' = Offer /\ Offer[w] = contribution[w].staged
  BY <1>0 DEF Return, TypeOK, Offer
<1>3. \A b \in Branches : Offer[w][b] \subseteq Content[b]
  BY <1>0, <1>2, TypesOf DEF Whole, Content
<1>4. acked' = acked \cup {p \in Branches \X Claims : \E v \in {w} : p[2] \in Offer[v][p[1]]}
  BY <1>2 DEF Return
<1>5. Log!Acknowledge({w})
  BY <1>1, <1>2, <1>3, <1>4 DEF Log!Acknowledge, Content, Offer
<1> QED BY <1>5 DEF Log!Next

(* Preparing a contribution offers nothing until Persist is through. *)
LEMMA ContributeOffers ==
    ASSUME DevInv, NEW w \in Writers, Contribute(w)
    PROVE  [Log!Next]_(Log!vars)
<1>0. TypeOK /\ IdsOK /\ FoldsOK /\ Whole(w) /\ contribution[w].staged \in [Branches -> SUBSET Claims]
  BY TypesOf DEF DevInv
<1>1. acked' = acked /\ marks' = marks
  BY DEF Contribute, NewContribution, AddClaims, CompleteBranch, RefuseBranch, Persist, Drop, durable
<1>2. Content' = Content
  <2>1. CASE \E b \in Branches : CompleteBranch(w, b)
    <3>1. PICK b \in Branches : CompleteBranch(w, b)
      BY <2>1
    <3>2. Grown
      BY <3>1, CompleteBranchInv
    <3> QED BY <1>0, <1>1, <3>2, ContentKept
  <2>2. CASE ~ \E b \in Branches : CompleteBranch(w, b)
    <3>1. UNCHANGED <<folds, tables, marks>>
      BY <2>2 DEF Contribute, NewContribution, AddClaims, RefuseBranch, Persist, Drop, durable
    <3> QED BY <1>0, <3>1, UniverseUntouched, ContentKept
  <2> QED BY <2>1, <2>2
<1>3. \A v \in Writers \ {w} : pc'[v] = pc[v] /\ contribution'[v] = contribution[v]
  BY <1>0 DEF Contribute, NewContribution, AddClaims, CompleteBranch, RefuseBranch, Persist, Drop, TypeOK
<1>4. CASE Persist(w)
  <2>1. Offer[w] = [b \in Branches |-> {}] /\ Offer'[w] = contribution[w].staged
    BY <1>0, <1>4 DEF Persist, Offer, TypeOK
  <2>2. contribution[w].staged # [b \in Branches |-> {}]
    BY <1>0, <1>4 DEF Persist, Whole, Named
  <2>3. Offer' = [Offer EXCEPT ![w] = Offer'[w]]
    BY <1>3 DEF Offer
  <2>4. Log!Submit(w)
    BY <1>0, <1>1, <1>2, <2>1, <2>2, <2>3 DEF Log!Submit, Log!NoOffer, Log!Offers, Content, Offer
  <2> QED BY <2>4 DEF Log!Next
<1>5. CASE Drop(w)
  <2>1. Offer' = [v \in Writers |-> IF v \in {w} THEN [b \in Branches |-> {}] ELSE Offer[v]]
    BY <1>0, <1>3, <1>5 DEF Offer, Drop, TypeOK
  <2>2. Log!Leave({w})
    BY <1>1, <1>2, <2>1 DEF Log!Leave, Log!NoOffer, Content, Offer
  <2> QED BY <2>2 DEF Log!Next
<1>6. CASE ~Persist(w) /\ ~Drop(w)
  <2>1. /\ pc[w] \notin {"mergable", "returning"} /\ pc'[w] \notin {"mergable", "returning"}
    BY <1>0, <1>6 DEF Contribute, NewContribution, AddClaims, CompleteBranch, RefuseBranch, TypeOK
  <2>2. Offer' = Offer
    BY <1>3, <2>1 DEF Offer
  <2> QED BY <1>1, <1>2, <2>2 DEF Log!vars, Content, Offer
<1> QED BY <1>4, <1>5, <1>6

(* The dev Sequencer is an ArchiveLog: whole contributions enter the        *)
(* archive at the bookmark write (Merge, Found), on every branch at once,   *)
(* nothing else gets in or out, and a receipt says they are in.             *)
THEOREM DevImplementsArchiveLog ==
    ASSUME DevReliable
    PROVE  Spec => RefinesArchiveLog
<1>1. Init => Log!Init
  <2> SUFFICES ASSUME Init PROVE Log!Init
    OBVIOUS
  <2>1. Content = [b \in Branches |-> {}]
    BY DEF Init, Content, BranchClosure, Latest, TableAt, NoHeads, ClosureOf
  <2>2. Offer = [w \in Writers |-> [b \in Branches |-> {}]]
    BY DEF Init, Offer
  <2> QED BY <2>1, <2>2 DEF Init, Log!Init, Log!NoOffer, Content, Offer
<1>2. DevInv /\ [Next]_vars => [Log!Next]_(Log!vars)
  <2> SUFFICES ASSUME DevInv, [Next]_vars PROVE [Log!Next]_(Log!vars)
    OBVIOUS
  <2>0. TypeOK /\ IdsOK /\ FoldsOK
    BY DEF DevInv
  <2>1. CASE NewSequencer \/ UNCHANGED vars
    <3>1. UNCHANGED <<folds, tables, marks, pc, contribution, acked>>
      BY <2>1 DEF NewSequencer, vars, durable, writers
    <3>2. Content' = Content /\ Offer' = Offer
      BY <2>0, <3>1, UniverseUntouched, ContentKept DEF Offer
    <3> QED BY <3>1, <3>2 DEF Log!vars, Content, Offer
  <2>2. CASE Crash
    <3>1. Content' = Content /\ acked' = acked
      BY <2>0, <2>2, UniverseUntouched, ContentKept DEF Crash, durable
    <3>2. Offer' = [w \in Writers |-> IF w \in Writers THEN [b \in Branches |-> {}] ELSE Offer[w]]
      BY <2>2 DEF Crash, Offer
    <3>3. Log!Leave(Writers)
      BY <3>1, <3>2 DEF Log!Leave, Log!NoOffer, Content, Offer
    <3> QED BY <3>3 DEF Log!Next
  <2>3. CASE Founding
    BY <2>3, FoundingFounds
  <2>4. ASSUME NEW w \in Writers, Contribute(w) PROVE [Log!Next]_(Log!vars)
    BY <2>4, ContributeOffers
  <2>5. ASSUME NEW w \in Writers, Commit(w) PROVE [Log!Next]_(Log!vars)
    <3>1. CASE MergeNothing(w)
      <4>1. Content' = Content
        BY <2>0, <3>1, UniverseUntouched, ContentKept DEF MergeNothing, durable
      <4>2. Offer' = Offer
        BY <2>0, <3>1 DEF MergeNothing, MayMerge, Offer, TypeOK
      <4> QED BY <3>1, <4>1, <4>2 DEF MergeNothing, Log!vars, Content, Offer
    <3>2. CASE Return(w)
      BY <3>2, ReturnAcknowledges
    <3>3. CASE Merge(w) \/ \E stop \in MergeFaults : MergeFails(w, stop) \/ MergeDies(w, stop)
      <4>1. /\ \E stop : MergeWrites(w, stop)
            /\ Merging(w) /\ acked' = acked /\ contribution' = contribution
        BY <3>3 DEF Merge, MergeFails, MergeDies, DiesLocked, writers, MayMerge, Merging
      <4>2. \A v \in Writers : pc'[v] \in {"mergable", "returning"} <=> pc[v] \in {"mergable", "returning"}
        BY <2>0, <3>3 DEF Merge, MergeFails, MergeDies, DiesLocked, writers, MayMerge, TypeOK
      <4> QED BY <4>1, <4>2, MergeAdvances
    <3> QED BY <2>5, <3>1, <3>2, <3>3 DEF Commit
  <2> QED BY <2>1, <2>2, <2>3, <2>4, <2>5 DEF Next
<1> QED BY <1>1, <1>2, DevInvHolds, PTL DEF Spec, RefinesArchiveLog, Log!Spec
=============================================================================
