---------------------- MODULE ConcurrentSequencerProofs ----------------------
(***************************************************************************)
(* Theorems about ConcurrentSequencer, for every set of writers, branches  *)
(* and claims and every bound.                                             *)
(***************************************************************************)
EXTENDS ConcurrentSequencer, TLAPS

-----------------------------------------------------------------------------
(* What walks over the claim graph reach, for every graph of claims. *)

LEMMA WalkIsClosed ==
    ASSUME NEW roots \in SUBSET Claims, NEW trusted
    PROVE  ClosedUnder(Walk(roots, trusted), roots, trusted)
<1>1. roots \subseteq Walk(roots, trusted)
  BY DEF Walk, ClosedUnder
<1>2. ASSUME NEW x \in Walk(roots, trusted) \ trusted PROVE Refs[x] \subseteq Walk(roots, trusted)
  <2> SUFFICES ASSUME NEW y \in Refs[x] PROVE y \in Walk(roots, trusted)
    OBVIOUS
  <2>1. x \in Claims /\ y \in Claims
    BY RefsAssumption DEF Walk
  <2>2. ASSUME NEW X \in SUBSET Claims, ClosedUnder(X, roots, trusted) PROVE y \in X
    <3>1. x \in X
      BY <2>2 DEF Walk
    <3>2. QED
      BY <3>1, <2>2 DEF ClosedUnder
  <2>3. QED
    BY <2>1, <2>2 DEF Walk
<1>3. QED
  BY <1>1, <1>2 DEF ClosedUnder

LEMMA WalkIsLeast ==
    ASSUME NEW roots, NEW trusted, NEW X \in SUBSET Claims, ClosedUnder(X, roots, trusted)
    PROVE  Walk(roots, trusted) \subseteq X
BY DEF Walk

(* closure(c) holds c and, with each claim, that claim's closure. *)
LEMMA ReachIsTransitive ==
    ASSUME NEW c \in Claims
    PROVE  /\ ReachFrom[c] \subseteq Claims
           /\ c \in ReachFrom[c]
           /\ \A d \in ReachFrom[c] : ReachFrom[d] \subseteq ReachFrom[c]
<1>1. ReachFrom[c] = Walk({c}, {})
  BY DEF ReachFrom
<1>2. ReachFrom[c] \subseteq Claims
  BY <1>1 DEF Walk
<1>3. ClosedUnder(ReachFrom[c], {c}, {})
  BY <1>1, WalkIsClosed
<1>4. ASSUME NEW d \in ReachFrom[c] PROVE ReachFrom[d] \subseteq ReachFrom[c]
  <2>1. ReachFrom[d] = Walk({d}, {})
    BY <1>2 DEF ReachFrom
  <2>2. ClosedUnder(ReachFrom[c], {d}, {})
    BY <1>3 DEF ClosedUnder
  <2>3. QED
    BY <2>1, <2>2, <1>2, WalkIsLeast
<1>5. QED
  BY <1>2, <1>3, <1>4 DEF ClosedUnder

LEMMA ReachIsClosed ==
    ASSUME NEW S \in SUBSET Claims
    PROVE  /\ S \subseteq Reach(S)
           /\ Reach(S) \subseteq Claims
           /\ \A d \in Reach(S) : ReachFrom[d] \subseteq Reach(S)
BY ReachIsTransitive DEF Reach

(* The frontier of a set of claims brings the whole set along. *)
LEMMA ReachOfRoots ==
    ASSUME NEW S \in SUBSET Claims
    PROVE  Reach(Roots(S)) = Reach(S)
<1>1. Roots(S) \subseteq S /\ Roots(S) \in SUBSET Claims
  BY DEF Roots
<1>2. Reach(Roots(S)) \subseteq Reach(S)
  BY <1>1 DEF Reach
<1>3. S \subseteq Reach(Roots(S))
  BY RootsCover
<1>4. \A d \in S : ReachFrom[d] \subseteq Reach(Roots(S))
  BY <1>1, <1>3, ReachIsClosed
<1>5. QED
  BY <1>2, <1>4 DEF Reach

(***************************************************************************)
(* A walk that stops at trusted claims vouches for the whole closure of    *)
(* its roots: what it does not visit lies behind a trusted claim.          *)
(***************************************************************************)
LEMMA WalkVouches ==
    ASSUME NEW S \in SUBSET Claims, NEW T, NEW X,
           Walk(S, T) \ T \subseteq X,
           \A c \in T \cap Claims : ReachFrom[c] \subseteq X
    PROVE  Reach(S) \subseteq X
<1> DEFINE W == Walk(S, T)
           Y == (W \ T) \cup UNION {ReachFrom[c] : c \in W \cap T}
<1>1. W \subseteq Claims
  BY DEF Walk
<1>2. S \subseteq W /\ \A x \in W \ T : Refs[x] \subseteq W
  BY WalkIsClosed DEF ClosedUnder
<1>3. W \subseteq Y /\ Y \subseteq Claims
  BY <1>1, ReachIsTransitive
<1>4. ASSUME NEW x \in Y PROVE Refs[x] \subseteq Y
  <2>1. CASE x \in W \ T
    BY <2>1, <1>2, <1>3
  <2>2. CASE x \notin W \ T
    <3>1. PICK c \in W \cap T : x \in ReachFrom[c]
      BY <2>2
    <3>2. ClosedUnder(ReachFrom[c], {c}, {})
      BY <1>1, WalkIsClosed DEF ReachFrom
    <3>3. QED
      BY <3>1, <3>2 DEF ClosedUnder
  <2>3. QED
    BY <2>1, <2>2
<1>5. ASSUME NEW c \in S PROVE ReachFrom[c] \subseteq Y
  <2>1. ClosedUnder(Y, {c}, {})
    BY <1>2, <1>3, <1>4 DEF ClosedUnder
  <2>2. QED
    BY <2>1, <1>3, WalkIsLeast DEF ReachFrom
<1>6. Y \subseteq X
  BY <1>1
<1>7. QED
  BY <1>5, <1>6 DEF Reach

(* A claim that cites nothing is its own closure. *)
LEMMA ReachOfLeaf ==
    ASSUME NEW c \in Claims, Refs[c] = {}
    PROVE  ReachFrom[c] = {c}
<1>1. ReachFrom[c] = Walk({c}, {})
  BY DEF ReachFrom
<1>2. ClosedUnder({c}, {c}, {})
  BY DEF ClosedUnder
<1>3. Walk({c}, {}) \subseteq {c}
  BY <1>2, WalkIsLeast
<1>4. QED
  BY <1>1, <1>3, ReachIsTransitive

-----------------------------------------------------------------------------
(* Types, together with the fact that every id in use names something that *)
(* is in the Universe: without it a closure need not be a set of ids.      *)

TypeInv == TypeOK /\ IdsOK

LEMMA ClosureType ==
    ASSUME TypeInv, NEW i, i # None => Present(i)
    PROVE  /\ ClosureOf(i) \subseteq Id
           /\ \A j \in ClosureOf(i) : Present(j)
<1>1. CASE i = None
  BY <1>1 DEF ClosureOf
<1>2. CASE i \in Claims /\ i # None
  <2>1. ClosureOf(i) = ReachFrom[i]
    BY <1>2 DEF ClosureOf
  <2>2. QED
    BY <1>2, <2>1, ReachIsTransitive DEF Present, Id
<1>3. CASE i \notin Claims /\ i # None
  <2>1. ClosureOf(i) = folds[i] /\ i \in 1..Len(folds)
    BY <1>3 DEF ClosureOf, Present
  <2>2. folds[i] \in SUBSET Id
    BY <2>1 DEF TypeInv, TypeOK
  <2>3. QED
    BY <2>1, <2>2 DEF TypeInv, IdsOK
<1>4. QED
  BY <1>1, <1>2, <1>3

(* Appending a head claim leaves every id that was present, present. *)
LEMMA PresentAfterAppend ==
    ASSUME TypeOK, NEW S \in SUBSET Id, folds' = Append(folds, S)
    PROVE  /\ Len(folds') = Len(folds) + 1
           /\ folds' \in Seq(SUBSET Id)
           /\ \A i \in 1..Len(folds) : folds'[i] = folds[i]
           /\ folds'[Len(folds) + 1] = S
           /\ \A i : Present(i) => Present(i)'
<1>1. folds \in Seq(SUBSET Id) /\ Len(folds) \in Nat
  BY DEF TypeOK
<1>2. /\ Len(folds') = Len(folds) + 1
      /\ folds' \in Seq(SUBSET Id)
      /\ \A i \in 1..Len(folds) : folds'[i] = folds[i]
      /\ folds'[Len(folds) + 1] = S
  BY <1>1
<1>3. ASSUME NEW i, Present(i) PROVE Present(i)'
  BY <1>1, <1>2, <1>3 DEF Present
<1>4. QED
  BY <1>2, <1>3

LEMMA NoContributionType ==
    NoContribution \in ContributionType /\ NoHeads \in HeadMap
<1>1. NoHeads \in HeadMap
  BY DEF NoHeads, HeadMap
<1>2. QED
  BY <1>1 DEF NoContribution, ContributionType, ReadScopes

LEMMA TableAtType ==
    ASSUME TypeInv
    PROVE  /\ Latest \in 0..Len(tables)
           /\ \A t \in 0..Len(tables) :
                /\ TableAt(t) \in HeadMap
                /\ \A b \in Branches : TableAt(t)[b] # None => Present(TableAt(t)[b])
<1>1. Latest \in 0..Len(tables)
  <2>1. CASE marks = <<>>
    BY <2>1 DEF TypeInv, TypeOK, Latest
  <2>2. CASE marks # <<>>
    <3>1. Len(marks) \in 1..Len(marks)
      BY <2>2 DEF TypeInv, TypeOK
    <3>2. QED
      BY <2>2, <3>1 DEF TypeInv, IdsOK, Latest
  <2>3. QED
    BY <2>1, <2>2
<1>2. ASSUME NEW t \in 0..Len(tables)
      PROVE  /\ TableAt(t) \in HeadMap
             /\ \A b \in Branches : TableAt(t)[b] # None => Present(TableAt(t)[b])
  <2>1. CASE t = 0
    BY <2>1, NoContributionType DEF TableAt, NoHeads
  <2>2. CASE t # 0
    <3>1. t \in 1..Len(tables) /\ TableAt(t) = tables[t].heads /\ tables[t] \in Table
      BY <2>2 DEF TableAt, TypeInv, TypeOK
    <3>2. QED
      BY <3>1 DEF TypeInv, IdsOK, Table
  <2>3. QED
    BY <2>1, <2>2
<1>3. QED
  BY <1>1, <1>2

(* A bookmark write, wherever it goes, leaves a list of stored tables. *)
LEMMA PutMarkType ==
    ASSUME TypeInv, NEW i \in Nat \ {0}, NEW t \in 1..Len(tables), PutMark(i, t)
    PROVE  /\ marks' \in Seq(Nat)
           /\ \A k \in 1..Len(marks') : marks'[k] \in 1..Len(tables)
<1>1. marks \in Seq(Nat) /\ tables \in Seq(Table) /\ t \in Nat
  BY DEF TypeInv, TypeOK
<1>2. \A k \in 1..Len(marks) : marks[k] \in 1..Len(tables)
  BY DEF TypeInv, IdsOK
<1>3. CASE i > Len(marks)
  BY <1>1, <1>2, <1>3 DEF PutMark
<1>4. CASE ~(i > Len(marks))
  BY <1>1, <1>2, <1>4 DEF PutMark
<1>5. QED
  BY <1>3, <1>4

(* A table minted over s.head is a table whose heads are there. *)
LEMMA MintedTable ==
    ASSUME TypeInv, tables' = Append(tables, [prev |-> head, heads |-> Overlay(TableAt(head), newHeads)])
    PROVE  /\ tables' \in Seq(Table)
           /\ Len(tables') = Len(tables) + 1
           /\ \A t \in 1..Len(tables) : tables'[t] = tables[t]
           /\ tables'[Len(tables) + 1] = [prev |-> head, heads |-> Overlay(TableAt(head), newHeads)]
           /\ \A t \in 1..Len(tables'), b \in Branches :
                tables'[t].heads[b] # None => Present(tables'[t].heads[b])
<1> DEFINE h == Overlay(TableAt(head), newHeads)
           T == [prev |-> head, heads |-> h]
<1>1. TableAt(head) \in HeadMap /\ head \in Nat /\ newHeads \in HeadMap
  BY TableAtType DEF TypeInv, TypeOK, IdsOK
<1>2. h \in HeadMap
  BY <1>1 DEF Overlay, HeadMap
<1>3. \A b \in Branches : h[b] # None => Present(h[b])
  BY TableAtType DEF Overlay, TypeInv, IdsOK
<1>4. T \in Table
  BY <1>1, <1>2 DEF Table
<1>5. tables \in Seq(Table)
  BY DEF TypeInv, TypeOK
<1> HIDE DEF T
<1>6. /\ tables' \in Seq(Table)
      /\ Len(tables') = Len(tables) + 1
      /\ \A t \in 1..Len(tables) : tables'[t] = tables[t]
      /\ tables'[Len(tables) + 1] = T
  BY <1>4, <1>5 DEF T
<1>7. T.heads = h
  BY DEF T
<1>8. \A t \in 1..Len(tables'), b \in Branches :
                tables'[t].heads[b] # None => Present(tables'[t].heads[b])
  BY <1>3, <1>5, <1>6, <1>7 DEF TypeInv, IdsOK
<1>9. QED
  BY <1>6, <1>8 DEF T

(* What drain leaves once every entry of its batch has an outcome. *)
LEMMA FinishBatchType ==
    ASSUME TypeInv, NEW result \in {"ok", "error"}, NEW k \in Nat, FinishBatch(result, k)
    PROVE  /\ outcome' \in [Writers -> {"pending", "ok", "error"}]
           /\ receipt' \in [Writers -> Nat]
           /\ pc' \in [Writers -> Stations]
           /\ \A w \in Writers : pc'[w] = "staged" => pc[w] = "staged"
           /\ phase' \in Phases /\ phase' = "free"
           /\ holder' \in Writers \cup {None}
           /\ batch' = {} /\ todo' = {}
           /\ newHeads' \in HeadMap
           /\ \A b \in Branches : newHeads'[b] = None
           /\ UNCHANGED <<process, cursor, queue, contribution>>
<1>1. pc' \in [Writers -> Stations] /\ \A w \in Writers : pc'[w] = "staged" => pc[w] = "staged"
  BY DEF FinishBatch, TypeInv, TypeOK, Stations
<1>2. QED
  BY <1>1, NoContributionType DEF FinishBatch, TypeInv, TypeOK, Phases, NoHeads

LEMMA BatchTypes ==
    ASSUME TypeInv
    PROVE  /\ BatchIds \subseteq Id
           /\ BatchPairs \subseteq Branches \X Claims
           /\ \A b \in Branches : Contributed(b) \subseteq Id
<1>1. \A v \in batch : contribution[v] \in ContributionType
  BY DEF TypeInv, TypeOK
<1>2. \A b \in Branches : Contributed(b) \subseteq Id
  BY <1>1 DEF Contributed, ContributionType, HeadMap
<1>3. \A v \in batch, b \in Branches : contribution[v].staged[b] \subseteq Id
  BY <1>1 DEF ContributionType, Id
<1>6. BatchIds \subseteq Id
  BY <1>2, <1>3 DEF BatchIds
<1>7. QED
  BY <1>2, <1>6 DEF BatchPairs

LEMMA TypeInvariant == Spec => []TypeInv
<1>1. Init => TypeInv
  <2> SUFFICES ASSUME Init PROVE TypeInv
    OBVIOUS
  <2> USE DEF Init
  <2>1. NoHeads \in HeadMap
    BY DEF NoHeads, HeadMap
  <2>2. NoContribution \in ContributionType
    BY <2>1 DEF NoContribution, ContributionType, ReadScopes
  <2>3. folds \in Seq(SUBSET Id) /\ tables \in Seq(Table) /\ marks \in Seq(Nat)
    OBVIOUS
  <2>4. TypeOK
    BY <2>1, <2>2, <2>3 DEF TypeOK, Phases, Stations
  <2>5. IdsOK
    BY DEF IdsOK, NoHeads, NoContribution
  <2>6. QED
    BY <2>4, <2>5 DEF TypeInv
<1>2. TypeInv /\ [Next]_vars => TypeInv'
  <2> SUFFICES ASSUME TypeInv, [Next]_vars PROVE TypeInv'
    OBVIOUS
  <2> USE DEF TypeInv
  <2> USE DEF durable, memory, section, writers, bounds
  <2>0. folds' = folds => \A i : Present(i) => Present(i)'
    BY DEF Present
  <2>1. CASE NewSequencer
    <3>1. head' \in Nat /\ heads' \in HeadMap
      BY <2>1, TableAtType DEF NewSequencer, TypeOK, Latest
    <3>2. TypeOK'
      BY <2>1, <3>1 DEF NewSequencer, TypeOK
    <3>3. IdsOK'
      BY <2>1, <2>0, TableAtType DEF NewSequencer, IdsOK
    <3>4. QED
      BY <3>2, <3>3
  <2>2. CASE Crash
    <3>1. NoContribution \in ContributionType /\ NoHeads \in HeadMap
      BY NoContributionType
    <3>2. TypeOK'
      BY <2>2, <3>1 DEF Crash, TypeOK, Phases, Stations
    <3>a. \A w \in Writers : pc'[w] # "staged"
      BY <2>2 DEF Crash
    <3>3. IdsOK'
      BY <2>2, <2>0, <3>a DEF Crash, IdsOK, NoContribution, NoHeads
    <3>4. QED
      BY <3>2, <3>3
  <2>3. CASE Found
    <3>1. ASSUME NEW b \in Branches, FoundGenesis(b) PROVE TypeInv'
      <4>1. /\ Operator \in Claims
            /\ [prev |-> 0, heads |-> NoHeads] \in Table
            /\ tables \in Seq(Table)
        BY NoContributionType, ConstantsAssumption DEF Table, TypeOK
      <4>2. /\ tables' \in Seq(Table)
            /\ Len(tables') = Len(tables) + 1
            /\ \A t \in 1..Len(tables) : tables'[t] = tables[t]
            /\ tables'[Len(tables) + 1].heads = NoHeads
        BY <3>1, <4>1 DEF FoundGenesis
      <4>3. heads' \in HeadMap /\ newHeads' \in HeadMap
        BY <3>1, <4>1, NoContributionType DEF FoundGenesis, HeadMap, Id, TypeOK
      <4>4. TypeOK'
        BY <3>1, <4>1, <4>2, <4>3 DEF FoundGenesis, TypeOK, Phases
      <4>5. \A t \in 1..Len(tables'), c \in Branches :
              tables'[t].heads[c] # None => Present(tables'[t].heads[c])
        BY <3>1, <4>1, <4>2 DEF FoundGenesis, IdsOK, NoHeads
      <4>6. Present(Operator)
        BY <4>1 DEF Present
      <4>7. /\ \A c \in Branches : heads'[c] # None => Present(heads'[c])
            /\ \A c \in Branches : newHeads'[c] # None => Present(newHeads'[c])
        BY <3>1, <4>6, NoContributionType DEF FoundGenesis, IdsOK, NoHeads, TypeOK, HeadMap
      <4>8. /\ head' \in 0..Len(tables') /\ Len(tables') > 0
            /\ \A k \in 1..Len(marks') : marks'[k] \in 1..Len(tables')
        BY <3>1, <4>1, <4>2 DEF FoundGenesis, IdsOK
      <4>9. IdsOK'
        BY <3>1, <2>0, <4>5, <4>7, <4>8 DEF FoundGenesis, IdsOK
      <4>10. QED
        BY <4>4, <4>9
    <3>2. CASE FoundGenesisFails
      <4>1. TypeOK'
        BY <3>2, ConstantsAssumption DEF FoundGenesisFails, Fault, TypeOK
      <4>2. IdsOK'
        BY <3>2, <2>0 DEF FoundGenesisFails, IdsOK
      <4>3. QED
        BY <4>1, <4>2
    <3>3. CASE FoundTable
      <4>1. TypeOK'
        BY <3>3, MintedTable DEF FoundTable, TypeOK, Phases
      <4>a. /\ tables' = Append(tables, [prev |-> head, heads |-> Overlay(TableAt(head), newHeads)])
            /\ UNCHANGED <<folds, marks, head, heads, newHeads, contribution, pc>>
        BY <3>3 DEF FoundTable
      <4>2. IdsOK'
        BY <2>0, <4>a, MintedTable DEF IdsOK, TypeOK
      <4>3. QED
        BY <4>1, <4>2
    <3>4. CASE FoundMark
      <4>1. /\ NextIndex \in Nat \ {0} /\ Len(tables) \in 1..Len(tables)
            /\ PutMark(NextIndex, Len(tables))
        BY <3>4 DEF FoundMark, NextIndex, TypeOK, IdsOK
      <4>2. /\ marks' \in Seq(Nat)
            /\ \A k \in 1..Len(marks') : marks'[k] \in 1..Len(tables)
        BY <4>1, PutMarkType
      <4>3. TypeOK'
        BY <3>4, <4>1, <4>2 DEF FoundMark, TypeOK, Phases
      <4>4. IdsOK'
        BY <3>4, <2>0, <4>2 DEF FoundMark, IdsOK
      <4>5. QED
        BY <4>3, <4>4
    <3>5. CASE FoundFails
      <4>1. /\ marks' \in Seq(Nat)
            /\ \A k \in 1..Len(marks') : marks'[k] \in 1..Len(tables)
        <5>1. CASE UNCHANGED marks
          BY <5>1 DEF TypeOK, IdsOK
        <5>2. CASE phase = "foundMark" /\ PutMark(NextIndex, Len(tables))
          <6>1. NextIndex \in Nat \ {0} /\ Len(tables) \in 1..Len(tables)
            BY <5>2 DEF NextIndex, TypeOK, IdsOK
          <6>2. QED
            BY <5>2, <6>1, PutMarkType
        <5>3. QED
          BY <3>5, <5>1, <5>2 DEF FoundFails
      <4>2. faults' \in Nat /\ UNCHANGED <<crashes, opened, merges>>
        BY <3>5 DEF FoundFails, Fault, TypeOK
      <4>3. TypeOK'
        BY <3>5, <4>1, <4>2, NoContributionType DEF FoundFails, TypeOK, Phases
      <4>4. IdsOK'
        BY <3>5, <2>0, <4>1 DEF FoundFails, IdsOK, NoHeads
      <4>5. QED
        BY <4>3, <4>4
    <3>6. CASE FoundPublish
      <4>1. TypeOK'
        BY <3>6, ConstantsAssumption, NoContributionType DEF FoundPublish, TypeOK, Phases, Id
      <4>a. /\ UNCHANGED <<folds, tables, marks, heads, contribution, pc>>
            /\ head' = Len(tables) /\ phase' = "free" /\ newHeads' = NoHeads
        BY <3>6 DEF FoundPublish
      <4>b. head' \in 0..Len(tables) /\ \A c \in Branches : newHeads'[c] = None
        BY <4>a DEF TypeOK, NoHeads
      <4>2. IdsOK'
        BY <4>a, <4>b, <2>0 DEF IdsOK
      <4>3. QED
        BY <4>1, <4>2
    <3>7. QED
      BY <2>3, <3>1, <3>2, <3>3, <3>4, <3>5, <3>6 DEF Found
  <2>4. ASSUME NEW w \in Writers, Contribute(w) PROVE TypeInv'
    <3>1. ASSUME NEW scope \in Scopes, NewContribution(w, scope) PROVE TypeInv'
      <4>1. [NoContribution EXCEPT !.base = head, !.scope = scope] \in ContributionType
        BY NoContributionType, ConstantsAssumption DEF ContributionType, TypeOK
      <4>2. TypeOK'
        BY <3>1, <4>1, SMTT(40) DEF NewContribution, TypeOK, Stations
      <4>3. IdsOK'
        BY <3>1, <2>0 DEF NewContribution, IdsOK, NoContribution, NoHeads, TypeOK
      <4>4. QED
        BY <4>2, <4>3
    <3>2. ASSUME NEW b \in Branches, NEW S \in Batches, AddClaims(w, b, S) PROVE TypeInv'
      <4>1. S \subseteq Claims /\ contribution[w] \in ContributionType
        BY ConstantsAssumption DEF TypeOK
      <4>2. [contribution[w] EXCEPT !.staged[b] = @ \cup S] \in ContributionType
        BY <4>1 DEF ContributionType
      <4>3. TypeOK'
        BY <3>2, <4>2 DEF AddClaims, TypeOK
      <4>4. \A v \in Writers : /\ contribution'[v].heads = contribution[v].heads
                               /\ contribution'[v].at = contribution[v].at
        BY <3>2, <4>1 DEF AddClaims, TypeOK, ContributionType
      <4>5. IdsOK'
        BY <3>2, <2>0, <4>4 DEF AddClaims, IdsOK
      <4>6. QED
        BY <4>3, <4>5
    <3>3. ASSUME NEW b \in Branches, StageBranch(w, b) PROVE TypeInv'
      <4>1. contribution[w] \in ContributionType
        BY DEF TypeOK
      <4>2. /\ [contribution[w] EXCEPT !.at = b] \in ContributionType
            /\ contribution[w].staged[b] \subseteq Claims
        BY <4>1 DEF ContributionType
      <4>3. TypeOK'
        BY <3>3, <4>2 DEF StageBranch, TypeOK, Stations
      <4>4. \A v \in Writers : contribution'[v].heads = contribution[v].heads
        BY <3>3, <4>1 DEF StageBranch, TypeOK, ContributionType
      <4>a. \A v \in Writers : pc'[v] = "staged" => contribution'[v].at \in Branches
        BY <3>3, <4>1 DEF StageBranch, TypeOK, ContributionType, IdsOK
      <4>5. IdsOK'
        BY <3>3, <2>0, <4>4, <4>a DEF StageBranch, IdsOK
      <4>6. QED
        BY <4>3, <4>5
    <3>4. CASE SealBranch(w)
      <4> DEFINE b == contribution[w].at
                 roots == Roots(contribution[w].staged[b])
                 fold == Len(folds) + 1
                 newHead == IF \E r \in roots : roots = {r} THEN CHOOSE r \in roots : TRUE ELSE fold
      <4>1. contribution[w] \in ContributionType
        BY DEF TypeOK
      <4>2. b \in Branches /\ roots \subseteq Claims
        BY <3>4, <4>1 DEF SealBranch, IdsOK, ContributionType, Roots
      <4>3. newHead \in Claims \/ newHead = fold
        BY <4>2
      <4>4. fold \in Nat \ {0} /\ newHead \in Id
        BY <4>3 DEF TypeOK, Id
      <4>5. ({fold} \cup Reach(roots)) \in SUBSET Id
        BY <4>2, <4>4, ReachIsTransitive DEF Reach, Id
      <4>6. /\ folds' \in Seq(SUBSET Id)
            /\ \A i : Present(i) => Present(i)'
            /\ \A i \in 1..Len(folds') : \A j \in folds'[i] : j \in Claims \/ j \in 1..Len(folds')
            /\ newHead = fold => fold \in 1..Len(folds')
        <5>1. CASE newHead = fold
          <6>1. folds' = Append(folds, {fold} \cup Reach(roots))
            BY <3>4, <5>1 DEF SealBranch
          <6>2. \A j \in Reach(roots) : Present(j)
            BY <4>2, ReachIsTransitive DEF Reach, Present
          <6>3. /\ Len(folds') = Len(folds) + 1
                /\ folds' \in Seq(SUBSET Id)
                /\ \A i \in 1..Len(folds) : folds'[i] = folds[i]
                /\ folds'[Len(folds) + 1] = {fold} \cup Reach(roots)
                /\ \A i : Present(i) => Present(i)'
            BY <4>5, <6>1, PresentAfterAppend
          <6>4. fold \in 1..Len(folds')
            BY <4>4, <6>3
          <6>5. ASSUME NEW i \in 1..Len(folds'), NEW j \in folds'[i] PROVE j \in Claims \/ j \in 1..Len(folds')
            <7>1. CASE i \in 1..Len(folds)
              BY <7>1, <6>3, <6>5 DEF IdsOK, Present
            <7>2. CASE i = fold
              BY <7>2, <6>2, <6>3, <6>4, <6>5 DEF Present
            <7>3. QED
              BY <7>1, <7>2, <6>3, <4>4
          <6>6. QED
            BY <6>3, <6>4, <6>5
        <5>2. CASE newHead # fold
          <6>1. folds' = folds
            BY <3>4, <5>2 DEF SealBranch
          <6>2. QED
            BY <6>1, <2>0, <5>2 DEF TypeOK, IdsOK, Present
        <5>3. QED
          BY <5>1, <5>2
      <4>7. newHead \in Claims \/ newHead \in 1..Len(folds')
        BY <4>3, <4>6
      <4> HIDE DEF newHead
      <4>8. [contribution[w] EXCEPT !.heads[b] = newHead, !.at = None] \in ContributionType
        BY <4>1, <4>2, <4>4 DEF ContributionType, HeadMap
      <4>9. /\ contribution' = [contribution EXCEPT ![w] =
                    [contribution[w] EXCEPT !.heads[b] = newHead, !.at = None]]
            /\ pc' \in [Writers -> Stations] /\ pc'[w] # "staged"
            /\ \A v \in Writers \ {w} : pc'[v] = pc[v]
            /\ UNCHANGED <<stored, tables, marks, memory, section, outcome, receipt, acked, bounds>>
        BY <3>4 DEF SealBranch, newHead, TypeOK, Stations
      <4>10. TypeOK'
        BY <4>6, <4>8, <4>9 DEF TypeOK
      <4>11. \A v \in Writers, c \in Branches :
                contribution'[v].heads[c] \in {contribution[v].heads[c], newHead}
        BY <4>1, <4>2, <4>9 DEF TypeOK, ContributionType, HeadMap
      <4>a. \A v \in Writers, c \in Branches :
                contribution'[v].heads[c] # None => Present(contribution[v].heads[c])'
        BY <4>6, <4>7, <4>11 DEF IdsOK, Present
      <4>b. \A v \in Writers : pc'[v] = "staged" => contribution'[v].at \in Branches
        BY <4>9 DEF IdsOK, TypeOK
      <4>c. UNCHANGED <<tables, marks, head, heads, newHeads, phase>>
        BY <4>9
      <4>12. IdsOK'
        BY <4>6, <4>a, <4>b, <4>c DEF IdsOK, Present
      <4>13. QED
        BY <4>10, <4>12
    <3>5. CASE RefuseBranch(w)
      <4>1. contribution[w] \in ContributionType
        BY DEF TypeOK
      <4>2. [contribution[w] EXCEPT !.heads = NoHeads, !.at = None] \in ContributionType
        BY <4>1, NoContributionType DEF ContributionType
      <4>3. contribution' = [contribution EXCEPT ![w] = [contribution[w] EXCEPT !.heads = NoHeads, !.at = None]]
        BY <3>5 DEF RefuseBranch, TypeOK
      <4>4. /\ UNCHANGED <<durable, memory, section, outcome, receipt, acked>>
            /\ pc' = [pc EXCEPT ![w] = "open"]
            /\ faults' \in Nat /\ crashes' \in Nat /\ opened' \in Nat /\ merges' \in Nat
        BY <3>5 DEF RefuseBranch, Fault, TypeOK
      <4>5. TypeOK'
        BY <4>2, <4>3, <4>4 DEF TypeOK, Stations
      <4>6. \A v \in Writers : contribution'[v].heads \in {contribution[v].heads, NoHeads}
        BY <4>1, <4>3 DEF TypeOK, ContributionType
      <4>a. \A v \in Writers : pc'[v] = "staged" => contribution'[v].at \in Branches
        BY <4>3, <4>4 DEF TypeOK, IdsOK
      <4>b. \A v \in Writers, c \in Branches :
                contribution'[v].heads[c] # None => Present(contribution[v].heads[c])'
        BY <4>4, <2>0, <4>6 DEF IdsOK, NoHeads, Present
      <4>7. IdsOK'
        BY <4>4, <2>0, <4>a, <4>b DEF IdsOK
      <4>8. QED
        BY <4>5, <4>7
    <3>6. CASE Persist(w)
      BY <3>6, <2>0 DEF Persist, TypeOK, Stations, IdsOK
    <3>7. CASE Drop(w)
      <4>1. TypeOK'
        BY <3>7, NoContributionType DEF Drop, TypeOK, Stations
      <4>2. IdsOK'
        BY <3>7, <2>0 DEF Drop, IdsOK, NoContribution, NoHeads, TypeOK
      <4>3. QED
        BY <4>1, <4>2
    <3>8. CASE Merge(w)
      <4>1. TypeOK'
        BY <3>8 DEF Merge, TypeOK, Stations
      <4>2. IdsOK'
        BY <3>8, <2>0 DEF Merge, IdsOK
      <4>3. QED
        BY <4>1, <4>2
    <3>9. CASE Drain(w)
      <4>a. ASSUME queue = {} PROVE TypeOK'
        BY <3>9, <4>a DEF Drain, TypeOK, Stations
      <4>b. ASSUME queue # {} PROVE TypeOK'
        <5>1. UNION {Named(v) : v \in queue} \subseteq Branches
          BY DEF Named
        <5>2. /\ phase' \in Phases /\ holder' \in Writers \cup {None} /\ batch' \subseteq Writers
              /\ todo' \subseteq Branches /\ newHeads' \in HeadMap
          BY <3>9, <4>b, <5>1, NoContributionType DEF Drain, TypeOK, Phases
        <5>3. pc' \in [Writers -> Stations]
          BY <3>9, <4>b DEF Drain, TypeOK, Stations
        <5>4. QED
          BY <3>9, <5>2, <5>3 DEF Drain, TypeOK
      <4>1. TypeOK'
        BY <4>a, <4>b
      <4>c. \A v \in Writers : pc'[v] = "staged" => pc[v] = "staged"
        BY <3>9 DEF Drain, TypeOK
      <4>d. /\ \A c \in Branches : newHeads'[c] # None => newHeads'[c] = newHeads[c]
            /\ phase' \in {"free", "fold"}
        BY <3>9 DEF Drain, NoHeads
      <4>2. IdsOK'
        BY <3>9, <2>0, <4>c, <4>d DEF Drain, IdsOK
      <4>3. QED
        BY <4>1, <4>2
    <3>10. CASE Return(w)
      BY <3>10, <2>0 DEF Return, TypeOK, Stations, IdsOK
    <3>11. QED
      BY <2>4, <3>1, <3>2, <3>3, <3>4, <3>5, <3>6, <3>7, <3>8, <3>9, <3>10 DEF Contribute
  <2>5. CASE Commit
    <3>1. ASSUME NEW b \in Branches, FoldBranch(b) PROVE TypeInv'
      <4> DEFINE set == FoldSet(b)
                 fold == Len(folds) + 1
                 newHead == IF \E h \in set : set = {h} THEN CHOOSE h \in set : TRUE ELSE fold
                 closure == {fold} \cup UNION {ClosureOf(h) : h \in set}
      <4>1. \A h \in set : h # None /\ Present(h)
        <5>1. \A h \in Fresh(b) : h # None /\ Present(h)
          BY DEF Fresh, Contributed, IdsOK, TypeOK
        <5>2. \A h \in {heads[b]} \ {None} : Present(h)
          BY DEF IdsOK
        <5>3. QED
          BY <5>1, <5>2 DEF FoldSet
      <4>2. fold \in Nat \ {0}
        BY DEF TypeOK
      <4>3. \A h \in set : h \in Id
        BY <4>1, <4>2 DEF Present, Id
      <4>4. \A h \in set : ClosureOf(h) \subseteq Id /\ \A j \in ClosureOf(h) : Present(j)
        BY <4>1, ClosureType
      <4>5. closure \in SUBSET Id /\ \A j \in closure : j = fold \/ Present(j)
        BY <4>2, <4>4 DEF Id
      <4>6. newHead = fold \/ (newHead \in Id /\ Present(newHead))
        <5>1. CASE \E h \in set : set = {h}
          <6>1. PICK h \in set : set = {h}
            BY <5>1
          <6>2. newHead = h
            BY <6>1
          <6>3. QED
            BY <6>2, <4>1, <4>3
        <5>2. QED
          BY <5>1
      <4> HIDE DEF newHead, closure
      <4>7. CASE Fresh(b) = {}
        <5>1. /\ UNCHANGED <<folds, newHeads, phase>> /\ todo' \subseteq Branches
              /\ UNCHANGED <<stored, tables, marks, memory, phase, holder, batch, writers, acked, bounds>>
          BY <3>1, <4>7 DEF FoldBranch, TypeOK
        <5>2. QED
          BY <5>1, <2>0 DEF TypeOK, IdsOK
      <4>8. CASE Fresh(b) # {}
        <5>1. /\ newHeads' = [newHeads EXCEPT ![b] = newHead]
              /\ folds' = IF newHead = fold THEN Append(folds, closure) ELSE folds
              /\ todo' \subseteq Branches
              /\ UNCHANGED <<stored, tables, marks, memory, phase, holder, batch, writers, acked, bounds>>
          BY <3>1, <4>8 DEF FoldBranch, TypeOK, newHead, closure
        <5>2. /\ folds' \in Seq(SUBSET Id)
              /\ \A i : Present(i) => Present(i)'
              /\ \A i \in 1..Len(folds') : \A j \in folds'[i] : j \in Claims \/ j \in 1..Len(folds')
              /\ newHead \in Id
              /\ newHead \in Claims \/ newHead \in 1..Len(folds')
          <6>1. CASE newHead = fold
            <7>1. /\ Len(folds') = Len(folds) + 1
                  /\ folds' \in Seq(SUBSET Id)
                  /\ \A i \in 1..Len(folds) : folds'[i] = folds[i]
                  /\ folds'[Len(folds) + 1] = closure
                  /\ \A i : Present(i) => Present(i)'
              BY <4>5, <5>1, <6>1, PresentAfterAppend
            <7>2. fold \in 1..Len(folds') /\ newHead \in Id
              BY <4>2, <6>1, <7>1 DEF Id
            <7>3. ASSUME NEW i \in 1..Len(folds'), NEW j \in folds'[i] PROVE j \in Claims \/ j \in 1..Len(folds')
              <8>1. CASE i \in 1..Len(folds)
                BY <8>1, <7>1, <7>3 DEF IdsOK, Present
              <8>2. CASE i = fold
                BY <8>2, <4>5, <7>1, <7>2, <7>3 DEF Present
              <8>3. QED
                BY <8>1, <8>2, <7>1, <4>2
            <7>4. QED
              BY <6>1, <7>1, <7>2, <7>3
          <6>2. CASE newHead # fold
            <7>1. folds' = folds
              BY <5>1, <6>2
            <7>2. QED
              BY <7>1, <2>0, <6>2, <4>6 DEF TypeOK, IdsOK, Present
          <6>3. QED
            BY <6>1, <6>2
        <5>3. newHeads' \in HeadMap
          BY <5>1, <5>2 DEF TypeOK, HeadMap
        <5>4. TypeOK'
          BY <5>1, <5>2, <5>3 DEF TypeOK
        <5>5. \A c \in Branches : newHeads'[c] # None => Present(newHeads[c])'
          BY <5>1, <5>2 DEF Present, IdsOK, TypeOK, HeadMap
        <5>6. UNCHANGED <<tables, marks, head, heads, contribution, pc, phase>>
          BY <5>1
        <5>7. IdsOK'
          BY <5>2, <5>5, <5>6 DEF IdsOK, Present
        <5>8. QED
          BY <5>4, <5>7
      <4>9. QED
        BY <4>7, <4>8
    <3>2. CASE NoAdvance
      <4>1. FinishBatch("ok", head) /\ head \in Nat
        BY <3>2 DEF NoAdvance, TypeOK
      <4>2. TypeOK'
        BY <3>2, <4>1, BatchTypes, FinishBatchType DEF NoAdvance, TypeOK
      <4>3. IdsOK'
        BY <3>2, <2>0, <4>1, FinishBatchType DEF NoAdvance, IdsOK
      <4>4. QED
        BY <4>2, <4>3
    <3>3. CASE MintTable
      <4>1. TypeOK'
        BY <3>3, MintedTable DEF MintTable, TypeOK, Phases
      <4>2. IdsOK'
        BY <3>3, <2>0, MintedTable DEF MintTable, IdsOK, TypeOK
      <4>3. QED
        BY <4>1, <4>2
    <3>4. CASE AppendMark
      <4>1. /\ NextIndex \in Nat \ {0} /\ Len(tables) \in 1..Len(tables)
            /\ PutMark(NextIndex, Len(tables))
        BY <3>4 DEF AppendMark, NextIndex, TypeOK, IdsOK
      <4>2. /\ marks' \in Seq(Nat)
            /\ \A k \in 1..Len(marks') : marks'[k] \in 1..Len(tables)
        BY <4>1, PutMarkType
      <4>3. TypeOK'
        BY <3>4, <4>1, <4>2 DEF AppendMark, TypeOK, Phases
      <4>4. IdsOK'
        BY <3>4, <2>0, <4>2 DEF AppendMark, IdsOK
      <4>5. QED
        BY <4>3, <4>4
    <3>5. CASE Publish
      <4>1. FinishBatch("ok", Len(tables)) /\ Len(tables) \in Nat
        BY <3>5 DEF Publish, TypeOK
      <4>2. heads' \in HeadMap /\ head' \in 0..Len(tables)
        BY <3>5, <4>1 DEF Publish, Overlay, TypeOK, HeadMap
      <4>3. committed' \subseteq Id /\ acked' \subseteq Branches \X Claims
        BY <3>5, BatchTypes DEF Publish, TypeOK, HeadMap
      <4>4. TypeOK'
        BY <3>5, <4>1, <4>2, <4>3, FinishBatchType DEF Publish, TypeOK
      <4>5. \A c \in Branches : heads'[c] # None => Present(heads'[c])
        BY <3>5 DEF Publish, Overlay, IdsOK
      <4>6. IdsOK'
        BY <3>5, <2>0, <4>1, <4>2, <4>5, FinishBatchType DEF Publish, IdsOK
      <4>7. QED
        BY <4>4, <4>6
    <3>6. CASE CommitFails
      <4>1. /\ FinishBatch("error", 0)
            /\ UNCHANGED <<stored, folds, tables, head, heads, committed, acked>>
            /\ faults' \in Nat /\ UNCHANGED <<crashes, opened, merges>>
        BY <3>6 DEF CommitFails, Fault, TypeOK
      <4>2. /\ marks' \in Seq(Nat)
            /\ \A k \in 1..Len(marks') : marks'[k] \in 1..Len(tables)
        <5>1. CASE UNCHANGED marks
          BY <5>1 DEF TypeOK, IdsOK
        <5>2. CASE phase = "mark" /\ PutMark(NextIndex, Len(tables))
          <6>1. NextIndex \in Nat \ {0} /\ Len(tables) \in 1..Len(tables)
            BY <5>2 DEF NextIndex, TypeOK, IdsOK
          <6>2. QED
            BY <5>2, <6>1, PutMarkType
        <5>3. QED
          BY <3>6, <5>1, <5>2 DEF CommitFails
      <4>3. TypeOK'
        BY <4>1, <4>2, FinishBatchType DEF TypeOK
      <4>4. IdsOK'
        BY <4>1, <4>2, <2>0, FinishBatchType DEF IdsOK
      <4>5. QED
        BY <4>3, <4>4
    <3>7. QED
      BY <2>5, <3>1, <3>2, <3>3, <3>4, <3>5, <3>6 DEF Commit
  <2>6. CASE UNCHANGED vars
    BY <2>6 DEF vars, durable, memory, section, writers, bounds, TypeOK, IdsOK, Present
  <2>7. QED
    BY <2>1, <2>2, <2>3, <2>4, <2>5, <2>6 DEF Next
<1>3. QED
  BY <1>1, <1>2, PTL DEF Spec

(* Every field of the Sequencer, of its contributions and of its queue      *)
(* entries keeps its type, whatever fails and whoever runs.                 *)
THEOREM TypeCorrect == Spec => []TypeOK
<1>1. TypeInv => TypeOK
  BY DEF TypeInv
<1>2. QED
  BY <1>1, TypeInvariant, PTL

-----------------------------------------------------------------------------
(* Durability: no merged contribution is lost.  DurableInv is inductive as *)
(* long as Found's own table and bookmark writes do not fail half-way.     *)

(* Closures and branches over a given Universe, to compare two states. *)
ClosureIn(f, i) ==
    IF i = None THEN {} ELSE IF i \in Claims THEN ReachFrom[i] ELSE f[i]
BranchIn(f, ts, t, b) == IF t = 0 THEN {} ELSE ClosureIn(f, ts[t].heads[b])

(* A step that only adds to 𝒰. *)
ClosuresKept ==
    \A i : i = None \/ Present(i) => ClosureIn(folds', i) = ClosureIn(folds, i)
TablesKept ==
    /\ Len(tables') \in Nat
    /\ Len(tables) \leq Len(tables')
    /\ \A t \in 1..Len(tables) : tables'[t] = tables[t]

LEMMA ClosureReflexive ==
    ASSUME TypeInv, FoldsOK, NEW i, Present(i)
    PROVE  i \in ClosureOf(i)
<1>1. i # None
  BY ConstantsAssumption DEF Present, TypeInv, TypeOK
<1>2. CASE i \in Claims
  BY <1>1, <1>2, ReachIsTransitive DEF ClosureOf
<1>3. CASE i \notin Claims
  BY <1>1, <1>3 DEF ClosureOf, Present, FoldsOK
<1>4. QED
  BY <1>2, <1>3

LEMMA ClosureTransitive ==
    ASSUME TypeInv, FoldsOK, NEW i, i = None \/ Present(i), NEW j \in ClosureOf(i)
    PROVE  ClosureOf(j) \subseteq ClosureOf(i)
<1>1. CASE i = None
  BY <1>1 DEF ClosureOf
<1>2. CASE i # None /\ i \in Claims
  <2>1. ClosureOf(i) = ReachFrom[i] /\ j \in Claims /\ ReachFrom[j] \subseteq ReachFrom[i]
    BY <1>2, ReachIsTransitive DEF ClosureOf
  <2>2. QED
    BY <2>1 DEF ClosureOf
<1>3. CASE i # None /\ i \notin Claims
  BY <1>3 DEF ClosureOf, Present, FoldsOK
<1>4. QED
  BY <1>1, <1>2, <1>3

LEMMA TableClosure ==
    ASSUME NEW t, NEW b \in Branches
    PROVE  ClosureOf(TableAt(t)[b]) = BranchClosure(t, b)
BY DEF TableAt, BranchClosure, ClosureOf, NoHeads

(* Minting a head claim over heads that are there. *)
LEMMA FoldExtends ==
    ASSUME TypeInv, FoldsOK, NEW C \in SUBSET Id, folds' = Append(folds, C),
           Len(folds) + 1 \in C,
           \A j \in C : j = Len(folds) + 1 \/ (Present(j) /\ ClosureOf(j) \subseteq C)
    PROVE  /\ ClosuresKept
           /\ ClosureIn(folds', Len(folds) + 1) = C
           /\ FoldsOK'
<1> DEFINE n == Len(folds) + 1
<1>1. /\ Len(folds') = n
      /\ \A i \in 1..Len(folds) : folds'[i] = folds[i]
      /\ folds'[n] = C
  BY PresentAfterAppend DEF TypeInv
<1>2. n \in Nat /\ n # None /\ n \notin Claims /\ Len(folds) \in Nat
  BY ConstantsAssumption DEF TypeInv, TypeOK
<1>3. ClosuresKept
  BY <1>1 DEF ClosuresKept, ClosureIn, Present
<1>4. ClosureIn(folds', n) = C
  BY <1>1, <1>2 DEF ClosureIn
<1>5. ASSUME NEW i \in 1..Len(folds')
      PROVE  /\ i \in folds'[i]
             /\ \A j \in folds'[i] : ClosureIn(folds', j) \subseteq folds'[i]
  <2>1. CASE i = n
    <3>1. \A j \in C : ClosureIn(folds', j) \subseteq C
      BY <1>3, <1>4 DEF ClosuresKept, ClosureOf, ClosureIn
    <3>2. QED
      BY <2>1, <3>1, <1>1
  <2>2. CASE i # n
    <3>1. i \in 1..Len(folds) /\ folds'[i] = folds[i]
      BY <2>2, <1>1, <1>2
    <3>2. /\ i \in folds[i]
          /\ \A j \in folds[i] : Present(j) /\ ClosureIn(folds, j) \subseteq folds[i]
      BY <3>1 DEF FoldsOK, TypeInv, IdsOK, ClosureOf, ClosureIn
    <3>3. QED
      BY <3>1, <3>2, <1>3 DEF ClosuresKept
  <2>3. QED
    BY <2>1, <2>2
<1>6. FoldsOK'
  BY <1>5 DEF FoldsOK, ClosureOf, ClosureIn
<1>7. QED
  BY <1>3, <1>4, <1>6

LEMMA FoldsUnchanged ==
    ASSUME FoldsOK, folds' = folds
    PROVE  ClosuresKept /\ FoldsOK'
BY DEF ClosuresKept, FoldsOK, ClosureOf, ClosureIn

LEMMA BranchesKept ==
    ASSUME TypeInv, ClosuresKept, TablesKept
    PROVE  /\ \A t \in 0..Len(tables), b \in Branches :
                BranchIn(folds', tables', t, b) = BranchClosure(t, b)
           /\ \A t \in 1..Len(tables) : tables'[t].heads = TableAt(t)
<1>1. ASSUME NEW t \in 0..Len(tables), NEW b \in Branches
      PROVE  BranchIn(folds', tables', t, b) = BranchClosure(t, b)
  <2>1. CASE t = 0
    BY <2>1 DEF BranchIn, BranchClosure
  <2>2. CASE t # 0
    <3>1. t \in 1..Len(tables) /\ tables'[t] = tables[t]
      BY <2>2 DEF TypeInv, TypeOK, TablesKept
    <3>2. tables[t].heads[b] = None \/ Present(tables[t].heads[b])
      BY <3>1 DEF TypeInv, IdsOK
    <3>3. QED
      BY <2>2, <3>1, <3>2 DEF BranchIn, BranchClosure, ClosuresKept, ClosureOf, ClosureIn
  <2>3. QED
    BY <2>1, <2>2
<1>2. QED
  BY <1>1 DEF TablesKept, TableAt

-----------------------------------------------------------------------------
(* What a step leaves alone. *)

LEMMA AckedKept ==
    ASSUME TypeInv, AckedOK, ClosuresKept, TablesKept,
           UNCHANGED <<marks, process, heads, acked>>,
           Founding => Founding', Founding' => Founding
    PROVE  AckedOK'
<1>1. Latest' = Latest /\ Latest \in 0..Len(tables)
  BY TableAtType DEF Latest
<1>2. \A b \in Branches : BranchIn(folds', tables', Latest, b) = BranchClosure(Latest, b)
  BY <1>1, BranchesKept
<1>3. \A p \in acked : p[1] \in Branches
  BY DEF TypeInv, TypeOK
<1>4. NoLostContribution'
  BY <1>1, <1>2, <1>3
     DEF NoLostContribution, AckedOK, BranchIn, BranchClosure, ClosureOf, ClosureIn
<1>5. \A b \in Branches : ClosureIn(folds', heads[b]) = ClosureOf(heads[b])
  BY DEF ClosuresKept, TypeInv, IdsOK, ClosureOf, ClosureIn
<1>6. ASSUME process = "up", ~Founding
      PROVE  /\ \A b \in Branches : ClosureIn(folds', heads[b]) \subseteq BranchIn(folds', tables', Latest, b)
             /\ \A p \in acked : p[2] \in ClosureIn(folds', heads[p[1]])
  BY <1>2, <1>3, <1>5, <1>6 DEF AckedOK
<1>7. QED
  BY <1>1, <1>4, <1>6 DEF AckedOK, BranchIn, BranchClosure, ClosureOf, ClosureIn

LEMMA SealedKept ==
    ASSUME TypeInv, ClosuresKept, NEW v \in Writers, Sealed(v),
           contribution'[v] = contribution[v],
           pc'[v] = "open" => pc[v] = "open",
           pc'[v] \in {"sealed", "mergable"} \cup Submitted =>
               pc[v] \in {"sealed", "mergable"} \cup Submitted
    PROVE  Sealed(v)'
<1>1. \A b \in Branches : contribution[v].heads[b] # None =>
          ClosureIn(folds', contribution[v].heads[b]) = ClosureOf(contribution[v].heads[b])
  BY DEF ClosuresKept, TypeInv, IdsOK, ClosureOf, ClosureIn
<1>2. \A b \in Branches : contribution'[v].heads[b] # None =>
          contribution'[v].staged[b] \subseteq ClosureIn(folds', contribution'[v].heads[b])
  BY <1>1 DEF Sealed
<1>3. pc'[v] = "open" => contribution'[v].heads = NoHeads
  BY DEF Sealed
<1>4. pc'[v] \in {"sealed", "mergable"} \cup Submitted =>
          \A b \in Branches : contribution'[v].staged[b] # {} => contribution'[v].heads[b] # None
  BY DEF Sealed, Named
<1>5. QED
  BY <1>2, <1>3, <1>4 DEF Sealed, Named, ClosureOf, ClosureIn

LEMMA FoldedKept ==
    ASSUME TypeInv, FoldedOK, ClosuresKept, UNCHANGED <<heads, newHeads, batch>>,
           phase' \in {"fold", "mark", "publish"} =>
               phase \in {"fold", "mark", "publish"} /\ todo' = todo,
           \A v \in batch : contribution'[v] = contribution[v]
    PROVE  FoldedOK'
<1> SUFFICES ASSUME phase' \in {"fold", "mark", "publish"}, NEW b \in Branches
             PROVE  /\ ClosureIn(folds', heads[b]) \subseteq ClosureIn(folds', Moved[b])
                    /\ b \notin todo =>
                          \A v \in batch : contribution[v].staged[b] # {} =>
                              ClosureIn(folds', contribution[v].heads[b])
                                  \subseteq ClosureIn(folds', Moved[b])
  BY DEF FoldedOK, Moved, Named, ClosureOf, ClosureIn
<1>1. Moved[b] = None \/ Present(Moved[b])
  BY DEF Moved, Overlay, TypeInv, IdsOK
<1>2. heads[b] = None \/ Present(heads[b])
  BY DEF TypeInv, IdsOK
<1>a. batch \subseteq Writers
  BY DEF TypeInv, TypeOK
<1>3. \A v \in batch : contribution[v].heads[b] = None \/ Present(contribution[v].heads[b])
  BY <1>a DEF TypeInv, IdsOK
<1>4. QED
  BY <1>1, <1>2, <1>3 DEF FoldedOK, ClosuresKept, Named, ClosureOf, ClosureIn

LEMMA ReceiptsKept ==
    ASSUME TypeInv, ReceiptsOK, ClosuresKept, TablesKept,
           \A w \in Writers : receipt'[w] \in {0, receipt[w]},
           \A w \in Writers : outcome'[w] = "ok" =>
               /\ outcome[w] = "ok"
               /\ receipt'[w] = receipt[w]
               /\ contribution'[w].staged = contribution[w].staged
    PROVE  ReceiptsOK'
<1>1. \A w \in Writers : receipt'[w] \in 0..Len(tables')
  <2>1. Len(tables) \in Nat
    BY DEF TypeInv, TypeOK
  <2>2. QED
    BY <2>1 DEF ReceiptsOK, TablesKept
<1>2. ASSUME NEW w \in Writers, outcome'[w] = "ok", NEW b \in Branches
      PROVE  contribution'[w].staged[b] \subseteq BranchIn(folds', tables', receipt'[w], b)
  BY <1>2, BranchesKept DEF ReceiptsOK, ReceiptHolds
<1>3. QED
  BY <1>1, <1>2 DEF ReceiptsOK, ReceiptHolds, BranchClosure, BranchIn, ClosureOf, ClosureIn

LEMMA TablesUnchanged ==
    ASSUME TypeInv, UNCHANGED tables
    PROVE  TablesKept
BY DEF TablesKept, TypeInv, TypeOK

(* A step of one writer off the sequencing thread, outside queue and batch. *)
Early == {"idle", "open", "completing", "staged", "sealed"}

LEMMA WriterStep ==
    ASSUME TypeInv, DurableInv, NEW w \in Writers, w \notin queue \cup batch, pc[w] # "draining",
           UNCHANGED <<folds, tables, marks, process, head, heads, cursor, queue, phase,
                       holder, batch, todo, newHeads, acked>>,
           \A v \in Writers \ {w} : /\ contribution'[v] = contribution[v] /\ pc'[v] = pc[v]
                                    /\ outcome'[v] = outcome[v] /\ receipt'[v] = receipt[v],
           pc'[w] \in Early => outcome'[w] = "pending",
           receipt'[w] \in {0, receipt[w]},
           outcome'[w] = "ok" => /\ outcome[w] = "ok" /\ receipt'[w] = receipt[w]
                                 /\ contribution'[w].staged = contribution[w].staged,
           Sealed(w)'
    PROVE  DurableInv'
<1>1. /\ FoldsOK /\ ControlOK /\ FoldedOK /\ TablesOK /\ MarksOK /\ AckedOK /\ ReceiptsOK
      /\ \A v \in Writers : Sealed(v)
  BY DEF DurableInv
<1>2. FoldsOK' /\ ClosuresKept
  BY <1>1, FoldsUnchanged
<1>3. TablesKept
  BY TablesUnchanged
<1>4. AckedOK'
  BY <1>1, <1>2, <1>3, AckedKept DEF Founding
<1>5. batch \subseteq Writers /\ queue \subseteq Writers
  BY DEF TypeInv, TypeOK
<1>6. FoldedOK'
  BY <1>1, <1>2, <1>5, FoldedKept
<1>7. TablesOK' /\ MarksOK'
  BY <1>1 DEF TablesOK, MarksOK, HeadsArePublished, TableAt, Moved, Latest
<1>8. ASSUME NEW v \in Writers PROVE Sealed(v)'
  <2>1. CASE v = w
    BY <2>1
  <2>2. CASE v # w
    <3>1. Sealed(v) /\ contribution'[v] = contribution[v] /\ pc'[v] = pc[v]
      BY <1>1, <2>2
    <3>2. QED
      BY <3>1, <1>2, SealedKept
  <2>3. QED
    BY <2>1, <2>2
<1>9. ControlOK'
  <2>1. \A v \in queue \cup batch : outcome'[v] = "pending" /\ pc'[v] \in Submitted
    BY <1>1, <1>5 DEF ControlOK
  <2>2. \A v \in Writers : pc'[v] \in Early => outcome'[v] = "pending"
    BY <1>1 DEF ControlOK, Early
  <2>3. QED
    BY <1>1, <2>1, <2>2 DEF ControlOK, Early
<1>10. ReceiptsOK'
  <2>1. /\ \A v \in Writers : receipt'[v] \in {0, receipt[v]}
        /\ \A v \in Writers : outcome'[v] = "ok" =>
               /\ outcome[v] = "ok"
               /\ receipt'[v] = receipt[v]
               /\ contribution'[v].staged = contribution[v].staged
    OBVIOUS
  <2>2. QED
    BY <2>1, <1>1, <1>2, <1>3, ReceiptsKept
<1>11. QED
  BY <1>2, <1>4, <1>6, <1>7, <1>8, <1>9, <1>10 DEF DurableInv

LEMMA ContributeKeeps ==
    ASSUME TypeInv, DurableInv, NEW w \in Writers,
           \/ \E scope \in Scopes : NewContribution(w, scope)
           \/ \E b \in Branches, S \in Batches : AddClaims(w, b, S)
           \/ \E b \in Branches : StageBranch(w, b)
           \/ RefuseBranch(w)
           \/ Persist(w)
           \/ Drop(w)
           \/ Return(w)
    PROVE  DurableInv'
<1> USE DEF durable, memory, section, writers, bounds
<1>1. ControlOK /\ Sealed(w)
  BY DEF DurableInv
<1>2. /\ pc \in [Writers -> Stations] /\ contribution \in [Writers -> ContributionType]
      /\ outcome \in [Writers -> {"pending", "ok", "error"}] /\ receipt \in [Writers -> Nat]
  BY DEF TypeInv, TypeOK
<1>3. contribution[w] \in ContributionType /\ \A b \in Branches : contribution[w].heads[b] # None =>
          Present(contribution[w].heads[b])
  BY <1>2 DEF TypeInv, IdsOK
<1>5. ASSUME NEW scope \in Scopes, NewContribution(w, scope) PROVE DurableInv'
  <2>1. /\ w \notin queue \cup batch
        /\ pc[w] = "idle" /\ outcome[w] = "pending"
    BY <1>1, <1>5 DEF NewContribution, ControlOK, Submitted
  <2>2. /\ UNCHANGED <<folds, tables, marks, process, head, heads, cursor, queue, phase,
                       holder, batch, todo, newHeads, acked, outcome, receipt>>
        /\ pc'[w] = "open"
        /\ \A v \in Writers \ {w} : contribution'[v] = contribution[v] /\ pc'[v] = pc[v]
        /\ contribution'[w].heads = NoHeads
    BY <1>2, <1>5 DEF NewContribution, NoContribution
  <2>3. Sealed(w)'
    BY <2>2 DEF Sealed, NoHeads, Submitted
  <2>4. QED
    BY <2>1, <2>2, <2>3, WriterStep
<1>6. ASSUME NEW b \in Branches, NEW S \in Batches, AddClaims(w, b, S) PROVE DurableInv'
  <2>1. /\ w \notin queue \cup batch
        /\ pc[w] = "open" /\ outcome[w] = "pending"
    BY <1>1, <1>6 DEF AddClaims, ControlOK, Submitted
  <2>2. /\ UNCHANGED <<folds, tables, marks, process, head, heads, cursor, queue, phase,
                       holder, batch, todo, newHeads, acked, outcome, receipt, pc>>
        /\ \A v \in Writers \ {w} : contribution'[v] = contribution[v]
        /\ contribution'[w].heads = contribution[w].heads
    BY <1>2, <1>3, <1>6 DEF AddClaims, ContributionType
  <2>3. contribution'[w].heads = NoHeads
    BY <2>1, <2>2, <1>1 DEF Sealed
  <2>4. Sealed(w)'
    BY <2>1, <2>2, <2>3 DEF Sealed, NoHeads, Submitted
  <2>5. QED
    BY <2>1, <2>2, <2>4, WriterStep
<1>7. ASSUME NEW b \in Branches, StageBranch(w, b) PROVE DurableInv'
  <2>1. /\ w \notin queue \cup batch
        /\ pc[w] \in {"open", "completing"} /\ outcome[w] = "pending"
    BY <1>1, <1>7 DEF StageBranch, ControlOK, Submitted
  <2>2. /\ UNCHANGED <<folds, tables, marks, process, head, heads, cursor, queue, phase,
                       holder, batch, todo, newHeads, acked, outcome, receipt>>
        /\ pc'[w] = "staged"
        /\ \A v \in Writers \ {w} : contribution'[v] = contribution[v] /\ pc'[v] = pc[v]
        /\ contribution'[w].heads = contribution[w].heads
        /\ contribution'[w].staged = contribution[w].staged
    BY <1>2, <1>3, <1>7 DEF StageBranch, ContributionType
  <2>3. Sealed(w)'
    BY <2>1, <2>2, <1>1 DEF Sealed, Submitted, ClosureOf
  <2>4. QED
    BY <2>1, <2>2, <2>3, WriterStep
<1>8. CASE RefuseBranch(w)
  <2>1. /\ w \notin queue \cup batch
        /\ pc[w] = "staged" /\ outcome[w] = "pending"
    BY <1>1, <1>8 DEF RefuseBranch, ControlOK, Submitted
  <2>2. /\ UNCHANGED <<folds, tables, marks, process, head, heads, cursor, queue, phase,
                       holder, batch, todo, newHeads, acked, outcome, receipt>>
        /\ pc'[w] = "open"
        /\ \A v \in Writers \ {w} : contribution'[v] = contribution[v] /\ pc'[v] = pc[v]
        /\ contribution'[w].heads = NoHeads
    BY <1>2, <1>3, <1>8 DEF RefuseBranch, ContributionType
  <2>3. Sealed(w)'
    BY <2>2 DEF Sealed, NoHeads, Submitted
  <2>4. QED
    BY <2>1, <2>2, <2>3, WriterStep
<1>9. CASE Persist(w)
  <2>1. /\ w \notin queue \cup batch
        /\ pc[w] = "sealed"
    BY <1>1, <1>9 DEF Persist, ControlOK, Submitted
  <2>2. /\ UNCHANGED <<folds, tables, marks, process, head, heads, cursor, queue, phase,
                       holder, batch, todo, newHeads, acked, outcome, receipt, contribution>>
        /\ pc'[w] = "mergable"
        /\ \A v \in Writers \ {w} : pc'[v] = pc[v]
    BY <1>2, <1>9 DEF Persist
  <2>3. Sealed(w)'
    BY <2>1, <2>2, <1>1 DEF Sealed, Named, Submitted, ClosureOf
  <2>4. pc'[w] \notin Early
    BY <2>2 DEF Early
  <2>5. QED
    BY <2>1, <2>2, <2>3, <2>4, WriterStep
<1>10. CASE Drop(w)
  <2>1. w \notin queue \cup batch /\ pc[w] # "draining"
    BY <1>1, <1>10 DEF Drop, ControlOK, Submitted
  <2>2. /\ UNCHANGED <<folds, tables, marks, process, head, heads, cursor, queue, phase,
                       holder, batch, todo, newHeads, acked>>
        /\ pc'[w] = "idle" /\ outcome'[w] = "pending" /\ receipt'[w] = 0
        /\ \A v \in Writers \ {w} : /\ contribution'[v] = contribution[v] /\ pc'[v] = pc[v]
                                     /\ outcome'[v] = outcome[v] /\ receipt'[v] = receipt[v]
        /\ contribution'[w].heads = NoHeads
    BY <1>2, <1>10 DEF Drop, NoContribution
  <2>3. Sealed(w)'
    BY <2>2 DEF Sealed, NoHeads, Submitted
  <2>4. QED
    BY <2>1, <2>2, <2>3, WriterStep
<1>11. CASE Return(w)
  <2>1. /\ w \notin queue \cup batch
        /\ pc[w] = "waiting"
    BY <1>1, <1>11 DEF Return, ControlOK
  <2>2. /\ UNCHANGED <<folds, tables, marks, process, head, heads, cursor, queue, phase,
                       holder, batch, todo, newHeads, acked, outcome, receipt, contribution>>
        /\ pc'[w] = "mergable"
        /\ \A v \in Writers \ {w} : pc'[v] = pc[v]
    BY <1>2, <1>11 DEF Return
  <2>3. Sealed(w)'
    BY <2>1, <2>2, <1>1 DEF Sealed, Named, Submitted, ClosureOf
  <2>4. pc'[w] \notin Early
    BY <2>2 DEF Early
  <2>5. QED
    BY <2>1, <2>2, <2>3, <2>4, WriterStep
<1>12. QED
  BY <1>5, <1>6, <1>7, <1>8, <1>9, <1>10, <1>11

LEMMA MergeKeeps ==
    ASSUME TypeInv, DurableInv, NEW w \in Writers, Merge(w)
    PROVE  DurableInv'
<1>1. /\ FoldsOK /\ ControlOK /\ FoldedOK /\ TablesOK /\ MarksOK /\ AckedOK /\ ReceiptsOK
      /\ \A v \in Writers : Sealed(v)
  BY DEF DurableInv
<1>2. /\ pc \in [Writers -> Stations] /\ outcome \in [Writers -> {"pending", "ok", "error"}]
      /\ receipt \in [Writers -> Nat] /\ queue \subseteq Writers /\ batch \subseteq Writers
  BY DEF TypeInv, TypeOK
<1>3. /\ UNCHANGED <<folds, tables, marks, process, head, heads, cursor, phase, holder, batch,
                     todo, newHeads, acked, contribution>>
      /\ process = "up" /\ pc[w] = "mergable" /\ pc'[w] = "queued" /\ outcome'[w] = "pending" /\ receipt'[w] = 0
      /\ queue' = queue \cup {w}
      /\ \A v \in Writers \ {w} : /\ pc'[v] = pc[v]
                                  /\ outcome'[v] = outcome[v] /\ receipt'[v] = receipt[v]
  BY <1>2 DEF Merge, durable, section
<1>4. FoldsOK' /\ ClosuresKept /\ TablesKept
  BY <1>1, <1>3, FoldsUnchanged, TablesUnchanged
<1>5. w \notin queue \cup batch
  BY <1>1, <1>3 DEF ControlOK, Submitted
<1>6. ControlOK'
  <2>1. \A v \in queue' \cup batch : outcome'[v] = "pending" /\ pc'[v] \in Submitted
    BY <1>1, <1>2, <1>3 DEF ControlOK, Submitted
  <2>2. queue' \cap batch = {}
    BY <1>1, <1>3, <1>5 DEF ControlOK
  <2>3. \A v \in Writers : pc'[v] \in Early => outcome'[v] = "pending"
    BY <1>1, <1>3 DEF ControlOK, Early
  <2>4. QED
    BY <1>1, <1>3, <2>1, <2>2, <2>3 DEF ControlOK, Early
<1>7. ASSUME NEW v \in Writers PROVE Sealed(v)'
  BY <1>1, <1>3, <1>4, SealedKept DEF Submitted
<1>8. FoldedOK'
  BY <1>1, <1>3, <1>4, FoldedKept
<1>9. AckedOK'
  BY <1>1, <1>3, <1>4, AckedKept DEF Founding
<1>10. TablesOK' /\ MarksOK'
  BY <1>1, <1>3 DEF TablesOK, MarksOK, HeadsArePublished, TableAt, Moved, Latest
<1>11. ReceiptsOK'
  <2>1. /\ \A v \in Writers : receipt'[v] \in {0, receipt[v]}
        /\ \A v \in Writers : outcome'[v] = "ok" =>
               /\ outcome[v] = "ok"
               /\ receipt'[v] = receipt[v]
               /\ contribution'[v].staged = contribution[v].staged
    BY <1>3
  <2>2. QED
    BY <2>1, <1>1, <1>4, ReceiptsKept
<1>12. QED
  BY <1>4, <1>6, <1>7, <1>8, <1>9, <1>10, <1>11 DEF DurableInv

LEMMA DrainKeeps ==
    ASSUME TypeInv, DurableInv, NEW w \in Writers, Drain(w)
    PROVE  DurableInv'
<1>1. /\ FoldsOK /\ ControlOK /\ FoldedOK /\ TablesOK /\ MarksOK /\ AckedOK /\ ReceiptsOK
      /\ \A v \in Writers : Sealed(v)
  BY DEF DurableInv
<1>2. /\ pc \in [Writers -> Stations] /\ queue \subseteq Writers /\ batch \subseteq Writers
      /\ heads \in HeadMap
  BY DEF TypeInv, TypeOK
<1>3. /\ UNCHANGED <<folds, tables, marks, process, head, heads, cursor, acked, contribution,
                     outcome, receipt>>
      /\ phase = "free" /\ pc[w] = "queued" /\ pc'[w] \in {"draining", "waiting"} /\ queue' = {}
      /\ \A v \in Writers \ {w} : pc'[v] = pc[v]
  BY <1>2 DEF Drain, durable, section
<1>4. FoldsOK' /\ ClosuresKept /\ TablesKept
  BY <1>1, <1>3, FoldsUnchanged, TablesUnchanged
<1>5. \/ queue = {} /\ UNCHANGED <<phase, batch, todo, newHeads>>
      \/ /\ holder' = w /\ pc'[w] = "draining"
         /\ phase' = "fold" /\ batch' = queue /\ newHeads' = NoHeads
         /\ todo' = UNION {Named(v) : v \in queue}
  BY <1>2 DEF Drain, section
<1>6. ControlOK'
  <2>1. batch' \subseteq queue \cup batch
    BY <1>5
  <2>2. \A v \in batch' : outcome[v] = "pending" /\ pc'[v] \in Submitted
    BY <1>1, <1>2, <1>3, <2>1 DEF ControlOK, Submitted
  <2>3. \A v \in Writers : pc'[v] \in Early => outcome'[v] = "pending"
    BY <1>1, <1>3 DEF ControlOK, Early
  <2>4. phase' \in {"free", "fold"} /\ (process = "up" \/ phase' = "free")
    <3>1. CASE process = "up"
      BY <3>1, <1>3, <1>5
    <3>2. CASE process # "up"
      <4>1. process = "down" /\ queue = {}
        BY <3>2, <1>1 DEF ControlOK, TypeInv, TypeOK
      <4>2. QED
        BY <4>1, <1>3 DEF Drain, section
    <3>3. QED
      BY <3>1, <3>2
  <2>5. phase' = "fold" => holder' \in Writers /\ pc'[holder'] = "draining"
    BY <1>3, <1>5
  <2>6. QED
    BY <1>3, <2>2, <2>3, <2>4, <2>5 DEF ControlOK, Early
<1>7. ASSUME NEW v \in Writers PROVE Sealed(v)'
  BY <1>1, <1>3, <1>4, SealedKept DEF Submitted
<1>8. FoldedOK'
  <2>1. CASE queue = {} /\ UNCHANGED <<phase, batch, todo, newHeads>>
    BY <2>1, <1>1, <1>3, <1>4, FoldedKept
  <2>2. CASE /\ phase' = "fold" /\ batch' = queue /\ newHeads' = NoHeads
             /\ todo' = UNION {Named(v) : v \in queue}
    <3>1. \A b \in Branches : Moved'[b] = heads'[b]
      BY <2>2, <1>3 DEF Moved, Overlay, NoHeads
    <3>2. ASSUME NEW b \in Branches, b \notin todo', NEW v \in batch' PROVE b \notin Named(v)'
      BY <2>2, <1>3, <3>2 DEF Named
    <3>3. QED
      BY <3>1, <3>2 DEF FoldedOK, ClosureOf
  <2>3. QED
    BY <1>5, <2>1, <2>2
<1>9. AckedOK'
  BY <1>1, <1>3, <1>4, <1>5, AckedKept DEF Founding
<1>10. TablesOK' /\ MarksOK'
  BY <1>1, <1>3, <1>5 DEF TablesOK, MarksOK, HeadsArePublished, TableAt, Moved, Latest
<1>11. ReceiptsOK'
  BY <1>1, <1>3, <1>4, ReceiptsKept
<1>12. QED
  BY <1>4, <1>6, <1>7, <1>8, <1>9, <1>10, <1>11 DEF DurableInv

LEMMA SealBranchKeeps ==
    ASSUME TypeInv, DurableInv, NEW w \in Writers, SealBranch(w)
    PROVE  DurableInv'
<1> DEFINE b == contribution[w].at
           own == contribution[w].staged[b]
           roots == Roots(own)
           fold == Len(folds) + 1
           newHead == IF \E r \in roots : roots = {r} THEN CHOOSE r \in roots : TRUE ELSE fold
           C == {fold} \cup Reach(roots)
<1>1. /\ FoldsOK /\ ControlOK /\ FoldedOK /\ TablesOK /\ MarksOK /\ AckedOK /\ ReceiptsOK
      /\ \A v \in Writers : Sealed(v)
  BY DEF DurableInv
<1>2. /\ pc \in [Writers -> Stations] /\ contribution \in [Writers -> ContributionType]
      /\ contribution[w] \in ContributionType /\ queue \subseteq Writers /\ batch \subseteq Writers
  BY DEF TypeInv, TypeOK
<1>3. b \in Branches /\ own \subseteq Claims /\ roots \subseteq Claims
  BY <1>2 DEF SealBranch, TypeInv, IdsOK, ContributionType, Roots
<1>4. fold \in Nat \ {0} /\ fold \notin Claims /\ None \notin Claims /\ None # fold
  BY ConstantsAssumption DEF TypeInv, TypeOK
<1>5. \A j \in Reach(roots) : j \in Claims /\ ReachFrom[j] \subseteq Reach(roots)
  BY <1>3, ReachIsTransitive DEF Reach
<1>6. own \subseteq Reach(roots)
  BY <1>3, RootsCover
<1>7. folds' = IF newHead = fold THEN Append(folds, C) ELSE folds
  BY DEF SealBranch
<1>8. /\ ClosuresKept /\ FoldsOK'
      /\ newHead # None /\ own \subseteq ClosureIn(folds', newHead)
  <2>1. CASE newHead = fold
    <3>1. C \in SUBSET Id
      BY <1>4, <1>5 DEF Id
    <3>2. \A j \in C : j = fold \/ (Present(j) /\ ClosureOf(j) \subseteq C)
      BY <1>4, <1>5 DEF Present, ClosureOf
    <3>3. folds' = Append(folds, C) /\ fold \in C
      BY <2>1, <1>7
    <3>4. ClosuresKept /\ FoldsOK' /\ ClosureIn(folds', fold) = C
      BY <3>1, <3>2, <3>3, <1>1, FoldExtends
    <3>5. QED
      BY <2>1, <3>4, <1>4, <1>6
  <2>2. CASE newHead # fold
    <3>1. PICK r \in roots : roots = {r}
      BY <2>2
    <3>2. newHead = r /\ r \in Claims
      BY <3>1, <1>3
    <3>3. Reach(roots) = ReachFrom[r]
      BY <3>1 DEF Reach
    <3>4. folds' = folds
      BY <2>2, <1>7
    <3>5. QED
      BY <3>2, <3>3, <3>4, <1>1, <1>4, <1>6, FoldsUnchanged DEF ClosureIn
  <2>3. QED
    BY <2>1, <2>2
<1> HIDE DEF newHead
<1>9. /\ contribution' = [contribution EXCEPT ![w] =
              [contribution[w] EXCEPT !.heads[b] = newHead, !.at = None]]
      /\ pc' = [pc EXCEPT ![w] =
                    IF \A n \in Named(w) \ {b} : contribution[w].heads[n] # None
                    THEN "sealed" ELSE "completing"]
      /\ pc[w] = "staged"
      /\ UNCHANGED <<tables, marks, process, head, heads, cursor, queue, phase, holder, batch,
                     todo, newHeads, acked, outcome, receipt>>
  BY DEF SealBranch, newHead, memory, section
<1>10. /\ \A v \in Writers \ {w} : contribution'[v] = contribution[v] /\ pc'[v] = pc[v]
       /\ contribution'[w].staged = contribution[w].staged
       /\ contribution'[w].heads = [contribution[w].heads EXCEPT ![b] = newHead]
       /\ contribution[w].heads \in HeadMap
       /\ pc'[w] \in {"sealed", "completing"}
       /\ pc'[w] = "sealed" => \A n \in Named(w) \ {b} : contribution[w].heads[n] # None
  BY <1>2, <1>9 DEF ContributionType
<1>11. w \notin queue \cup batch /\ outcome[w] = "pending"
  BY <1>1, <1>9 DEF ControlOK, Submitted
<1>12. TablesKept
  BY <1>9, TablesUnchanged
<1>13. Sealed(w)'
  <2>1. \A c \in Branches : contribution'[w].heads[c] # None =>
            contribution'[w].staged[c] \subseteq ClosureIn(folds', contribution'[w].heads[c])
    <3> SUFFICES ASSUME NEW c \in Branches, contribution'[w].heads[c] # None
                 PROVE  contribution'[w].staged[c] \subseteq ClosureIn(folds', contribution'[w].heads[c])
      OBVIOUS
    <3>1. CASE c = b
      BY <3>1, <1>8, <1>10, <1>3 DEF HeadMap
    <3>2. CASE c # b
      <4>1. contribution'[w].heads[c] = contribution[w].heads[c] /\ Present(contribution[w].heads[c])
        BY <3>2, <1>10 DEF HeadMap, TypeInv, IdsOK
      <4>2. contribution[w].staged[c] \subseteq ClosureIn(folds, contribution[w].heads[c])
        BY <4>1, <1>1 DEF Sealed, ClosureOf, ClosureIn
      <4>3. QED
        BY <4>1, <4>2, <1>8, <1>10 DEF ClosuresKept
    <3>3. QED
      BY <3>1, <3>2
  <2>2. pc'[w] = "sealed" => \A c \in Branches : contribution'[w].staged[c] # {} =>
            contribution'[w].heads[c] # None
    BY <1>3, <1>8, <1>10 DEF Named, HeadMap
  <2>3. QED
    BY <2>1, <2>2, <1>10 DEF Sealed, Named, Submitted, ClosureOf, ClosureIn
<1>14. ASSUME NEW v \in Writers PROVE Sealed(v)'
  <2>1. CASE v = w
    BY <2>1, <1>13
  <2>2. CASE v # w
    <3>1. Sealed(v) /\ contribution'[v] = contribution[v] /\ pc'[v] = pc[v]
      BY <2>2, <1>1, <1>10
    <3>2. QED
      BY <3>1, <1>8, SealedKept
  <2>3. QED
    BY <2>1, <2>2
<1>15. ControlOK'
  <2>1. \A v \in queue \cup batch : pc'[v] = pc[v]
    BY <1>2, <1>10, <1>11
  <2>2. \A v \in Writers : pc'[v] \in Early => outcome[v] = "pending"
    BY <1>1, <1>10, <1>11 DEF ControlOK, Early
  <2>3. QED
    BY <1>1, <1>9, <2>1, <2>2 DEF ControlOK, Early
<1>16. FoldedOK'
  <2>1. \A v \in batch : contribution'[v] = contribution[v]
    BY <1>2, <1>10, <1>11
  <2>2. QED
    BY <2>1, <1>1, <1>8, <1>9, FoldedKept
<1>17. AckedOK'
  BY <1>1, <1>8, <1>9, <1>12, AckedKept DEF Founding
<1>18. TablesOK' /\ MarksOK'
  BY <1>1, <1>9 DEF TablesOK, MarksOK, HeadsArePublished, TableAt, Moved, Latest
<1>19. ReceiptsOK'
  <2>1. \A v \in Writers : contribution'[v].staged = contribution[v].staged
    BY <1>10
  <2>2. QED
    BY <2>1, <1>1, <1>8, <1>9, <1>12, ReceiptsKept
<1>20. QED
  BY <1>8, <1>14, <1>15, <1>16, <1>17, <1>18, <1>19 DEF DurableInv

LEMMA FoldBranchKeeps ==
    ASSUME TypeInv, DurableInv, NEW b \in Branches, FoldBranch(b)
    PROVE  DurableInv'
<1> DEFINE set == FoldSet(b)
           fold == Len(folds) + 1
           newHead == IF \E h \in set : set = {h} THEN CHOOSE h \in set : TRUE ELSE fold
           C == {fold} \cup UNION {ClosureOf(h) : h \in set}
<1>1. /\ FoldsOK /\ ControlOK /\ FoldedOK /\ TablesOK /\ MarksOK /\ AckedOK /\ ReceiptsOK
      /\ \A v \in Writers : Sealed(v)
  BY DEF DurableInv
<1>2. /\ batch \subseteq Writers /\ heads \in HeadMap /\ newHeads \in HeadMap
      /\ fold \in Nat \ {0} /\ fold \notin Claims /\ None # fold
  BY ConstantsAssumption DEF TypeInv, TypeOK
<1>3. heads[b] = None \/ Present(heads[b])
  BY DEF TypeInv, IdsOK
<1>4. \A h \in Contributed(b) : h # None /\ Present(h)
  BY <1>2 DEF Contributed, TypeInv, IdsOK
<1>5. \A h \in set : h # None /\ Present(h)
  BY <1>3, <1>4 DEF FoldSet, Fresh
(* The branch's old head stays within reach of what is folded. *)
<1>6. heads[b] = None \/ \E g \in set : ClosureOf(heads[b]) \subseteq ClosureOf(g)
  <2>1. CASE heads[b] = None \/ heads[b] \in set
    BY <2>1
  <2>2. CASE heads[b] # None /\ heads[b] \notin set
    <3>1. PICK g \in Fresh(b) : heads[b] \in ClosureOf(g)
      BY <2>2 DEF FoldSet
    <3>2. g \in set /\ Present(g)
      BY <3>1, <1>4 DEF FoldSet, Fresh
    <3>3. QED
      BY <3>1, <3>2, <1>1, ClosureTransitive
  <2>3. QED
    BY <2>1, <2>2
(* And so does every head the batch contributes to it. *)
<1>7. \A h \in Contributed(b) : h \in set \/ ClosureOf(h) \subseteq ClosureOf(heads[b])
  BY <1>1, <1>3, ClosureTransitive DEF FoldSet, Fresh
<1>8. \A v \in batch : b \in Named(v) => contribution[v].heads[b] \in Contributed(b)
  BY <1>1, <1>2 DEF Contributed, ControlOK, Sealed
<1>9. /\ phase = "fold" /\ todo' = todo \ {b}
      /\ UNCHANGED <<tables, marks, process, head, heads, cursor, queue, phase, holder, batch, pc,
                     contribution, outcome, receipt, acked>>
  BY DEF FoldBranch, memory, writers
<1>10. ASSUME ClosuresKept, FoldsOK', FoldedOK', newHeads' \in HeadMap PROVE DurableInv'
  <2>1. TablesKept
    BY <1>9, TablesUnchanged
  <2>2. AckedOK'
    BY <1>1, <1>9, <1>10, <2>1, AckedKept DEF Founding
  <2>3. ASSUME NEW v \in Writers PROVE Sealed(v)'
    BY <1>1, <1>9, <1>10, SealedKept
  <2>4. ReceiptsOK'
    BY <1>1, <1>9, <1>10, <2>1, ReceiptsKept
  <2>5. ControlOK' /\ MarksOK'
    BY <1>1, <1>9 DEF ControlOK, MarksOK, Latest
  <2>6. TablesOK'
    BY <1>1, <1>9 DEF TablesOK, HeadsArePublished, TableAt
  <2>7. QED
    BY <1>10, <2>2, <2>3, <2>4, <2>5, <2>6 DEF DurableInv
<1>11. CASE Fresh(b) = {}
  <2>1. UNCHANGED <<folds, newHeads>>
    BY <1>11 DEF FoldBranch
  <2>2. ClosuresKept /\ FoldsOK'
    BY <2>1, <1>1, FoldsUnchanged
  <2>3. \A v \in batch : b \in Named(v) => ClosureOf(contribution[v].heads[b]) \subseteq ClosureOf(heads[b])
    BY <1>1, <1>3, <1>8, <1>11, ClosureTransitive DEF Fresh
  <2>4. \A c \in Branches : ClosureOf(heads[c]) \subseteq ClosureOf(Moved[c])
    BY <1>1, <1>9 DEF FoldedOK
  <2>5. ASSUME NEW c \in Branches, c \notin todo \ {b}, NEW v \in batch, c \in Named(v)
        PROVE  ClosureOf(contribution[v].heads[c]) \subseteq ClosureOf(Moved[c])
    <3>1. CASE c = b
      BY <3>1, <2>3, <2>4, <2>5
    <3>2. CASE c # b
      BY <3>2, <2>5, <1>1, <1>9 DEF FoldedOK
    <3>3. QED
      BY <3>1, <3>2
  <2>6. FoldedOK'
    BY <1>9, <2>1, <2>4, <2>5 DEF FoldedOK, Moved, Named, ClosureOf
  <2>7. QED
    BY <1>10, <1>2, <2>1, <2>2, <2>6
<1>12. CASE Fresh(b) # {}
  <2>1. /\ newHeads' = [newHeads EXCEPT ![b] = newHead]
        /\ folds' = IF newHead = fold THEN Append(folds, C) ELSE folds
    BY <1>12 DEF FoldBranch
  <2>2. /\ ClosuresKept /\ FoldsOK'
        /\ newHead # None /\ newHead \in Id
        /\ \A g \in set : ClosureOf(g) \subseteq ClosureIn(folds', newHead)
    <3>1. CASE newHead = fold
      <4>1. \A g \in set : ClosureOf(g) \subseteq Id /\ \A j \in ClosureOf(g) : Present(j)
        BY <1>5, ClosureType
      <4>2. C \in SUBSET Id
        BY <4>1, <1>2 DEF Id
      <4>3. \A g \in set : \A j \in ClosureOf(g) : ClosureOf(j) \subseteq ClosureOf(g)
        BY <1>1, <1>5, ClosureTransitive
      <4>4. \A j \in C : j = fold \/ (Present(j) /\ ClosureOf(j) \subseteq C)
        BY <4>1, <4>3
      <4>5. folds' = Append(folds, C) /\ fold \in C
        BY <3>1, <2>1
      <4>6. ClosuresKept /\ FoldsOK' /\ ClosureIn(folds', fold) = C
        BY <4>2, <4>4, <4>5, <1>1, FoldExtends
      <4>7. QED
        BY <3>1, <4>6, <1>2 DEF Id
    <3>2. CASE newHead # fold
      <4>1. PICK g \in set : set = {g}
        BY <3>2
      <4>2. newHead = g /\ Present(g) /\ g # None
        BY <4>1, <1>5
      <4>3. folds' = folds
        BY <3>2, <2>1
      <4>4. newHead \in Id
        BY <4>2 DEF Present, Id
      <4>5. QED
        BY <4>1, <4>2, <4>3, <4>4, <1>1, FoldsUnchanged DEF ClosureOf, ClosureIn
    <3>3. QED
      BY <3>1, <3>2
  <2> HIDE DEF newHead
  <2>3. newHeads' \in HeadMap /\ Moved' \in [Branches -> Id \cup {None}]
        /\ Moved'[b] = newHead /\ \A c \in Branches \ {b} : Moved'[c] = Moved[c]
    BY <2>1, <2>2, <1>2, <1>9 DEF HeadMap, Moved, Overlay
  <2>4. ClosureOf(heads[b]) \subseteq ClosureIn(folds', newHead)
    BY <1>6, <2>2 DEF ClosureOf
  <2>5. \A v \in batch : b \in Named(v) =>
            ClosureOf(contribution[v].heads[b]) \subseteq ClosureIn(folds', newHead)
    BY <1>7, <1>8, <2>2, <2>4
  <2>6. ASSUME NEW c \in Branches
        PROVE  /\ ClosureIn(folds', heads[c]) \subseteq ClosureIn(folds', Moved'[c])
               /\ c \notin todo' =>
                    \A v \in batch : c \in Named(v) =>
                        ClosureIn(folds', contribution[v].heads[c]) \subseteq ClosureIn(folds', Moved'[c])
    <3>1. ClosureIn(folds', heads[c]) = ClosureOf(heads[c])
      BY <2>2 DEF ClosuresKept, TypeInv, IdsOK, ClosureOf, ClosureIn
    <3>2. \A v \in batch : ClosureIn(folds', contribution[v].heads[c]) = ClosureOf(contribution[v].heads[c])
      BY <1>2, <2>2 DEF ClosuresKept, TypeInv, IdsOK, ClosureOf, ClosureIn
    <3>3. CASE c = b
      BY <3>1, <3>2, <3>3, <2>3, <2>4, <2>5
    <3>4. CASE c # b
      <4>1. Moved[c] = None \/ Present(Moved[c])
        BY DEF Moved, Overlay, TypeInv, IdsOK
      <4>2. ClosureIn(folds', Moved'[c]) = ClosureOf(Moved[c])
        BY <3>4, <4>1, <2>2, <2>3 DEF ClosuresKept, ClosureOf, ClosureIn
      <4>3. QED
        BY <3>1, <3>2, <3>4, <4>2, <1>1, <1>9 DEF FoldedOK
    <3>5. QED
      BY <3>3, <3>4
  <2>7. FoldedOK'
    BY <1>9, <2>6 DEF FoldedOK, Named, ClosureOf, ClosureIn
  <2>8. QED
    BY <1>10, <2>2, <2>3, <2>7
<1>13. QED
  BY <1>11, <1>12

-----------------------------------------------------------------------------
(* The sequencing thread. *)

(* A bookmark write makes its table the newest one recorded. *)
LEMMA TopOfList ==
    ASSUME TypeInv, MarksOK, NEW t \in 1..Len(tables), PutMark(NextIndex, t)
    PROVE  /\ Len(marks') = NextIndex
           /\ Latest' = t
           /\ cursor # 0 => Len(marks') = cursor + 1
<1>1. marks \in Seq(Nat) /\ Len(marks) \in Nat /\ cursor \in Nat /\ t \in Nat
  BY DEF TypeInv, TypeOK
<1>2. NextIndex \in Nat \ {0} /\ NextIndex \in {Len(marks), Len(marks) + 1}
  BY <1>1 DEF NextIndex, MarksOK
<1>3. CASE NextIndex = Len(marks) + 1
  <2>1. marks' = Append(marks, t)
    BY <1>1, <1>3 DEF PutMark
  <2>2. Len(marks') = Len(marks) + 1 /\ marks'[Len(marks) + 1] = t /\ marks' # <<>>
    BY <1>1, <2>1
  <2>3. QED
    BY <1>3, <2>2 DEF Latest, NextIndex
<1>4. CASE NextIndex = Len(marks)
  <2>1. marks' = [marks EXCEPT ![Len(marks)] = t] /\ Len(marks) \in 1..Len(marks)
    BY <1>1, <1>2, <1>4 DEF PutMark
  <2>2. Len(marks') = Len(marks) /\ marks'[Len(marks)] = t /\ marks' # <<>>
    BY <1>1, <2>1
  <2>3. QED
    BY <1>1, <1>4, <2>2 DEF Latest, NextIndex
<1>5. QED
  BY <1>2, <1>3, <1>4

(* drain hands out the outcomes and unlocks. *)
LEMMA FinishKeeps ==
    ASSUME TypeInv, DurableInv, NEW result, NEW k, FinishBatch(result, k),
           phase \in {"fold", "mark", "publish"}, UNCHANGED <<folds, tables>>
    PROVE  /\ FoldsOK' /\ ControlOK' /\ FoldedOK' /\ ClosuresKept /\ TablesKept
           /\ \A v \in Writers : Sealed(v)'
           /\ phase' = "free" /\ contribution' = contribution /\ process' = process
           /\ cursor' = cursor
           /\ \A v \in Writers : /\ v \in batch => outcome'[v] = result /\ receipt'[v] = k
                                 /\ v \notin batch => outcome'[v] = outcome[v] /\ receipt'[v] = receipt[v]
<1>1. FoldsOK /\ ControlOK /\ \A v \in Writers : Sealed(v)
  BY DEF DurableInv
<1>2. pc \in [Writers -> Stations] /\ queue \subseteq Writers
  BY DEF TypeInv, TypeOK
<1>3. /\ phase' = "free" /\ contribution' = contribution /\ process' = process
      /\ cursor' = cursor /\ queue' = queue /\ batch' = {}
      /\ \A v \in Writers : pc'[v] = IF v = holder THEN "waiting" ELSE pc[v]
      /\ \A v \in Writers : /\ v \in batch => outcome'[v] = result /\ receipt'[v] = k
                            /\ v \notin batch => outcome'[v] = outcome[v] /\ receipt'[v] = receipt[v]
  BY <1>2 DEF FinishBatch
<1>4. FoldsOK' /\ ClosuresKept /\ TablesKept
  BY <1>1, FoldsUnchanged, TablesUnchanged
<1>5. FoldedOK'
  BY <1>3 DEF FoldedOK
<1>6. ASSUME NEW v \in Writers PROVE Sealed(v)'
  <2>1. /\ pc'[v] = "open" => pc[v] = "open"
        /\ pc'[v] \in {"sealed", "mergable"} \cup Submitted =>
              pc[v] \in {"sealed", "mergable"} \cup Submitted
    BY <1>1, <1>3 DEF ControlOK, Submitted
  <2>2. QED
    BY <2>1, <1>1, <1>3, <1>4, SealedKept
<1>7. ControlOK'
  <2>1. \A v \in queue : outcome'[v] = "pending" /\ pc'[v] \in Submitted
    BY <1>1, <1>2, <1>3 DEF ControlOK, Submitted
  <2>2. \A v \in Writers : pc'[v] \in Early => outcome'[v] = "pending"
    BY <1>1, <1>3 DEF ControlOK, Early, Submitted
  <2>3. QED
    BY <1>1, <1>3, <2>1, <2>2 DEF ControlOK, Early
<1>8. QED
  BY <1>3, <1>4, <1>5, <1>6, <1>7

(* Once every branch is folded, what the batch staged is reached from where *)
(* the branches stand then.                                                 *)
LEMMA BatchReached ==
    ASSUME TypeInv, DurableInv, phase \in {"fold", "mark", "publish"}, todo = {}
    PROVE  /\ \A v \in batch, b \in Branches :
                 contribution[v].staged[b] \subseteq ClosureOf(Moved[b])
           /\ \A p \in BatchPairs : p[1] \in Branches /\ p[2] \in ClosureOf(Moved[p[1]])
<1>1. FoldedOK /\ ControlOK /\ \A v \in Writers : Sealed(v)
  BY DEF DurableInv
<1>2. batch \subseteq Writers
  BY DEF TypeInv, TypeOK
<1>3. ASSUME NEW v \in batch, NEW b \in Branches
      PROVE  contribution[v].staged[b] \subseteq ClosureOf(Moved[b])
  <2>1. CASE b \in Named(v)
    <3>1. contribution[v].heads[b] # None
      BY <2>1, <1>1, <1>2 DEF ControlOK, Sealed
    <3>2. contribution[v].staged[b] \subseteq ClosureOf(contribution[v].heads[b])
      BY <3>1, <1>1, <1>2 DEF Sealed
    <3>3. QED
      BY <2>1, <3>2, <1>1 DEF FoldedOK
  <2>2. CASE b \notin Named(v)
    BY <2>2 DEF Named
  <2>3. QED
    BY <2>1, <2>2
<1>4. QED
  BY <1>3 DEF BatchPairs

(* The table a commit minted reaches what was acknowledged before. *)
LEMMA AckedAtMark ==
    ASSUME TypeInv, DurableInv, phase \in {"mark", "publish"},
           UNCHANGED <<folds, tables, process, heads, acked>>, Latest' = Len(tables), ~Founding'
    PROVE  AckedOK'
<1>1. FoldedOK /\ ControlOK /\ TablesOK /\ AckedOK
  BY DEF DurableInv
<1>2. process = "up" /\ ~Founding /\ Len(tables) # 0
  BY <1>1 DEF ControlOK, Founding, TypeInv, TypeOK, IdsOK
<1>3. \A b \in Branches : ClosureOf(heads[b]) \subseteq BranchClosure(Len(tables), b)
  BY <1>1, <1>2 DEF FoldedOK, TablesOK, BranchClosure
<1>4. \A p \in acked : p[1] \in Branches /\ p[2] \in ClosureOf(heads[p[1]])
  BY <1>1, <1>2 DEF AckedOK, TypeInv, TypeOK
<1>5. \A p \in acked : p[2] \in BranchClosure(Len(tables), p[1])
  BY <1>3, <1>4
<1>6. QED
  BY <1>3, <1>4, <1>5 DEF AckedOK, NoLostContribution, BranchClosure, ClosureOf

LEMMA NoAdvanceKeeps ==
    ASSUME TypeInv, DurableInv, NoAdvance
    PROVE  DurableInv'
<1>1. FoldedOK /\ ControlOK /\ TablesOK /\ MarksOK /\ AckedOK /\ ReceiptsOK
  BY DEF DurableInv
<1>2. /\ phase = "fold" /\ todo = {} /\ newHeads = NoHeads
      /\ acked' = acked \cup BatchPairs
      /\ FinishBatch("ok", head)
      /\ UNCHANGED <<folds, tables, marks, head, heads>>
  BY DEF NoAdvance, durable
<1>3. /\ FoldsOK' /\ ControlOK' /\ FoldedOK' /\ ClosuresKept /\ TablesKept
      /\ \A v \in Writers : Sealed(v)'
      /\ phase' = "free" /\ contribution' = contribution /\ process' = process /\ cursor' = cursor
      /\ \A v \in Writers : /\ v \in batch => outcome'[v] = "ok" /\ receipt'[v] = head
                            /\ v \notin batch => outcome'[v] = outcome[v] /\ receipt'[v] = receipt[v]
  BY <1>2, FinishKeeps
<1>4. \A b \in Branches : Moved[b] = heads[b]
  BY <1>2 DEF Moved, Overlay, NoHeads
<1>5. process = "up" /\ ~Founding
  BY <1>1, <1>2 DEF ControlOK, Founding, TypeInv, TypeOK
<1>6. \A p \in acked' : p[1] \in Branches /\ p[2] \in ClosureOf(heads[p[1]])
  <2>1. \A p \in BatchPairs : p[1] \in Branches /\ p[2] \in ClosureOf(heads[p[1]])
    BY <1>2, <1>4, BatchReached
  <2>2. \A p \in acked : p[1] \in Branches /\ p[2] \in ClosureOf(heads[p[1]])
    BY <1>1, <1>5 DEF AckedOK, TypeInv, TypeOK
  <2>3. QED
    BY <1>2, <2>1, <2>2
<1>7. \A b \in Branches : ClosureOf(heads[b]) \subseteq BranchClosure(Latest, b)
  BY <1>1, <1>5 DEF AckedOK
<1>8. \A p \in acked' : p[2] \in BranchClosure(Latest, p[1])
  BY <1>6, <1>7
<1>9. AckedOK'
  BY <1>2, <1>3, <1>6, <1>7, <1>8
     DEF AckedOK, NoLostContribution, Founding, BranchClosure, ClosureOf, Latest
<1>10. TablesOK' /\ MarksOK'
  BY <1>1, <1>2, <1>3 DEF TablesOK, MarksOK, HeadsArePublished, TableAt
<1>11. ReceiptsOK'
  <2>1. head \in 0..Len(tables) /\ heads = TableAt(head)
    BY <1>1, <1>2 DEF TypeInv, IdsOK, TablesOK, HeadsArePublished
  <2>2. \A b \in Branches : ClosureOf(heads[b]) = BranchClosure(head, b)
    BY <2>1, TableClosure
  <2>3. ASSUME NEW v \in Writers
        PROVE  /\ receipt'[v] \in 0..Len(tables)
               /\ outcome'[v] = "ok" => \A b \in Branches :
                     contribution[v].staged[b] \subseteq BranchClosure(receipt'[v], b)
    <3>1. CASE v \in batch
      BY <3>1, <1>2, <1>3, <1>4, <2>1, <2>2, BatchReached
    <3>2. CASE v \notin batch
      BY <3>2, <1>1, <1>3 DEF ReceiptsOK, ReceiptHolds
    <3>3. QED
      BY <3>1, <3>2
  <2>4. QED
    BY <2>3, <1>2, <1>3 DEF ReceiptsOK, ReceiptHolds, BranchClosure, ClosureOf
<1>12. QED
  BY <1>3, <1>9, <1>10, <1>11 DEF DurableInv

LEMMA PublishKeeps ==
    ASSUME TypeInv, DurableInv, Publish
    PROVE  DurableInv'
<1>1. FoldedOK /\ ControlOK /\ TablesOK /\ MarksOK /\ AckedOK /\ ReceiptsOK
  BY DEF DurableInv
<1>2. /\ phase = "publish" /\ todo = {}
      /\ heads' = Moved /\ head' = Len(tables)
      /\ acked' = acked \cup BatchPairs
      /\ FinishBatch("ok", Len(tables))
      /\ UNCHANGED <<folds, tables, marks>>
  BY <1>1 DEF Publish, durable, Moved, ControlOK
<1>3. /\ FoldsOK' /\ ControlOK' /\ FoldedOK' /\ ClosuresKept /\ TablesKept
      /\ \A v \in Writers : Sealed(v)'
      /\ phase' = "free" /\ contribution' = contribution /\ process' = process /\ cursor' = cursor
      /\ \A v \in Writers : /\ v \in batch => outcome'[v] = "ok" /\ receipt'[v] = Len(tables)
                            /\ v \notin batch => outcome'[v] = outcome[v] /\ receipt'[v] = receipt[v]
  BY <1>2, FinishKeeps
<1>4. /\ process = "up" /\ ~Founding /\ Len(tables) \in Nat \ {0}
      /\ Latest = Len(tables) /\ tables[Len(tables)].heads = Moved
  BY <1>1, <1>2 DEF ControlOK, Founding, TypeInv, TypeOK, IdsOK, MarksOK, TablesOK
<1>5. \A b \in Branches : ClosureOf(Moved[b]) = BranchClosure(Len(tables), b)
  BY <1>4 DEF BranchClosure
<1>6. \A p \in acked' : p[1] \in Branches /\ p[2] \in ClosureOf(Moved[p[1]])
  <2>1. \A p \in BatchPairs : p[1] \in Branches /\ p[2] \in ClosureOf(Moved[p[1]])
    BY <1>2, BatchReached
  <2>2. \A p \in acked : p[1] \in Branches /\ p[2] \in ClosureOf(heads[p[1]])
    BY <1>1, <1>4 DEF AckedOK, TypeInv, TypeOK
  <2>3. \A b \in Branches : ClosureOf(heads[b]) \subseteq ClosureOf(Moved[b])
    BY <1>1, <1>2 DEF FoldedOK
  <2>4. QED
    BY <1>2, <2>1, <2>2, <2>3
<1>7. AckedOK'
  BY <1>2, <1>3, <1>4, <1>5, <1>6
     DEF AckedOK, NoLostContribution, Founding, BranchClosure, ClosureOf, Latest
<1>8. TablesOK' /\ MarksOK'
  BY <1>1, <1>2, <1>3, <1>4 DEF TablesOK, MarksOK, HeadsArePublished, TableAt
<1>9. ReceiptsOK'
  <2>1. ASSUME NEW v \in Writers
        PROVE  /\ receipt'[v] \in 0..Len(tables)
               /\ outcome'[v] = "ok" => \A b \in Branches :
                     contribution[v].staged[b] \subseteq BranchClosure(receipt'[v], b)
    <3>1. CASE v \in batch
      BY <3>1, <1>2, <1>3, <1>4, <1>5, BatchReached
    <3>2. CASE v \notin batch
      BY <3>2, <1>1, <1>3 DEF ReceiptsOK, ReceiptHolds
    <3>3. QED
      BY <3>1, <3>2
  <2>2. QED
    BY <2>1, <1>2, <1>3 DEF ReceiptsOK, ReceiptHolds, BranchClosure, ClosureOf
<1>10. QED
  BY <1>3, <1>7, <1>8, <1>9 DEF DurableInv

LEMMA CommitFailsKeeps ==
    ASSUME TypeInv, DurableInv, CommitFails
    PROVE  DurableInv'
<1>1. FoldedOK /\ ControlOK /\ TablesOK /\ MarksOK /\ AckedOK /\ ReceiptsOK
  BY DEF DurableInv
<1>2. /\ phase \in {"fold", "mark"}
      /\ UNCHANGED marks \/ (phase = "mark" /\ PutMark(NextIndex, Len(tables)))
      /\ FinishBatch("error", 0)
      /\ UNCHANGED <<folds, tables, head, heads, acked>>
  BY DEF CommitFails
<1>3. /\ FoldsOK' /\ ControlOK' /\ FoldedOK' /\ ClosuresKept /\ TablesKept
      /\ \A v \in Writers : Sealed(v)'
      /\ phase' = "free" /\ contribution' = contribution /\ process' = process /\ cursor' = cursor
      /\ \A v \in Writers : /\ v \in batch => outcome'[v] = "error" /\ receipt'[v] = 0
                            /\ v \notin batch => outcome'[v] = outcome[v] /\ receipt'[v] = receipt[v]
  BY <1>2, FinishKeeps
<1>4. TablesOK'
  BY <1>1, <1>2, <1>3 DEF TablesOK, HeadsArePublished, TableAt
<1>5. ReceiptsOK'
  <2>1. /\ \A v \in Writers : receipt'[v] \in {0, receipt[v]}
        /\ \A v \in Writers : outcome'[v] = "ok" =>
               /\ outcome[v] = "ok"
               /\ receipt'[v] = receipt[v]
               /\ contribution'[v].staged = contribution[v].staged
    BY <1>3
  <2>2. QED
    BY <2>1, <1>1, <1>3, ReceiptsKept
<1>6. CASE UNCHANGED marks
  <2>1. AckedOK'
    BY <1>1, <1>2, <1>3, <1>6, AckedKept DEF Founding
  <2>2. MarksOK'
    BY <1>1, <1>3, <1>6 DEF MarksOK
  <2>3. QED
    BY <1>3, <1>4, <1>5, <2>1, <2>2 DEF DurableInv
<1>7. CASE phase = "mark" /\ PutMark(NextIndex, Len(tables))
  <2>1. Len(tables) \in 1..Len(tables)
    BY <1>7 DEF TypeInv, TypeOK, IdsOK
  <2>2. Latest' = Len(tables) /\ (cursor # 0 => Len(marks') = cursor + 1)
    BY <2>1, <1>1, <1>7, TopOfList
  <2>3. AckedOK'
    BY <1>2, <1>3, <1>7, <2>2, AckedAtMark DEF Founding
  <2>4. MarksOK'
    BY <1>3, <2>2 DEF MarksOK
  <2>5. QED
    BY <1>3, <1>4, <1>5, <2>3, <2>4 DEF DurableInv
<1>8. QED
  BY <1>2, <1>6, <1>7

(* Steps of Found and commit that touch no writer and no head claim. *)
LEMMA ThreadStep ==
    ASSUME TypeInv, DurableInv, TablesKept,
           UNCHANGED <<folds, process, queue, holder, batch, todo, pc, contribution, outcome, receipt>>,
           phase \notin {"free", "foundTable", "foundMark", "foundPublish"} \/
               phase' \notin {"fold", "mark", "publish"},
           phase' \in {"mark", "publish"} => todo = {},
           phase' # "free" => process = "up"
    PROVE  /\ FoldsOK' /\ ClosuresKept /\ ControlOK' /\ ReceiptsOK'
           /\ \A v \in Writers : Sealed(v)'
<1>1. FoldsOK /\ ControlOK /\ ReceiptsOK /\ \A v \in Writers : Sealed(v)
  BY DEF DurableInv
<1>2. FoldsOK' /\ ClosuresKept
  BY <1>1, FoldsUnchanged
<1>3. ReceiptsOK'
  BY <1>1, <1>2, ReceiptsKept
<1>4. ASSUME NEW v \in Writers PROVE Sealed(v)'
  BY <1>1, <1>2, SealedKept
<1>5. phase' \in {"fold", "mark", "publish"} => phase \in {"fold", "mark", "publish"}
  BY DEF TypeInv, TypeOK, Phases
<1>6. ControlOK'
  BY <1>1, <1>5 DEF ControlOK
<1>7. QED
  BY <1>2, <1>3, <1>4, <1>6

LEMMA MintTableKeeps ==
    ASSUME TypeInv, DurableInv, MintTable
    PROVE  DurableInv'
<1>1. FoldedOK /\ ControlOK /\ TablesOK /\ MarksOK /\ AckedOK /\ ReceiptsOK
  BY DEF DurableInv
<1>2. /\ phase = "fold" /\ phase' = "mark" /\ todo = {}
      /\ tables' = Append(tables, [prev |-> head, heads |-> Overlay(TableAt(head), newHeads)])
      /\ UNCHANGED <<folds, marks, process, head, heads, cursor, queue, holder, batch, todo,
                     newHeads, pc, contribution, outcome, receipt, acked>>
  BY DEF MintTable, memory, writers
<1>3. /\ Len(tables') = Len(tables) + 1 /\ Len(tables) \in Nat
      /\ \A t \in 1..Len(tables) : tables'[t] = tables[t]
      /\ tables'[Len(tables) + 1] = [prev |-> head, heads |-> Overlay(TableAt(head), newHeads)]
  BY <1>2, MintedTable DEF TypeInv, TypeOK
<1>4. TablesKept
  BY <1>3 DEF TablesKept
<1>5. process = "up"
  BY <1>1, <1>2 DEF ControlOK, TypeInv, TypeOK
<1>6. /\ FoldsOK' /\ ClosuresKept /\ ControlOK' /\ ReceiptsOK'
      /\ \A v \in Writers : Sealed(v)'
  BY <1>2, <1>4, <1>5, ThreadStep
<1>7. FoldedOK'
  BY <1>1, <1>2, <1>6, FoldedKept
<1>8. AckedOK'
  BY <1>1, <1>2, <1>4, <1>6, AckedKept DEF Founding
<1>9. MarksOK'
  BY <1>1, <1>2 DEF MarksOK
<1>10. TablesOK'
  <2>1. heads = TableAt(head) /\ head \in 0..Len(tables)
    BY <1>1, <1>2 DEF TablesOK, HeadsArePublished, TypeInv, IdsOK
  <2>2. tables'[Len(tables')].heads = Moved
    BY <1>3, <2>1 DEF Moved
  <2>3. TableAt(head)' = TableAt(head)
    BY <1>2, <1>3, <2>1 DEF TableAt
  <2>4. QED
    BY <1>2, <2>1, <2>2, <2>3 DEF TablesOK, HeadsArePublished, Moved
<1>11. QED
  BY <1>6, <1>7, <1>8, <1>9, <1>10 DEF DurableInv

LEMMA AppendMarkKeeps ==
    ASSUME TypeInv, DurableInv, AppendMark
    PROVE  DurableInv'
<1>1. FoldedOK /\ ControlOK /\ TablesOK /\ MarksOK /\ AckedOK /\ ReceiptsOK
  BY DEF DurableInv
<1>2. /\ phase = "mark" /\ phase' = "publish" /\ PutMark(NextIndex, Len(tables)) /\ cursor' = NextIndex
      /\ UNCHANGED <<folds, tables, process, head, heads, queue, holder, batch, todo,
                     newHeads, pc, contribution, outcome, receipt, acked>>
  BY DEF AppendMark, writers
<1>3. Len(tables) \in 1..Len(tables) /\ process = "up" /\ todo = {}
  BY <1>1, <1>2 DEF ControlOK, TypeInv, TypeOK, IdsOK
<1>4. Latest' = Len(tables) /\ Len(marks') = NextIndex
  BY <1>1, <1>2, <1>3, TopOfList
<1>5. TablesKept
  BY <1>2, TablesUnchanged
<1>6. /\ FoldsOK' /\ ClosuresKept /\ ControlOK' /\ ReceiptsOK'
      /\ \A v \in Writers : Sealed(v)'
  BY <1>2, <1>3, <1>5, ThreadStep
<1>7. FoldedOK'
  BY <1>1, <1>2, <1>6, FoldedKept
<1>8. AckedOK'
  BY <1>2, <1>4, AckedAtMark DEF Founding
<1>9. MarksOK'
  BY <1>2, <1>4 DEF MarksOK
<1>10. TablesOK'
  BY <1>1, <1>2 DEF TablesOK, HeadsArePublished, TableAt, Moved
<1>11. QED
  BY <1>6, <1>7, <1>8, <1>9, <1>10 DEF DurableInv

(***************************************************************************)
(* Found's writes after s.head is assigned do not fail while the process   *)
(* lives on.  Without this the theorem is false: FoundFails leaves s.heads *)
(* ahead of a table that no bookmark records.                              *)
(***************************************************************************)
FoundReliable == Faults \cap {"foundTable", "foundMark", "foundLanded"} = {}

LEMMA FoundKeeps ==
    ASSUME TypeInv, DurableInv, Found, FoundReliable
    PROVE  DurableInv'
<1> USE DEF durable, memory, section, writers, bounds
<1>1. FoldedOK /\ ControlOK /\ TablesOK /\ MarksOK /\ AckedOK
  BY DEF DurableInv
<1>2. heads \in HeadMap /\ newHeads \in HeadMap /\ Len(tables) \in Nat
  BY DEF TypeInv, TypeOK
<1>3. phase # "free" => process = "up"
  BY <1>1 DEF ControlOK, TypeInv, TypeOK
<1>4. ASSUME NEW b \in Branches, FoundGenesis(b) PROVE DurableInv'
  <2>1. /\ process = "up" /\ phase = "free" /\ phase' = "foundTable" /\ head = 0
        /\ tables' = Append(tables, [prev |-> 0, heads |-> NoHeads])
        /\ head' = Len(tables) + 1
        /\ heads' = [heads EXCEPT ![b] = Operator]
        /\ newHeads' = [NoHeads EXCEPT ![b] = Operator]
        /\ UNCHANGED <<folds, marks, process, cursor, queue, holder, batch, todo,
                       pc, contribution, outcome, receipt, acked>>
    BY <1>4 DEF FoundGenesis
  <2>2. [prev |-> 0, heads |-> NoHeads] \in Table /\ tables \in Seq(Table)
    BY NoContributionType DEF Table, TypeInv, TypeOK
  <2>3. /\ Len(tables') = Len(tables) + 1
        /\ \A t \in 1..Len(tables) : tables'[t] = tables[t]
        /\ tables'[Len(tables) + 1].heads = NoHeads
    BY <2>1, <2>2
  <2>4. TablesKept
    BY <1>2, <2>3 DEF TablesKept
  <2>5. /\ FoldsOK' /\ ClosuresKept /\ ControlOK' /\ ReceiptsOK'
        /\ \A v \in Writers : Sealed(v)'
    BY <2>1, <2>4, ThreadStep
  <2>6. heads = NoHeads
    BY <1>1, <2>1 DEF TablesOK, HeadsArePublished, TableAt
  <2>7. acked = {}
    <3>1. \A p \in acked : p[1] \in Branches /\ p[2] \in ClosureOf(heads[p[1]])
      BY <1>1, <2>1 DEF AckedOK, Founding, TypeInv, TypeOK
    <3>2. QED
      BY <2>6, <3>1 DEF ClosureOf, NoHeads
  <2>8. FoldedOK' /\ AckedOK' /\ MarksOK'
    BY <1>1, <2>1, <2>7 DEF FoldedOK, AckedOK, NoLostContribution, Founding, MarksOK
  <2>9. TablesOK'
    BY <1>2, <2>1, <2>3, <2>6 DEF TablesOK, HeadsArePublished, TableAt
  <2>10. QED
    BY <2>5, <2>8, <2>9 DEF DurableInv
<1>5. CASE FoundGenesisFails
  <2>1. /\ phase = "free"
        /\ UNCHANGED <<folds, tables, marks, process, head, heads, cursor, queue, phase, holder,
                       batch, todo, newHeads, pc, contribution, outcome, receipt, acked>>
    BY <1>5 DEF FoundGenesisFails
  <2>2. TablesKept
    BY <2>1, TablesUnchanged
  <2>3. /\ FoldsOK' /\ ClosuresKept /\ ControlOK' /\ ReceiptsOK'
        /\ \A v \in Writers : Sealed(v)'
    BY <2>1, <2>2, ThreadStep
  <2>4. AckedOK'
    BY <1>1, <2>1, <2>2, <2>3, AckedKept DEF Founding
  <2>5. FoldedOK' /\ TablesOK' /\ MarksOK'
    BY <1>1, <2>1 DEF FoldedOK, TablesOK, MarksOK, HeadsArePublished, TableAt
  <2>6. QED
    BY <2>3, <2>4, <2>5 DEF DurableInv
<1>6. CASE FoundTable
  <2>1. /\ phase = "foundTable" /\ phase' = "foundMark"
        /\ tables' = Append(tables, [prev |-> head, heads |-> Overlay(TableAt(head), newHeads)])
        /\ UNCHANGED <<folds, marks, process, head, heads, cursor, queue, holder, batch, todo,
                       newHeads, pc, contribution, outcome, receipt, acked>>
    BY <1>6 DEF FoundTable
  <2>2. /\ Len(tables') = Len(tables) + 1
        /\ \A t \in 1..Len(tables) : tables'[t] = tables[t]
        /\ tables'[Len(tables) + 1] = [prev |-> head, heads |-> Overlay(TableAt(head), newHeads)]
    BY <2>1, MintedTable
  <2>3. TablesKept
    BY <1>2, <2>2 DEF TablesKept
  <2>4. /\ FoldsOK' /\ ClosuresKept /\ ControlOK' /\ ReceiptsOK'
        /\ \A v \in Writers : Sealed(v)'
    BY <1>3, <2>1, <2>3, ThreadStep
  <2>5. AckedOK'
    BY <1>1, <2>1, <2>3, <2>4, AckedKept DEF Founding
  <2>6. FoldedOK' /\ MarksOK'
    BY <1>1, <2>1 DEF FoldedOK, MarksOK
  <2>7. TableAt(head) = NoHeads /\ heads = newHeads
    BY <1>1, <2>1 DEF TablesOK
  <2>8. Overlay(NoHeads, newHeads) = newHeads
    BY <1>2 DEF Overlay, NoHeads, HeadMap
  <2>9. tables'[Len(tables')].heads = heads'
    BY <2>1, <2>2, <2>7, <2>8
  <2>10. TablesOK'
    BY <2>1, <2>9 DEF TablesOK, HeadsArePublished
  <2>11. QED
    BY <2>4, <2>5, <2>6, <2>10 DEF DurableInv
<1>7. CASE FoundMark
  <2>1. /\ phase = "foundMark" /\ phase' = "foundPublish"
        /\ PutMark(NextIndex, Len(tables)) /\ cursor' = NextIndex
        /\ UNCHANGED <<folds, tables, process, head, heads, queue, holder, batch, todo,
                       newHeads, pc, contribution, outcome, receipt, acked>>
    BY <1>7 DEF FoundMark
  <2>2. Len(tables) \in 1..Len(tables)
    BY <2>1 DEF TypeInv, TypeOK, IdsOK
  <2>3. Latest' = Len(tables) /\ Len(marks') = NextIndex
    BY <1>1, <2>1, <2>2, TopOfList
  <2>4. TablesKept
    BY <2>1, TablesUnchanged
  <2>5. /\ FoldsOK' /\ ClosuresKept /\ ControlOK' /\ ReceiptsOK'
        /\ \A v \in Writers : Sealed(v)'
    BY <1>3, <2>1, <2>4, ThreadStep
  <2>6. acked = {}
    BY <1>1, <2>1 DEF AckedOK, Founding
  <2>7. FoldedOK' /\ AckedOK' /\ MarksOK' /\ TablesOK'
    BY <1>1, <2>1, <2>3, <2>6
       DEF FoldedOK, AckedOK, NoLostContribution, Founding, MarksOK, TablesOK, HeadsArePublished
  <2>8. QED
    BY <2>5, <2>7 DEF DurableInv
<1>8. CASE FoundPublish
  <2>1. /\ phase = "foundPublish" /\ phase' = "free" /\ head' = Len(tables)
        /\ UNCHANGED <<folds, tables, marks, process, heads, cursor, queue, holder, batch, todo,
                       pc, contribution, outcome, receipt, acked>>
    BY <1>8 DEF FoundPublish
  <2>2. TablesKept
    BY <2>1, TablesUnchanged
  <2>3. /\ FoldsOK' /\ ClosuresKept /\ ControlOK' /\ ReceiptsOK'
        /\ \A v \in Writers : Sealed(v)'
    BY <1>3, <2>1, <2>2, ThreadStep
  <2>4. acked = {} /\ Latest = Len(tables) /\ tables[Len(tables)].heads = heads /\ Len(tables) # 0
    BY <1>1, <2>1 DEF AckedOK, Founding, MarksOK, TablesOK, TypeInv, IdsOK
  <2>5. \A b \in Branches : ClosureOf(heads[b]) = BranchClosure(Latest, b)
    BY <2>4 DEF BranchClosure
  <2>6. AckedOK'
    BY <2>1, <2>4, <2>5 DEF AckedOK, NoLostContribution, BranchClosure, ClosureOf, Latest
  <2>7. FoldedOK' /\ MarksOK' /\ TablesOK'
    BY <1>1, <2>1, <2>4 DEF FoldedOK, MarksOK, TablesOK, HeadsArePublished, TableAt
  <2>8. QED
    BY <2>3, <2>6, <2>7 DEF DurableInv
<1>9. ~FoundFails
  BY DEF FoundFails, Fault, FoundReliable
<1>10. QED
  BY <1>4, <1>5, <1>6, <1>7, <1>8, <1>9 DEF Found

LEMMA RestartKeeps ==
    ASSUME TypeInv, DurableInv, NewSequencer \/ Crash
    PROVE  DurableInv'
<1> USE DEF durable, memory, section, writers, bounds
<1>1. FoldsOK /\ ControlOK /\ TablesOK /\ MarksOK /\ AckedOK /\ ReceiptsOK /\ \A v \in Writers : Sealed(v)
  BY DEF DurableInv
<1>2. UNCHANGED <<folds, tables, marks, acked>>
  BY DEF NewSequencer, Crash
<1>3. FoldsOK' /\ ClosuresKept /\ TablesKept
  BY <1>1, <1>2, FoldsUnchanged, TablesUnchanged
<1>4. NoLostContribution'
  BY <1>1, <1>2 DEF AckedOK, NoLostContribution, BranchClosure, ClosureOf, Latest
<1>5. CASE NewSequencer
  <2>1. /\ process = "down" /\ process' = "up" /\ phase = "free"
        /\ heads' = TableAt(Latest) /\ head' = Latest
        /\ UNCHANGED <<cursor, queue, phase, holder, batch, todo, newHeads, pc, contribution,
                       outcome, receipt>>
    BY <1>1, <1>5 DEF NewSequencer, ControlOK
  <2>2. \A b \in Branches : ClosureOf(TableAt(Latest)[b]) = BranchClosure(Latest, b)
    BY TableClosure
  <2>3. \A p \in acked : p[1] \in Branches
    BY DEF TypeInv, TypeOK
  <2>4. \A p \in acked : p[2] \in ClosureOf(TableAt(Latest)[p[1]])
    BY <1>1, <2>2, <2>3 DEF AckedOK, NoLostContribution
  <2>5. AckedOK'
    BY <1>2, <1>4, <2>1, <2>2, <2>4 DEF AckedOK, Founding, BranchClosure, ClosureOf, Latest
  <2>6. ControlOK'
    BY <1>1, <2>1 DEF ControlOK
  <2>7. FoldedOK' /\ TablesOK' /\ MarksOK'
    BY <1>1, <1>2, <2>1 DEF FoldedOK, TablesOK, HeadsArePublished, TableAt, MarksOK
  <2>8. ASSUME NEW v \in Writers PROVE Sealed(v)'
    BY <1>1, <1>3, <2>1, SealedKept
  <2>9. ReceiptsOK'
    BY <1>1, <1>3, <2>1, ReceiptsKept
  <2>10. QED
    BY <1>3, <2>5, <2>6, <2>7, <2>8, <2>9 DEF DurableInv
<1>6. CASE Crash
  <2>1. /\ process' = "down" /\ phase' = "free" /\ head' = 0 /\ heads' = NoHeads /\ cursor' = 0
        /\ queue' = {} /\ batch' = {} /\ todo' = {}
        /\ \A v \in Writers : /\ pc'[v] = "idle" /\ outcome'[v] = "pending" /\ receipt'[v] = 0
                              /\ contribution'[v].heads = NoHeads
    BY <1>6 DEF Crash, NoContribution
  <2>2. ControlOK' /\ FoldedOK' /\ TablesOK' /\ MarksOK'
    BY <2>1 DEF ControlOK, FoldedOK, TablesOK, HeadsArePublished, TableAt, MarksOK
  <2>3. AckedOK'
    BY <1>4, <2>1 DEF AckedOK, Founding
  <2>4. ASSUME NEW v \in Writers PROVE Sealed(v)'
    BY <2>1 DEF Sealed, NoHeads, Submitted
  <2>5. ReceiptsOK'
    BY <1>1, <1>3, <2>1, ReceiptsKept
  <2>6. QED
    BY <1>3, <2>2, <2>3, <2>4, <2>5 DEF DurableInv
<1>7. QED
  BY <1>5, <1>6

-----------------------------------------------------------------------------
(***************************************************************************)
(* DurableInv is inductive relative to TypeInv.                            *)
(***************************************************************************)
LEMMA Durability ==
    ASSUME FoundReliable
    PROVE  Spec => []DurableInv
<1>1. Init => DurableInv
  <2> SUFFICES ASSUME Init PROVE DurableInv
    OBVIOUS
  <2> USE DEF Init
  <2>1. \A v \in Writers : contribution[v].heads = NoHeads /\ pc[v] = "idle" /\ receipt[v] = 0
    BY DEF NoContribution
  <2>2. \A v \in Writers : Sealed(v)
    BY <2>1 DEF Sealed, NoHeads, Submitted
  <2>3. FoldsOK /\ ControlOK /\ FoldedOK
    BY DEF FoldsOK, ControlOK, FoldedOK
  <2>4. TablesOK /\ MarksOK
    BY DEF TablesOK, MarksOK, HeadsArePublished, TableAt
  <2>5. AckedOK /\ ReceiptsOK
    BY DEF AckedOK, ReceiptsOK, ReceiptHolds, NoLostContribution, Founding
  <2>6. QED
    BY <2>2, <2>3, <2>4, <2>5 DEF DurableInv
<1>2. TypeInv /\ DurableInv /\ [Next]_vars => DurableInv'
  <2> SUFFICES ASSUME TypeInv, DurableInv, [Next]_vars PROVE DurableInv'
    OBVIOUS
  <2>1. CASE NewSequencer \/ Crash
    BY <2>1, RestartKeeps
  <2>2. CASE Found
    BY <2>2, FoundKeeps
  <2>3. ASSUME NEW w \in Writers, Contribute(w) PROVE DurableInv'
    BY <2>3, ContributeKeeps, SealBranchKeeps, MergeKeeps, DrainKeeps DEF Contribute
  <2>4. CASE Commit
    BY <2>4, FoldBranchKeeps, NoAdvanceKeeps, MintTableKeeps, AppendMarkKeeps, PublishKeeps,
       CommitFailsKeeps DEF Commit
  <2>5. CASE UNCHANGED vars
    <3>1. UNCHANGED <<folds, tables, marks, process, head, heads, cursor, queue, phase, holder, batch,
                      todo, newHeads, pc, contribution, outcome, receipt, acked>>
      BY <2>5 DEF vars, durable, memory, section, writers
    <3>2. FoldsOK' /\ ClosuresKept /\ TablesKept
      BY <3>1, FoldsUnchanged, TablesUnchanged DEF DurableInv
    <3>3. AckedOK'
      BY <3>1, <3>2, AckedKept DEF DurableInv, Founding
    <3>4. FoldedOK'
      BY <3>1, <3>2, FoldedKept DEF DurableInv
    <3>5. ReceiptsOK'
      BY <3>1, <3>2, ReceiptsKept DEF DurableInv
    <3>6. ASSUME NEW v \in Writers PROVE Sealed(v)'
      BY <3>1, <3>2, SealedKept DEF DurableInv
    <3>7. ControlOK' /\ MarksOK'
      BY <3>1 DEF DurableInv, ControlOK, MarksOK, Latest
    <3>8. TablesOK'
      BY <3>1 DEF DurableInv, TablesOK, HeadsArePublished, TableAt, Moved
    <3>9. QED
      BY <3>2, <3>3, <3>4, <3>5, <3>6, <3>7, <3>8 DEF DurableInv
  <2>6. QED
    BY <2>1, <2>2, <2>3, <2>4, <2>5 DEF Next
<1>3. QED
  BY <1>1, <1>2, TypeInvariant, PTL DEF Spec

(***************************************************************************)
(* A claim Merge gave a receipt for is on its branch in the archive the    *)
(* newest bookmark records: through failed and ambiguous bookmark writes,  *)
(* crashes between any two writes, retries and group commits (Merge,       *)
(* drain, commit, foldBranch, adopt).                                      *)
(***************************************************************************)
THEOREM NothingLost ==
    ASSUME FoundReliable
    PROVE  Spec => []NoLostContribution
<1>1. DurableInv => NoLostContribution
  BY DEF DurableInv, AckedOK
<1>2. QED
  BY <1>1, Durability, PTL

(***************************************************************************)
(* s.heads, which foldBranch folds onto, is what the table at s.head says  *)
(* whenever commit or adopt left it: a restart folds onto the same heads.  *)
(***************************************************************************)
THEOREM HeadsPublished ==
    ASSUME FoundReliable
    PROVE  Spec => []HeadsArePublished
<1>1. DurableInv => HeadsArePublished
  BY DEF DurableInv, TablesOK
<1>2. QED
  BY <1>1, Durability, PTL

(***************************************************************************)
(* The archive a receipt names holds the whole contribution, whoever's     *)
(* drain committed it.                                                     *)
(***************************************************************************)
THEOREM ReceiptsTrue ==
    ASSUME FoundReliable
    PROVE  Spec => []ReceiptHolds
<1>1. DurableInv => ReceiptHolds
  BY DEF DurableInv, ReceiptsOK
<1>2. QED
  BY <1>1, Durability, PTL

-----------------------------------------------------------------------------
(***************************************************************************)
(* What the archive the bookmark list records may hold: the claims of the  *)
(* contributions merged, all of them verified, and nothing else.           *)
(***************************************************************************)
-----------------------------------------------------------------------------
(* Contributions and the queue, whatever Found did.                        *)

(* A sealed head stands for exactly what was staged and what that cites,    *)
(* nothing is staged after it, and only sealed contributions get further.   *)
Whole(w) ==
    /\ \A b \in Branches : contribution[w].heads[b] # None =>
          ClosureOf(contribution[w].heads[b]) \cap Claims = Reach(contribution[w].staged[b])
    /\ pc[w] = "open" => contribution[w].heads = NoHeads
    /\ pc[w] \in {"sealed", "mergable"} \cup Submitted =>
          \A b \in Named(w) : contribution[w].heads[b] # None

WriterInv == ControlOK /\ \A w \in Writers : Whole(w)

LEMMA WholeKept ==
    ASSUME TypeInv, ClosuresKept, NEW v \in Writers, Whole(v),
           contribution'[v] = contribution[v],
           pc'[v] = "open" => pc[v] = "open",
           pc'[v] \in {"sealed", "mergable"} \cup Submitted =>
               pc[v] \in {"sealed", "mergable"} \cup Submitted
    PROVE  Whole(v)'
<1>1. \A b \in Branches : contribution[v].heads[b] # None =>
          ClosureIn(folds', contribution[v].heads[b]) = ClosureOf(contribution[v].heads[b])
  BY DEF ClosuresKept, TypeInv, IdsOK, ClosureOf, ClosureIn
<1>2. \A b \in Branches : contribution'[v].heads[b] # None =>
          ClosureIn(folds', contribution'[v].heads[b]) \cap Claims = Reach(contribution'[v].staged[b])
  BY <1>1 DEF Whole
<1>3. pc'[v] = "open" => contribution'[v].heads = NoHeads
  BY DEF Whole
<1>4. pc'[v] \in {"sealed", "mergable"} \cup Submitted =>
          \A b \in Branches : contribution'[v].staged[b] # {} => contribution'[v].heads[b] # None
  BY DEF Whole, Named
<1>5. QED
  BY <1>2, <1>3, <1>4 DEF Whole, Named, ClosureOf, ClosureIn

(* A head claim is appended to 𝒰, or nothing is: no closure changes. *)
LEMMA ClosuresOnlyGrow ==
    ASSUME TypeInv, \/ UNCHANGED folds
                    \/ \E C \in SUBSET Id : folds' = Append(folds, C)
    PROVE  /\ ClosuresKept
           /\ \A C \in SUBSET Id : folds' = Append(folds, C) =>
                 ClosureIn(folds', Len(folds) + 1) = C
<1>1. Len(folds) \in Nat /\ Len(folds) + 1 \notin Claims /\ Len(folds) + 1 # None
  BY ConstantsAssumption DEF TypeInv, TypeOK
<1>2. ASSUME UNCHANGED folds PROVE ClosuresKept
  BY <1>2 DEF ClosuresKept
<1>3. ASSUME NEW C \in SUBSET Id, folds' = Append(folds, C)
      PROVE  ClosuresKept /\ ClosureIn(folds', Len(folds) + 1) = C
  <2>1. /\ \A i \in 1..Len(folds) : folds'[i] = folds[i]
        /\ folds'[Len(folds) + 1] = C
    BY <1>3, PresentAfterAppend DEF TypeInv
  <2>2. QED
    BY <1>1, <2>1 DEF ClosuresKept, ClosureIn, Present
<1>4. QED
  BY <1>2, <1>3

(* A step of one writer that touches neither the queue nor the section. *)
LEMMA OwnStep ==
    ASSUME TypeInv, WriterInv, NEW w \in Writers, w \notin queue \cup batch, pc[w] # "draining",
           UNCHANGED <<folds, process, queue, phase, holder, batch, todo>>,
           \A v \in Writers \ {w} : /\ contribution'[v] = contribution[v] /\ pc'[v] = pc[v]
                                    /\ outcome'[v] = outcome[v],
           pc'[w] \in Early => outcome'[w] = "pending",
           Whole(w)'
    PROVE  WriterInv'
<1>1. ControlOK /\ \A v \in Writers : Whole(v)
  BY DEF WriterInv
<1>2. ClosuresKept
  BY ClosuresOnlyGrow
<1>3. ASSUME NEW v \in Writers PROVE Whole(v)'
  BY <1>1, <1>2, WholeKept
<1>4. queue \subseteq Writers /\ batch \subseteq Writers
  BY DEF TypeInv, TypeOK
<1>5. ControlOK'
  BY <1>1, <1>4 DEF ControlOK, Early
<1>6. QED
  BY <1>3, <1>5 DEF WriterInv

LEMMA WriterInvContribute ==
    ASSUME TypeInv, WriterInv, NEW w \in Writers,
           \/ \E scope \in Scopes : NewContribution(w, scope)
           \/ \E b \in Branches, S \in Batches : AddClaims(w, b, S)
           \/ \E b \in Branches : StageBranch(w, b)
           \/ RefuseBranch(w)
           \/ Persist(w)
           \/ Drop(w)
           \/ Return(w)
    PROVE  WriterInv'
<1> USE DEF durable, memory, section, writers, bounds
<1>1. ControlOK /\ Whole(w)
  BY DEF WriterInv
<1>2. /\ pc \in [Writers -> Stations] /\ contribution \in [Writers -> ContributionType]
      /\ outcome \in [Writers -> {"pending", "ok", "error"}]
      /\ contribution[w] \in ContributionType
  BY DEF TypeInv, TypeOK
<1>3. \A b \in Branches : contribution[w].heads[b] = None \/ Present(contribution[w].heads[b])
  BY DEF TypeInv, IdsOK
<1>4. ASSUME NEW scope \in Scopes, NewContribution(w, scope) PROVE WriterInv'
  <2>1. contribution'[w].heads = NoHeads /\ pc'[w] = "open" /\ outcome' = outcome
    BY <1>2, <1>4 DEF NewContribution, NoContribution
  <2>2. Whole(w)'
    BY <2>1 DEF Whole, NoHeads, Submitted
  <2>3. w \notin queue \cup batch /\ outcome'[w] = "pending" /\ pc[w] = "idle"
    BY <1>1, <1>4, <2>1 DEF NewContribution, ControlOK, Submitted
  <2>4. QED
    BY <1>2, <1>4, <2>2, <2>3, OwnStep DEF NewContribution
<1>5. ASSUME NEW b \in Branches, NEW S \in Batches, AddClaims(w, b, S) PROVE WriterInv'
  <2>1. contribution'[w].heads = contribution[w].heads /\ pc[w] = "open" /\ pc' = pc
    BY <1>2, <1>5 DEF AddClaims, ContributionType
  <2>2. contribution[w].heads = NoHeads
    BY <1>1, <2>1 DEF Whole
  <2>3. Whole(w)'
    BY <2>1, <2>2 DEF Whole, NoHeads, Submitted
  <2>4. w \notin queue \cup batch
    BY <1>1, <2>1 DEF ControlOK, Submitted
  <2>5. outcome' = outcome /\ outcome[w] = "pending"
    BY <1>1, <1>5, <2>1 DEF AddClaims, ControlOK
  <2>6. QED
    BY <1>2, <1>5, <2>1, <2>3, <2>4, <2>5, OwnStep DEF AddClaims
<1>6. ASSUME NEW b \in Branches, StageBranch(w, b) PROVE WriterInv'
  <2>1. /\ contribution'[w].heads = contribution[w].heads
        /\ contribution'[w].staged = contribution[w].staged
        /\ pc[w] \in {"open", "completing"} /\ pc'[w] = "staged" /\ folds' = folds
    BY <1>2, <1>6 DEF StageBranch, ContributionType
  <2>2. Whole(w)'
    BY <1>1, <2>1 DEF Whole, Submitted, ClosureOf
  <2>3. w \notin queue \cup batch /\ outcome' = outcome /\ outcome[w] = "pending"
    BY <1>1, <1>6, <2>1 DEF StageBranch, ControlOK, Submitted
  <2>4. QED
    BY <1>2, <1>6, <2>1, <2>2, <2>3, OwnStep DEF StageBranch
<1>7. CASE RefuseBranch(w)
  <2>1. /\ contribution'[w].heads = NoHeads /\ pc[w] = "staged" /\ pc'[w] = "open"
        /\ UNCHANGED <<outcome, folds, process, queue, phase, holder, batch, todo>>
        /\ \A v \in Writers \ {w} : contribution'[v] = contribution[v] /\ pc'[v] = pc[v]
    BY <1>2, <1>7 DEF RefuseBranch, ContributionType
  <2>2. Whole(w)'
    BY <2>1 DEF Whole, NoHeads, Submitted
  <2>3. w \notin queue \cup batch /\ outcome[w] = "pending"
    BY <1>1, <2>1 DEF ControlOK, Submitted
  <2>4. QED
    BY <2>1, <2>2, <2>3, OwnStep
<1>8. CASE Persist(w)
  <2>1. /\ contribution' = contribution /\ pc[w] = "sealed" /\ pc'[w] = "mergable"
        /\ UNCHANGED <<outcome, folds, process, queue, phase, holder, batch, todo>>
        /\ \A v \in Writers \ {w} : pc'[v] = pc[v]
    BY <1>2, <1>8 DEF Persist
  <2>2. Whole(w)'
    BY <1>1, <2>1, ClosuresOnlyGrow, WholeKept
  <2>3. w \notin queue \cup batch
    BY <1>1, <2>1 DEF ControlOK, Submitted
  <2>4. QED
    BY <2>1, <2>2, <2>3, OwnStep DEF Early
<1>9. CASE Drop(w)
  <2>1. /\ contribution'[w].heads = NoHeads /\ pc[w] \in {"open", "sealed", "mergable"} /\ pc'[w] = "idle"
        /\ outcome'[w] = "pending"
        /\ UNCHANGED <<folds, process, queue, phase, holder, batch, todo>>
        /\ \A v \in Writers \ {w} : contribution'[v] = contribution[v] /\ pc'[v] = pc[v] /\ outcome'[v] = outcome[v]
    BY <1>2, <1>9 DEF Drop, NoContribution
  <2>2. Whole(w)'
    BY <2>1 DEF Whole, NoHeads, Submitted
  <2>3. w \notin queue \cup batch
    BY <1>1, <2>1 DEF ControlOK, Submitted
  <2>4. QED
    BY <2>1, <2>2, <2>3, OwnStep
<1>10. CASE Return(w)
  <2>1. /\ contribution' = contribution /\ pc[w] = "waiting" /\ pc'[w] = "mergable" /\ outcome[w] # "pending"
        /\ UNCHANGED <<outcome, folds, process, queue, phase, holder, batch, todo>>
        /\ \A v \in Writers \ {w} : pc'[v] = pc[v]
    BY <1>2, <1>10 DEF Return
  <2>2. Whole(w)'
    BY <1>1, <2>1, ClosuresOnlyGrow, WholeKept DEF Submitted
  <2>3. w \notin queue \cup batch
    BY <1>1, <2>1 DEF ControlOK
  <2>4. QED
    BY <2>1, <2>2, <2>3, OwnStep DEF Early
<1>11. QED
  BY <1>4, <1>5, <1>6, <1>7, <1>8, <1>9, <1>10

(* What SealBranch leaves: one new head, standing for what was staged. *)
LEMMA SealEffect ==
    ASSUME TypeInv, NEW w \in Writers, SealBranch(w), NEW b, b = contribution[w].at
    PROVE  /\ b \in Branches
           /\ ClosuresKept
           /\ pc[w] = "staged" /\ pc'[w] \in {"sealed", "completing"}
           /\ pc'[w] = "sealed" => \A n \in Named(w) \ {b} : contribution[w].heads[n] # None
           /\ contribution'[w].staged = contribution[w].staged
           /\ contribution'[w].heads[b] # None
           /\ ClosureIn(folds', contribution'[w].heads[b]) \cap Claims = Reach(contribution[w].staged[b])
           /\ \A c \in Branches \ {b} : contribution'[w].heads[c] = contribution[w].heads[c]
           /\ \A v \in Writers \ {w} : contribution'[v] = contribution[v] /\ pc'[v] = pc[v]
           /\ UNCHANGED <<stored, tables, marks, memory, section, outcome, receipt, acked, bounds>>
<1> DEFINE own == contribution[w].staged[b]
           roots == Roots(own)
           fold == Len(folds) + 1
           newHead == IF \E r \in roots : roots = {r} THEN CHOOSE r \in roots : TRUE ELSE fold
           C == {fold} \cup Reach(roots)
<1>1. /\ pc \in [Writers -> Stations] /\ contribution \in [Writers -> ContributionType]
      /\ contribution[w] \in ContributionType
      /\ fold \in Nat \ {0} /\ fold \notin Claims /\ None # fold
  BY ConstantsAssumption DEF TypeInv, TypeOK
<1>2. pc[w] = "staged" /\ b \in Branches
  BY DEF SealBranch, TypeInv, IdsOK
<1>3. own \in SUBSET Claims /\ roots \in SUBSET Claims
  BY <1>1, <1>2 DEF ContributionType, Roots
<1>4. Reach(roots) = Reach(own) /\ Reach(roots) \subseteq Claims
  BY <1>3, ReachOfRoots, ReachIsClosed
<1>5. C \in SUBSET Id
  BY <1>1, <1>4 DEF Id
<1>6. /\ folds' = IF newHead = fold THEN Append(folds, C) ELSE folds
      /\ contribution' = [contribution EXCEPT ![w] =
              [contribution[w] EXCEPT !.heads[b] = newHead, !.at = None]]
      /\ pc' = [pc EXCEPT ![w] =
              IF \A n \in Named(w) \ {b} : contribution[w].heads[n] # None
              THEN "sealed" ELSE "completing"]
      /\ UNCHANGED <<stored, tables, marks, memory, section, outcome, receipt, acked, bounds>>
  BY <1>1 DEF SealBranch
<1>7. newHead = fold \/ (newHead \in Claims /\ roots = {newHead})
  <2>1. CASE \E r \in roots : roots = {r}
    <3>1. PICK r \in roots : roots = {r}
      BY <2>1
    <3>2. newHead = r
      BY <3>1
    <3>3. QED
      BY <3>1, <3>2, <1>3
  <2>2. QED
    BY <2>1
<1> HIDE DEF newHead, C
<1>8. ClosuresKept /\ (newHead = fold => ClosureIn(folds', fold) = C)
  BY <1>5, <1>6, ClosuresOnlyGrow
<1>9. newHead # None /\ ClosureIn(folds', newHead) \cap Claims = Reach(own)
  <2>1. CASE newHead = fold
    BY <2>1, <1>1, <1>4, <1>8 DEF C
  <2>2. CASE newHead \in Claims /\ roots = {newHead}
    <3>1. newHead # None /\ ClosureIn(folds', newHead) = ReachFrom[newHead]
      BY <2>2, ConstantsAssumption DEF ClosureIn
    <3>2. Reach(roots) = ReachFrom[newHead]
      BY <2>2 DEF Reach
    <3>3. QED
      BY <3>1, <3>2, <1>4
  <2>3. QED
    BY <1>7, <2>1, <2>2
<1>10. /\ contribution'[w].staged = contribution[w].staged
       /\ contribution'[w].heads[b] = newHead
       /\ \A c \in Branches \ {b} : contribution'[w].heads[c] = contribution[w].heads[c]
       /\ \A v \in Writers \ {w} : contribution'[v] = contribution[v] /\ pc'[v] = pc[v]
  BY <1>1, <1>2, <1>6 DEF ContributionType, HeadMap
<1>11. /\ pc'[w] \in {"sealed", "completing"}
       /\ pc'[w] = "sealed" => \A n \in Named(w) \ {b} : contribution[w].heads[n] # None
  BY <1>1, <1>6
<1>12. QED
  BY <1>2, <1>6, <1>8, <1>9, <1>10, <1>11

LEMMA WriterInvSeal ==
    ASSUME TypeInv, WriterInv, NEW w \in Writers, SealBranch(w)
    PROVE  WriterInv'
<1> USE DEF memory, section
<1> DEFINE b == contribution[w].at
<1>1. ControlOK /\ \A v \in Writers : Whole(v)
  BY DEF WriterInv
<1>2. /\ b \in Branches
      /\ ClosuresKept
      /\ pc[w] = "staged" /\ pc'[w] \in {"sealed", "completing"}
      /\ pc'[w] = "sealed" => \A n \in Named(w) \ {b} : contribution[w].heads[n] # None
      /\ contribution'[w].staged = contribution[w].staged
      /\ contribution'[w].heads[b] # None
      /\ ClosureIn(folds', contribution'[w].heads[b]) \cap Claims = Reach(contribution[w].staged[b])
      /\ \A c \in Branches \ {b} : contribution'[w].heads[c] = contribution[w].heads[c]
      /\ \A v \in Writers \ {w} : contribution'[v] = contribution[v] /\ pc'[v] = pc[v]
      /\ UNCHANGED <<process, queue, phase, holder, batch, todo, outcome>>
  BY SealEffect
<1>3. ASSUME NEW v \in Writers \ {w} PROVE Whole(v)'
  BY <1>1, <1>2, WholeKept
<1>4. \A c \in Branches : contribution[w].heads[c] # None =>
          ClosureIn(folds', contribution[w].heads[c]) = ClosureOf(contribution[w].heads[c])
  BY <1>2 DEF ClosuresKept, TypeInv, IdsOK, ClosureOf, ClosureIn
<1>5. \A c \in Branches : contribution'[w].heads[c] # None =>
          ClosureIn(folds', contribution'[w].heads[c]) \cap Claims = Reach(contribution'[w].staged[c])
  BY <1>1, <1>2, <1>4 DEF Whole
<1>6. pc'[w] # "completing" =>
          \A c \in Branches : contribution'[w].staged[c] # {} => contribution'[w].heads[c] # None
  BY <1>2 DEF Named
<1>7. Whole(w)'
  BY <1>2, <1>5, <1>6 DEF Whole, Named, Submitted, ClosureOf, ClosureIn
<1>8. queue \subseteq Writers /\ batch \subseteq Writers
  BY DEF TypeInv, TypeOK
<1>9. ControlOK'
  BY <1>1, <1>2, <1>8 DEF ControlOK, Submitted
<1>10. QED
  BY <1>3, <1>7, <1>9 DEF WriterInv

LEMMA WriterInvMerge ==
    ASSUME TypeInv, WriterInv, NEW w \in Writers, Merge(w) \/ Drain(w)
    PROVE  WriterInv'
<1> USE DEF durable, memory, section, writers
<1>1. ControlOK /\ \A v \in Writers : Whole(v)
  BY DEF WriterInv
<1>2. /\ pc \in [Writers -> Stations] /\ outcome \in [Writers -> {"pending", "ok", "error"}]
      /\ queue \subseteq Writers /\ batch \subseteq Writers
      /\ process \in {"up", "down"}
  BY DEF TypeInv, TypeOK
<1>3. UNCHANGED <<folds, contribution>>
  BY DEF Merge, Drain
<1>4. ClosuresKept
  BY <1>3, ClosuresOnlyGrow
<1>5. \A v \in Writers :
          /\ pc'[v] = "open" => pc[v] = "open"
          /\ pc'[v] \in {"sealed", "mergable"} \cup Submitted =>
                 pc[v] \in {"sealed", "mergable"} \cup Submitted
  BY <1>2 DEF Merge, Drain, Submitted
<1>6. ASSUME NEW v \in Writers PROVE Whole(v)'
  BY <1>1, <1>3, <1>4, <1>5, WholeKept
<1>7. CASE Merge(w)
  <2>1. /\ process = "up" /\ pc[w] = "mergable" /\ pc'[w] = "queued" /\ outcome'[w] = "pending"
        /\ queue' = queue \cup {w} /\ UNCHANGED <<process, phase, holder, batch, todo>>
        /\ \A v \in Writers \ {w} : pc'[v] = pc[v] /\ outcome'[v] = outcome[v]
    BY <1>2, <1>7 DEF Merge
  <2>2. w \notin batch
    BY <1>1, <2>1 DEF ControlOK, Submitted
  <2>3. ControlOK'
    BY <1>1, <1>2, <2>1, <2>2 DEF ControlOK, Submitted
  <2>4. QED
    BY <1>6, <2>3 DEF WriterInv
<1>8. CASE Drain(w)
  <2>1. /\ phase = "free" /\ pc[w] = "queued" /\ queue' = {} /\ UNCHANGED <<process, outcome>>
        /\ \A v \in Writers \ {w} : pc'[v] = pc[v]
        /\ \/ /\ pc'[w] = "waiting" /\ UNCHANGED <<phase, holder, batch, todo>>
           \/ /\ queue # {} /\ pc'[w] = "draining" /\ phase' = "fold" /\ holder' = w /\ batch' = queue
    BY <1>2, <1>8 DEF Drain
  <2>2. queue # {} => process = "up"
    BY <1>1, <1>2 DEF ControlOK
  <2>3. ControlOK'
    BY <1>1, <1>2, <2>1, <2>2 DEF ControlOK, Submitted
  <2>4. QED
    BY <1>6, <2>3 DEF WriterInv
<1>9. QED
  BY <1>7, <1>8

(* A step on the sequencing thread that ends nobody's merge. *)
LEMMA WriterInvThread ==
    ASSUME TypeInv, WriterInv, ClosuresKept,
           UNCHANGED <<process, queue, holder, batch, pc, contribution, outcome>>,
           phase' \in {"fold", "mark", "publish"} => phase \in {"fold", "mark", "publish"},
           phase' \in {"mark", "publish"} => todo' = {},
           phase' # "free" => process = "up"
    PROVE  WriterInv'
<1>1. ControlOK /\ \A v \in Writers : Whole(v)
  BY DEF WriterInv
<1>2. ASSUME NEW v \in Writers PROVE Whole(v)'
  BY <1>1, WholeKept
<1>3. ControlOK'
  BY <1>1 DEF ControlOK
<1>4. QED
  BY <1>2, <1>3 DEF WriterInv

LEMMA WriterInvFinish ==
    ASSUME TypeInv, WriterInv, NEW result, NEW k, FinishBatch(result, k),
           phase \in {"fold", "mark", "publish"}, UNCHANGED folds
    PROVE  WriterInv'
<1>1. ControlOK /\ \A v \in Writers : Whole(v)
  BY DEF WriterInv
<1>2. pc \in [Writers -> Stations] /\ queue \subseteq Writers
  BY DEF TypeInv, TypeOK
<1>3. /\ holder \in Writers /\ pc[holder] = "draining"
      /\ pc'[holder] = "waiting" /\ \A v \in Writers \ {holder} : pc'[v] = pc[v]
      /\ \A v \in Writers \ batch : outcome'[v] = outcome[v]
      /\ phase' = "free" /\ batch' = {} /\ UNCHANGED <<process, queue, contribution>>
      /\ \A v \in batch : pc[v] \in Submitted
  BY <1>1, <1>2 DEF FinishBatch, ControlOK
<1>4. ClosuresKept
  BY ClosuresOnlyGrow
<1>5. ASSUME NEW v \in Writers PROVE Whole(v)'
  BY <1>1, <1>3, <1>4, WholeKept DEF Submitted
<1>6. ControlOK'
  BY <1>1, <1>2, <1>3 DEF ControlOK, Submitted
<1>7. QED
  BY <1>5, <1>6 DEF WriterInv

(* What FoldBranch leaves: the branch unmoved, or on a head that was not in *)
(* it before and stands for exactly the heads folded.                       *)
LEMMA FoldEffect ==
    ASSUME TypeInv, NEW b \in Branches, FoldBranch(b)
    PROVE  /\ phase = "fold" /\ b \in todo /\ todo' = todo \ {b}
           /\ ClosuresKept
           /\ \A c \in Branches \ {b} : newHeads'[c] = newHeads[c]
           /\ \/ Fresh(b) = {} /\ newHeads' = newHeads
              \/ /\ Fresh(b) # {} /\ newHeads'[b] # None
                 /\ newHeads'[b] \notin ClosureOf(heads[b])
                 /\ ClosureIn(folds', newHeads'[b]) \cap Claims =
                       Claims \cap UNION {ClosureOf(h) : h \in FoldSet(b)}
           /\ UNCHANGED <<stored, tables, marks, memory, phase, holder, batch, writers, acked, bounds>>
<1> DEFINE set == FoldSet(b)
           fold == Len(folds) + 1
           newHead == IF \E h \in set : set = {h} THEN CHOOSE h \in set : TRUE ELSE fold
           C == {fold} \cup UNION {ClosureOf(h) : h \in set}
<1>1. /\ batch \subseteq Writers /\ newHeads \in HeadMap
      /\ fold \in Nat \ {0} /\ fold \notin Claims /\ None # fold
  BY ConstantsAssumption DEF TypeInv, TypeOK
<1>2. /\ phase = "fold" /\ b \in todo /\ todo' = todo \ {b}
      /\ IF Fresh(b) = {}
         THEN UNCHANGED <<folds, newHeads>>
         ELSE /\ newHeads' = [newHeads EXCEPT ![b] = newHead]
              /\ folds' = IF newHead = fold THEN Append(folds, C) ELSE folds
      /\ UNCHANGED <<stored, tables, marks, memory, phase, holder, batch, writers, acked, bounds>>
  BY DEF FoldBranch
<1>3. \A h \in set : h # None /\ Present(h)
  <2>1. \A h \in Fresh(b) : h # None /\ Present(h)
    BY <1>1 DEF Fresh, Contributed, TypeInv, IdsOK
  <2>2. \A h \in {heads[b]} \ {None} : Present(h)
    BY DEF TypeInv, IdsOK
  <2>3. QED
    BY <2>1, <2>2 DEF FoldSet
<1>4. Fresh(b) \subseteq set
  BY DEF FoldSet
<1>5. C \in SUBSET Id
  <2>1. \A h \in set : ClosureOf(h) \subseteq Id
    BY <1>3, ClosureType
  <2>2. QED
    BY <1>1, <2>1 DEF Id
<1>6. newHead = fold \/ (newHead \in set /\ set = {newHead})
  <2>1. CASE \E h \in set : set = {h}
    <3>1. PICK h \in set : set = {h}
      BY <2>1
    <3>2. newHead = h
      BY <3>1
    <3>3. QED
      BY <3>1, <3>2
  <2>2. QED
    BY <2>1
<1> HIDE DEF newHead, C, set
<1>7. ClosuresKept
  BY <1>2, <1>5, ClosuresOnlyGrow
<1>8. CASE Fresh(b) = {}
  BY <1>2, <1>7, <1>8
<1>9. CASE Fresh(b) # {}
  <2>1. /\ newHeads' = [newHeads EXCEPT ![b] = newHead]
        /\ folds' = IF newHead = fold THEN Append(folds, C) ELSE folds
    BY <1>2, <1>9
  <2>2. newHeads'[b] = newHead /\ \A c \in Branches \ {b} : newHeads'[c] = newHeads[c]
    BY <2>1, <1>1 DEF HeadMap
  <2>3. /\ newHead # None
        /\ newHead \notin ClosureOf(heads[b])
        /\ ClosureIn(folds', newHead) \cap Claims = Claims \cap UNION {ClosureOf(h) : h \in set}
    <3>1. CASE newHead = fold
      <4>1. ClosureIn(folds', fold) = C
        BY <3>1, <2>1, <1>5, ClosuresOnlyGrow
      <4>2. \A j \in ClosureOf(heads[b]) : Present(j)
        BY ClosureType DEF TypeInv, IdsOK
      <4>3. ~Present(fold)
        BY <1>1 DEF Present
      <4>4. QED
        BY <3>1, <4>1, <4>2, <4>3, <1>1 DEF C
    <3>2. CASE newHead \in set /\ set = {newHead}
      <4>1. newHead \in Fresh(b)
        BY <3>2, <1>4, <1>9
      <4>2. newHead \notin ClosureOf(heads[b]) /\ newHead # None /\ Present(newHead)
        BY <4>1, <1>3, <3>2 DEF Fresh
      <4>3. ClosureIn(folds', newHead) = ClosureOf(newHead)
        BY <4>2, <1>7 DEF ClosuresKept, ClosureIn, ClosureOf
      <4>4. UNION {ClosureOf(h) : h \in set} = ClosureOf(newHead)
        BY <3>2
      <4>5. QED
        BY <4>2, <4>3, <4>4
    <3>3. QED
      BY <1>6, <3>1, <3>2
  <2>4. QED
    BY <1>2, <1>7, <1>9, <2>2, <2>3 DEF set
<1>10. QED
  BY <1>8, <1>9

LEMMA WriterInvariant == Spec => []WriterInv
<1>1. Init => WriterInv
  <2> SUFFICES ASSUME Init PROVE WriterInv
    OBVIOUS
  <2>1. \A v \in Writers : contribution[v].heads = NoHeads /\ pc[v] = "idle"
    BY DEF Init, NoContribution
  <2>2. \A v \in Writers : Whole(v)
    BY <2>1 DEF Whole, NoHeads, Submitted
  <2>3. ControlOK
    BY DEF Init, ControlOK
  <2>4. QED
    BY <2>2, <2>3 DEF WriterInv
<1>2. TypeInv /\ WriterInv /\ [Next]_vars => WriterInv'
  <2> SUFFICES ASSUME TypeInv, WriterInv, [Next]_vars PROVE WriterInv'
    OBVIOUS
  <2> USE DEF durable, memory, section, writers, bounds
  <2>a. folds' = folds => ClosuresKept
    BY ClosuresOnlyGrow
  <2>b. ControlOK /\ process \in {"up", "down"}
    BY DEF WriterInv, TypeInv, TypeOK
  <2>1. CASE NewSequencer
    <3>1. process = "down" /\ phase = "free" /\ phase' = "free" /\ queue = {}
      BY <2>b, <2>1 DEF NewSequencer, ControlOK
    <3>2. /\ process' = "up"
          /\ UNCHANGED <<folds, queue, phase, holder, batch, todo, pc, contribution, outcome>>
      BY <2>1 DEF NewSequencer
    <3>3. ASSUME NEW v \in Writers PROVE Whole(v)'
      BY <2>a, <3>2, WholeKept DEF WriterInv
    <3>4. ControlOK'
      BY <2>b, <3>1, <3>2 DEF ControlOK
    <3>5. QED
      BY <3>3, <3>4 DEF WriterInv
  <2>2. CASE Crash
    <3>1. \A v \in Writers : contribution'[v].heads = NoHeads /\ pc'[v] = "idle" /\ outcome'[v] = "pending"
      BY <2>2 DEF Crash, NoContribution
    <3>2. ASSUME NEW v \in Writers PROVE Whole(v)'
      BY <3>1 DEF Whole, NoHeads, Submitted
    <3>3. ControlOK'
      BY <2>2, <3>1 DEF Crash, ControlOK
    <3>4. QED
      BY <3>2, <3>3 DEF WriterInv
  <2>3. CASE Found
    <3>1. /\ UNCHANGED <<folds, process, queue, holder, batch, todo, pc, contribution, outcome>>
          /\ process = "up" \/ phase # "free"
          /\ phase' \notin {"fold", "mark", "publish"}
      BY <2>3 DEF Found, FoundGenesis, FoundGenesisFails, FoundTable, FoundMark, FoundFails, FoundPublish
    <3>2. process = "up"
      BY <2>b, <3>1 DEF ControlOK
    <3>3. QED
      BY <2>a, <3>1, <3>2, WriterInvThread
  <2>4. ASSUME NEW w \in Writers, Contribute(w) PROVE WriterInv'
    BY <2>4, WriterInvContribute, WriterInvSeal, WriterInvMerge DEF Contribute
  <2>5. CASE Commit
    <3>1. phase # "free" => process = "up"
      BY <2>b DEF ControlOK
    <3>2. ASSUME NEW b \in Branches, FoldBranch(b) PROVE WriterInv'
      <4>1. /\ ClosuresKept /\ phase = "fold"
            /\ UNCHANGED <<process, queue, holder, batch, pc, contribution, outcome, phase>>
        BY <3>2, FoldEffect
      <4>2. QED
        BY <3>1, <4>1, WriterInvThread
    <3>3. CASE MintTable \/ AppendMark
      <4>1. /\ UNCHANGED <<folds, process, queue, holder, batch, todo, pc, contribution, outcome>>
            /\ phase \in {"fold", "mark"} /\ todo' = {}
        BY <3>3, <2>b DEF MintTable, AppendMark, ControlOK
      <4>2. QED
        BY <2>a, <3>1, <4>1, WriterInvThread
    <3>4. CASE NoAdvance
      BY <3>4, WriterInvFinish DEF NoAdvance
    <3>5. CASE Publish
      BY <3>5, WriterInvFinish DEF Publish
    <3>6. CASE CommitFails
      BY <3>6, WriterInvFinish DEF CommitFails
    <3>7. QED
      BY <2>5, <3>2, <3>3, <3>4, <3>5, <3>6 DEF Commit
  <2>6. CASE UNCHANGED vars
    <3>1. UNCHANGED <<folds, process, queue, phase, holder, batch, todo, pc, contribution, outcome>>
      BY <2>6 DEF vars
    <3>2. ASSUME NEW v \in Writers PROVE Whole(v)'
      BY <2>a, <3>1, WholeKept DEF WriterInv
    <3>3. ControlOK'
      BY <2>b, <3>1 DEF ControlOK
    <3>4. QED
      BY <3>2, <3>3 DEF WriterInv
  <2>7. QED
    BY <2>1, <2>2, <2>3, <2>4, <2>5, <2>6 DEF Next
<1>3. QED
  BY <1>1, <1>2, TypeInvariant, PTL DEF Spec

-----------------------------------------------------------------------------
(* Soundness: everything a head, a table or the committed set stands for   *)
(* is in 𝒰 and breaks no rule.                                             *)

Sound(claims) == claims \ (Rejected \cup Inadmissible)
SoundIn(f, claims, i) == ClosureIn(f, i) \cap Claims \subseteq Sound(claims)
SoundId(i) == ClosureOf(i) \cap Claims \subseteq Sound(stored)

SoundInv ==
    /\ stored \cap Inadmissible = {}
    /\ Founding => Operator \in stored
    /\ \A w \in Writers, b \in Branches : contribution[w].staged[b] \cap Inadmissible = {}
    /\ \A c \in committed \cap Claims : ReachFrom[c] \subseteq Sound(stored)
    /\ \A t \in 1..Len(tables), b \in Branches : SoundId(tables[t].heads[b])
    /\ \A b \in Branches : SoundId(heads[b])
    /\ \A b \in Branches : SoundId(newHeads[b])
    /\ \A w \in Writers, b \in Branches : SoundId(contribution[w].heads[b])

(* A head there was before the step. *)
Known(i) == (i = None \/ Present(i)) /\ SoundId(i)

LEMMA KnownHeads ==
    ASSUME TypeInv, SoundInv
    PROVE  /\ Known(None)
           /\ \A t \in 1..Len(tables), b \in Branches : Known(tables[t].heads[b])
           /\ \A t \in 0..Len(tables), b \in Branches : Known(TableAt(t)[b])
           /\ \A b \in Branches : Known(heads[b]) /\ Known(newHeads[b])
           /\ \A w \in Writers, b \in Branches : Known(contribution[w].heads[b])
<1>1. Known(None)
  BY DEF Known, SoundId, ClosureOf
<1>2. \A t \in 1..Len(tables), b \in Branches : Known(tables[t].heads[b])
  BY DEF Known, TypeInv, IdsOK, SoundInv
<1>3. \A t \in 0..Len(tables), b \in Branches : Known(TableAt(t)[b])
  <2>1. Len(tables) \in Nat
    BY DEF TypeInv, TypeOK
  <2>2. QED
    BY <1>1, <1>2, <2>1 DEF TableAt, NoHeads
<1>4. QED
  BY <1>1, <1>2, <1>3 DEF Known, TypeInv, IdsOK, SoundInv

(* 𝒰 only grows, so what was sound stays sound: a step has to answer for   *)
(* the heads, the claims and the committed ids that it adds.                *)
LEMMA SoundStep ==
    ASSUME TypeInv, SoundInv, ClosuresKept, stored \subseteq stored',
           stored' \cap Inadmissible = {},
           Founding' => Operator \in stored',
           \A w \in Writers, b \in Branches : contribution'[w].staged[b] \cap Inadmissible = {},
           \A c \in committed' \cap Claims : c \in committed \/ ReachFrom[c] \subseteq Sound(stored'),
           \A t \in 1..Len(tables'), b \in Branches : Known(tables'[t].heads[b]),
           \A b \in Branches : Known(heads'[b]) \/ SoundIn(folds', stored', heads'[b]),
           \A b \in Branches : Known(newHeads'[b]) \/ SoundIn(folds', stored', newHeads'[b]),
           \A w \in Writers, b \in Branches :
               Known(contribution'[w].heads[b]) \/ SoundIn(folds', stored', contribution'[w].heads[b])
    PROVE  SoundInv'
<1>1. Sound(stored) \subseteq Sound(stored')
  BY DEF Sound
<1>2. ASSUME NEW i, Known(i) PROVE SoundIn(folds', stored', i)
  <2>1. ClosureIn(folds', i) = ClosureOf(i)
    BY <1>2 DEF Known, ClosuresKept, ClosureIn, ClosureOf
  <2>2. QED
    BY <1>1, <1>2, <2>1 DEF Known, SoundId, SoundIn
<1>3. \A c \in committed' \cap Claims : ReachFrom[c] \subseteq Sound(stored')
  BY <1>1 DEF SoundInv
<1>4. /\ \A t \in 1..Len(tables'), b \in Branches : SoundIn(folds', stored', tables'[t].heads[b])
      /\ \A b \in Branches : SoundIn(folds', stored', heads'[b])
      /\ \A b \in Branches : SoundIn(folds', stored', newHeads'[b])
      /\ \A w \in Writers, b \in Branches : SoundIn(folds', stored', contribution'[w].heads[b])
  BY <1>2
<1>5. \A i : SoundId(i)' <=> SoundIn(folds', stored', i)
  BY DEF SoundId, SoundIn, ClosureOf, ClosureIn, Sound
<1>6. QED
  BY <1>3, <1>4, <1>5 DEF SoundInv, Sound

(* The first contributor cites nothing and breaks no rule. *)
LEMMA OperatorIsSound ==
    ASSUME NEW claims, Operator \in claims
    PROVE  ReachFrom[Operator] = {Operator} /\ ReachFrom[Operator] \subseteq Sound(claims)
<1>1. /\ Operator \in Claims /\ Refs[Operator] = {}
      /\ Operator \notin Rejected \cup Inadmissible
  BY ConstantsAssumption
<1>2. QED
  BY <1>1, ReachOfLeaf DEF Sound

(* The claims a commit adds to the committed set. *)
LEMMA BatchIsSound ==
    ASSUME TypeInv, WriterInv, SoundInv
    PROVE  \A c \in BatchIds \cap Claims : ReachFrom[c] \subseteq Sound(stored)
<1>1. batch \subseteq Writers /\ contribution \in [Writers -> ContributionType]
  BY DEF TypeInv, TypeOK
<1>2. \A v \in batch : Whole(v) /\ pc[v] \in Submitted
  BY <1>1 DEF WriterInv, ControlOK
<1> SUFFICES ASSUME NEW c \in BatchIds \cap Claims PROVE ReachFrom[c] \subseteq Sound(stored)
  OBVIOUS
<1>3. PICK b \in Branches : c \in Contributed(b) \/ \E v \in batch : c \in contribution[v].staged[b]
  BY DEF BatchIds
<1>4. CASE c \in Contributed(b)
  <2>1. PICK v \in batch : c = contribution[v].heads[b]
    BY <1>4 DEF Contributed
  <2>2. SoundId(c)
    BY <1>1, <2>1 DEF SoundInv
  <2>3. ClosureOf(c) = ReachFrom[c] /\ ReachFrom[c] \subseteq Claims
    BY ConstantsAssumption, ReachIsTransitive DEF ClosureOf
  <2>4. QED
    BY <2>2, <2>3 DEF SoundId
<1>5. CASE \E v \in batch : c \in contribution[v].staged[b]
  <2>1. PICK v \in batch : c \in contribution[v].staged[b]
    BY <1>5
  <2>2. contribution[v].heads[b] # None
    BY <1>2, <2>1 DEF Whole, Named
  <2>3. Reach(contribution[v].staged[b]) \subseteq Sound(stored)
    BY <1>1, <1>2, <2>2 DEF Whole, SoundInv, SoundId
  <2>4. ReachFrom[c] \subseteq Reach(contribution[v].staged[b])
    BY <2>1 DEF Reach
  <2>5. QED
    BY <2>3, <2>4
<1>6. QED
  BY <1>3, <1>4, <1>5

LEMMA SoundContribute ==
    ASSUME TypeInv, WriterInv, SoundInv, NEW w \in Writers, Contribute(w)
    PROVE  SoundInv'
<1> USE DEF durable, memory, section, writers, bounds
<1>1. /\ contribution \in [Writers -> ContributionType] /\ contribution[w] \in ContributionType
      /\ \A v \in Writers, c \in Branches : contribution[v].staged[c] \cap Inadmissible = {}
      /\ stored \cap Inadmissible = {}
      /\ Founding => Operator \in stored
  BY DEF TypeInv, TypeOK, SoundInv
<1>2. /\ Known(None)
      /\ \A t \in 1..Len(tables), c \in Branches : Known(tables[t].heads[c])
      /\ \A c \in Branches : Known(heads[c]) /\ Known(newHeads[c])
      /\ \A v \in Writers, c \in Branches : Known(contribution[v].heads[c])
  BY KnownHeads
<1>3. folds' = folds => ClosuresKept
  BY ClosuresOnlyGrow
<1>4. ASSUME NEW scope \in Scopes, NewContribution(w, scope) PROVE SoundInv'
  <2>1. \A c \in Branches : contribution'[w].heads[c] = None /\ contribution'[w].staged[c] = {}
    BY <1>1, <1>4 DEF NewContribution, NoContribution, NoHeads
  <2>2. \A v \in Writers \ {w} : contribution'[v] = contribution[v]
    BY <1>1, <1>4 DEF NewContribution
  <2>3. UNCHANGED <<stored, folds, tables, committed, heads, newHeads, phase>>
    BY <1>4 DEF NewContribution
  <2>4. \A v \in Writers, c \in Branches :
           Known(contribution'[v].heads[c]) /\ contribution'[v].staged[c] \cap Inadmissible = {}
    BY <1>1, <1>2, <2>1, <2>2
  <2>5. QED
    BY <1>1, <1>2, <1>3, <2>3, <2>4, SoundStep DEF Founding
<1>5. ASSUME NEW b \in Branches, NEW S \in Batches, AddClaims(w, b, S) PROVE SoundInv'
  <2>1. \A v \in Writers, c \in Branches :
           /\ contribution'[v].heads = contribution[v].heads
           /\ contribution'[v].staged[c] \in {contribution[v].staged[c], contribution[v].staged[c] \cup S}
    BY <1>1, <1>5 DEF AddClaims, ContributionType
  <2>2. S \cap Inadmissible = {} /\ UNCHANGED <<stored, folds, tables, committed, heads, newHeads, phase>>
    BY <1>5 DEF AddClaims
  <2>3. \A v \in Writers, c \in Branches :
           Known(contribution'[v].heads[c]) /\ contribution'[v].staged[c] \cap Inadmissible = {}
    BY <1>1, <1>2, <2>1, <2>2
  <2>4. QED
    BY <1>1, <1>2, <1>3, <2>2, <2>3, SoundStep DEF Founding
<1>6. ASSUME NEW b \in Branches, StageBranch(w, b) PROVE SoundInv'
  <2>1. \A v \in Writers : /\ contribution'[v].heads = contribution[v].heads
                           /\ contribution'[v].staged = contribution[v].staged
    BY <1>1, <1>6 DEF StageBranch, ContributionType
  <2>2. /\ stored' = stored \cup contribution[w].staged[b]
        /\ UNCHANGED <<folds, tables, committed, heads, newHeads, phase>>
    BY <1>6 DEF StageBranch
  <2>3. stored' \cap Inadmissible = {}
    BY <1>1, <2>2
  <2>4. \A v \in Writers, c \in Branches :
           Known(contribution'[v].heads[c]) /\ contribution'[v].staged[c] \cap Inadmissible = {}
    BY <1>1, <1>2, <2>1
  <2>5. QED
    BY <1>1, <1>2, <1>3, <2>2, <2>3, <2>4, SoundStep DEF Founding
<1>7. CASE SealBranch(w)
  <2> DEFINE b == contribution[w].at
             own == contribution[w].staged[b]
             checked == Walk(Roots(own), committed) \ committed
  <2>1. /\ b \in Branches
        /\ ClosuresKept
        /\ contribution'[w].staged = contribution[w].staged
        /\ ClosureIn(folds', contribution'[w].heads[b]) \cap Claims = Reach(own)
        /\ \A c \in Branches \ {b} : contribution'[w].heads[c] = contribution[w].heads[c]
        /\ \A v \in Writers \ {w} : contribution'[v] = contribution[v]
        /\ UNCHANGED <<stored, tables, committed, heads, newHeads, phase>>
    BY <1>7, SealEffect
  <2>2. own \in SUBSET Claims /\ Roots(own) \in SUBSET Claims
    BY <1>1, <2>1 DEF ContributionType, Roots
  <2>3. checked \subseteq stored /\ checked \cap Rejected = {}
    BY <1>7 DEF SealBranch, CompletesBranch, Verifies
  <2>4. checked \subseteq Sound(stored)
    BY <1>1, <2>3 DEF Sound
  <2>5. \A c \in committed \cap Claims : ReachFrom[c] \subseteq Sound(stored)
    BY DEF SoundInv
  <2>6. Reach(own) \subseteq Sound(stored)
    BY <2>2, <2>4, <2>5, WalkVouches, ReachOfRoots
  <2>7. SoundIn(folds', stored', contribution'[w].heads[b])
    BY <2>1, <2>6 DEF SoundIn
  <2>8. \A v \in Writers, c \in Branches :
           /\ Known(contribution'[v].heads[c]) \/ SoundIn(folds', stored', contribution'[v].heads[c])
           /\ contribution'[v].staged[c] \cap Inadmissible = {}
    BY <1>1, <1>2, <2>1, <2>7
  <2>9. QED
    BY <1>1, <1>2, <2>1, <2>8, SoundStep DEF Founding
<1>8. CASE RefuseBranch(w)
  <2>1. \A v \in Writers : /\ contribution'[v].heads \in {contribution[v].heads, NoHeads}
                           /\ contribution'[v].staged = contribution[v].staged
    BY <1>1, <1>8 DEF RefuseBranch, ContributionType
  <2>2. UNCHANGED <<stored, folds, tables, committed, heads, newHeads, phase>>
    BY <1>8 DEF RefuseBranch
  <2>3. \A v \in Writers, c \in Branches :
           Known(contribution'[v].heads[c]) /\ contribution'[v].staged[c] \cap Inadmissible = {}
    BY <1>1, <1>2, <2>1 DEF NoHeads
  <2>4. QED
    BY <1>1, <1>2, <1>3, <2>2, <2>3, SoundStep DEF Founding
<1>9. CASE Drop(w)
  <2>1. \A c \in Branches : contribution'[w].heads[c] = None /\ contribution'[w].staged[c] = {}
    BY <1>1, <1>9 DEF Drop, NoContribution, NoHeads
  <2>2. \A v \in Writers \ {w} : contribution'[v] = contribution[v]
    BY <1>1, <1>9 DEF Drop
  <2>3. UNCHANGED <<stored, folds, tables, committed, heads, newHeads, phase>>
    BY <1>9 DEF Drop
  <2>4. \A v \in Writers, c \in Branches :
           Known(contribution'[v].heads[c]) /\ contribution'[v].staged[c] \cap Inadmissible = {}
    BY <1>1, <1>2, <2>1, <2>2
  <2>5. QED
    BY <1>1, <1>2, <1>3, <2>3, <2>4, SoundStep DEF Founding
<1>10. CASE Persist(w) \/ Merge(w) \/ Return(w)
  <2>1. UNCHANGED <<stored, folds, tables, committed, heads, newHeads, contribution, phase>>
    BY <1>10 DEF Persist, Merge, Return
  <2>2. QED
    BY <1>1, <1>2, <1>3, <2>1, SoundStep DEF Founding
<1>11. CASE Drain(w)
  <2>1. /\ UNCHANGED <<stored, folds, tables, committed, heads, contribution>>
        /\ phase = "free" /\ phase' \in {"free", "fold"}
        /\ newHeads' \in {newHeads, NoHeads}
    BY <1>11 DEF Drain
  <2>2. \A c \in Branches : Known(newHeads'[c])
    BY <1>2, <2>1 DEF NoHeads
  <2>3. QED
    BY <1>1, <1>2, <1>3, <2>1, <2>2, SoundStep DEF Founding
<1>12. QED
  BY <1>4, <1>5, <1>6, <1>7, <1>8, <1>9, <1>10, <1>11 DEF Contribute

LEMMA SoundCommit ==
    ASSUME TypeInv, WriterInv, SoundInv, Commit
    PROVE  SoundInv'
<1> USE DEF durable, memory, section, writers, bounds
<1>1. /\ \A v \in Writers, c \in Branches : contribution[v].staged[c] \cap Inadmissible = {}
      /\ stored \cap Inadmissible = {}
      /\ newHeads \in HeadMap /\ head \in 0..Len(tables) /\ batch \subseteq Writers
  BY DEF TypeInv, TypeOK, IdsOK, SoundInv
<1>2. /\ Known(None)
      /\ \A t \in 1..Len(tables), c \in Branches : Known(tables[t].heads[c])
      /\ \A c \in Branches : Known(TableAt(head)[c])
      /\ \A c \in Branches : Known(heads[c]) /\ Known(newHeads[c])
      /\ \A v \in Writers, c \in Branches : Known(contribution[v].heads[c])
  BY <1>1, KnownHeads
<1>3. folds' = folds => ClosuresKept
  BY ClosuresOnlyGrow
<1>4. ASSUME NEW b \in Branches, FoldBranch(b) PROVE SoundInv'
  <2>1. /\ phase = "fold" /\ ClosuresKept
        /\ \A c \in Branches \ {b} : newHeads'[c] = newHeads[c]
        /\ \/ newHeads' = newHeads
           \/ ClosureIn(folds', newHeads'[b]) \cap Claims = Claims \cap UNION {ClosureOf(h) : h \in FoldSet(b)}
        /\ UNCHANGED <<stored, tables, committed, heads, contribution, phase>>
    BY <1>4, FoldEffect
  <2>2. \A h \in FoldSet(b) : SoundId(h)
    <3>1. \A h \in Contributed(b) : SoundId(h)
      BY <1>1 DEF Contributed, SoundInv
    <3>2. SoundId(heads[b])
      BY DEF SoundInv
    <3>3. QED
      BY <3>1, <3>2 DEF FoldSet, Fresh
  <2>3. Claims \cap UNION {ClosureOf(h) : h \in FoldSet(b)} \subseteq Sound(stored)
    BY <2>2 DEF SoundId
  <2>4. \A c \in Branches : Known(newHeads'[c]) \/ SoundIn(folds', stored', newHeads'[c])
    BY <1>2, <2>1, <2>3 DEF SoundIn
  <2>5. QED
    BY <1>1, <1>2, <2>1, <2>4, SoundStep DEF Founding
<1>5. CASE MintTable
  <2> DEFINE T == [prev |-> head, heads |-> Overlay(TableAt(head), newHeads)]
  <2>1. /\ tables' = Append(tables, T)
        /\ UNCHANGED <<stored, folds, committed, heads, newHeads, contribution>>
        /\ phase' = "mark"
    BY <1>5 DEF MintTable
  <2>2. \A t \in 1..Len(tables'), c \in Branches : Known(tables'[t].heads[c])
    <3>1. /\ Len(tables') = Len(tables) + 1 /\ Len(tables) \in Nat
          /\ \A t \in 1..Len(tables) : tables'[t] = tables[t]
          /\ tables'[Len(tables) + 1] = T
      BY <2>1, MintedTable DEF TypeInv, TypeOK
    <3>2. \A c \in Branches : Known(T.heads[c])
      BY <1>2 DEF Overlay
    <3> HIDE DEF T
    <3>3. QED
      BY <1>2, <3>1, <3>2
  <2>3. QED
    BY <1>1, <1>2, <1>3, <2>1, <2>2, SoundStep DEF Founding
<1>6. CASE AppendMark
  <2>1. UNCHANGED <<stored, folds, tables, committed, heads, newHeads, contribution>> /\ phase' = "publish"
    BY <1>6 DEF AppendMark
  <2>2. QED
    BY <1>1, <1>2, <1>3, <2>1, SoundStep DEF Founding
<1>7. CASE NoAdvance \/ Publish
  <2>1. /\ UNCHANGED <<stored, folds, tables, contribution>> /\ phase' = "free" /\ newHeads' = NoHeads
        /\ heads' \in {heads, Overlay(heads, newHeads)}
        /\ committed' \subseteq committed \cup BatchIds
                         \cup {newHeads[c] : c \in {x \in Branches : newHeads[x] # None}}
    BY <1>7 DEF NoAdvance, Publish, FinishBatch
  <2>2. \A c \in Branches : Known(heads'[c]) /\ Known(newHeads'[c])
    BY <1>2, <2>1 DEF Overlay, NoHeads
  <2>3. \A c \in committed' \cap Claims : c \in committed \/ ReachFrom[c] \subseteq Sound(stored')
    <3> SUFFICES ASSUME NEW c \in committed' \cap Claims, c \notin committed
                 PROVE  ReachFrom[c] \subseteq Sound(stored)
      BY <2>1
    <3>1. CASE c \in BatchIds
      BY <3>1, BatchIsSound
    <3>2. CASE c \notin BatchIds
      <4>1. SoundId(c) /\ ClosureOf(c) = ReachFrom[c] /\ ReachFrom[c] \subseteq Claims
        BY <2>1, <3>2, ConstantsAssumption, ReachIsTransitive DEF SoundInv, ClosureOf
      <4>2. QED
        BY <4>1 DEF SoundId
    <3>3. QED
      BY <3>1, <3>2
  <2>4. QED
    BY <1>1, <1>2, <1>3, <2>1, <2>2, <2>3, SoundStep DEF Founding
<1>8. CASE CommitFails
  <2>1. /\ UNCHANGED <<stored, folds, tables, heads, committed, contribution>>
        /\ phase' = "free" /\ newHeads' = NoHeads
    BY <1>8 DEF CommitFails, FinishBatch
  <2>2. \A c \in Branches : Known(newHeads'[c])
    BY <1>2, <2>1 DEF NoHeads
  <2>3. QED
    BY <1>1, <1>2, <1>3, <2>1, <2>2, SoundStep DEF Founding
<1>9. QED
  BY <1>4, <1>5, <1>6, <1>7, <1>8 DEF Commit

LEMMA SoundFound ==
    ASSUME TypeInv, SoundInv, Found
    PROVE  SoundInv'
<1> USE DEF durable, memory, section, writers, bounds
<1>1. /\ \A v \in Writers, c \in Branches : contribution[v].staged[c] \cap Inadmissible = {}
      /\ stored \cap Inadmissible = {} /\ (Founding => Operator \in stored)
      /\ newHeads \in HeadMap /\ heads \in HeadMap /\ head \in 0..Len(tables)
      /\ tables \in Seq(Table) /\ Len(tables) \in Nat
  BY DEF TypeInv, TypeOK, IdsOK, SoundInv
<1>2. /\ Known(None)
      /\ \A t \in 1..Len(tables), c \in Branches : Known(tables[t].heads[c])
      /\ \A c \in Branches : Known(TableAt(head)[c])
      /\ \A c \in Branches : Known(heads[c]) /\ Known(newHeads[c])
      /\ \A v \in Writers, c \in Branches : Known(contribution[v].heads[c])
  BY <1>1, KnownHeads
<1>3. folds' = folds => ClosuresKept
  BY ClosuresOnlyGrow
<1>4. Operator \in Claims /\ Operator \notin Inadmissible /\ Operator # None
  BY ConstantsAssumption
<1>5. ASSUME NEW b \in Branches, FoundGenesis(b) PROVE SoundInv'
  <2>1. /\ stored' = stored \cup {Operator}
        /\ tables' = Append(tables, [prev |-> 0, heads |-> NoHeads])
        /\ heads' = [heads EXCEPT ![b] = Operator]
        /\ newHeads' = [NoHeads EXCEPT ![b] = Operator]
        /\ UNCHANGED <<folds, committed, contribution>>
    BY <1>5 DEF FoundGenesis
  <2>2. SoundIn(folds', stored', Operator)
    BY <1>4, <2>1, OperatorIsSound DEF SoundIn, ClosureIn
  <2>3. \A c \in Branches : /\ Known(heads'[c]) \/ SoundIn(folds', stored', heads'[c])
                            /\ Known(newHeads'[c]) \/ SoundIn(folds', stored', newHeads'[c])
    BY <1>1, <1>2, <2>1, <2>2 DEF NoHeads, HeadMap
  <2>4. \A t \in 1..Len(tables'), c \in Branches : Known(tables'[t].heads[c])
    <3>1. [prev |-> 0, heads |-> NoHeads] \in Table
      BY NoContributionType DEF Table
    <3>2. /\ Len(tables') = Len(tables) + 1
          /\ \A t \in 1..Len(tables) : tables'[t] = tables[t]
          /\ tables'[Len(tables) + 1].heads = NoHeads
      BY <1>1, <2>1, <3>1
    <3>3. QED
      BY <1>1, <1>2, <3>2 DEF NoHeads
  <2>5. stored' \cap Inadmissible = {} /\ Operator \in stored' /\ stored \subseteq stored'
    BY <1>1, <1>4, <2>1
  <2>6. QED
    BY <1>1, <1>2, <1>3, <2>1, <2>3, <2>4, <2>5, SoundStep
<1>6. CASE FoundGenesisFails
  <2>1. /\ stored' \in {stored, stored \cup {Operator}}
        /\ UNCHANGED <<folds, tables, committed, heads, newHeads, contribution, phase>>
    BY <1>6 DEF FoundGenesisFails
  <2>2. stored' \cap Inadmissible = {} /\ stored \subseteq stored'
    BY <1>1, <1>4, <2>1
  <2>3. QED
    BY <1>1, <1>2, <1>3, <2>1, <2>2, SoundStep DEF Founding
<1>7. CASE FoundTable
  <2> DEFINE T == [prev |-> head, heads |-> Overlay(TableAt(head), newHeads)]
  <2>1. /\ tables' = Append(tables, T) /\ phase = "foundTable"
        /\ UNCHANGED <<stored, folds, committed, heads, newHeads, contribution>>
    BY <1>7 DEF FoundTable
  <2>2. \A t \in 1..Len(tables'), c \in Branches : Known(tables'[t].heads[c])
    <3>1. /\ Len(tables') = Len(tables) + 1
          /\ \A t \in 1..Len(tables) : tables'[t] = tables[t]
          /\ tables'[Len(tables) + 1] = T
      BY <2>1, MintedTable
    <3>2. \A c \in Branches : Known(T.heads[c])
      BY <1>2 DEF Overlay
    <3> HIDE DEF T
    <3>3. QED
      BY <1>1, <1>2, <3>1, <3>2
  <2>3. QED
    BY <1>1, <1>2, <1>3, <2>1, <2>2, SoundStep DEF Founding
<1>8. CASE FoundMark
  <2>1. phase = "foundMark" /\ UNCHANGED <<stored, folds, tables, committed, heads, newHeads, contribution>>
    BY <1>8 DEF FoundMark
  <2>2. QED
    BY <1>1, <1>2, <1>3, <2>1, SoundStep DEF Founding
<1>9. CASE FoundFails \/ FoundPublish
  <2>1. /\ phase \in {"foundTable", "foundMark", "foundPublish"} /\ phase' = "free" /\ newHeads' = NoHeads
        /\ committed' \subseteq committed \cup {Operator}
        /\ UNCHANGED <<stored, folds, tables, heads, contribution>>
    BY <1>9 DEF FoundFails, FoundPublish
  <2>2. \A c \in Branches : Known(newHeads'[c])
    BY <1>2, <2>1 DEF NoHeads
  <2>3. \A c \in committed' : c \in committed \/ ReachFrom[c] \subseteq Sound(stored')
    BY <1>1, <2>1, OperatorIsSound DEF Founding
  <2>4. QED
    BY <1>1, <1>2, <1>3, <2>1, <2>2, <2>3, SoundStep DEF Founding
<1>10. QED
  BY <1>5, <1>6, <1>7, <1>8, <1>9 DEF Found

LEMMA Soundness == Spec => []SoundInv
<1>1. Init => SoundInv
  <2> SUFFICES ASSUME Init PROVE SoundInv
    OBVIOUS
  <2>1. /\ stored = {} /\ committed = {} /\ tables = <<>> /\ phase = "free"
        /\ heads = NoHeads /\ newHeads = NoHeads
        /\ \A w \in Writers : contribution[w] = NoContribution
    BY DEF Init
  <2>2. SoundId(None)
    BY DEF SoundId, ClosureOf
  <2>3. QED
    BY <2>1, <2>2 DEF SoundInv, NoHeads, NoContribution, Founding
<1>2. TypeInv /\ WriterInv /\ SoundInv /\ [Next]_vars => SoundInv'
  <2> SUFFICES ASSUME TypeInv, WriterInv, SoundInv, [Next]_vars PROVE SoundInv'
    OBVIOUS
  <2> USE DEF durable, memory, section, writers, bounds
  <2>1. CASE Found
    BY <2>1, SoundFound
  <2>2. ASSUME NEW w \in Writers, Contribute(w) PROVE SoundInv'
    BY <2>2, SoundContribute
  <2>3. CASE Commit
    BY <2>3, SoundCommit
  <2>4. CASE NewSequencer \/ Crash \/ UNCHANGED vars
    <3>1. /\ \A v \in Writers, c \in Branches : contribution[v].staged[c] \cap Inadmissible = {}
          /\ stored \cap Inadmissible = {} /\ (Founding => Operator \in stored)
          /\ Latest \in 0..Len(tables)
      BY TableAtType DEF SoundInv
    <3>2. /\ Known(None)
          /\ \A t \in 1..Len(tables), c \in Branches : Known(tables[t].heads[c])
          /\ \A c \in Branches : Known(TableAt(Latest)[c])
          /\ \A c \in Branches : Known(heads[c]) /\ Known(newHeads[c])
          /\ \A v \in Writers, c \in Branches : Known(contribution[v].heads[c])
      BY <3>1, KnownHeads
    <3>3. /\ UNCHANGED <<stored, folds, tables>> /\ phase' \in {"free", phase}
          /\ committed' \in {committed, {}}
          /\ heads' \in {heads, NoHeads, TableAt(Latest)} /\ newHeads' \in {newHeads, NoHeads}
          /\ contribution' \in {contribution, [v \in Writers |-> NoContribution]}
      BY <2>4 DEF NewSequencer, Crash, vars
    <3>4. \A v \in Writers, c \in Branches :
             Known(contribution'[v].heads[c]) /\ contribution'[v].staged[c] \cap Inadmissible = {}
      BY <3>1, <3>2, <3>3 DEF NoContribution, NoHeads
    <3>5. \A c \in Branches : Known(heads'[c]) /\ Known(newHeads'[c])
      BY <3>2, <3>3 DEF NoHeads
    <3>6. ClosuresKept /\ stored \subseteq stored'
      BY <3>3, ClosuresOnlyGrow
    <3>7. QED
      BY <3>1, <3>2, <3>3, <3>4, <3>5, <3>6, SoundStep DEF Founding
  <2>5. QED
    BY <2>1, <2>2, <2>3, <2>4 DEF Next
<1>3. QED
  BY <1>1, <1>2, TypeInvariant, WriterInvariant, PTL DEF Spec

(***************************************************************************)
(* Verification that does not walk past committed ids still vouches for    *)
(* the whole archive: every archive the list ever recorded is complete in  *)
(* 𝒰 and holds no claim that breaks a rule, whatever failed, and however   *)
(* contributions, crashes and retries interleaved (CompleteAndVerify,      *)
(* isCommitted, commit, adopt).                                            *)
(***************************************************************************)
THEOREM ArchiveIsSound == Spec => []ArchiveSound
<1>1. TypeInv /\ SoundInv => ArchiveSound
  <2> SUFFICES ASSUME TypeInv, SoundInv, NEW i \in DOMAIN marks, NEW b \in Branches
               PROVE  BranchClosure(marks[i], b) \cap Claims \subseteq stored \ (Rejected \cup Inadmissible)
    BY DEF ArchiveSound, ArchiveClosure
  <2>1. marks \in Seq(Nat) /\ i \in 1..Len(marks)
    BY DEF TypeInv, TypeOK
  <2>2. marks[i] \in 1..Len(tables)
    BY <2>1 DEF TypeInv, IdsOK
  <2>3. SoundId(tables[marks[i]].heads[b])
    BY <2>2 DEF SoundInv
  <2>4. QED
    BY <2>2, <2>3 DEF BranchClosure, SoundId, Sound
<1>2. QED
  BY <1>1, TypeInvariant, Soundness, PTL

-----------------------------------------------------------------------------
(* The committed set.                                                      *)

ArchiveIn(f, ts, t) == UNION {BranchIn(f, ts, t, b) : b \in Branches}

(* Founding starts from nothing, and puts the operator on one branch. *)
CommittedInv ==
    /\ CommittedArchived
    /\ process = "down" => committed = {}
    /\ Founding => /\ committed = {}
                   /\ \E b \in Branches : /\ heads[b] = Operator
                                          /\ \A c \in Branches \ {b} : heads[c] = None

LEMMA CommittedKept ==
    ASSUME TypeInv, CommittedInv, ClosuresKept, TablesKept,
           committed' \subseteq committed, UNCHANGED head,
           process' = "down" => process = "down",
           Founding' => Founding /\ UNCHANGED heads
    PROVE  CommittedInv'
<1>1. head \in 0..Len(tables)
  BY DEF TypeInv, IdsOK
<1>2. ArchiveIn(folds', tables', head) = ArchiveClosure(head)
  BY <1>1, BranchesKept DEF ArchiveIn, ArchiveClosure
<1>3. committed' \subseteq ArchiveIn(folds', tables', head')
  BY <1>2 DEF CommittedInv, CommittedArchived
<1>4. CommittedArchived'
  BY <1>3 DEF CommittedArchived, ArchiveIn, ArchiveClosure, BranchIn, BranchClosure, ClosureIn, ClosureOf
<1>5. QED
  BY <1>4 DEF CommittedInv

(* Once every branch is folded, the batch is where the branches stand. *)
LEMMA BatchInMoved ==
    ASSUME TypeInv, DurableInv, phase \in {"fold", "mark", "publish"}, todo = {}
    PROVE  \A i \in BatchIds : \E b \in Branches : i \in ClosureOf(Moved[b])
<1>1. FoldedOK /\ FoldsOK /\ batch \subseteq Writers
  BY DEF DurableInv, TypeInv, TypeOK
<1> SUFFICES ASSUME NEW i \in BatchIds PROVE \E b \in Branches : i \in ClosureOf(Moved[b])
  OBVIOUS
<1>2. PICK b \in Branches : i \in Contributed(b) \/ \E v \in batch : i \in contribution[v].staged[b]
  BY DEF BatchIds
<1>3. CASE i \in Contributed(b)
  <2>1. PICK v \in batch : b \in Named(v) /\ i = contribution[v].heads[b] /\ i # None
    BY <1>3 DEF Contributed
  <2>2. Present(i)
    BY <1>1, <2>1 DEF TypeInv, IdsOK
  <2>3. i \in ClosureOf(i) /\ ClosureOf(i) \subseteq ClosureOf(Moved[b])
    BY <1>1, <2>1, <2>2, ClosureReflexive DEF FoldedOK
  <2>4. QED
    BY <2>3
<1>4. CASE \E v \in batch : i \in contribution[v].staged[b]
  BY <1>4, BatchReached
<1>5. QED
  BY <1>2, <1>3, <1>4

LEMMA CommittedFinish ==
    ASSUME TypeInv, DurableInv, CommittedInv, NoAdvance \/ Publish
    PROVE  CommittedInv'
<1>1. /\ FoldedOK /\ ControlOK /\ TablesOK /\ FoldsOK
      /\ heads \in HeadMap /\ newHeads \in HeadMap /\ Len(tables) \in Nat
  BY DEF DurableInv, TypeInv, TypeOK
<1>2. /\ phase \in {"fold", "publish"} /\ todo = {} /\ phase' = "free"
      /\ UNCHANGED <<folds, tables, process>>
      /\ process = "up"
  BY <1>1 DEF NoAdvance, Publish, FinishBatch, durable, ControlOK, TypeInv, TypeOK
<1>3. heads = TableAt(head)
  BY <1>1, <1>2 DEF TablesOK, HeadsArePublished
<1>4. ArchiveClosure(head) = UNION {ClosureOf(heads[b]) : b \in Branches}
  BY <1>3, TableClosure DEF ArchiveClosure
<1>5. \A b \in Branches : ClosureOf(heads[b]) \subseteq ClosureOf(Moved[b])
  BY <1>1, <1>2 DEF FoldedOK
<1>6. head' # 0 => TableAt(head') = Moved
  <2>1. CASE NoAdvance
    <3>1. head' = head /\ newHeads = NoHeads
      BY <2>1 DEF NoAdvance
    <3>2. Moved = heads
      BY <1>1, <3>1 DEF Moved, Overlay, NoHeads, HeadMap
    <3>3. QED
      BY <1>3, <3>1, <3>2
  <2>2. CASE Publish
    BY <2>2, <1>1 DEF Publish, TablesOK, TableAt
  <2>3. QED
    BY <2>1, <2>2
<1>7. \A b \in Branches : ClosureOf(Moved[b]) = BranchClosure(head', b)
  <2>1. CASE head' # 0
    BY <2>1, <1>6, TableClosure
  <2>2. CASE head' = 0
    <3>1. head = 0 /\ newHeads = NoHeads
      BY <2>2, <1>2 DEF NoAdvance, Publish, TypeInv, IdsOK
    <3>2. Moved = NoHeads
      BY <1>1, <1>3, <3>1 DEF Moved, Overlay, NoHeads, HeadMap, TableAt
    <3>3. QED
      BY <2>2, <3>2 DEF NoHeads, ClosureOf, BranchClosure
  <2>3. QED
    BY <2>1, <2>2
<1>8. committed' \subseteq ArchiveClosure(head')
  <2>1. committed' \subseteq committed \cup BatchIds
                     \cup {newHeads[b] : b \in {x \in Branches : newHeads[x] # None}}
    BY DEF NoAdvance, Publish
  <2>2. \A i \in committed : \E b \in Branches : i \in ClosureOf(Moved[b])
    BY <1>4, <1>5 DEF CommittedInv, CommittedArchived
  <2>3. \A i \in BatchIds : \E b \in Branches : i \in ClosureOf(Moved[b])
    BY <1>2, BatchInMoved
  <2>4. \A b \in Branches : newHeads[b] # None => newHeads[b] \in ClosureOf(Moved[b])
    <3>1. \A b \in Branches : newHeads[b] # None => Present(newHeads[b]) /\ Moved[b] = newHeads[b]
      BY DEF TypeInv, IdsOK, Moved, Overlay
    <3>2. QED
      BY <1>1, <3>1, ClosureReflexive
  <2>5. QED
    BY <1>7, <2>1, <2>2, <2>3, <2>4 DEF ArchiveClosure
<1>9. CommittedArchived'
  BY <1>2, <1>8 DEF CommittedArchived, ArchiveClosure, BranchClosure, ClosureOf
<1>10. QED
  BY <1>2, <1>9 DEF CommittedInv, Founding

LEMMA CommittedInvariant ==
    ASSUME FoundReliable
    PROVE  Spec => []CommittedInv
<1>1. Init => CommittedInv
  BY DEF Init, CommittedInv, CommittedArchived, Founding
<1>2. TypeInv /\ DurableInv /\ CommittedInv /\ [Next]_vars => CommittedInv'
  <2> SUFFICES ASSUME TypeInv, DurableInv, CommittedInv, [Next]_vars PROVE CommittedInv'
    OBVIOUS
  <2> USE DEF durable, memory, section, writers, bounds
  <2>a. ControlOK /\ TablesOK /\ heads \in HeadMap /\ process \in {"up", "down"}
    BY DEF DurableInv, TypeInv, TypeOK
  <2>b. folds' = folds => ClosuresKept
    BY ClosuresOnlyGrow
  <2>c. tables' = tables => TablesKept
    BY TablesUnchanged
  <2>1. CASE NewSequencer
    <3>1. committed' = {} /\ phase' = "free" /\ process' = "up"
      BY <2>1, <2>a DEF NewSequencer, CommittedInv, ControlOK
    <3>2. QED
      BY <3>1 DEF CommittedInv, CommittedArchived, Founding
  <2>2. CASE Crash
    BY <2>2 DEF Crash, CommittedInv, CommittedArchived, Founding
  <2>3. CASE Found
    <3>1. ASSUME NEW b \in Branches, FoundGenesis(b) PROVE CommittedInv'
      <4>1. /\ committed' = committed /\ head = 0 /\ process' = "up"
            /\ heads' = [heads EXCEPT ![b] = Operator]
        BY <3>1 DEF FoundGenesis
      <4>2. committed = {}
        BY <4>1 DEF CommittedInv, CommittedArchived, ArchiveClosure, BranchClosure
      <4>a. heads = NoHeads
        BY <3>1, <2>a DEF FoundGenesis, TablesOK, HeadsArePublished, TableAt
      <4>3. heads'[b] = Operator /\ \A c \in Branches \ {b} : heads'[c] = None
        BY <4>1, <4>a DEF NoHeads
      <4>4. QED
        BY <4>1, <4>2, <4>3 DEF CommittedInv, CommittedArchived
    <3>2. CASE FoundGenesisFails \/ FoundMark
      <4>1. /\ UNCHANGED <<folds, tables, process, head, heads, committed>>
            /\ phase \in {"foundMark", "foundPublish"} \/ phase' = phase
            /\ phase' \in {"foundMark", "foundPublish"} \/ phase' = phase
        BY <3>2 DEF FoundGenesisFails, FoundMark
      <4>2. QED
        BY <2>b, <2>c, <4>1, CommittedKept DEF Founding
    <3>3. CASE FoundTable
      <4>1. /\ UNCHANGED <<folds, process, head, heads, committed>> /\ phase = "foundTable"
            /\ tables' = Append(tables, [prev |-> head, heads |-> Overlay(TableAt(head), newHeads)])
        BY <3>3 DEF FoundTable
      <4>2. TablesKept
        BY <4>1, MintedTable DEF TablesKept, TypeInv, TypeOK
      <4>3. QED
        BY <2>b, <4>1, <4>2, CommittedKept DEF Founding
    <3>4. CASE FoundPublish
      <4>1. /\ UNCHANGED <<folds, tables, heads, process>> /\ phase = "foundPublish" /\ phase' = "free"
            /\ head' = Len(tables) /\ committed' = committed \cup {Operator}
        BY <3>4 DEF FoundPublish
      <4>2. committed = {} /\ tables[Len(tables)].heads = heads /\ Len(tables) > 0 /\ process = "up"
        BY <2>a, <4>1 DEF CommittedInv, Founding, TablesOK, TypeInv, IdsOK, ControlOK
      <4>3. PICK b \in Branches : heads[b] = Operator
        BY <4>1 DEF CommittedInv, Founding
      <4>4. Operator \in ClosureOf(heads[b])
        BY <4>3, ConstantsAssumption, ReachIsTransitive DEF ClosureOf
      <4>5. Operator \in BranchClosure(head', b)
        BY <4>1, <4>2, <4>4 DEF BranchClosure
      <4>6. committed' \subseteq ArchiveClosure(head')
        BY <4>1, <4>2, <4>5 DEF ArchiveClosure
      <4>7. CommittedArchived'
        BY <4>1, <4>6 DEF CommittedArchived, ArchiveClosure, BranchClosure, ClosureOf
      <4>8. QED
        BY <4>1, <4>2, <4>7 DEF CommittedInv, Founding
    <3>5. ~FoundFails
      BY DEF FoundFails, Fault, FoundReliable
    <3>6. QED
      BY <2>3, <3>1, <3>2, <3>3, <3>4, <3>5 DEF Found
  <2>4. ASSUME NEW w \in Writers, Contribute(w) PROVE CommittedInv'
    <3>1. UNCHANGED <<tables, process, head, heads, committed>>
      BY <2>4 DEF Contribute, NewContribution, AddClaims, StageBranch, SealBranch, RefuseBranch,
                  Persist, Drop, Merge, Drain, Return
    <3>2. ClosuresKept
      <4>1. CASE SealBranch(w)
        BY <4>1, SealEffect
      <4>2. CASE ~SealBranch(w)
        <5>1. folds' = folds
          BY <2>4, <4>2 DEF Contribute, NewContribution, AddClaims, StageBranch, RefuseBranch,
                            Persist, Drop, Merge, Drain, Return
        <5>2. QED
          BY <2>b, <5>1
      <4>3. QED
        BY <4>1, <4>2
    <3>3. phase' \in {phase, "fold"}
      BY <2>4 DEF Contribute, NewContribution, AddClaims, StageBranch, SealBranch, RefuseBranch,
                  Persist, Drop, Merge, Drain, Return
    <3>4. QED
      BY <2>c, <3>1, <3>2, <3>3, CommittedKept DEF Founding
  <2>5. CASE Commit
    <3>1. ASSUME NEW b \in Branches, FoldBranch(b) PROVE CommittedInv'
      <4>1. ClosuresKept /\ phase' = "fold" /\ UNCHANGED <<tables, process, head, heads, committed>>
        BY <3>1, FoldEffect
      <4>2. QED
        BY <2>c, <4>1, CommittedKept DEF Founding
    <3>2. CASE MintTable
      <4>1. /\ UNCHANGED <<folds, process, head, heads, committed>> /\ phase' = "mark"
            /\ tables' = Append(tables, [prev |-> head, heads |-> Overlay(TableAt(head), newHeads)])
        BY <3>2 DEF MintTable
      <4>2. TablesKept
        BY <4>1, MintedTable DEF TablesKept, TypeInv, TypeOK
      <4>3. QED
        BY <2>b, <4>1, <4>2, CommittedKept DEF Founding
    <3>3. CASE AppendMark \/ CommitFails
      <4>1. UNCHANGED <<folds, tables, process, head, heads, committed>> /\ phase' \in {"publish", "free"}
        BY <3>3 DEF AppendMark, CommitFails, FinishBatch
      <4>2. QED
        BY <2>b, <2>c, <4>1, CommittedKept DEF Founding
    <3>4. QED
      BY <2>5, <3>1, <3>2, <3>3, CommittedFinish DEF Commit
  <2>6. CASE UNCHANGED vars
    <3>1. UNCHANGED <<folds, tables, process, head, heads, committed, phase>>
      BY <2>6 DEF vars
    <3>2. QED
      BY <2>b, <2>c, <3>1, CommittedKept DEF Founding
  <2>7. QED
    BY <2>1, <2>2, <2>3, <2>4, <2>5, <2>6 DEF Next
<1>3. QED
  BY <1>1, <1>2, TypeInvariant, Durability, PTL DEF Spec

(***************************************************************************)
(* What later verifications do not walk past is in the archive at s.head:  *)
(* neither a failed commit nor a crash leaves a claim trusted that was     *)
(* never published (isCommitted, commit, adopt).                           *)
(***************************************************************************)
THEOREM CommittedIsArchived ==
    ASSUME FoundReliable
    PROVE  Spec => []CommittedArchived
<1>1. CommittedInv => CommittedArchived
  BY DEF CommittedInv
<1>2. QED
  BY <1>1, CommittedInvariant, PTL

-----------------------------------------------------------------------------
(* The list, when a bookmark write that reports an error left no record.   *)

MarkReliable == FoundReliable /\ "landed" \notin Faults

(* s.head is the newest bookmark until a commit writes the next one, which  *)
(* names a diff over s.head that brings something new.                      *)
SpineInv ==
    /\ \A i \in 2..Len(marks) : tables[marks[i]].prev = marks[i - 1]
    /\ process = "up" /\ phase \in {"free", "fold", "mark"} => head = Latest
    /\ cursor # 0 => cursor = Len(marks)
    /\ phase \in {"foundTable", "foundMark"} => marks = <<>>
    /\ phase = "mark" => tables[Len(tables)].prev = head /\ newHeads # NoHeads
    /\ phase \in {"fold", "mark"} =>
          \A b \in Branches : newHeads[b] # None => newHeads[b] \notin ClosureOf(heads[b])

LEMMA LatestIsNone ==
    ASSUME TypeInv, Latest = 0
    PROVE  marks = <<>>
<1>1. marks \in Seq(Nat) /\ \A i \in 1..Len(marks) : marks[i] # 0
  BY DEF TypeInv, TypeOK, IdsOK
<1>2. marks # <<>> => Len(marks) \in 1..Len(marks)
  BY <1>1
<1>3. QED
  BY <1>1, <1>2 DEF Latest

(* A step that leaves the list and s.head alone. *)
LEMMA SpineKept ==
    ASSUME TypeInv, SpineInv, ClosuresKept, TablesKept,
           UNCHANGED <<marks, head, heads, cursor, process>>,
           process = "up" \/ phase' = "free",
           process' = "up" /\ phase' \in {"free", "fold", "mark"} => phase \in {"free", "fold", "mark"},
           phase' \in {"foundTable", "foundMark"} => phase \in {"foundTable", "foundMark"},
           phase' = "mark" => tables'[Len(tables')].prev = head /\ newHeads' # NoHeads,
           phase' \in {"fold", "mark"} =>
               \A b \in Branches : newHeads'[b] # None => newHeads'[b] \notin ClosureOf(heads[b])
    PROVE  SpineInv'
<1>1. marks \in Seq(Nat) /\ \A i \in 1..Len(marks) : marks[i] \in 1..Len(tables)
  BY DEF TypeInv, TypeOK, IdsOK
<1>2. \A i \in 2..Len(marks) : tables'[marks[i]] = tables[marks[i]]
  BY <1>1 DEF TablesKept
<1>3. \A i \in 2..Len(marks') : tables'[marks'[i]].prev = marks'[i - 1]
  BY <1>2 DEF SpineInv
<1>4. process' = "up" /\ phase' \in {"free", "fold", "mark"} => head' = Latest'
  BY DEF SpineInv, Latest
<1>5. \A b \in Branches : ClosureIn(folds', heads[b]) = ClosureOf(heads[b])
  BY DEF ClosuresKept, TypeInv, IdsOK, ClosureIn, ClosureOf
<1>6. phase' \in {"fold", "mark"} =>
        \A b \in Branches : newHeads'[b] # None => newHeads'[b] \notin ClosureIn(folds', heads'[b])
  BY <1>5
<1>7. (cursor # 0 => cursor = Len(marks))' /\ (phase \in {"foundTable", "foundMark"} => marks = <<>>)'
  BY DEF SpineInv
<1>8. QED
  BY <1>3, <1>4, <1>6, <1>7 DEF SpineInv, ClosureIn, ClosureOf

(* Appending the next bookmark. *)
LEMMA SpineExtends ==
    ASSUME TypeInv, SpineInv, NEW t \in 1..Len(tables), PutMark(NextIndex, t)
    PROVE  /\ marks' = Append(marks, t)
           /\ NextIndex = Len(marks')
           /\ Latest' = t
           /\ Len(marks') = Len(marks) + 1 /\ marks'[Len(marks) + 1] = t
           /\ \A i \in 1..Len(marks) : marks'[i] = marks[i]
           /\ marks # <<>> => Latest = marks[Len(marks)]
<1>1. marks \in Seq(Nat) /\ Len(marks) \in Nat /\ t \in Nat
  BY DEF TypeInv, TypeOK
<1>2. NextIndex = Len(marks) + 1
  BY DEF NextIndex, SpineInv
<1>3. marks' = Append(marks, t)
  BY <1>1, <1>2 DEF PutMark
<1>4. Len(marks') = Len(marks) + 1 /\ marks'[Len(marks) + 1] = t /\ \A i \in 1..Len(marks) : marks'[i] = marks[i]
  BY <1>1, <1>3
<1>5. marks' # <<>>
  BY <1>1, <1>4
<1>6. QED
  BY <1>1, <1>2, <1>3, <1>4, <1>5 DEF Latest

LEMMA SpineCommit ==
    ASSUME TypeInv, DurableInv, SpineInv, Commit, MarkReliable
    PROVE  SpineInv'
<1> USE DEF durable, memory, section, writers, bounds
<1>1. /\ ControlOK /\ MarksOK /\ TablesOK
      /\ marks \in Seq(Nat) /\ process \in {"up", "down"} /\ newHeads \in HeadMap /\ Len(tables) \in Nat
      /\ Len(marks) \in Nat
  BY DEF DurableInv, TypeInv, TypeOK
<1>2. process = "up"
  BY <1>1 DEF Commit, FoldBranch, NoAdvance, MintTable, AppendMark, Publish, CommitFails, ControlOK
<1>3. folds' = folds => ClosuresKept
  BY ClosuresOnlyGrow
<1>4. tables' = tables => TablesKept
  BY TablesUnchanged
<1>5. ASSUME NEW b \in Branches, FoldBranch(b) PROVE SpineInv'
  <2>1. /\ phase = "fold" /\ phase' = "fold" /\ ClosuresKept
        /\ \A c \in Branches \ {b} : newHeads'[c] = newHeads[c]
        /\ newHeads' = newHeads \/ newHeads'[b] \notin ClosureOf(heads[b])
        /\ UNCHANGED <<tables, marks, head, heads, cursor, process>>
    BY <1>5, FoldEffect
  <2>2. \A c \in Branches : newHeads'[c] # None => newHeads'[c] \notin ClosureOf(heads[c])
    BY <2>1 DEF SpineInv
  <2>3. QED
    BY <1>2, <1>4, <2>1, <2>2, SpineKept
<1>6. CASE MintTable
  <2>1. /\ phase = "fold" /\ phase' = "mark" /\ newHeads # NoHeads
        /\ tables' = Append(tables, [prev |-> head, heads |-> Overlay(TableAt(head), newHeads)])
        /\ UNCHANGED <<folds, marks, head, heads, cursor, process, newHeads>>
    BY <1>6 DEF MintTable
  <2>2. /\ Len(tables') = Len(tables) + 1
        /\ \A t \in 1..Len(tables) : tables'[t] = tables[t]
        /\ tables'[Len(tables) + 1] = [prev |-> head, heads |-> Overlay(TableAt(head), newHeads)]
    BY <2>1, MintedTable
  <2>3. TablesKept /\ tables'[Len(tables')].prev = head
    BY <1>1, <2>2 DEF TablesKept
  <2>4. \A c \in Branches : newHeads'[c] # None => newHeads'[c] \notin ClosureOf(heads[c])
    BY <2>1 DEF SpineInv
  <2>5. QED
    BY <1>2, <1>3, <2>1, <2>3, <2>4, SpineKept
<1>7. CASE AppendMark
  <2>1. /\ phase = "mark" /\ phase' = "publish" /\ PutMark(NextIndex, Len(tables)) /\ cursor' = NextIndex
        /\ UNCHANGED <<tables, process>>
    BY <1>7 DEF AppendMark
  <2>2. Len(tables) \in 1..Len(tables)
    BY <1>1, <2>1 DEF TypeInv, IdsOK
  <2>3. /\ Len(marks') = Len(marks) + 1 /\ marks'[Len(marks) + 1] = Len(tables)
        /\ \A i \in 1..Len(marks) : marks'[i] = marks[i]
        /\ cursor' = Len(marks')
        /\ marks # <<>> => Latest = marks[Len(marks)]
    BY <2>1, <2>2, SpineExtends
  <2>4. tables[Len(tables)].prev = head /\ head = Latest
    BY <1>2, <2>1 DEF SpineInv
  <2>5. ASSUME NEW i \in 2..Len(marks') PROVE tables[marks'[i]].prev = marks'[i - 1]
    <3>1. CASE i \in 2..Len(marks)
      <4>1. i \in 1..Len(marks) /\ i - 1 \in 1..Len(marks)
        BY <1>1, <3>1
      <4>2. QED
        BY <3>1, <4>1, <2>3 DEF SpineInv
    <3>2. CASE i = Len(marks) + 1
      <4>1. i - 1 = Len(marks) /\ Len(marks) \in 1..Len(marks) /\ marks # <<>>
        BY <1>1, <2>3, <3>2
      <4>2. QED
        BY <3>2, <4>1, <2>3, <2>4
    <3>3. QED
      BY <1>1, <2>3, <3>1, <3>2
  <2>6. QED
    BY <2>1, <2>3, <2>5 DEF SpineInv
<1>8. CASE Publish
  <2>1. /\ phase = "publish" /\ phase' = "free" /\ head' = Len(tables)
        /\ UNCHANGED <<tables, marks, cursor, process>>
    BY <1>8 DEF Publish, FinishBatch
  <2>2. Latest' = Len(tables)
    BY <1>1, <2>1 DEF MarksOK, Latest
  <2>3. QED
    BY <2>1, <2>2 DEF SpineInv
<1>9. CASE NoAdvance
  <2>1. phase = "fold" /\ phase' = "free" /\ UNCHANGED <<folds, tables, marks, head, heads, cursor, process>>
    BY <1>9 DEF NoAdvance, FinishBatch
  <2>2. QED
    BY <1>2, <1>3, <1>4, <2>1, SpineKept
<1>10. CASE CommitFails
  <2>1. /\ phase \in {"fold", "mark"} /\ phase' = "free"
        /\ UNCHANGED <<folds, tables, marks, head, heads, cursor, process>>
    BY <1>10 DEF CommitFails, FinishBatch, Fault, MarkReliable
  <2>2. QED
    BY <1>2, <1>3, <1>4, <2>1, SpineKept
<1>11. QED
  BY <1>5, <1>6, <1>7, <1>8, <1>9, <1>10 DEF Commit

LEMMA SpineFound ==
    ASSUME TypeInv, DurableInv, SpineInv, Found, MarkReliable
    PROVE  SpineInv'
<1> USE DEF durable, memory, section, writers, bounds
<1>1. /\ ControlOK /\ MarksOK
      /\ marks \in Seq(Nat) /\ process \in {"up", "down"} /\ Len(tables) \in Nat
      /\ tables \in Seq(Table)
  BY DEF DurableInv, TypeInv, TypeOK
<1>2. folds' = folds => ClosuresKept
  BY ClosuresOnlyGrow
<1>3. tables' = tables => TablesKept
  BY TablesUnchanged
<1>4. ASSUME NEW b \in Branches, FoundGenesis(b) PROVE SpineInv'
  <2>1. /\ process = "up" /\ phase = "free" /\ head = 0 /\ phase' = "foundTable"
        /\ UNCHANGED <<marks, cursor>>
    BY <1>4 DEF FoundGenesis
  <2>2. marks = <<>>
    BY <2>1, LatestIsNone DEF SpineInv
  <2>3. Len(marks') = 0
    BY <2>1, <2>2
  <2>4. QED
    BY <2>1, <2>2, <2>3 DEF SpineInv
<1>5. CASE FoundGenesisFails
  <2>1. process = "up" /\ phase = "free" /\ UNCHANGED <<folds, tables, marks, head, heads, cursor, process, phase>>
    BY <1>5 DEF FoundGenesisFails
  <2>2. QED
    BY <1>2, <1>3, <2>1, SpineKept
<1>6. CASE FoundTable
  <2>1. /\ phase = "foundTable" /\ phase' = "foundMark"
        /\ tables' = Append(tables, [prev |-> head, heads |-> Overlay(TableAt(head), newHeads)])
        /\ UNCHANGED <<folds, marks, head, heads, cursor, process>>
    BY <1>6 DEF FoundTable
  <2>2. TablesKept
    BY <2>1, MintedTable DEF TablesKept, TypeInv, TypeOK
  <2>3. process = "up"
    BY <1>1, <2>1 DEF ControlOK
  <2>4. QED
    BY <1>2, <2>1, <2>2, <2>3, SpineKept
<1>7. CASE FoundMark
  <2>1. /\ phase = "foundMark" /\ phase' = "foundPublish" /\ PutMark(NextIndex, Len(tables)) /\ cursor' = NextIndex
        /\ UNCHANGED <<tables, process>>
    BY <1>7 DEF FoundMark
  <2>2. Len(tables) \in 1..Len(tables) /\ marks = <<>>
    BY <1>1, <2>1 DEF TypeInv, IdsOK, SpineInv
  <2>3. Len(marks') = Len(marks) + 1 /\ cursor' = Len(marks')
    BY <2>1, <2>2, SpineExtends
  <2>4. Len(marks') = 1
    BY <2>2, <2>3
  <2>5. QED
    BY <2>1, <2>3, <2>4 DEF SpineInv
<1>8. CASE FoundPublish
  <2>1. /\ phase = "foundPublish" /\ phase' = "free" /\ head' = Len(tables)
        /\ UNCHANGED <<tables, marks, cursor, process>>
    BY <1>8 DEF FoundPublish
  <2>2. Latest' = Len(tables)
    BY <1>1, <2>1 DEF MarksOK, Latest
  <2>3. QED
    BY <2>1, <2>2 DEF SpineInv
<1>9. ~FoundFails
  BY DEF FoundFails, Fault, FoundReliable, MarkReliable
<1>10. QED
  BY <1>4, <1>5, <1>6, <1>7, <1>8, <1>9 DEF Found

LEMMA SpineInvariant ==
    ASSUME MarkReliable
    PROVE  Spec => []SpineInv
<1>1. Init => SpineInv
  BY DEF Init, SpineInv, Latest
<1>2. TypeInv /\ DurableInv /\ SpineInv /\ [Next]_vars => SpineInv'
  <2> SUFFICES ASSUME TypeInv, DurableInv, SpineInv, [Next]_vars PROVE SpineInv'
    OBVIOUS
  <2> USE DEF durable, memory, section, writers, bounds
  <2>a. ControlOK /\ process \in {"up", "down"}
    BY DEF DurableInv, TypeInv, TypeOK
  <2>b. folds' = folds => ClosuresKept
    BY ClosuresOnlyGrow
  <2>c. tables' = tables => TablesKept
    BY TablesUnchanged
  <2>1. CASE NewSequencer
    <3>1. phase = "free" /\ phase' = "free" /\ head' = Latest /\ UNCHANGED <<tables, marks, cursor>>
      BY <2>1, <2>a DEF NewSequencer, ControlOK
    <3>2. QED
      BY <3>1 DEF SpineInv, Latest
  <2>2. CASE Crash
    BY <2>2 DEF Crash, SpineInv
  <2>3. CASE Found
    BY <2>3, SpineFound
  <2>4. ASSUME NEW w \in Writers, Contribute(w) PROVE SpineInv'
    <3>1. UNCHANGED <<tables, marks, process, head, heads, cursor>>
      BY <2>4 DEF Contribute, NewContribution, AddClaims, StageBranch, SealBranch, RefuseBranch,
                  Persist, Drop, Merge, Drain, Return
    <3>2. CASE SealBranch(w)
      <4>1. ClosuresKept /\ UNCHANGED <<phase, newHeads>>
        BY <3>2, SealEffect
      <4>2. process = "up" \/ phase = "free"
        BY <2>a DEF ControlOK
      <4>3. QED
        BY <2>c, <3>1, <4>1, <4>2, SpineKept DEF SpineInv
    <3>3. CASE Drain(w)
      <4>1. /\ UNCHANGED folds /\ phase = "free"
            /\ phase' = "free" \/ (phase' = "fold" /\ queue # {} /\ newHeads' = NoHeads)
        BY <3>3 DEF Drain
      <4>2. process = "up" \/ phase' = "free"
        BY <2>a, <4>1 DEF ControlOK
      <4>3. QED
        BY <2>b, <2>c, <3>1, <4>1, <4>2, SpineKept DEF NoHeads
    <3>4. CASE ~SealBranch(w) /\ ~Drain(w)
      <4>1. UNCHANGED <<folds, phase, newHeads>>
        BY <2>4, <3>4 DEF Contribute, NewContribution, AddClaims, StageBranch, RefuseBranch,
                          Persist, Drop, Merge, Return
      <4>2. process = "up" \/ phase = "free"
        BY <2>a DEF ControlOK
      <4>3. QED
        BY <2>b, <2>c, <3>1, <4>1, <4>2, SpineKept DEF SpineInv
    <3>5. QED
      BY <3>2, <3>3, <3>4
  <2>5. CASE Commit
    BY <2>5, SpineCommit
  <2>6. CASE UNCHANGED vars
    <3>1. UNCHANGED <<folds, tables, marks, process, head, heads, cursor, phase, newHeads>>
      BY <2>6 DEF vars
    <3>2. process = "up" \/ phase = "free"
      BY <2>a DEF ControlOK
    <3>3. QED
      BY <2>b, <2>c, <3>1, <3>2, SpineKept DEF SpineInv
  <2>7. QED
    BY <2>1, <2>2, <2>3, <2>4, <2>5, <2>6 DEF Next
<1>3. FoundReliable
  BY DEF MarkReliable
<1>4. QED
  BY <1>1, <1>2, <1>3, TypeInvariant, Durability, PTL DEF Spec

(***************************************************************************)
(* The bookmark list is the spine of the archive: each table it records is *)
(* a diff over the one recorded before, and a Sequencer at rest stands at  *)
(* the newest, through failed writes, crashes and restarts (commit, adopt, *)
(* Bookmarks.Append), provided a Put that fails leaves no record.          *)
(***************************************************************************)
THEOREM ListIsTheSpine ==
    ASSUME MarkReliable
    PROVE  Spec => []ListIsSpine
<1>1. SpineInv => ListIsSpine
  BY DEF SpineInv, ListIsSpine
<1>2. QED
  BY <1>1, SpineInvariant, PTL

(* Before and after a bookmark write. *)
LEMMA ListGrows ==
    ASSUME TypeInv, DurableInv, SpineInv, [Next]_vars, MarkReliable, marks' # marks
    PROVE  /\ FoundMark \/ AppendMark
           /\ UNCHANGED <<folds, tables, heads, newHeads, contribution, pc, batch, acked>>
           /\ Len(tables) \in 1..Len(tables) /\ Latest' = Len(tables)
<1> USE DEF durable, memory, section, writers, bounds
<1>1. FoundMark \/ AppendMark
  <2>1. ASSUME NEW w \in Writers, Contribute(w) PROVE FALSE
    BY <2>1 DEF Contribute, NewContribution, AddClaims, StageBranch, SealBranch, RefuseBranch,
                Persist, Drop, Merge, Drain, Return
  <2>2. Found => FoundMark
    BY DEF Found, FoundGenesis, FoundGenesisFails, FoundTable, FoundPublish, FoundFails, Fault,
           FoundReliable, MarkReliable
  <2>3. Commit => AppendMark
    BY DEF Commit, FoldBranch, NoAdvance, MintTable, Publish, CommitFails, Fault, MarkReliable
  <2>4. QED
    BY <2>1, <2>2, <2>3 DEF Next, NewSequencer, Crash, vars
<1>2. /\ PutMark(NextIndex, Len(tables)) /\ phase \in {"foundMark", "mark"}
      /\ UNCHANGED <<folds, tables, heads, newHeads, contribution, pc, batch, acked>>
  BY <1>1 DEF FoundMark, AppendMark
<1>3. Len(tables) \in 1..Len(tables)
  BY <1>2 DEF TypeInv, TypeOK, IdsOK
<1>4. Latest' = Len(tables)
  BY <1>2, <1>3, SpineExtends
<1>5. QED
  BY <1>1, <1>2, <1>3, <1>4

(***************************************************************************)
(* Idempotency: every new bookmark records an archive that holds something *)
(* the one before did not, so merging what is already there advances       *)
(* nothing (foldBranch's closure test, commit's early return).             *)
(***************************************************************************)
THEOREM AdvancesBringNews ==
    ASSUME MarkReliable
    PROVE  Spec => NoEmptyAdvance
<1> DEFINE News == marks' # marks =>
             \E b \in Branches : ~(BranchClosure(Latest, b)' \subseteq BranchClosure(Latest, b))
<1>1. TypeInv /\ DurableInv /\ CommittedInv /\ SpineInv /\ [Next]_vars => [News]_vars
  <2> SUFFICES ASSUME TypeInv, DurableInv, CommittedInv, SpineInv, [Next]_vars, marks' # marks
               PROVE  \E b \in Branches : ~(BranchClosure(Latest, b)' \subseteq BranchClosure(Latest, b))
    OBVIOUS
  <2>1. /\ FoundMark \/ AppendMark
        /\ UNCHANGED <<folds, tables, heads, newHeads>>
        /\ Len(tables) \in 1..Len(tables) /\ Latest' = Len(tables)
    BY ListGrows
  <2>2. TablesOK /\ FoldsOK /\ ControlOK /\ newHeads \in HeadMap /\ Len(tables) # 0
    BY <2>1 DEF DurableInv, TypeInv, TypeOK
  <2>3. \A b \in Branches : BranchClosure(Latest, b)' = ClosureOf(tables[Len(tables)].heads[b])
    BY <2>1, <2>2 DEF BranchClosure, ClosureOf
  <2>4. CASE FoundMark
    <3>1. phase = "foundMark" /\ marks = <<>>
      BY <2>4 DEF FoundMark, SpineInv
    <3>2. tables[Len(tables)].heads = heads
      BY <3>1, <2>2 DEF TablesOK
    <3>3. PICK b \in Branches : heads[b] = Operator
      BY <3>1 DEF CommittedInv, Founding
    <3>4. Operator \in ClosureOf(heads[b])
      BY <3>3, ConstantsAssumption, ReachIsTransitive DEF ClosureOf
    <3>5. BranchClosure(Latest, b) = {}
      BY <3>1 DEF BranchClosure, Latest
    <3>6. QED
      BY <2>3, <3>2, <3>4, <3>5
  <2>5. CASE AppendMark
    <3>1. phase = "mark" /\ process = "up"
      BY <2>2, <2>5 DEF AppendMark, ControlOK, TypeInv, TypeOK
    <3>2. /\ newHeads # NoHeads /\ head = Latest /\ heads = TableAt(head)
          /\ tables[Len(tables)].heads = Moved
      BY <2>2, <3>1 DEF SpineInv, TablesOK, HeadsArePublished
    <3>3. PICK b \in Branches : newHeads[b] # None
      BY <2>2, <3>2 DEF NoHeads, HeadMap
    <3>4. newHeads[b] \notin ClosureOf(heads[b]) /\ Moved[b] = newHeads[b] /\ Present(newHeads[b])
      BY <3>1, <3>3 DEF SpineInv, Moved, Overlay, TypeInv, IdsOK
    <3>5. newHeads[b] \in ClosureOf(Moved[b])
      BY <2>2, <3>4, ClosureReflexive
    <3>6. BranchClosure(Latest, b) = ClosureOf(heads[b])
      BY <3>2, TableClosure
    <3>7. QED
      BY <2>3, <3>2, <3>4, <3>5, <3>6
  <2>6. QED
    BY <2>1, <2>4, <2>5
<1>2. FoundReliable
  BY DEF MarkReliable
<1>3. QED
  BY <1>1, <1>2, TypeInvariant, Durability, CommittedInvariant, SpineInvariant, PTL
     DEF Spec, NoEmptyAdvance

-----------------------------------------------------------------------------
(* Refinement.                                                             *)

(* A commit folds in the batch and nothing but the batch. *)
OnlyBatch ==
    phase \in {"fold", "mark", "publish"} =>
        \A b \in Branches :
            ClosureOf(Moved[b]) \cap Claims \subseteq
                ClosureOf(heads[b]) \cup UNION {Reach(contribution[v].staged[b]) : v \in batch}

LEMMA OnlyBatchKept ==
    ASSUME TypeInv, OnlyBatch, ClosuresKept, UNCHANGED <<heads, newHeads, batch>>,
           phase' \in {"fold", "mark", "publish"} => phase \in {"fold", "mark", "publish"},
           \A v \in batch : contribution'[v].staged = contribution[v].staged
    PROVE  OnlyBatch'
<1>1. \A b \in Branches : /\ Moved[b] = None \/ Present(Moved[b])
                          /\ heads[b] = None \/ Present(heads[b])
  BY DEF Moved, Overlay, TypeInv, IdsOK
<1>2. \A b \in Branches : /\ ClosureIn(folds', Moved[b]) = ClosureOf(Moved[b])
                          /\ ClosureIn(folds', heads[b]) = ClosureOf(heads[b])
  BY <1>1 DEF ClosuresKept, ClosureIn, ClosureOf
<1>3. Moved' = Moved
  BY DEF Moved
<1>4. ASSUME phase' \in {"fold", "mark", "publish"}, NEW b \in Branches
      PROVE  ClosureIn(folds', Moved[b]) \cap Claims \subseteq
                ClosureIn(folds', heads[b]) \cup UNION {Reach(contribution'[v].staged[b]) : v \in batch}
  BY <1>2, <1>4 DEF OnlyBatch
<1>5. QED
  BY <1>3, <1>4 DEF OnlyBatch, ClosureIn, ClosureOf

LEMMA OnlyBatchInvariant == Spec => []OnlyBatch
<1>1. Init => OnlyBatch
  BY DEF Init, OnlyBatch
<1>2. TypeInv /\ WriterInv /\ OnlyBatch /\ [Next]_vars => OnlyBatch'
  <2> SUFFICES ASSUME TypeInv, WriterInv, OnlyBatch, [Next]_vars PROVE OnlyBatch'
    OBVIOUS
  <2> USE DEF durable, memory, section, writers, bounds
  <2>a. folds' = folds => ClosuresKept
    BY ClosuresOnlyGrow
  <2>b. /\ ControlOK /\ batch \subseteq Writers /\ heads \in HeadMap /\ newHeads \in HeadMap
        /\ contribution \in [Writers -> ContributionType]
    BY DEF WriterInv, TypeInv, TypeOK
  <2>1. CASE NewSequencer
    BY <2>1, <2>b DEF NewSequencer, OnlyBatch, ControlOK
  <2>2. CASE Crash
    BY <2>2 DEF Crash, OnlyBatch
  <2>3. CASE Found
    BY <2>3 DEF Found, FoundGenesis, FoundGenesisFails, FoundTable, FoundMark, FoundFails, FoundPublish,
                OnlyBatch
  <2>4. ASSUME NEW w \in Writers, Contribute(w) PROVE OnlyBatch'
    <3>1. CASE Drain(w)
      <4>1. CASE queue = {}
        <5>1. UNCHANGED <<folds, heads, newHeads, batch, contribution, phase>>
          BY <3>1, <4>1 DEF Drain
        <5>2. QED
          BY <2>a, <5>1, OnlyBatchKept
      <4>2. CASE queue # {}
        <5>1. newHeads' = NoHeads /\ heads' = heads
          BY <3>1, <4>2 DEF Drain
        <5>2. Moved' = heads'
          BY <2>b, <5>1 DEF Moved, Overlay, NoHeads, HeadMap
        <5>3. QED
          BY <5>2 DEF OnlyBatch
      <4>3. QED
        BY <4>1, <4>2
    <3>2. CASE ~Drain(w)
      <4>1. UNCHANGED <<heads, newHeads, batch, phase>>
        BY <2>4, <3>2 DEF Contribute, NewContribution, AddClaims, StageBranch, SealBranch, RefuseBranch,
                          Persist, Drop, Merge, Return
      <4>2. ClosuresKept
        <5>1. CASE SealBranch(w)
          BY <5>1, SealEffect
        <5>2. CASE ~SealBranch(w)
          BY <2>4, <2>a, <3>2, <5>2 DEF Contribute, NewContribution, AddClaims, StageBranch, RefuseBranch,
                                        Persist, Drop, Merge, Return
        <5>3. QED
          BY <5>1, <5>2
      <4>3. \A v \in batch : contribution'[v].staged = contribution[v].staged
        <5>1. \A v \in batch \ {w} : contribution'[v] = contribution[v]
          BY <2>4, <2>b, <3>2 DEF Contribute, NewContribution, AddClaims, StageBranch, SealBranch,
                                  RefuseBranch, Persist, Drop, Merge, Return
        <5>2. w \in batch => pc[w] \in Submitted
          BY <2>b DEF ControlOK
        <5>3. pc[w] \in Submitted => contribution' = contribution
          BY <2>4, <3>2 DEF Contribute, NewContribution, AddClaims, StageBranch, SealBranch,
                            RefuseBranch, Persist, Drop, Merge, Return, Submitted
        <5>4. QED
          BY <5>1, <5>2, <5>3
      <4>4. QED
        BY <4>1, <4>2, <4>3, OnlyBatchKept
    <3>3. QED
      BY <3>1, <3>2
  <2>5. CASE Commit
    <3>1. ASSUME NEW b \in Branches, FoldBranch(b) PROVE OnlyBatch'
      <4>1. /\ phase = "fold" /\ phase' = "fold" /\ ClosuresKept
            /\ \A c \in Branches \ {b} : newHeads'[c] = newHeads[c]
            /\ \/ newHeads' = newHeads
               \/ /\ newHeads'[b] # None
                  /\ ClosureIn(folds', newHeads'[b]) \cap Claims =
                        Claims \cap UNION {ClosureOf(h) : h \in FoldSet(b)}
            /\ UNCHANGED <<heads, batch, contribution>>
        BY <3>1, FoldEffect
      <4>2. \A c \in Branches : /\ Moved[c] = None \/ Present(Moved[c])
                                /\ heads[c] = None \/ Present(heads[c])
        BY DEF Moved, Overlay, TypeInv, IdsOK
      <4>3. \A c \in Branches : /\ ClosureIn(folds', Moved[c]) = ClosureOf(Moved[c])
                                /\ ClosureIn(folds', heads[c]) = ClosureOf(heads[c])
        BY <4>1, <4>2 DEF ClosuresKept, ClosureIn, ClosureOf
      <4>4. CASE newHeads' = newHeads
        BY <4>1, <4>4, OnlyBatchKept
      <4>5. CASE newHeads' # newHeads
        <5>1. Claims \cap UNION {ClosureOf(h) : h \in FoldSet(b)} \subseteq
                ClosureOf(heads[b]) \cup UNION {Reach(contribution[v].staged[b]) : v \in batch}
          <6>1. ASSUME NEW h \in FoldSet(b)
                PROVE  ClosureOf(h) \cap Claims \subseteq
                          ClosureOf(heads[b]) \cup UNION {Reach(contribution[v].staged[b]) : v \in batch}
            <7>1. CASE h = heads[b]
              BY <7>1
            <7>2. CASE h # heads[b]
              <8>1. PICK v \in batch : b \in Named(v) /\ h = contribution[v].heads[b] /\ h # None
                BY <7>2 DEF FoldSet, Fresh, Contributed
              <8>2. ClosureOf(h) \cap Claims = Reach(contribution[v].staged[b])
                BY <2>b, <8>1 DEF WriterInv, Whole
              <8>3. QED
                BY <8>2
            <7>3. QED
              BY <7>1, <7>2
          <6>2. QED
            BY <6>1
        <5>2. Moved'[b] = newHeads'[b]
          BY <4>1, <4>5 DEF Moved, Overlay
        <5>3. \A c \in Branches \ {b} : Moved'[c] = Moved[c]
          BY <4>1 DEF Moved, Overlay
        <5>4. ASSUME NEW c \in Branches
              PROVE  ClosureIn(folds', Moved'[c]) \cap Claims \subseteq
                        ClosureIn(folds', heads[c]) \cup UNION {Reach(contribution[v].staged[c]) : v \in batch}
          <6>1. CASE c = b
            BY <6>1, <4>1, <4>3, <4>5, <5>1, <5>2
          <6>2. CASE c # b
            BY <6>2, <4>1, <4>3, <5>3 DEF OnlyBatch
          <6>3. QED
            BY <6>1, <6>2
        <5>5. QED
          BY <4>1, <5>4 DEF OnlyBatch, ClosureIn, ClosureOf
      <4>6. QED
        BY <4>4, <4>5
    <3>2. CASE MintTable \/ AppendMark
      <4>1. UNCHANGED <<folds, heads, newHeads, batch, contribution>> /\ phase \in {"fold", "mark"}
        BY <3>2 DEF MintTable, AppendMark
      <4>2. QED
        BY <2>a, <4>1, OnlyBatchKept
    <3>3. CASE NoAdvance \/ Publish \/ CommitFails
      BY <3>3 DEF NoAdvance, Publish, CommitFails, FinishBatch, OnlyBatch
    <3>4. QED
      BY <2>5, <3>1, <3>2, <3>3 DEF Commit
  <2>6. CASE UNCHANGED vars
    <3>1. UNCHANGED <<folds, heads, newHeads, batch, contribution, phase>>
      BY <2>6 DEF vars
    <3>2. QED
      BY <2>a, <3>1, OnlyBatchKept
  <2>7. QED
    BY <2>1, <2>2, <2>3, <2>4, <2>5, <2>6 DEF Next
<1>3. QED
  BY <1>1, <1>2, TypeInvariant, WriterInvariant, PTL DEF Spec

(* The state of ArchiveLog, as the refinement mapping reads it off. *)
Content == [b \in Branches |-> BranchClosure(Latest, b) \cap Claims]
Offer == [w \in Writers |->
            IF Merging(w) THEN contribution[w].staged ELSE [b \in Branches |-> {}]]

(* 𝒰 is add-only. *)
LEMMA UniverseOnlyGrows ==
    ASSUME TypeInv, [Next]_vars
    PROVE  ClosuresKept /\ TablesKept
<1> USE DEF durable, memory, section, writers, bounds
<1>1. folds' = folds => ClosuresKept
  BY ClosuresOnlyGrow
<1>2. tables' = tables => TablesKept
  BY TablesUnchanged
<1>3. ASSUME NEW w \in Writers, Contribute(w) PROVE ClosuresKept /\ TablesKept
  <2>1. CASE SealBranch(w)
    BY <2>1, <1>2, SealEffect
  <2>2. CASE ~SealBranch(w)
    <3>1. UNCHANGED <<folds, tables>>
      BY <1>3, <2>2 DEF Contribute, NewContribution, AddClaims, StageBranch, RefuseBranch,
                        Persist, Drop, Merge, Drain, Return
    <3>2. QED
      BY <1>1, <1>2, <3>1
  <2>3. QED
    BY <2>1, <2>2
<1>4. CASE MintTable \/ FoundTable
  <2>1. /\ UNCHANGED folds
        /\ tables' = Append(tables, [prev |-> head, heads |-> Overlay(TableAt(head), newHeads)])
    BY <1>4 DEF MintTable, FoundTable
  <2>2. QED
    BY <1>1, <2>1, MintedTable DEF TablesKept, TypeInv, TypeOK
<1>5. ASSUME NEW b \in Branches, FoundGenesis(b) PROVE ClosuresKept /\ TablesKept
  <2>1. UNCHANGED folds /\ tables' = Append(tables, [prev |-> 0, heads |-> NoHeads])
    BY <1>5 DEF FoundGenesis
  <2>2. [prev |-> 0, heads |-> NoHeads] \in Table /\ tables \in Seq(Table)
    BY NoContributionType DEF Table, TypeInv, TypeOK
  <2>3. Len(tables') = Len(tables) + 1 /\ \A t \in 1..Len(tables) : tables'[t] = tables[t]
    BY <2>1, <2>2
  <2>4. QED
    BY <1>1, <2>1, <2>2, <2>3 DEF TablesKept
<1>6. ASSUME NEW b \in Branches, FoldBranch(b) PROVE ClosuresKept /\ TablesKept
  BY <1>2, <1>6, FoldEffect
<1>7. CASE \/ NewSequencer \/ Crash \/ FoundGenesisFails \/ FoundMark \/ FoundFails \/ FoundPublish
           \/ NoAdvance \/ AppendMark \/ Publish \/ CommitFails \/ UNCHANGED vars
  <2>1. UNCHANGED <<folds, tables>>
    BY <1>7 DEF NewSequencer, Crash, FoundGenesisFails, FoundMark, FoundFails, FoundPublish,
                NoAdvance, AppendMark, Publish, CommitFails, vars
  <2>2. QED
    BY <1>1, <1>2, <2>1
<1>8. QED
  BY <1>3, <1>4, <1>5, <1>6, <1>7 DEF Next, Found, Commit

LEMMA ContentKept ==
    ASSUME TypeInv, [Next]_vars, UNCHANGED marks
    PROVE  Content' = Content
<1>1. Latest' = Latest /\ Latest \in 0..Len(tables)
  BY TableAtType DEF Latest
<1>2. \A b \in Branches : BranchIn(folds', tables', Latest, b) = BranchClosure(Latest, b)
  BY <1>1, UniverseOnlyGrows, BranchesKept
<1>3. \A b \in Branches : BranchClosure(Latest, b)' = BranchClosure(Latest, b)
  BY <1>1, <1>2 DEF BranchIn, BranchClosure, ClosureIn, ClosureOf
<1>4. QED
  BY <1>3 DEF Content

(* Outside of Merge, its return and a crash, nobody's offer changes. *)
LEMMA OfferKept ==
    ASSUME TypeInv, WriterInv, [Next]_vars, ~Crash,
           \A w \in Writers : ~Merge(w) /\ ~Return(w)
    PROVE  Offer' = Offer
<1> USE DEF durable, memory, section, writers, bounds
<1>1. /\ pc \in [Writers -> Stations] /\ contribution \in [Writers -> ContributionType] /\ ControlOK
  BY DEF TypeInv, TypeOK, WriterInv
<1> SUFFICES ASSUME NEW v \in Writers
             PROVE  /\ pc'[v] \in Submitted <=> pc[v] \in Submitted
                    /\ pc[v] \in Submitted => contribution'[v].staged = contribution[v].staged
  BY DEF Offer, Merging, Submitted
<1>2. ASSUME NEW w \in Writers, Contribute(w)
      PROVE  /\ pc'[v] \in Submitted <=> pc[v] \in Submitted
             /\ pc[v] \in Submitted => contribution'[v].staged = contribution[v].staged
  <2>1. CASE v # w
    BY <1>1, <1>2, <2>1 DEF Contribute, NewContribution, AddClaims, StageBranch, SealBranch, RefuseBranch,
                            Persist, Drop, Drain
  <2>2. CASE v = w
    BY <1>1, <1>2, <2>2 DEF Contribute, NewContribution, AddClaims, StageBranch, SealBranch, RefuseBranch,
                            Persist, Drop, Drain, Submitted
  <2>3. QED
    BY <2>1, <2>2
<1>3. CASE NewSequencer \/ Found \/ UNCHANGED vars
  BY <1>3 DEF NewSequencer, Found, FoundGenesis, FoundGenesisFails, FoundTable, FoundMark, FoundFails,
              FoundPublish, vars
<1>4. CASE Commit
  <2>1. CASE NoAdvance \/ Publish \/ CommitFails
    <3>1. \E result, k : FinishBatch(result, k)
      BY <2>1 DEF NoAdvance, Publish, CommitFails
    <3>2. phase \in {"fold", "mark", "publish"}
      BY <2>1 DEF NoAdvance, Publish, CommitFails
    <3>3. pc' = [pc EXCEPT ![holder] = "waiting"] /\ contribution' = contribution /\ pc[holder] = "draining"
      BY <1>1, <3>1, <3>2 DEF FinishBatch, ControlOK
    <3>4. QED
      BY <1>1, <3>3 DEF Submitted
  <2>2. CASE ~(NoAdvance \/ Publish \/ CommitFails)
    BY <1>4, <2>2 DEF Commit, FoldBranch, MintTable, AppendMark
  <2>3. QED
    BY <2>1, <2>2
<1>5. QED
  BY <1>2, <1>3, <1>4 DEF Next

(* Found's bookmark write is the abstract genesis. *)
LEMMA FoundMarkFounds ==
    ASSUME TypeInv, DurableInv, WriterInv, CommittedInv, SpineInv, FoundMark,
           UNCHANGED <<folds, tables>>, Len(tables) \in 1..Len(tables), Latest' = Len(tables),
           Offer' = Offer, acked' = acked
    PROVE  \E b \in Branches : Log!Found(b)
<1>1. phase = "foundMark" /\ marks = <<>> /\ TablesOK /\ Len(tables) # 0
  BY DEF FoundMark, SpineInv, DurableInv
<1>2. tables[Len(tables)].heads = heads
  BY <1>1 DEF TablesOK
<1>3. PICK b \in Branches : heads[b] = Operator /\ \A c \in Branches \ {b} : heads[c] = None
  BY <1>1 DEF CommittedInv, Founding
<1>4. \A c \in Branches : Content[c] = {}
  BY <1>1 DEF Content, BranchClosure, Latest
<1>5. \A c \in Branches : BranchClosure(Latest, c)' = ClosureOf(heads[c])
  BY <1>1, <1>2 DEF BranchClosure, ClosureOf
<1>6. ClosureOf(None) = {} /\ ClosureOf(Operator) = {Operator} /\ Operator \in Claims
  BY ConstantsAssumption, OperatorIsSound DEF ClosureOf
<1>7. Content' = [Content EXCEPT ![b] = {Operator}]
  <2>1. \A c \in Branches : BranchClosure(Latest, c)' \cap Claims = IF c = b THEN {Operator} ELSE {}
    BY <1>3, <1>5, <1>6
  <2>2. Content' = [c \in Branches |-> IF c = b THEN {Operator} ELSE {}]
    BY <2>1 DEF Content
  <2>3. Content = [c \in Branches |-> {}]
    BY <1>4 DEF Content
  <2>4. QED
    BY <2>2, <2>3
<1>8. Log!Found(b)
  BY <1>4, <1>7 DEF Log!Found, Content, Offer
<1>9. QED
  BY <1>8

(* The bookmark write of a commit is the abstract advance of its batch. *)
LEMMA AppendMarkAdvances ==
    ASSUME TypeInv, DurableInv, WriterInv, SpineInv, OnlyBatch, AppendMark,
           UNCHANGED <<folds, tables>>, Len(tables) \in 1..Len(tables), Latest' = Len(tables),
           Offer' = Offer, acked' = acked
    PROVE  \E B \in SUBSET Writers : Log!Advance(B)
<1> DEFINE B == {w \in batch : Offer[w] # [b \in Branches |-> {}]}
<1>1. /\ phase = "mark" /\ process = "up" /\ TablesOK /\ FoldedOK /\ ControlOK /\ Len(tables) # 0
      /\ batch \subseteq Writers /\ todo = {}
      /\ contribution \in [Writers -> ContributionType]
  BY DEF AppendMark, DurableInv, ControlOK, TypeInv, TypeOK
<1>2. tables[Len(tables)].heads = Moved /\ heads = TableAt(head) /\ head = Latest
  BY <1>1 DEF TablesOK, HeadsArePublished, SpineInv
<1>3. \A b \in Branches : /\ BranchClosure(Latest, b)' = ClosureOf(Moved[b])
                          /\ BranchClosure(Latest, b) = ClosureOf(heads[b])
  BY <1>1, <1>2, TableClosure DEF BranchClosure, ClosureOf
<1>4. \A v \in batch : Offer[v] = contribution[v].staged
  BY <1>1 DEF ControlOK, Offer, Merging, Submitted
<1>5. Reach({}) = {}
  BY DEF Reach
<1>6. ASSUME NEW b \in Branches
      PROVE  ClosureOf(Moved[b]) \cap Claims =
                (ClosureOf(heads[b]) \cap Claims) \cup UNION {Reach(Offer[w][b]) : w \in B}
  <2>1. UNION {Reach(Offer[w][b]) : w \in B} = UNION {Reach(contribution[v].staged[b]) : v \in batch}
    <3>1. \A v \in batch \ B : Reach(contribution[v].staged[b]) = {}
      BY <1>4, <1>5
    <3>2. \A v \in B : v \in batch /\ Offer[v][b] = contribution[v].staged[b]
      BY <1>4
    <3>3. QED
      BY <3>1, <3>2, ZenonT(60)
  <2>2. ClosureOf(heads[b]) \subseteq ClosureOf(Moved[b])
    BY <1>1 DEF FoldedOK
  <2>3. ASSUME NEW v \in batch PROVE Reach(contribution[v].staged[b]) \subseteq ClosureOf(Moved[b]) \cap Claims
    <3>1. CASE b \in Named(v)
      <4>1. contribution[v].heads[b] # None
        BY <1>1, <3>1 DEF WriterInv, Whole, ControlOK
      <4>2. ClosureOf(contribution[v].heads[b]) \cap Claims = Reach(contribution[v].staged[b])
        BY <1>1, <4>1 DEF WriterInv, Whole
      <4>3. ClosureOf(contribution[v].heads[b]) \subseteq ClosureOf(Moved[b])
        BY <1>1, <3>1 DEF FoldedOK
      <4>4. QED
        BY <4>2, <4>3
    <3>2. CASE b \notin Named(v)
      BY <1>5, <3>2 DEF Named
    <3>3. QED
      BY <3>1, <3>2
  <2>4. ClosureOf(Moved[b]) \cap Claims \subseteq
            ClosureOf(heads[b]) \cup UNION {Reach(contribution[v].staged[b]) : v \in batch}
    BY <1>1 DEF OnlyBatch
  <2>5. QED
    BY <2>1, <2>2, <2>3, <2>4
<1>7. Content' = [b \in Branches |-> Content[b] \cup UNION {Reach(Offer[w][b]) : w \in B}]
  BY <1>3, <1>6 DEF Content
<1>8. B \in SUBSET Writers /\ \A w \in B : Offer[w] # [b \in Branches |-> {}]
  BY <1>1
<1> HIDE DEF B
<1>9. Log!Advance(B)
  BY <1>7, <1>8 DEF Log!Advance, Log!NoOffer, Content, Offer
<1>10. QED
  BY <1>8, <1>9

(* Receipts are given out for what the newest bookmark already holds. *)
LEMMA FinishAcknowledges ==
    ASSUME TypeInv, DurableInv, WriterInv, SpineInv, NoAdvance \/ Publish,
           Content' = Content, Offer' = Offer
    PROVE  \E B \in SUBSET Writers : Log!Acknowledge(B)
<1>1. /\ phase \in {"fold", "publish"} /\ process = "up" /\ TablesOK /\ ControlOK /\ MarksOK
      /\ batch \subseteq Writers /\ todo = {} /\ newHeads \in HeadMap /\ heads \in HeadMap
      /\ acked' = acked \cup BatchPairs
      /\ contribution \in [Writers -> ContributionType]
  BY DEF NoAdvance, Publish, DurableInv, ControlOK, TypeInv, TypeOK
<1>2. \A b \in Branches : BranchClosure(Latest, b) = ClosureOf(Moved[b])
  <2>1. CASE NoAdvance
    <3>1. newHeads = NoHeads /\ heads = TableAt(head) /\ head = Latest
      BY <1>1, <2>1 DEF NoAdvance, TablesOK, HeadsArePublished, SpineInv
    <3>2. Moved = heads
      BY <1>1, <3>1 DEF Moved, Overlay, NoHeads, HeadMap
    <3>3. QED
      BY <3>1, <3>2, TableClosure
  <2>2. CASE Publish
    <3>1. Latest = Len(tables) /\ tables[Len(tables)].heads = Moved /\ Len(tables) # 0
      BY <1>1, <2>2 DEF Publish, MarksOK, TablesOK, TypeInv, IdsOK
    <3>2. QED
      BY <3>1 DEF BranchClosure
  <2>3. QED
    BY <2>1, <2>2
<1>3. \A v \in batch : Offer[v] = contribution[v].staged
  BY <1>1 DEF ControlOK, Offer, Merging, Submitted
<1>4. \A v \in batch, b \in Branches : Offer[v][b] \subseteq Content[b]
  <2>1. \A v \in batch, b \in Branches : contribution[v].staged[b] \subseteq ClosureOf(Moved[b])
    BY <1>1, BatchReached
  <2>2. \A v \in batch, b \in Branches : contribution[v].staged[b] \subseteq Claims
    BY <1>1 DEF ContributionType
  <2>3. QED
    BY <1>2, <1>3, <2>1, <2>2 DEF Content
<1>5. BatchPairs = {p \in Branches \X Claims : \E v \in batch : p[2] \in Offer[v][p[1]]}
  BY <1>3 DEF BatchPairs
<1>6. Log!Acknowledge(batch)
  BY <1>1, <1>4, <1>5 DEF Log!Acknowledge, Content, Offer
<1>7. QED
  BY <1>1, <1>6

LEMMA OffersMove ==
    ASSUME TypeInv, Content' = Content, acked' = acked,
           Crash \/ \E w \in Writers : Merge(w) \/ Return(w)
    PROVE  [Log!Next]_(Log!vars)
<1> USE DEF durable, memory, section, writers, bounds
<1>1. pc \in [Writers -> Stations] /\ contribution \in [Writers -> ContributionType]
  BY DEF TypeInv, TypeOK
<1> DEFINE Nothing == [b \in Branches |-> {}]
<1>2. CASE Crash
  <2>1. Offer' = [w \in Writers |-> IF w \in Writers THEN Nothing ELSE Offer[w]]
    BY <1>2 DEF Crash, Offer, Merging
  <2>2. Log!Leave(Writers)
    BY <2>1 DEF Log!Leave, Log!NoOffer, Content, Offer
  <2>3. QED
    BY <2>2 DEF Log!Next
<1>3. ASSUME NEW w \in Writers, Return(w) PROVE [Log!Next]_(Log!vars)
  <2>1. Offer' = [v \in Writers |-> IF v \in {w} THEN Nothing ELSE Offer[v]]
    BY <1>1, <1>3 DEF Return, Offer, Merging
  <2>2. Log!Leave({w})
    BY <2>1 DEF Log!Leave, Log!NoOffer, Content, Offer
  <2>3. QED
    BY <2>2 DEF Log!Next
<1>4. ASSUME NEW w \in Writers, Merge(w) PROVE [Log!Next]_(Log!vars)
  <2>1. /\ pc[w] = "mergable" /\ pc' = [pc EXCEPT ![w] = "queued"] /\ contribution' = contribution
    BY <1>4 DEF Merge
  <2>2. Offer[w] = Nothing /\ Offer'[w] = contribution[w].staged
    BY <1>1, <2>1 DEF Offer, Merging
  <2>3. Offer' = [Offer EXCEPT ![w] = Offer'[w]]
    BY <1>1, <2>1 DEF Offer, Merging
  <2>4. Offer'[w] \in [Branches -> SUBSET Claims]
    BY <1>1, <2>2 DEF ContributionType
  <2>5. CASE Offer'[w] = Nothing
    <3>1. Offer' = Offer
      BY <2>2, <2>3, <2>5 DEF Offer
    <3>2. QED
      BY <3>1 DEF Log!vars, Content, Offer
  <2>6. CASE Offer'[w] # Nothing
    <3>1. Log!Submit(w)
      BY <2>2, <2>3, <2>4, <2>6 DEF Log!Submit, Log!NoOffer, Log!Offers, Content, Offer
    <3>2. QED
      BY <3>1 DEF Log!Next
  <2>7. QED
    BY <2>5, <2>6
<1>5. QED
  BY <1>2, <1>3, <1>4

(***************************************************************************)
(* The group commit implements the atomic archive.  Every step maps to a   *)
(* step of ArchiveLog or to nothing: the bookmark write is the instant at  *)
(* which a whole batch, and nothing but the batch, takes effect on all its *)
(* branches, and a receipt is given only for what is already in (Merge,    *)
(* drain, commit, Found, adopt).                                           *)
(***************************************************************************)
THEOREM ImplementsArchiveLog ==
    ASSUME MarkReliable
    PROVE  Spec => RefinesArchiveLog
<1>1. Init => Log!Init
  <2> SUFFICES ASSUME Init PROVE Log!Init
    OBVIOUS
  <2>1. Content = [b \in Branches |-> {}]
    BY DEF Init, Content, BranchClosure, Latest
  <2>2. Offer = [w \in Writers |-> [b \in Branches |-> {}]]
    BY DEF Init, Offer, Merging
  <2>3. QED
    BY <2>1, <2>2 DEF Init, Log!Init, Log!NoOffer, Content, Offer
<1>2. TypeInv /\ DurableInv /\ WriterInv /\ CommittedInv /\ SpineInv /\ OnlyBatch /\ [Next]_vars
        => [Log!Next]_(Log!vars)
  <2> SUFFICES ASSUME TypeInv, DurableInv, WriterInv, CommittedInv, SpineInv, OnlyBatch, [Next]_vars
               PROVE  [Log!Next]_(Log!vars)
    OBVIOUS
  <2> USE DEF durable, memory, section, writers, bounds
  <2>1. CASE marks' # marks
    <3>1. /\ FoundMark \/ AppendMark
          /\ UNCHANGED <<folds, tables, contribution, pc, acked>>
          /\ Len(tables) \in 1..Len(tables) /\ Latest' = Len(tables)
      BY <2>1, ListGrows
    <3>2. Offer' = Offer
      BY <3>1 DEF Offer, Merging
    <3>3. QED
      BY <3>1, <3>2, FoundMarkFounds, AppendMarkAdvances DEF Log!Next
  <2>2. CASE marks' = marks
    <3>1. Content' = Content
      BY <2>2, ContentKept
    <3>2. CASE Crash \/ \E w \in Writers : Merge(w) \/ Return(w)
      <4>1. acked' = acked
        BY <3>2 DEF Crash, Merge, Return
      <4>2. QED
        BY <3>1, <3>2, <4>1, OffersMove
    <3>3. CASE ~(Crash \/ \E w \in Writers : Merge(w) \/ Return(w))
      <4>1. Offer' = Offer
        BY <3>3, OfferKept
      <4>2. CASE NoAdvance \/ Publish
        BY <3>1, <4>1, <4>2, FinishAcknowledges DEF Log!Next
      <4>3. CASE ~(NoAdvance \/ Publish)
        <5>1. ASSUME NEW w \in Writers, Contribute(w) PROVE acked' = acked
          BY <5>1 DEF Contribute, NewContribution, AddClaims, StageBranch, SealBranch, RefuseBranch,
                      Persist, Drop, Merge, Drain, Return
        <5>2. Found => acked' = acked
          BY DEF Found, FoundGenesis, FoundGenesisFails, FoundTable, FoundMark, FoundFails, FoundPublish
        <5>3. Commit => acked' = acked
          BY <4>3 DEF Commit, FoldBranch, MintTable, AppendMark, CommitFails
        <5>4. acked' = acked
          BY <3>3, <5>1, <5>2, <5>3 DEF Next, NewSequencer, vars
        <5>5. QED
          BY <3>1, <4>1, <5>4 DEF Log!vars, Content, Offer
      <4>4. QED
        BY <4>2, <4>3
    <3>4. QED
      BY <3>2, <3>3
  <2>3. QED
    BY <2>1, <2>2
<1>3. FoundReliable
  BY DEF MarkReliable
<1>4. QED
  BY <1>1, <1>2, <1>3, TypeInvariant, Durability, WriterInvariant, CommittedInvariant, SpineInvariant,
     OnlyBatchInvariant, PTL DEF Spec, RefinesArchiveLog, Log!Spec
=============================================================================
