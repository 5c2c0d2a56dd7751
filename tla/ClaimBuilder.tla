---------------------------- MODULE ClaimBuilder ----------------------------
(***************************************************************************)
(* Building one claim: NewEdge, ClaimBuilder.Sign and what a diff claim    *)
(* reads as once its predecessor is overlaid.                              *)
(*                                                                         *)
(* g is the sequence of all claims ever sealed; a claim's id is its place  *)
(* in g.  An id hashes the ids it references, so references go to lower    *)
(* places.  held is the set of ids the Universe still has.  0 is the nil   *)
(* id, the unset time and the absent delete_by.                            *)
(*                                                                         *)
(* Names, media types and bytes are left out; which slots are filled, who  *)
(* signed and every date are kept.                                         *)
(***************************************************************************)
EXTENDS Integers, Sequences, FiniteSets, FiniteSetsExt

(* The four contribution subtypes another rule reads (R-DSTRUCT). *)
Structural == {"contributor", "branches", "delete", "expiry"}

NodeTypes == Structural \cup {"head", "source"}

(* The earliest instant a claim can be dated at: below it lies the zero time. *)
Floor == 1

(***************************************************************************)
(* NewEdge: an edge to a claim in hand copies its delete_by, unless the    *)
(* caller stated one; without the claim it carries what was stated.  cfg:  *)
(* to, type, name ("" for none), due (0: not stated), ends (the date an    *)
(* expiry edge imposes), referenced (the claim itself was supplied), dir.  *)
(***************************************************************************)
EdgeConfig ==
    [to : Nat, type : STRING, name : STRING, due : Nat, ends : Nat, referenced : BOOLEAN, dir : Int]

EdgeAccepted(cfg) ==
    /\ cfg.to # 0
    /\ (cfg.type = "relation") <=> (cfg.dir # 0)

(* Mutant: the schedule of the claim in hand is not copied. *)
NewEdgeBare(cfg, due) ==
    [to |-> cfg.to, type |-> cfg.type, name |-> cfg.name, due |-> cfg.due, ends |-> cfg.ends]

NewEdge(cfg, due) ==
    [to   |-> cfg.to,
     type |-> cfg.type,
     name |-> cfg.name,
     due  |-> IF cfg.due = 0 /\ cfg.referenced THEN due ELSE cfg.due,
     ends |-> cfg.ends]

(* The edges Sign adds by itself: neither is given the claim it references. *)
ContributorEdge(k) == [to |-> k, type |-> "contributor", name |-> "", due |-> 0, ends |-> 0]

DiffEdge(p) == [to |-> p, type |-> "diff", name |-> "", due |-> 0, ends |-> 0]

(***************************************************************************)
(* Reading a diff claim.  The overlay needs the predecessor's bytes, so a  *)
(* materialised read fails when one of the chain is gone.                  *)
(***************************************************************************)
Predecessors(c) == {e.to : e \in {f \in c.edges : f.type = "diff"}}

(* GetClaim answers: the claim and its whole diff chain are present. *)
Resolvable(g, held) ==
    LET R[i \in 1..Len(g)] == i \in held /\ \A p \in Predecessors(g[i]) : R[p]
    IN  {i \in 1..Len(g) : R[i]}

(* computeDiffFields, for delete_by: inherited, unless omitted or restated. *)
Due(g) ==
    LET D[i \in 1..Len(g)] ==
            IF g[i].due # 0 \/ g[i].omits \/ Predecessors(g[i]) = {} THEN g[i].due
            ELSE D[CHOOSE p \in Predecessors(g[i]) : TRUE]
    IN  D

(* computeDiffEdges: named edges inherit, overlaid by name; the rest is the claim's own. *)
EffectiveEdges(g) ==
    LET E[i \in 1..Len(g)] ==
            LET own == g[i].edges
                inherited == UNION {E[p] : p \in Predecessors(g[i])}
            IN  own \cup {e \in inherited : e.name # "" /\ \A f \in own : f.name # e.name}
    IN  E

(***************************************************************************)
(* ClaimBuilder.Sign.  b is the builder's data: type, contributor, diffOf, *)
(* edges (NewEdge configs), at, due, omits, the content slots inline and   *)
(* external with encoded, height (the resolver: "none", "derived" from the *)
(* store, or "fixed" at stated), key, the pubkey the claim publishes, the  *)
(* window it declares, and invalid, the AllowInvalid switch.               *)
(***************************************************************************)
Builder ==
    [type : STRING, contributor : Nat, diffOf : Nat, edges : SUBSET EdgeConfig, at : Nat, due : Nat,
     omits : BOOLEAN, inline : BOOLEAN, external : BOOLEAN, encoded : BOOLEAN,
     height : {"none", "derived", "fixed"}, stated : Nat, key : STRING, pubkey : STRING,
     from : Nat, until : Nat, invalid : BOOLEAN]

IsRootContributor(b) == b.type = "contributor" /\ b.contributor = 0

(* AsContributor: what a builder is attributed to is read off a contributor claim. *)
IsContributor(g, k) == k \in 1..Len(g) /\ g[k].type = "contributor"

(* An id hashes ids that exist already, so nothing can name a claim not yet sealed. *)
CitesSealed(b, g) == b.diffOf <= Len(g) /\ \A cfg \in b.edges : cfg.to <= Len(g)

CheckContentState(b) == ~(b.inline /\ b.external)

ResolveEncoding(b) == b.encoded <=> (b.inline \/ b.external)

AssembledEdges(b, g) ==
    {NewEdge(cfg, Due(g)[cfg.to]) : cfg \in b.edges}
        \cup (IF IsRootContributor(b) THEN {} ELSE {ContributorEdge(b.contributor)})
        \cup (IF b.diffOf = 0 THEN {} ELSE {DiffEdge(b.diffOf)})

CheckDiffEdgeNames(b, g) ==
    LET named == {e \in AssembledEdges(b, g) : e.type \notin {"contributor", "diff"}}
    IN  b.diffOf # 0 =>
            /\ \A e \in named : e.name # ""
            /\ \A e, f \in named : e.name = f.name => e = f

CheckEdgeCardinality(b, g) ==
    \A e, f \in AssembledEdges(b, g) :
        e.type = f.type /\ e.type \in {"contributor", "diff"} => e = f

CheckDeletable(type, due) == due = 0 \/ type \notin Structural

CheckClaim(b) ==
    /\ b.type \in NodeTypes
    /\ b.at # 0 => b.at >= Floor
    /\ CheckDeletable(b.type, b.due)

(* 1 + the greatest height given, 0 for no reference. *)
HeightOver(heights) == IF heights = {} THEN 0 ELSE 1 + Max(heights)

HeightResolved(b, g, held) ==
    CASE b.height = "none"    -> AssembledEdges(b, g) = {}
      [] b.height = "derived" -> {e.to : e \in AssembledEdges(b, g)} \subseteq held
      [] b.height = "fixed"   -> AssembledEdges(b, g) = {} => b.stated = 0

ResolveHeight(b, g) ==
    IF b.height = "fixed" THEN b.stated
    ELSE HeightOver({g[e.to].height : e \in AssembledEdges(b, g)})

(* The key must be the one the attributing contributor publishes, or the root claim itself. *)
CheckSigningConsistency(b, g) ==
    b.key = IF IsRootContributor(b) THEN b.pubkey ELSE g[b.contributor].pubkey

BuildAccepted(b, g, held) ==
    /\ b \in Builder /\ CitesSealed(b, g)
    /\ ResolveEncoding(b)
    /\ \A cfg \in b.edges : EdgeAccepted(cfg)
    /\ IsRootContributor(b) \/ IsContributor(g, b.contributor)
    /\ CheckDiffEdgeNames(b, g)
    /\ HeightResolved(b, g, held)
    /\ ~b.invalid =>
          /\ CheckContentState(b)
          /\ CheckEdgeCardinality(b, g)
          /\ CheckClaim(b)
          /\ CheckSigningConsistency(b, g)

BuildClaim(b, g, now) ==
    [type   |-> b.type,
     edges  |-> AssembledEdges(b, g),
     at     |-> IF b.at = 0 THEN now ELSE b.at,
     height |-> ResolveHeight(b, g),
     due    |-> b.due,
     omits  |-> b.omits,
     blob   |-> b.external,
     key    |-> b.key,
     pubkey |-> b.pubkey,
     from   |-> b.from,
     until  |-> b.until,
     broken |-> FALSE]

(***************************************************************************)
(* graph.AddClaims and Consolidate: the open frontier, and the head claim  *)
(* over it.  The head is given the claims it references and their heights, *)
(* the contributor's included.                                             *)
(***************************************************************************)
OpenHeads(g) ==
    {i \in 1..Len(g) : \A j \in 1..Len(g) : i \notin {e.to : e \in g[j].edges}}

ConsolidateEdges(heads) ==
    {[to |-> h, type |-> "head", name |-> "", due |-> 0, ends |-> 0,
      referenced |-> TRUE, dir |-> 0] : h \in heads}

HeightOf(g, refs) == HeightOver({g[r].height : r \in refs})
=============================================================================
