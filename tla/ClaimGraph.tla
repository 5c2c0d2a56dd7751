----------------------------- MODULE ClaimGraph -----------------------------
(***************************************************************************)
(* The content-addressed graph of claims a contributor may hand to an      *)
(* archive.  A claim's id hashes the ids it references, so the references  *)
(* of a claim never change and cannot form a cycle: Refs is a CONSTANT,    *)
(* and "which claims are in the Universe" is the only thing that varies.   *)
(*                                                                         *)
(* The walks of the code (breadth-first over Edges(), with a seen set) are *)
(* modelled by what they compute, the least set that contains the roots    *)
(* and is closed under the edges the walk follows.                         *)
(***************************************************************************)
EXTENDS Naturals

CONSTANTS
    Claims,     \* the claims contributors may make
    Refs        \* Refs[c]: the claims c's edges reference

ASSUME RefsAssumption == Refs \in [Claims -> SUBSET Claims]

(***************************************************************************)
(* X contains the roots, and the references of everything in it except of  *)
(* the claims a walk does not expand.                                      *)
(***************************************************************************)
ClosedUnder(X, roots, trusted) ==
    /\ roots \subseteq X
    /\ \A x \in X \ trusted : Refs[x] \subseteq X

(***************************************************************************)
(* The ids a walk from roots visits when it stops at the trusted ones:     *)
(* runVerification's seen set.                                             *)
(***************************************************************************)
Walk(roots, trusted) ==
    {c \in Claims : \A X \in SUBSET Claims : ClosedUnder(X, roots, trusted) => c \in X}

(* closure(c): what GetFromClosure can reach from c, c itself included. *)
ReachFrom == [c \in Claims |-> Walk({c}, {})]

Reach(S) == UNION {ReachFrom[c] : c \in S}

(***************************************************************************)
(* The open frontier graph.AddClaims leaves: claims no other claim of the  *)
(* graph references.                                                       *)
(***************************************************************************)
Roots(S) == {c \in S : \A d \in S \ {c} : c \notin Refs[d]}

(***************************************************************************)
(* References are acyclic, so every set of claims is reached from its      *)
(* frontier.                                                               *)
(***************************************************************************)
ASSUME RootsCover == \A S \in SUBSET Claims : S \subseteq Reach(Roots(S))
=============================================================================
