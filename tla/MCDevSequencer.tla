--------------------------- MODULE MCDevSequencer ---------------------------
(***************************************************************************)
(* Small instances of DevSequencer for TLC.  op is the operator, every     *)
(* other claim is signed under it.                                         *)
(***************************************************************************)
EXTENDS DevSequencer

CONSTANTS op, claimA, claimB, w1, w2, main, side

(* claimA and claimB are unrelated: contributing both takes a head claim. *)
MCRefsFlat == (op :> {}) @@ (claimA :> {op}) @@ (claimB :> {op})

(* Writers are alike, and so are the claims of MCRefsFlat. *)
Symmetry == Permutations(Writers) \cup Permutations({claimA, claimB})
=============================================================================
