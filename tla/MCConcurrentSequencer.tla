----------------------- MODULE MCConcurrentSequencer -----------------------
(***************************************************************************)
(* Small instances of ConcurrentSequencer for TLC.  op is the operator,    *)
(* every other claim is signed under it.                                   *)
(***************************************************************************)
EXTENDS ConcurrentSequencer, TLC

CONSTANTS op, claimA, claimB, claimX, claimY, w1, w2, main, side

(* claimA and claimB are unrelated: contributing both takes a head claim. *)
MCRefsFlat == (op :> {}) @@ (claimA :> {op}) @@ (claimB :> {op})

(* claimB cites claimA. *)
MCRefsChain == (op :> {}) @@ (claimA :> {op}) @@ (claimB :> {op, claimA})

(* claimB cites claimA and claimX, which breaks a rule; claimY is dated     *)
(* after every base time.                                                   *)
MCRefsBroken ==
    (op :> {}) @@ (claimA :> {op}) @@ (claimB :> {op, claimA, claimX})
               @@ (claimX :> {op}) @@ (claimY :> {op})

(* Writers are alike, so are the claims of MCRefsFlat, and so are branches  *)
(* where any of them may be created.                                        *)
FullSymmetry ==
    Permutations(Writers) \cup Permutations({claimA, claimB}) \cup Permutations(Branches)
=============================================================================
