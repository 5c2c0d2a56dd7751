------------------------------ MODULE MCVerify ------------------------------
(***************************************************************************)
(* Instance of Verify: one contributor, sources that cite and overlay each *)
(* other, one due date, delete marks, a revocation and a branch table; and *)
(* records sealed with AllowInvalid that break one rule each.              *)
(***************************************************************************)
EXTENDS Verify

MCRoot ==
    [type |-> "contributor", contributor |-> 0, diffOf |-> 0, edges |-> {}, at |-> 0, due |-> 0,
     omits |-> FALSE, inline |-> TRUE, external |-> FALSE, encoded |-> TRUE, height |-> "none", stated |-> 0,
     key |-> "k", pubkey |-> "k", from |-> 0, until |-> 0, invalid |-> FALSE]

Plain ==
    [MCRoot EXCEPT !.type = "source", !.contributor = 1, !.inline = FALSE, !.encoded = FALSE,
                   !.height = "derived", !.pubkey = ""]

DueDate == 2

Edge(to, type, name, stated, ends) ==
    [to |-> to, type |-> type, name |-> name, due |-> stated, ends |-> ends,
     referenced |-> TRUE, dir |-> 0]

Sources(g) == {i \in 2..Len(g) : g[i].type = "source"}

Citing(S) == {Edge(s, "derivation", "", 0, 0) : s \in S}

MCOffers(g) ==
    {[Plain EXCEPT !.edges = Citing(S), !.due = d] :
        S \in {T \in SUBSET Sources(g) : Cardinality(T) <= 2}, d \in {0, DueDate}}
    \cup {[Plain EXCEPT !.edges = {[Edge(s, "derivation", "", d, 0) EXCEPT !.referenced = FALSE]}] :
             s \in Sources(g), d \in {0, DueDate}}
    \cup {[Plain EXCEPT !.external = TRUE, !.encoded = TRUE]}
    \cup {[Plain EXCEPT !.diffOf = s] : s \in Sources(g)}
    \cup {[Plain EXCEPT !.type = "delete", !.edges = {Edge(s, "delete", "", 0, 0)}] :
             s \in Sources(g)}
    \cup {[Plain EXCEPT !.type = "expiry", !.edges = {Edge(1, "expiry", "", 0, 1)}]}
    \cup {[Plain EXCEPT !.type = "branches", !.diffOf = IF Tables(g) = {} THEN 0 ELSE Max(Tables(g)),
                        !.edges = {Edge(s, "branch", "b", 0, 0)}] :
             s \in {t \in Sources(g) : t = Len(g)}}

MCSmuggled(g) ==
    {[Plain EXCEPT !.invalid = TRUE, !.edges = Citing({s}), !.height = "fixed", !.stated = h] :
        s \in Sources(g), h \in {1, 3}}
    \cup {[Plain EXCEPT !.invalid = TRUE, !.edges = Citing({s}), !.at = 1] : s \in Sources(g)}
    \cup {[Plain EXCEPT !.invalid = TRUE, !.edges = Citing({s}), !.key = "x"] : s \in Sources(g)}
    \cup {[Plain EXCEPT !.invalid = TRUE,
                        !.edges = {Edge(s, "derivation", "", DueDate, 0)}] : s \in Sources(g)}

FullRun == [maxDepth |-> 0, maxClaims |-> 0, trusted |-> {}, after |-> 0, stopAfter |-> 0,
            content |-> TRUE]

Bounded == [maxDepth |-> 2, maxClaims |-> 3, trusted |-> {2}, after |-> 2, stopAfter |-> 1,
            content |-> FALSE]

MCConfigs == {FullRun, Bounded}
=============================================================================
