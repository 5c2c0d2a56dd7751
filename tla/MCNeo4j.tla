------------------------------ MODULE MCNeo4j ------------------------------
(***************************************************************************)
(* Two tables, the second a diff over the first: branch m moves from claim *)
(* 2 to claim 4, branch n opens at 2; claim 6 is in no table.              *)
(***************************************************************************)
EXTENDS Neo4j

E(to, type, name) == [to |-> to, type |-> type, name |-> name, due |-> 0, ends |-> 0]

C(type, at, height, due, edges) ==
    [type |-> type, edges |-> edges, at |-> at, height |-> height, due |-> due, omits |-> FALSE,
     blob |-> FALSE, key |-> 1, pubkey |-> 1, from |-> 0, until |-> 0, broken |-> FALSE]

By == E(1, "contributor", "")

MCGraph == <<
    C("contributor", 1, 0, 0, {}),
    C("source", 1, 1, 0, {By}),
    C("branches", 1, 2, 0, {By, E(2, "branch", "m")}),
    C("source", 2, 2, 3, {By, E(2, "cites", "x")}),
    C("branches", 2, 3, 0, {By, E(3, "diff", ""), E(4, "branch", "m"), E(2, "branch", "n")}),
    C("source", 2, 3, 0, {By, E(4, "cites", "")}) >>

MCSpine == <<3, 5>>

TaggerSymmetry == Permutations(Taggers)

MCBatches == {{1, 2, 3}, {4, 5, 6}}

-----------------------------------------------------------------------------
Txt(rank) == [Spelled(0) EXCEPT !.text = rank, !.fixed = FALSE]

Dated(mid) == [Txt(20 + mid) EXCEPT !.mid = mid]

TypeText == [type \in {"contributor", "source", "branches"} |->
                CASE type = "contributor" -> Txt(61) [] type = "source" -> Txt(71) [] type = "branches" -> Txt(51)]

MCFields == [c \in 1..6 |->
    LET typed == "type" :> TypeText[MCGraph[c].type]
    IN  CASE c = 2 -> typed @@ "dated" :> Dated(3) @@ "score" :> Txt(30)
          [] c = 4 -> typed @@ "dated" :> Dated(1) @@ "score" :> Txt(20)
          [] OTHER -> typed]

Out == [shape |-> "single", detail |-> "claims", form |-> "original", encoding |-> "native",
        content |-> [given |-> FALSE, max |-> 0, overflow |-> ""]]

Base == [branch |-> "m", head |-> 0, claims |-> {}, whole |-> FALSE, path |-> <<>>,
         where |-> <<>>, order |-> <<>>, results |-> 0, time |-> 0, out |-> Out,
         layer |-> "", report |-> ""]

Step(dir, min, max) == [edges |-> {}, dir |-> dir, min |-> min, max |-> max, nodes |-> {}]

NotTables == {[neg |-> TRUE, types |-> {"branches"}]}

Cites == {[neg |-> FALSE, types |-> {"cites"}]}

Sources == {[neg |-> FALSE, types |-> {"source"}]}

Scans == {[Base EXCEPT !.branch = b, !.results = n] : b \in {"m", "n"}, n \in {0, 2}}
         \cup {[Base EXCEPT !.whole = TRUE, !.claims = {2}],
               [Base EXCEPT !.claims = {1, 2}, !.out.detail = "id"],
               [Base EXCEPT !.branch = "$archive", !.whole = TRUE],
               [Base EXCEPT !.branch = "$universe", !.head = 6, !.whole = TRUE],
               [Base EXCEPT !.branch = "m", !.head = 2]}

Walks == {[Base EXCEPT !.claims = {2}, !.path = <<Step(d, 0, max)>>, !.out.shape = "path"] :
             d \in {"provenance", "uses", "connections"}, max \in {1, 2}}
         \cup {[Base EXCEPT !.claims = {1}, !.path = <<Step("uses", 1, 0)>>],
               [Base EXCEPT !.branch = "n", !.path = <<[Step("provenance", 1, 0) EXCEPT !.edges = Cites]>>],
               [Base EXCEPT !.claims = {2},
                            !.path = <<Step("provenance", 1, 1), [Step("uses", 1, 0) EXCEPT !.nodes = Sources]>>]}

-----------------------------------------------------------------------------
Node0 == [and |-> {}, or |-> {}, not |-> {}, field |-> "", test |-> <<>>]

Test(field, op, x) == [Node0 EXCEPT !.field = field, !.test = op :> x]

Trees == {<<Test("height", "ge", Number(1))>>, <<Test("height", "eq", Number(2))>>,
          <<Test("created_at", "le", Spelled(1))>>, <<Test("score", "ne", Txt(20))>>,
          <<Test("score", "in", {Txt(20), Txt(25)})>>, <<Test("type", "glob", {51, 61})>>,
          <<Test("delete_by", "lt", Spelled(4)), Test("type", "eq", Txt(61)), [Node0 EXCEPT !.or = {1, 2}]>>,
          <<Test("height", "gt", Number(1)), [Node0 EXCEPT !.not = {1}],
            Test("type", "eq", Txt(71)), [Node0 EXCEPT !.and = {2, 3}]>>}

Key(field, compare, dir) == [field |-> field, compare |-> compare, dir |-> dir]

Orders == {<<Key("delete_by", "", "asc"), Key("height", "numeric", "desc")>>,
           <<Key("score", "lexical", "desc")>>, <<Key("type", "", "")>>}

Filters == {[Base EXCEPT !.where = w] : w \in Trees}
           \cup {[Base EXCEPT !.order = o, !.results = n] : o \in Orders, n \in {0, 1}}

Bounded == {[Base EXCEPT !.out.encoding = "cbor"],
            [Base EXCEPT !.time = 1, !.claims = {2}, !.path = <<[Step("uses", 1, 0) EXCEPT !.nodes = NotTables]>>]}

MCReads == Scans \cup Walks \cup Filters \cup Bounded

-----------------------------------------------------------------------------
(* Reads on which the engines part. *)

DatedReads == {[Base EXCEPT !.order = <<Key("dated", "temporal", "asc")>>]}

ArchiveReads == {[Base EXCEPT !.branch = "$archive", !.claims = {2}, !.path = <<Step("uses", 1, 0)>>]}

NegatedReads == {[Base EXCEPT !.where = <<Test("score", "eq", Txt(30)), [Node0 EXCEPT !.not = {1}]>>]}

MixedReads == {[Base EXCEPT !.where = <<Test("score", "lt", Number(3))>>]}
=============================================================================
