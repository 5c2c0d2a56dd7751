------------------------------ MODULE MCUpkeep ------------------------------
(***************************************************************************)
(* One archive of three tables.  Claim 3 falls due and shares its content  *)
(* with claim 2; claim 6 is a diff over claim 5, which cites claim 3.      *)
(***************************************************************************)
EXTENDS Upkeep

E(to, type, name) == [to |-> to, type |-> type, name |-> name, due |-> 0, ends |-> 0]

C(type, at, height, due, edges) ==
    [type |-> type, edges |-> edges, at |-> at, height |-> height, due |-> due, omits |-> FALSE,
     blob |-> FALSE, key |-> 1, pubkey |-> 1, from |-> 0, until |-> 0, broken |-> FALSE]

By == E(1, "contributor", "")

MCGraph == <<
    C("contributor", 1, 0, 0, {}),
    C("source", 1, 1, 0, {By}),
    C("source", 1, 2, 2, {By, E(2, "cites", "")}),
    C("branches", 1, 3, 0, {By, E(3, "branch", "m")}),
    C("source", 2, 3, 0, {By, E(3, "cites", "x"), E(2, "cites", "y")}),
    C("source", 2, 4, 0, {By, E(5, "diff", ""), E(2, "relation", "x")}),
    C("branches", 2, 5, 0, {By, E(4, "diff", ""), E(6, "branch", "m"), E(2, "branch", "n")}),
    C("branches", 2, 6, 0, {By, E(7, "diff", ""), E(5, "branch", "n")}) >>

MCContent == <<0, 1, 1, 0, 0, 2, 0, 0>>

MCSpine == <<4, 7, 8>>

MCClaimShard == <<1, 2, 1, 2, 1, 2, 1, 2>>

MCBlobShard == <<2, 1>>

OneShard == <<1, 1, 1, 1, 1, 1, 1, 1>>

OneBlobShard == <<1, 1>>

-----------------------------------------------------------------------------
(* Reads. *)

Txt(rank) == [Spelled(0) EXCEPT !.text = rank, !.fixed = FALSE]

(* A date of the source's own, known to a span. *)
Dated(mid) == [Txt(20 + mid) EXCEPT !.mid = mid]

TypeText == [type \in {"contributor", "source", "branches"} |->
                CASE type = "contributor" -> Txt(60) [] type = "source" -> Txt(70) [] type = "branches" -> Txt(50)]

Typed(c) == "type" :> TypeText[MCGraph[c].type]

(* Claim 5's score spells a number, which no number equals in magnitude but in its text. *)
MCFields == [c \in 1..8 |->
    CASE c = 2 -> Typed(c) @@ "dated" :> Dated(3) @@ "score" :> Txt(30)
      [] c = 3 -> Typed(c) @@ "dated" :> Txt(25)
      [] c = 5 -> Typed(c) @@ "dated" :> Dated(1) @@ "score" :> Txt(20)
      [] OTHER -> Typed(c)]

MCBytes == [c \in 1..8 |-> [form \in {"original", "materialized"} |->
    CASE c = 5 -> <<1, 2, 2, 1>>
      [] c = 6 -> IF form = "original" THEN <<2>> ELSE <<1, 2, 2, 2>>
      [] OTHER -> <<>>]]

NoContent == [given |-> FALSE, max |-> 0, overflow |-> ""]

Content(max, overflow) == [given |-> TRUE, max |-> max, overflow |-> overflow]

Out == [shape |-> "single", detail |-> "claims", form |-> "original", encoding |-> "native",
        content |-> NoContent]

Base0 == [branch |-> "m", head |-> 0, claims |-> {}, whole |-> FALSE, path |-> <<>>,
          where |-> <<>>, order |-> <<>>, results |-> 0, time |-> 0, out |-> Out,
          layer |-> "", report |-> ""]

Step(dir, min, max) == [edges |-> {}, dir |-> dir, min |-> min, max |-> max, nodes |-> {}]

Cites == {[neg |-> FALSE, types |-> {"cites", "relation"}]}

NotTables == {[neg |-> TRUE, types |-> {"branches"}]}

Scans == {[Base0 EXCEPT !.branch = b, !.whole = w, !.head = h] :
             b \in {"m", "n", "$archive"}, w \in BOOLEAN, h \in {0, 5}}
         \cup {[Base0 EXCEPT !.branch = "$universe", !.whole = TRUE, !.head = h] : h \in {0, 6}}

Walks == {[Base0 EXCEPT !.claims = {2, 6}, !.path = <<Step(d, min, max)>>, !.out.shape = "path"] :
             d \in {"provenance", "uses", "connections"},
             min \in {0, 1}, max \in {0, 1, 2}}

TwoSteps == <<[Step("provenance", 1, 1) EXCEPT !.edges = Cites],
              [Step("uses", 1, 0) EXCEPT !.nodes = NotTables]>>

Turns == {[Base0 EXCEPT !.claims = {6}, !.branch = b, !.path = TwoSteps] : b \in {"m", "$archive"}}

-----------------------------------------------------------------------------
Node0 == [and |-> {}, or |-> {}, not |-> {}, field |-> "", test |-> <<>>]

Test(field, op, x) == [Node0 EXCEPT !.field = field, !.test = op :> x]

Leaves == {Test("height", "ge", Number(2)), Test("created_at", "le", Spelled(1)),
           Test("created_at", "gt", Spelled(1)),
           Test("score", "eq", Number(2)), Test("score", "lt", Number(3)),
           Test("score", "ne", Txt(20)), Test("dated", "in", {Dated(1), Dated(3)}),
           Test("type", "glob", {50, 60})}

Trees == {<<leaf>> : leaf \in Leaves} \cup
         {<<Test("height", "ge", Number(2)), Test("delete_by", "lt", Spelled(3)),
            [Node0 EXCEPT !.not = {2}], [Node0 EXCEPT !.or = {1, 3}]>>,
          \* refused: two forms, two operators, a time named in another form
          <<[Test("height", "ge", Number(2)) EXCEPT !.not = {1}]>>,
          <<[Node0 EXCEPT !.field = "height", !.test = "ge" :> Number(2) @@ "lt" :> Number(3)]>>,
          <<Test("created_at", "le", Number(1))>>}

Key(field, compare, dir) == [field |-> field, compare |-> compare, dir |-> dir]

Orders == {<<Key("delete_by", "", "asc"), Key("height", "numeric", "desc")>>,
           <<Key("dated", "temporal", "desc")>>, <<Key("type", "lexical", ""), Key("score", "", "desc")>>}

Filters == {[Base0 EXCEPT !.branch = "$archive", !.where = w] : w \in Trees}
           \cup {[Base0 EXCEPT !.branch = "$archive", !.order = o, !.results = n] :
                     o \in Orders, n \in {0, 3}}

Contents0 == {[Base0 EXCEPT !.whole = TRUE, !.out.encoding = "cbor", !.out.form = f, !.out.content = c] :
                 f \in {"original", "materialized"},
                 c \in {NoContent, Content(0, ""), Content(4, "cutoff"), Content(4, "omit")}}

Timed == {[Base0 EXCEPT !.whole = TRUE, !.time = 1, !.results = 2],
          [Base0 EXCEPT !.claims = {6}, !.path = TwoSteps, !.time = 1]}

MCQueries == Scans \cup Walks \cup Turns \cup Filters \cup Contents0 \cup Timed

-----------------------------------------------------------------------------
(* What comments promise and the code does not keep. *)

(* A copy that reports completion has brought the closure, retries after   *)
(* an interrupted copy included: "the merge invariant gives it its whole   *)
(* closure, which makes the walk idempotent" (DefaultCopyClaims).          *)
RetryCompletes == copy.phase = "done" => ClosureOf[copy.root] \subseteq dst

(* A sweep takes content with the claims that are due, and from no other:  *)
(* it is to "remove the bytes of every claim whose delete_by has fallen    *)
(* due" (DeletePlanned).                                                   *)
SweepSpares ==
    \A c \in has : content[c] # 0 /\ ~DueForDeletion(c) => content[c] \in blobs
=============================================================================
