------------------------------- MODULE Query -------------------------------
(***************************************************************************)
(* The read language: DefaultQuery and the membership tests beside it, as  *)
(* operators over a view of a Universe.                                    *)
(*                                                                         *)
(* v is the view: g the sealed claims (ClaimBuilder), edges their          *)
(* materialised edges, held the ids with bytes, readable those whose diff  *)
(* chain is held too, tags[c][b] the table height at which the tagger      *)
(* stamped c as a member of branch b (0: no stamp).  An id is its claim's  *)
(* place in g and stands for its hash in the total order of answers.       *)
(*                                                                         *)
(* fields[c] maps the type, dated, content and open fields c states to     *)
(* their values, bytes[c][form] the sizes of its inline contents, those of *)
(* its edges before its own, as written ("original") or over its diffs.    *)
(*                                                                         *)
(* A query is a record: branch, head and claims of the selection, path (a  *)
(* sequence of steps; whole when no path was given), where (the condition  *)
(* tree, children before parents), order, results and time of the limit,   *)
(* out, layer and report.  An answer is Failed or the claims in order,     *)
(* their routes, the bytes inlined of each, and the kind of its elements.  *)
(* The time budget runs out where it likes: a timed read has a set of      *)
(* answers.  Serialised bytes and the report's events are left out.        *)
(***************************************************************************)
EXTENDS ClaimBuilder, SequencesExt

Failed == [ok |-> FALSE, claims |-> <<>>, routes |-> <<>>, inlined |-> <<>>,
           kind |-> <<>>, truncated |-> FALSE]

Downward(n) == [i \in 1..n |-> n + 1 - i]

(* What a walk over the given edges reaches from the roots, through the claims it can read. *)
Below(n, edges, through, roots) ==
    FoldLeft(LAMBDA S, i : IF i \in S \cap through THEN S \cup {e.to : e \in edges[i]} ELSE S,
             roots, Downward(n))

-----------------------------------------------------------------------------
(* Values: what a field holds and a test names.  text is the place of the  *)
(* string form in byte order; at the instant of a time or of a text that   *)
(* spells one (0: none), mid the middle of the span it spells, fixed that  *)
(* it spells it in the one form created_at has.                            *)

AsFloat(x) == x.form = "number"

AsTime(x) == x.at # 0

ValuesEqual(x, y) ==
    IF AsFloat(x) /\ AsFloat(y) THEN x.num = y.num
    ELSE IF AsTime(x) /\ AsTime(y) THEN x.at = y.at
    ELSE x.text = y.text

Comparable(x, y) ==
    \/ AsFloat(x) /\ AsFloat(y)
    \/ AsTime(x) /\ AsTime(y)
    \/ x.form = "text" /\ y.form = "text"

(* Below zero where x comes first; meant for values that are Comparable. *)
CompareOrdered(x, y) ==
    IF AsFloat(x) /\ AsFloat(y) THEN x.num - y.num
    ELSE IF AsTime(x) /\ AsTime(y) THEN x.at - y.at
    ELSE x.text - y.text

(* A value that spells no span sorts after those that do. *)
CompareMidpoints(x, y) ==
    IF x.mid # 0 /\ y.mid # 0 THEN x.mid - y.mid
    ELSE IF x.mid = y.mid THEN 0
    ELSE IF x.mid # 0 THEN -1 ELSE 1

CompareValues(x, y, collation) ==
    CASE collation = "numeric"  -> IF AsFloat(x) /\ AsFloat(y) THEN x.num - y.num ELSE x.text - y.text
      [] collation = "lexical"  -> x.text - y.text
      [] collation = "temporal" -> CompareMidpoints(x, y)
      [] OTHER -> IF Comparable(x, y) THEN CompareOrdered(x, y) ELSE x.text - y.text

-----------------------------------------------------------------------------
(* ValidateQuery: the shape a query must have before it is read.  max = 0  *)
(* is unbounded; a test maps each operator it sets to its operand, an "in" *)
(* to a set, a "glob" to the set of texts it matches.                      *)

ValidateStep(step) ==
    /\ step.dir \in {"", "provenance", "uses", "connections"}
    /\ step.min >= 0 /\ step.max >= 0
    /\ step.max > 0 => step.min <= step.max

Operands(test) ==
    UNION {IF op = "in" THEN test[op] ELSE {test[op]} : op \in DOMAIN test \ {"glob"}}

StampFields == {"created_at", "delete_by", "pubkey_valid_from", "pubkey_expires_after"}

(* What a comparison on a time field may name: the field picks the form. *)
TimeOperandCheck(field, x) ==
    /\ field \in StampFields => x.form = "text" /\ x.fixed
    /\ field = "dated" => x.form = "text" /\ x.mid # 0

ValidateComparison(field, test) ==
    /\ Cardinality(DOMAIN test) = 1
    /\ \A x \in Operands(test) : TimeOperandCheck(field, x)
    /\ "glob" \in DOMAIN test => field \notin StampFields \cup {"dated"}

IsLeaf(w) == w.field # "" \/ DOMAIN w.test # {}

(* Every node of the tree has exactly one form. *)
ValidateWhere(where) ==
    \A i \in DOMAIN where :
        LET w == where[i]
        IN  /\ Cardinality({f \in {"and", "or", "not"} : w[f] # {}} \cup
                           {f \in {"leaf"} : IsLeaf(w)}) = 1
            /\ IsLeaf(w) => w.field # "" /\ ValidateComparison(w.field, w.test)

(* An envelope is the stored bytes: neither resolved nor JSON. *)
ValidateEnvelopeOutput(out) ==
    out.detail = "envelope" => out.form # "materialized" /\ out.encoding # "json"

ValidateOutput(out) ==
    /\ out.shape \in {"", "single", "path"}
    /\ out.detail \in {"", "id", "claims", "envelope"}
    /\ out.form \in {"", "original", "materialized"}
    /\ out.encoding \in {"", "native", "json", "cbor"}
    /\ ValidateEnvelopeOutput(out)
    /\ out.content.given =>
          out.content.max >= 0 /\ out.content.overflow \in {"", "cutoff", "omit"}

ValidateOrder(order) ==
    \A i \in DOMAIN order : /\ order[i].field # ""
                            /\ order[i].compare \in {"", "numeric", "lexical", "temporal"}
                            /\ order[i].dir \in {"", "asc", "desc"}

ValidateQuery(q) ==
    /\ q.branch # ""
    /\ q.branch = "$universe" => q.head # 0
    /\ \A i \in DOMAIN q.path : ValidateStep(q.path[i])
    /\ ValidateWhere(q.where)
    /\ ValidateOutput(q.out)
    /\ q.results >= 0 /\ q.time >= 0
    /\ ValidateOrder(q.order)
    /\ q.layer # " "
    /\ q.report \in {"", "error", "warn", "info", "debug", "trace"}

ValidateSelect(q) == q.out.shape = "path" => ~q.whole /\ q.path # <<>>

(* patterns: a set of [neg, types]; a negated match excludes, a positive one is needed if any. *)
MatchTypeList(patterns, type) ==
    /\ \A p \in patterns : p.neg => type \notin p.types
    /\ (\E p \in patterns : ~p.neg) => \E p \in patterns : ~p.neg /\ type \in p.types

-----------------------------------------------------------------------------
(* Scope and confinement. *)

(* resolveScope of the archive whose head is the given table; 0 for no head. *)
BranchHeads(v, table, name) ==
    {e.to : e \in {f \in v.edges[table] : f.type = "branch" /\ f.name = name}}

ScopeFound(v, table, q) ==
    q.branch \in {"$universe", "$archive"} \/ BranchHeads(v, table, q.branch) # {}

ResolveScope(v, table, q) ==
    [branch |-> q.branch,
     height |-> v.g[table].height,
     head   |-> CASE q.branch = "$universe" -> 0
                  [] q.branch = "$archive" -> table
                  [] OTHER -> CHOOSE h \in BranchHeads(v, table, q.branch) : TRUE]

ClosureOrigin(q, scope) == IF q.head # 0 THEN q.head ELSE scope.head

Swept(v, root) == Below(Len(v.g), v.edges, v.readable, {root})

(* tagConfinement: the branch head's own stamp is the proof that tags can decide. *)
TagsDecide(v, scope) ==
    /\ scope.branch \notin {"$universe", "$archive"}
    /\ v.tags[scope.head][scope.branch] # 0

TagAdmits(v, scope) == {c \in v.held : v.tags[c][scope.branch] \in 1..scope.height}

(* A sweep fails at the first gap: the whole closure must be readable. *)
ConfineFails(v, scope) ==
    /\ scope.head # 0
    /\ ~TagsDecide(v, scope)
    /\ ~(Swept(v, scope.head) \subseteq v.readable)

Admits(v, scope) ==
    IF scope.head = 0 THEN v.held
    ELSE IF TagsDecide(v, scope) THEN TagAdmits(v, scope)
    ELSE Swept(v, scope.head)

-----------------------------------------------------------------------------
(* One step of a path, hop by hop.  index is the set of claims the reverse *)
(* index was built over.                                                   *)

Outgoing(v, c, step) ==
    {e.to : e \in {f \in v.edges[c] : MatchTypeList(step.edges, f.type)}}

Incoming(v, index, c, step) ==
    {d \in index : c \in Outgoing(v, d, step)}

WalksForward(step) == step.dir \in {"", "provenance", "connections"}

WalksReverse(step) == step.dir \in {"uses", "connections"}

Neighbours(v, index, c, step) ==
    (IF WalksForward(step) THEN Outgoing(v, c, step) ELSE {})
        \cup (IF WalksReverse(step) THEN Incoming(v, index, c, step) ELSE {})

(* Mutant: a hop is taken although the step's bound is reached. *)
WithinHopsLate(step, hop) == step.max = 0 \/ hop <= step.max

WithinHops(step, hop) == step.max = 0 \/ hop < step.max

(* lessRoute: shorter first, then claim by claim the earlier date, then the lower id. *)
LessRoute(v, a, b) ==
    \/ Len(a) < Len(b)
    \/ /\ Len(a) = Len(b)
       /\ \E i \in 1..Len(a) :
             /\ \A j \in 1..(i - 1) : a[j] = b[j]
             /\ \/ v.g[a[i]].at < v.g[b[i]].at
                \/ v.g[a[i]].at = v.g[b[i]].at /\ a[i] < b[i]

Least(v, routes) == CHOOSE r \in routes : \A s \in routes : ~LessRoute(v, s, r)

(* What a step collects of the claims that arrive at a hop. *)
Collects(v, step, admits, hop, came) ==
    {c \in came \cap admits : hop >= step.min /\ MatchTypeList(step.nodes, v.g[c].type)}

Arrivals(v, index, step, s) == UNION {Neighbours(v, index, p, step) : p \in s.level}

(***************************************************************************)
(* One hop of queryWalkStep.  s: level, the claims walked from next;       *)
(* visited; fixed, the claims whose route an earlier hop settled; out, the *)
(* claims collected; routes; failed.  Every arrival is collected, a claim  *)
(* is walked through once.                                                 *)
(***************************************************************************)
WalkHop(v, index, step, admits, s, hop) ==
    LET via(c) == {p \in s.level : c \in Neighbours(v, index, p, step)}
        arrive(came, fresh) ==
            [level   |-> fresh \ s.visited,
             visited |-> s.visited \cup fresh,
             fixed   |-> s.fixed \cup fresh,
             out     |-> s.out \cup Collects(v, step, admits, hop + 1, came),
             routes  |-> [c \in DOMAIN s.routes |->
                            IF c \in fresh
                            THEN Least(v, {Append(s.routes[p], c) : p \in via(c)})
                            ELSE s.routes[c]],
             failed  |-> /\ WalksForward(step)
                         /\ \E p \in s.level : ~(Outgoing(v, p, step) \subseteq v.readable)]
        came == Arrivals(v, index, step, s)
    IN  IF s.failed \/ s.level = {} \/ ~WithinHops(step, hop) THEN s
        ELSE arrive(came, came \ s.fixed)

WalkFrom(v, frontier, step, admits, routes) ==
    LET own == Collects(v, step, admits, 0, frontier)
    IN  [level |-> frontier, visited |-> frontier, fixed |-> own, out |-> own,
         routes |-> routes, failed |-> FALSE]

WalkHops(v, index, frontier, step, admits, routes, hops) ==
    FoldLeft(LAMBDA s, hop : WalkHop(v, index, step, admits, s, hop),
             WalkFrom(v, frontier, step, admits, routes), [i \in 1..hops |-> i - 1])

WalkStep(v, index, frontier, step, admits, routes) ==
    WalkHops(v, index, frontier, step, admits, routes, Len(v.g))

(***************************************************************************)
(* What a step that runs out of time may have collected: some hops, and    *)
(* some arrivals of the next, whose routes are not settled yet.            *)
(***************************************************************************)
WalkStepCut(v, index, frontier, step, admits, routes) ==
    UNION {LET s == WalkHops(v, index, frontier, step, admits, routes, hop)
               came == IF WithinHops(step, hop) THEN Arrivals(v, index, step, s) \cap v.readable ELSE {}
           IN  IF s.failed \/ s.level = {} THEN {}
               ELSE {[out |-> s.out \cup Collects(v, step, admits, hop + 1, S), routes |-> s.routes] :
                        S \in SUBSET came} :
           hop \in 0..(Len(v.g) - 1)}

-----------------------------------------------------------------------------
(* Filter, order and limit. *)

Number(n) == [form |-> "number", num |-> n, at |-> 0, mid |-> 0, text |-> 10 * n, fixed |-> FALSE]

Instant(t) == [form |-> "time", num |-> 0, at |-> t, mid |-> t, text |-> 20 + t, fixed |-> FALSE]

(* The fixed-width spelling of an instant; every such text begins with the year's digits. *)
Spelled(t) == [Instant(t) EXCEPT !.form = "text", !.fixed = TRUE]

HasFieldValue(v, c, field) ==
    CASE field \in {"id", "created_at", "height"} -> TRUE
      [] field = "delete_by" -> Due(v.g)[c] # 0
      [] OTHER -> field \in DOMAIN v.fields[c]

FieldValue(v, c, field) ==
    CASE field = "id"         -> [Spelled(0) EXCEPT !.text = 100 + c]
      [] field = "height"     -> Number(v.g[c].height)
      [] field = "created_at" -> Instant(v.g[c].at)
      [] field = "delete_by"  -> Spelled(Due(v.g)[c])
      [] OTHER -> v.fields[c][field]

EvalComparison(test, x) ==
    LET set(op) == op \in DOMAIN test
        ordered(op) == set(op) /\ Comparable(x, test[op])
    IN  \/ set("eq") /\ ValuesEqual(x, test["eq"])
        \/ set("ne") /\ ~ValuesEqual(x, test["ne"])
        \/ ordered("lt") /\ CompareOrdered(x, test["lt"]) < 0
        \/ ordered("le") /\ CompareOrdered(x, test["le"]) <= 0
        \/ ordered("gt") /\ CompareOrdered(x, test["gt"]) > 0
        \/ ordered("ge") /\ CompareOrdered(x, test["ge"]) >= 0
        \/ set("in") /\ \E y \in test["in"] : ValuesEqual(x, y)
        \/ set("glob") /\ x.text \in test["glob"]

(* where is a sequence of conditions, each naming earlier ones; the last is the whole. *)
EvalWhere(v, where, c) ==
    LET E[i \in 1..Len(where)] ==
            LET w == where[i]
            IN  CASE w.and # {} -> \A j \in w.and : E[j]
                  [] w.or # {}  -> \E j \in w.or : E[j]
                  [] w.not # {} -> \A j \in w.not : ~E[j]
                  [] OTHER      -> /\ HasFieldValue(v, c, w.field)
                                   /\ EvalComparison(w.test, FieldValue(v, c, w.field))
    IN  where = <<>> \/ E[Len(where)]

(* One key: present before absent, then in the key's direction; below zero where the first leads. *)
ByKey(dir, hasA, hasB, diff) ==
    IF hasA # hasB THEN (IF hasA THEN -1 ELSE 1)
    ELSE IF ~hasA THEN 0
    ELSE IF dir = "desc" THEN -diff ELSE diff

(* The first key that tells the two apart decides. *)
FirstDecides(diffs, otherwise) ==
    LET keys == {i \in DOMAIN diffs : diffs[i] # 0}
    IN  IF keys = {} THEN otherwise ELSE diffs[Min(keys)] < 0

CompareByKey(v, k, a, b) ==
    ByKey(k.dir, HasFieldValue(v, a, k.field), HasFieldValue(v, b, k.field),
          CompareValues(FieldValue(v, a, k.field), FieldValue(v, b, k.field), k.compare))

(* sortResults: key by key, then created_at, then id. *)
Precedes(v, order, a, b) ==
    FirstDecides([i \in DOMAIN order |-> CompareByKey(v, order[i], a, b)],
                 v.g[a].at < v.g[b].at \/ (v.g[a].at = v.g[b].at /\ a < b))

(* The members of a set by a total order. *)
InOrder(S, before(_, _)) ==
    [i \in 1..Cardinality(S) |->
        CHOOSE c \in S : Cardinality({d \in S : before(d, c)}) = i - 1]

SortResults(v, order, S) == InOrder(S, LAMBDA a, b : Precedes(v, order, a, b))

Truncate(limit, s) == IF limit > 0 /\ Len(s) > limit THEN SubSeq(s, 1, limit) ELSE s

(***************************************************************************)
(* The content budget of one encoded claim, spent along its contents; what *)
(* take keeps of each.  At the cap the prefix ends, inside a value when    *)
(* the overflow is cutoff, and nothing follows.                            *)
(***************************************************************************)
NewContentBudget(content) ==
    [full    |-> content.given /\ content.max = 0,
     left    |-> IF content.given THEN content.max ELSE 0,
     cutoff  |-> content.given /\ content.overflow = "cutoff",
     stopped |-> FALSE,
     kept    |-> <<>>]

Take(b, size) ==
    LET keep(n) == [b EXCEPT !.kept = Append(@, n)]
    IN  IF b.full \/ size = 0 THEN keep(size)
        ELSE IF b.stopped THEN keep(0)
        ELSE IF size <= b.left THEN [keep(size) EXCEPT !.left = @ - size]
        ELSE [keep(IF b.cutoff THEN b.left ELSE 0) EXCEPT
                 !.stopped = TRUE, !.left = IF b.cutoff THEN 0 ELSE @]

Encodes(out) == out.encoding \notin {"", "native"} /\ out.detail # "id"

(* Native claims and envelopes keep their contents whole, an id carries none. *)
Inlined(v, out, c) ==
    LET sizes == v.bytes[c][IF out.form = "materialized" THEN "materialized" ELSE "original"]
    IN  IF out.detail = "id" THEN <<>>
        ELSE IF ~Encodes(out) \/ out.detail = "envelope" THEN v.bytes[c]["original"]
        ELSE FoldLeft(Take, NewContentBudget(out.content), sizes).kept

(* The field of an element its payload is in. *)
Kind(out) ==
    <<IF out.shape = "path" THEN "path" ELSE "claim",
      IF out.detail = "id" THEN "id"
      ELSE IF ~Encodes(out) THEN "native"
      ELSE IF out.detail = "envelope" THEN "envelope" ELSE "encoded">>

Finish(v, q, kept, routes, bounded) ==
    LET rows == Truncate(q.results, kept)
    IN  [ok |-> TRUE, claims |-> rows,
         routes |-> IF q.out.shape = "path" THEN [i \in DOMAIN rows |-> routes[rows[i]]] ELSE <<>>,
         inlined |-> [i \in DOMAIN rows |-> Inlined(v, q.out, rows[i])],
         kind |-> Kind(q.out),
         truncated |-> bounded \/ rows # kept]

(* finishReached: filter, sort, cut, and the route to each claim when asked. *)
FinishReached(v, q, reached, routes, bounded) ==
    Finish(v, q, SortResults(v, q.order, {c \in reached : EvalWhere(v, q.where, c)}), routes, bounded)

-----------------------------------------------------------------------------
(* DefaultQuery. *)

(* The step of a scan: the outward closure, the start included. *)
AnyEdge == [edges |-> {}, dir |-> "provenance", min |-> 0, max |-> 0, nodes |-> {}]

Selves(v, S) == [c \in 1..Len(v.g) |-> IF c \in S THEN <<c>> ELSE <<>>]

(* A walk in progress: what the last step reached, every route so far, whether a read failed. *)
Walk(out, routes, failed) == [out |-> out, routes |-> routes, failed |-> failed]

(* The frontier: the claims named, or what a sweep from the origin collected. *)
WalkStart(v, claims, origin, admits) ==
    LET swept(w) == Walk(w.out, Selves(v, w.out), origin \notin v.readable \/ w.failed)
    IN  IF claims # {} THEN Walk(claims, Selves(v, claims), ~(claims \subseteq v.readable))
        ELSE swept(WalkStep(v, {}, {origin}, AnyEdge, admits, Selves(v, {origin})))

(* Step after step, once the reverse index is read. *)
QueryTraverse(v, index, start, path, admits) ==
    LET next(s) == Walk(s.out, s.routes, s.failed)
    IN  FoldLeft(LAMBDA w, step :
                    IF w.failed THEN w ELSE next(WalkStep(v, index, w.out, step, admits, w.routes)),
                 [start EXCEPT !.failed = @ \/ ~(index \subseteq v.readable)], path)

(***************************************************************************)
(* A path to walk: without one, the outward closure of the claims asked    *)
(* for, or of the origin; an empty one is the frontier itself.             *)
(***************************************************************************)
Anchored(q, origin) == IF q.whole /\ q.claims = {} THEN {origin} ELSE q.claims

PathOf(q) == IF q.whole THEN <<AnyEdge>> ELSE q.path

IndexOver(v, q, scope) ==
    IF \E i \in DOMAIN PathOf(q) : WalksReverse(PathOf(q)[i])
    THEN Swept(v, IF scope.head = 0 THEN ClosureOrigin(q, scope) ELSE scope.head) ELSE {}

(* The walk along a path, from where the query starts. *)
Traversed(v, q, scope, admits, path) ==
    LET origin == ClosureOrigin(q, scope)
    IN  QueryTraverse(v, IndexOver(v, q, scope), WalkStart(v, Anchored(q, origin), origin, admits),
                      path, admits)

Unconfined(v, q, scope) == ClosureOrigin(q, scope) = 0 \/ ConfineFails(v, scope)

DefaultQuery(v, q, scope) ==
    LET finish(w, admits) ==
            IF w.failed THEN Failed
            ELSE FinishReached(v, q, IF PathOf(q) = <<>> THEN w.out \cap admits ELSE w.out,
                               w.routes, FALSE)
        answer(admits) == finish(Traversed(v, q, scope, admits, PathOf(q)), admits)
    IN  IF Unconfined(v, q, scope) THEN Failed ELSE answer(Admits(v, scope))

(***************************************************************************)
(* What limit.time leaves of a read.  Confining fails with the deadline;   *)
(* before the last step nothing is kept, in it what it collected, under    *)
(* the routes known then.                                                  *)
(***************************************************************************)
BoundedAnswers(v, q, scope) ==
    LET path == PathOf(q)
        cuts(w, admits) ==
            {[out |-> {}, routes |-> w.routes]} \cup
                IF path = <<>> \/ w.failed THEN {}
                ELSE WalkStepCut(v, IndexOver(v, q, scope), w.out, Last(path), admits, w.routes)
        answers(admits) == {FinishReached(v, q, cut.out, cut.routes, TRUE) :
                               cut \in cuts(Traversed(v, q, scope, admits, Front(path)), admits)}
    IN  {Failed} \cup IF Unconfined(v, q, scope) THEN {} ELSE answers(Admits(v, scope))

(* Archive.Query at the table: the verdict on the query's form, its scope, the read. *)
ArchiveQuery(v, table, q) ==
    IF ~ValidateQuery(q) \/ ~ValidateSelect(q) \/ ~ScopeFound(v, table, q) THEN {Failed}
    ELSE LET scope == ResolveScope(v, table, q)
         IN  {DefaultQuery(v, q, scope)} \cup
                 IF q.time > 0 THEN BoundedAnswers(v, q, scope) ELSE {}

-----------------------------------------------------------------------------
(* Membership of one claim, and of several in several branches, over the   *)
(* stored edges.                                                           *)

Stored(v) == [i \in 1..Len(v.g) |-> v.g[i].edges]

(* The levels of a breadth-first walk that reads past no gap. *)
StoredLevels(v, heads) ==
    LET L == FoldLeft(LAMBDA s, i :
                         LET next == UNION {{e.to : e \in v.g[c].edges} : c \in Last(s) \cap v.held}
                         IN  Append(s, next \ UNION Range(s)),
                      <<heads>>, Downward(Len(v.g)))
    IN  L

(* GetFromClosure's fast path: the claim's own stamp, whatever its height. *)
TagProves(v, branch, c) ==
    /\ branch \notin {"$universe", "$archive"}
    /\ c \in v.readable
    /\ v.tags[c][branch] # 0

(***************************************************************************)
(* InClosure: what it may answer.  The walk stops at the claim or at the   *)
(* first gap it takes from its queue, and reads a gap as absence; on the   *)
(* claim's own level the order of the queue decides.                       *)
(***************************************************************************)
InClosure(v, branch, heads, c) ==
    LET levels == StoredLevels(v, heads)
        depth(d) == CHOOSE i \in DOMAIN levels : d \in levels[i]
        reached == UNION Range(levels)
        gaps == {depth(d) : d \in reached \ (v.held \cup {c})}
    IN  IF TagProves(v, branch, c) THEN {TRUE}
        ELSE IF c \notin reached \cap v.readable THEN {FALSE}
        ELSE IF \E i \in gaps : i < depth(c) THEN {FALSE}
        ELSE IF depth(c) \in gaps THEN BOOLEAN
        ELSE {TRUE}

(* DefaultClaimsInBranches: a gap is walked around, not reported. *)
ClaimsInBranches(v, heads, ids) ==
    ids \cap Below(Len(v.g), Stored(v), v.held, heads)
=============================================================================
