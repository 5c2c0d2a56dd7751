------------------------------- MODULE Neo4j -------------------------------
(***************************************************************************)
(* The neo4j cache: claims as labelled nodes, their materialised edges as  *)
(* relationships, branch membership as stamps on the nodes, and every read *)
(* lowered to one Cypher statement.                                        *)
(*                                                                         *)
(* Each statement is a transaction, a call is several of them: PutClaims   *)
(* writes the nodes and then the edges type by type, Tag stamps branch by  *)
(* branch.  A call that fails or dies leaves what its statements did, and  *)
(* a stack goes on without it, since a cache may fail.                     *)
(*                                                                         *)
(* The claims are given (graph, as in ClaimBuilder; Spine, the branch      *)
(* tables, oldest first); any set of Batches is put in any order, late,    *)
(* twice or never.  A node without a label is the stub of an edge's target *)
(* or of a deleted claim: no row is ever returned for one.  Content is     *)
(* left out: reads that need it go to the layer below.                     *)
(***************************************************************************)
EXTENDS Query

CONSTANTS
    graph, fields,   \* the claims and what reads see of each (Query)
    Spine,           \* the branch tables, by place in graph
    Branches,
    Batches,         \* the sets of claims that are put together
    Deletable,       \* the claims that may be deleted
    Writers, Taggers,
    Reads,           \* the reads that are asked (Query)
    MaxFaults        \* bound on calls cut short, claims deleted, Tag calls that overlap

Ids == 1..Len(graph)

ASSUME Neo4jAssumption ==
    /\ \A c \in Ids : \A e \in graph[c].edges : e.to < c
    /\ \A i \in 2..Len(Spine) : Predecessors(graph[Spine[i]]) = {Spine[i - 1]}
    /\ UNION Batches \subseteq Ids /\ Deletable \subseteq Ids
    /\ MaxFaults \in Nat

VARIABLES
    claims,     \* the labelled nodes
    rels,       \* the relationships: [from, to, type, name]
    tags, rev,  \* the stamps of each node, and 1 + the spine revision; 0: none
    put,        \* the PutClaims call of each writer
    tagging,    \* the Tag call of each tagger
    clean,      \* no claim was deleted, every Tag found the closure of its head whole
    faults      \* calls cut short, claims deleted, Tag calls that overlapped another

vars == <<claims, rels, tags, rev, put, tagging, clean, faults>>

Keys == Branches \cup {"$archive"}

NoPut == [phase |-> "idle", batch |-> {}, edges |-> {}]

NoTagging == [phase |-> "idle", at |-> 0, last |-> 0, todo |-> {}, heads |-> <<>>, revision |-> 0]

Init ==
    /\ claims = {} /\ rels = {}
    /\ tags = [c \in Ids |-> [b \in Keys |-> 0]] /\ rev = [c \in Ids |-> 0]
    /\ put = [w \in Writers |-> NoPut] /\ tagging = [t \in Taggers |-> NoTagging]
    /\ clean = TRUE /\ faults = 0

-----------------------------------------------------------------------------
(* PutClaims. *)

Rel(c, e) == [from |-> c, to |-> e.to, type |-> e.type, name |-> e.name]

RelsOf(c) == {r \in rels : r.from = c}

(* A read of c is answered with the edges that are there, or misses: {}. *)
GetClaims(c) == IF c \in claims THEN {RelsOf(c)} ELSE {}

(***************************************************************************)
(* materializeForWrite: a claim's own edges over the named ones of its     *)
(* predecessor, which is linked first when it is in the batch and is read  *)
(* from the graph, as it stands there, when it is not.                     *)
(***************************************************************************)
Linked(batch) ==
    LET L[c \in Ids] ==
            LET own == {Rel(c, e) : e \in graph[c].edges}
                base == UNION {IF p \in batch THEN L[p] ELSE UNION GetClaims(p) : p \in Predecessors(graph[c])}
            IN  own \cup {[r EXCEPT !.from = c] :
                             r \in {b \in base : b.name # "" /\ \A o \in own : o.name # b.name}}
    IN  UNION {L[c] : c \in batch}

Materialised == [c \in Ids |-> {Rel(c, e) : e \in EffectiveEdges(graph)[c]}]

(* A claim another layer read is linked already; a fresh delta is not. *)
PutBegin(w, batch) ==
    /\ put[w].phase = "idle"
    /\ \/ put' = [put EXCEPT ![w] = [phase |-> "nodes", batch |-> batch,
                                     edges |-> UNION {Materialised[c] : c \in batch}]]
       \/ /\ \A c \in batch : \A p \in Predecessors(graph[c]) \ batch : GetClaims(p) # {}
          /\ put' = [put EXCEPT ![w] = [phase |-> "nodes", batch |-> batch, edges |-> Linked(batch)]]
    /\ UNCHANGED <<claims, rels, tags, rev, tagging, clean, faults>>

(* cypherPutNodes *)
PutNodes(w) ==
    /\ put[w].phase = "nodes"
    /\ claims' = claims \cup put[w].batch
    /\ put' = [put EXCEPT ![w] = IF @.edges = {} THEN NoPut ELSE [@ EXCEPT !.phase = "edges"]]
    /\ UNCHANGED <<rels, tags, rev, tagging, clean, faults>>

(* edgeCypher, one statement for each edge type, in the order of a map. *)
PutEdges(w, type) ==
    LET mine == {r \in put[w].edges : r.type = type}
    IN  /\ put[w].phase = "edges" /\ mine # {}
        /\ rels' = rels \cup mine
        /\ put' = [put EXCEPT ![w] = IF @.edges = mine THEN NoPut ELSE [@ EXCEPT !.edges = @ \ mine]]
        /\ UNCHANGED <<claims, tags, rev, tagging, clean, faults>>

PutFails(w) ==
    /\ put[w].phase # "idle" /\ faults < MaxFaults
    /\ faults' = faults + 1
    /\ put' = [put EXCEPT ![w] = NoPut]
    /\ UNCHANGED <<claims, rels, tags, rev, tagging, clean>>

(* cypherDeleteClaims: back to a stub; the relationships into it are other claims'. *)
DeleteClaims(c) ==
    /\ c \in claims /\ faults < MaxFaults
    /\ faults' = faults + 1
    /\ claims' = claims \ {c}
    /\ rels' = rels \ RelsOf(c)
    /\ tags' = [tags EXCEPT ![c] = [b \in Keys |-> 0]]
    /\ rev' = [rev EXCEPT ![c] = 0]
    /\ clean' = FALSE
    /\ UNCHANGED <<put, tagging>>

-----------------------------------------------------------------------------
(* Tag. *)

(* What MATCH (h {id: $head})-[*0..]->(n) finds. *)
Reach(head) == Below(Len(graph), [c \in Ids |-> RelsOf(c)], Ids, {head})

ClosureOf == [c \in Ids |-> Below(Len(graph), [d \in Ids |-> graph[d].edges], Ids, {c})]

Whole(c) == GetClaims(c) = {Materialised[c]}

(* The walk goes on from the table at i to the one before it. *)
Descends(i) == i > 1 /\ \E r \in UNION GetClaims(Spine[i]) : r.type = "diff"

(* untaggedSpine: the lowest table of the walk down from the one at i. *)
Lowest(i) ==
    CHOOSE k \in 1..i : /\ \A j \in k..i : rev[Spine[j]] = 0
                        /\ \A j \in (k + 1)..i : Descends(j)
                        /\ ~Descends(k) \/ rev[Spine[k - 1]] # 0

BranchEdges(i) ==
    {<<r.name, r.to>> : r \in {x \in UNION GetClaims(Spine[i]) : x.type = "branch"}}

(* The spine is read into memory; a table that is not here fails the call. *)
TagBegin(t, i) ==
    LET low == Lowest(i)
        base == IF Descends(low) THEN rev[Spine[low - 1]] ELSE 0
        alone == \A u \in Taggers : tagging[u].phase = "idle"
    IN  /\ tagging[t].phase = "idle"
        /\ rev[Spine[i]] = 0
        /\ \A j \in low..i : GetClaims(Spine[j]) # {}
        /\ alone \/ faults < MaxFaults
        /\ faults' = faults + (IF alone THEN 0 ELSE 1)
        /\ tagging' = [tagging EXCEPT ![t] =
              [phase |-> "stamp", at |-> low, last |-> i, todo |-> BranchEdges(low),
               heads |-> [j \in 1..i |-> IF j > low THEN BranchEdges(j) ELSE {}],
               revision |-> base]]
        /\ clean' = (clean /\ \A c \in ClosureOf[Spine[i]] : Whole(c))
        /\ UNCHANGED <<claims, rels, tags, rev, put>>

(* Mutant: a stamp that is there is overwritten. *)
StampsAgain(c, b) == TRUE

Stamps(c, b) == tags[c][b] = 0

(* cypherTagClosure *)
Stamped(head, b, height) ==
    [c \in Ids |-> IF c \in Reach(head) \cap claims /\ Stamps(c, b)
                   THEN [tags[c] EXCEPT ![b] = height] ELSE tags[c]]

TagBranch(t) ==
    LET job == tagging[t]
    IN  /\ job.phase = "stamp"
        /\ \E h \in job.todo :
              /\ tags' = Stamped(h[2], h[1], graph[Spine[job.at]].height)
              /\ tagging' = [tagging EXCEPT ![t].todo = @ \ {h}]
        /\ UNCHANGED <<claims, rels, rev, put, clean, faults>>

TagArchive(t) ==
    LET job == tagging[t]
    IN  /\ job.phase = "stamp" /\ job.todo = {}
        /\ tags' = Stamped(Spine[job.at], "$archive", graph[Spine[job.at]].height)
        /\ tagging' = [tagging EXCEPT ![t].phase = "mark"]
        /\ UNCHANGED <<claims, rels, rev, put, clean, faults>>

(* cypherTagSpine, and on to the next table. *)
TagSpine(t) ==
    LET job == tagging[t]
        next == job.at + 1
    IN  /\ job.phase = "mark"
        /\ rev' = [rev EXCEPT ![Spine[job.at]] = job.revision + 1]
        /\ tagging' = [tagging EXCEPT ![t] =
              IF job.at = job.last THEN NoTagging
              ELSE [@ EXCEPT !.phase = "stamp", !.at = next, !.todo = job.heads[next],
                             !.revision = @ + 1]]
        /\ UNCHANGED <<claims, rels, tags, put, clean, faults>>

TagFails(t) ==
    /\ tagging[t].phase # "idle" /\ faults < MaxFaults
    /\ faults' = faults + 1
    /\ tagging' = [tagging EXCEPT ![t] = NoTagging]
    /\ UNCHANGED <<claims, rels, tags, rev, put, clean>>

EdgeTypes == {e.type : e \in UNION {graph[c].edges : c \in Ids}}

Next ==
    \/ \E w \in Writers :
          \/ \E batch \in Batches : PutBegin(w, batch)
          \/ PutNodes(w)
          \/ \E type \in EdgeTypes : PutEdges(w, type)
          \/ PutFails(w)
    \/ \E c \in Deletable : DeleteClaims(c)
    \/ \E t \in Taggers :
          \/ \E i \in DOMAIN Spine : TagBegin(t, i)
          \/ TagBranch(t)
          \/ TagArchive(t)
          \/ TagSpine(t)
          \/ TagFails(t)

Spec == Init /\ [][Next]_vars

-----------------------------------------------------------------------------
(* Query: the lowering to Cypher.  A truth value is a set, {} being null.  *)

(* cypherPutNodes sets no dated: claimParam's value is not in the statement. *)
Projected(c) == [f \in DOMAIN fields[c] \ {"dated"} |-> fields[c][f]]

HasProperty(c, field) ==
    CASE field \in {"id", "created_at", "height"} -> TRUE
      [] field = "delete_by" -> Due(graph)[c] # 0
      [] OTHER -> field \in DOMAIN Projected(c)

Property(c, field) ==
    CASE field = "id"         -> [Spelled(0) EXCEPT !.text = 100 + c]
      [] field = "height"     -> Number(graph[c].height)
      [] field = "created_at" -> Spelled(graph[c].at)
      [] field = "delete_by"  -> Spelled(Due(graph)[c])
      [] OTHER -> Projected(c)[field]

IntField == {"height", "content_size"}

(* toFloat of a property: the number a text spells, null for any other text. *)
ToFloat(x) ==
    IF AsFloat(x) THEN {x.num}
    ELSE IF x.text % 10 = 0 THEN {x.text \div 10} ELSE {}

(* toFloatVal of an operand: zero for a text. *)
ToFloatVal(x) == IF AsFloat(x) THEN x.num ELSE 0

CypherEqual(x, y) == x.form = y.form /\ (IF AsFloat(x) THEN x.num = y.num ELSE x.text = y.text)

(* The difference an ordering operator looks at. *)
CypherDiff(field, x, y) ==
    IF field \in IntField \/ (AsFloat(y) /\ field # "type") THEN {n - ToFloatVal(y) : n \in ToFloat(x)}
    ELSE IF AsFloat(x) \/ AsFloat(y) THEN {} ELSE {x.text - y.text}

CmpClause(field, test, x) ==
    LET op == CHOOSE o \in DOMAIN test : TRUE
        diff == CypherDiff(field, x, test[op])
    IN  CASE op = "eq"   -> {CypherEqual(x, test[op])}
          [] op = "ne"   -> {~CypherEqual(x, test[op])}
          [] op = "lt"   -> {d < 0 : d \in diff}
          [] op = "le"   -> {d <= 0 : d \in diff}
          [] op = "gt"   -> {d > 0 : d \in diff}
          [] op = "ge"   -> {d >= 0 : d \in diff}
          [] op = "in"   -> {\E y \in test[op] : CypherEqual(x, y)}
          [] op = "glob" -> IF AsFloat(x) THEN {} ELSE {x.text \in test[op]}

Both(S) == IF {FALSE} \in S THEN {FALSE} ELSE IF {} \in S THEN {} ELSE {TRUE}

Either(S) == IF {TRUE} \in S THEN {TRUE} ELSE IF {} \in S THEN {} ELSE {FALSE}

(* whereClause: a missing property is null, and so is what negates it. *)
WhereClause(where, c) ==
    LET E[i \in 1..Len(where)] ==
            LET w == where[i]
            IN  CASE w.and # {} -> Both({E[j] : j \in w.and})
                  [] w.or # {}  -> Either({E[j] : j \in w.or})
                  [] w.not # {} -> {~x : x \in UNION {E[j] : j \in w.not}}
                  [] HasProperty(c, w.field) -> CmpClause(w.field, w.test, Property(c, w.field))
                  [] OTHER -> {}
    IN  where = <<>> \/ TRUE \in E[Len(where)]

(* orderTerm: missing last; a number for a numeric key, the projected midpoint for a date. *)
OrderKeys(k, c) ==
    LET x == Property(c, k.field)
    IN  IF ~HasProperty(c, k.field) THEN {}
        ELSE IF k.field = "type" THEN {x.text}
        ELSE IF k.compare = "numeric" \/ k.field \in IntField THEN ToFloat(x)
        ELSE {x.text}

(* A null key sorts as the greatest. *)
CompareKeys(A, B) ==
    IF A = B THEN 0
    ELSE IF A = {} THEN 1
    ELSE IF B = {} THEN -1 ELSE (CHOOSE x \in A : TRUE) - (CHOOSE y \in B : TRUE)

CompareByTerm(k, a, b) ==
    ByKey(k.dir, HasProperty(a, k.field), HasProperty(b, k.field),
          CompareKeys(OrderKeys(k, a), OrderKeys(k, b)))

OrderPrecedes(order, a, b) ==
    FirstDecides([i \in DOMAIN order |-> CompareByTerm(order[i], a, b)],
                 graph[a].at < graph[b].at \/ (graph[a].at = graph[b].at /\ a < b))

-----------------------------------------------------------------------------
(* Scope. *)

TagBounded(scope) == scope.branch \notin {"", "$universe", "$archive"}

ClosureAnchor(q, scope) ==
    IF q.head # 0 THEN q.head ELSE IF TagBounded(scope) THEN 0 ELSE scope.head

(* Mutant: a stamp of any height will do. *)
ConfinedAnyHeight(scope) ==
    IF TagBounded(scope) THEN {c \in Ids : tags[c][scope.branch] # 0} ELSE Ids

(* n[$bkey] <= $height: a node without the stamp is null, so it is out. *)
Confined(scope) ==
    IF TagBounded(scope) THEN {c \in Ids : tags[c][scope.branch] \in 1..scope.height} ELSE Ids

(* startClause: any node at all where the stamps do the bounding. *)
StartClause(q, scope) ==
    IF q.claims # {} THEN q.claims
    ELSE IF ClosureAnchor(q, scope) # 0 THEN Reach(ClosureAnchor(q, scope)) ELSE Ids

ScanCypher(q, scope) ==
    LET match == IF q.whole /\ q.claims # {} THEN UNION {Reach(c) : c \in q.claims}
                 ELSE StartClause(q, scope)
    IN  {c \in match \cap Confined(scope) \cap claims : WhereClause(q.where, c)}

-----------------------------------------------------------------------------
(* Traversal.  A segment is a trail: no relationship twice, every node     *)
(* confined, every relationship of a type the step admits.                 *)

Hops(step, c) ==
    LET typed == {r \in rels : MatchTypeList(step.edges, r.type)}
    IN  (IF WalksForward(step) THEN {<<r, r.to>> : r \in {x \in typed : x.from = c}} ELSE {})
            \cup (IF WalksReverse(step) THEN {<<r, r.from>> : r \in {x \in typed : x.to = c}} ELSE {})

Longer(step, within, trails) ==
    UNION {{[nodes |-> Append(t.nodes, h[2]), rels |-> t.rels \cup {h[1]}] :
               h \in {x \in Hops(step, Last(t.nodes)) : x[1] \notin t.rels /\ x[2] \in within}} :
           t \in trails}

SegmentPattern(step, within, c) ==
    LET bound == IF step.max > 0 THEN step.max ELSE Cardinality(rels)
        start == {[nodes |-> <<c>>, rels |-> {}]} 
        walk == FoldLeft(LAMBDA s, i : LET next == IF s.level = {} THEN {} ELSE Longer(step, within, s.level)
                                       IN  [level |-> next, all |-> s.all \cup next],
                         [level |-> start, all |-> start], [i \in 1..bound |-> i])
    IN  IF c \in within THEN {t.nodes : t \in {x \in walk.all : Len(x.nodes) > step.min}} ELSE {}

(* segmentFilters, on the last node: a stub has no label to match or to exclude. *)
EndsAt(step, c) ==
    IF c \in claims THEN MatchTypeList(step.nodes, graph[c].type)
    ELSE \A p \in step.nodes : p.neg

(* For ORDER BY [x IN route | x.created_at + x.id]: a stub, having no date, is last. *)
DatedNodes == [g |-> [c \in Ids |-> IF c \in claims THEN graph[c] ELSE [graph[c] EXCEPT !.at = 1000]]]

(* One MATCH ... WITH: the route kept for each node the step ends at. *)
StepCypher(step, within, routes) ==
    LET keep(found) == [c \in {x \in {Last(r) : r \in found} : EndsAt(step, x)} |->
                           Least(DatedNodes, {r \in found : Last(r) = c})]
    IN  keep(UNION {{routes[c] \o Tail(t) : t \in SegmentPattern(step, within, c)} : c \in DOMAIN routes})

TraversalCypher(q, scope) ==
    LET matching(routes) ==
            [c \in {x \in DOMAIN routes \cap claims : WhereClause(q.where, x)} |-> routes[c]]
    IN  matching(FoldLeft(LAMBDA r, step : StepCypher(step, Confined(scope), r),
                          [c \in StartClause(q, scope) |-> <<c>>], q.path))

LowerCypher(q, scope) ==
    IF q.whole \/ q.path = <<>> THEN [c \in ScanCypher(q, scope) |-> <<c>>]
    ELSE TraversalCypher(q, scope)

(***************************************************************************)
(* Query.  One row past the limit tells that there is more.  A route with  *)
(* a stub on it cannot be rebuilt; a spent time budget leaves no row.      *)
(***************************************************************************)
CypherAnswer(q, scope) ==
    LET paths == q.out.shape = "path"
        fetched(kept) == IF q.results = 0 THEN kept ELSE Truncate(q.results + 1, kept)
        stub(found, s) == \E i \in DOMAIN s : ~(Range(found[s[i]]) \subseteq claims)
        rebuilt(found, kept, rows) ==
            IF Encodes(q.out) \/ (paths /\ stub(found, fetched(kept))) THEN Failed
            ELSE [ok |-> TRUE, claims |-> rows, inlined |-> <<>>, kind |-> Kind(q.out),
                  routes |-> IF paths THEN [i \in DOMAIN rows |-> found[rows[i]]] ELSE <<>>,
                  truncated |-> rows # kept]
        cut(found, kept) == rebuilt(found, kept, Truncate(q.results, kept))
        sorted(found) ==
            cut(found, InOrder(DOMAIN found, LAMBDA a, b : OrderPrecedes(q.order, a, b)))
    IN  sorted(LowerCypher(q, scope))

SpentTime(q) == [Failed EXCEPT !.ok = TRUE, !.kind = Kind(q.out), !.truncated = TRUE]

CypherAnswers(q, scope) ==
    {CypherAnswer(q, scope)} \cup IF q.time > 0 THEN {SpentTime(q)} ELSE {}

(* cypherClaimsInBranches: the heads go unused. *)
StampedIn(b) == {c \in claims : tags[c][b] # 0}

-----------------------------------------------------------------------------
(* The properties. *)

(* What the authoritative layer holds, which DefaultQuery reads. *)
Reference ==
    [g |-> graph, edges |-> EffectiveEdges(graph), held |-> Ids, readable |-> Ids,
     tags |-> [c \in Ids |-> [b \in Branches |-> 0]], fields |-> fields,
     bytes |-> [c \in Ids |-> [form \in {"original", "materialized"} |-> <<>>]]]

Asked == {<<i, q>> \in (DOMAIN Spine) \X Reads :
             ValidateQuery(q) /\ ValidateSelect(q) /\ ScopeFound(Reference, Spine[i], q)}

ScopeOf == [a \in Asked |-> ResolveScope(Reference, Spine[a[1]], a[2])]

Answers == [a \in Asked |-> DefaultQuery(Reference, a[2], ScopeOf[a])]

Unlimited == [a \in Asked |-> Range(DefaultQuery(Reference, [a[2] EXCEPT !.results = 0], ScopeOf[a]).claims)]

Members == [b \in Keys |->
    IF b = "$archive" THEN ClosureOf[Last(Spine)]
    ELSE UNION {ClosureOf[h] : h \in BranchHeads(Reference, Last(Spine), b)}]

(* Between calls; a call that was cut short left what it had done. *)
Resting ==
    /\ \A w \in Writers : put[w].phase = "idle"
    /\ \A t \in Taggers : tagging[t].phase = "idle"

(* Relationships are those some put claim has, stamps are heights. *)
TypeOK ==
    /\ claims \subseteq Ids
    /\ rels \subseteq UNION {Materialised[c] : c \in Ids}
    /\ tags \in [Ids -> [Keys -> Nat]] /\ rev \in [Ids -> Nat]
    /\ clean \in BOOLEAN /\ faults \in 0..MaxFaults

(***************************************************************************)
(* Whatever was put, torn, deleted, put again or tagged before its claims  *)
(* were there: a read of a branch, at the newest table or an older one,    *)
(* returns only claims the reference returns for it, and the stamps put no *)
(* claim in a branch that does not hold it (Query, ClaimsInBranches).      *)
(***************************************************************************)
ReadsSound ==
    Resting =>
        /\ \A a \in Asked : \A x \in CypherAnswers(a[2], ScopeOf[a]) :
              Range(x.claims) \subseteq Unlimited[a]
        /\ \A b \in Keys : StampedIn(b) \subseteq Members[b]

(* The reads both engines answer, and in full. *)
Alike == {a \in Asked : a[2].time = 0 /\ ~Encodes(a[2].out)}

Shown(answer) == <<answer.ok, answer.claims, answer.routes, answer.kind, answer.truncated>>

Covered(q) == q.head = 0 \/ \A c \in ClosureOf[q.head] : Whole(c)

(***************************************************************************)
(* Where nothing was deleted and every Tag found its archive's closure     *)
(* whole, the graph answers a read of a tagged table as DefaultQuery does: *)
(* the same claims in the same order, the same routes, the same verdict    *)
(* that there was more.                                                    *)
(***************************************************************************)
EnginesAgree ==
    clean /\ Resting =>
        \A a \in Alike : rev[Spine[a[1]]] # 0 /\ Covered(a[2]) =>
            Shown(CypherAnswer(a[2], ScopeOf[a])) = Shown(Answers[a])
=============================================================================
