------------------------------- MODULE Upkeep -------------------------------
(***************************************************************************)
(* What happens to a Universe beside the writing of an archive: the        *)
(* planned-deletion sweep, the tagger that stamps branch membership, a     *)
(* copy into another Universe, and the reads that rely on all three.       *)
(*                                                                         *)
(* The Universe is a partition: each claim and each blob lives on the      *)
(* shard its own id is routed to, a bulk write goes shard by shard and     *)
(* stops at the first that fails (one shard is the plain store).  The      *)
(* archive is given: graph holds every claim it will have, Spine its       *)
(* branch tables, oldest first; Publish commits the next one.              *)
(*                                                                         *)
(* A tagger is a caller of TagArchive on an archive over the whole         *)
(* partition.  The partition's own Tag is another thing: it hands the head *)
(* to each shard, and a shard that tags by the default tagger does so on   *)
(* its own, as a store of one shard does here, over the claims it has.     *)
(*                                                                         *)
(* A walk that only reads is one step: claims leave only by the sweep,     *)
(* stamps come only from the tagger, so a read spread over time fails or   *)
(* sees what one instant showed.                                           *)
(***************************************************************************)
EXTENDS Query

CONSTANTS
    graph,       \* the claims, in the order they are sealed
    content,     \* content[c]: the hash of c's external content, 0 for none
    fields,      \* what reads see of a claim beside its edges and dates,
    bytes,       \*   and of its inline content (Query)
    Spine,       \* the branch tables, by place in graph
    Branches,
    Shards,      \* the number of shards
    claimShard,  \* the shard of each claim,
    blobShard,   \*   and of each content hash
    Taggers,
    Queries,     \* the reads that are asked in every state
    Faults,      \* "put", "sweep", "tag", "copy": what may fail
    MaxTime,     \* bound on the clock
    MaxFaults    \* bound on failures

Ids == 1..Len(graph)

Hashes == {content[c] : c \in Ids} \ {0}

ASSUME ShardAssumption ==
    /\ Shards \in Nat \ {0}
    /\ claimShard \in [Ids -> 1..Shards] /\ blobShard \in [Hashes -> 1..Shards]
    /\ MaxTime \in Nat \ {0} /\ MaxFaults \in Nat

(* A claim's id hashes its references, its height is above theirs. *)
ASSUME GraphAssumption ==
    /\ Len(graph) \in Nat
    /\ \A c \in Ids :
          /\ content[c] \in Nat /\ graph[c].height \in Nat
          /\ \A e \in graph[c].edges : e.to \in 1..(c - 1) /\ graph[e.to].height < graph[c].height

RawEdges == [c \in Ids |-> graph[c].edges]

ClosureOf == [c \in Ids |-> Below(Len(graph), RawEdges, Ids, {c})]

(* The table's own branch edges. *)
TableBranches(table) == {e \in graph[table].edges : e.type = "branch"}

(***************************************************************************)
(* Each table but the first is a diff over the one before it and restates  *)
(* the branches that advance, each once and by name, its other edges have  *)
(* none; a branch's new head reaches the head it had.                      *)
(***************************************************************************)
ASSUME SpineAssumption ==
    /\ Spine \in Seq(Ids) \ {<<>>} /\ "" \notin Branches
    /\ \A i \in 1..Len(Spine) :
          /\ graph[Spine[i]].type = "branches" /\ graph[Spine[i]].edges # {}
          /\ Predecessors(graph[Spine[i]]) = IF i = 1 THEN {} ELSE {Spine[i - 1]}
          /\ \A e \in TableBranches(Spine[i]) :
                /\ e.name \in Branches
                /\ \A f \in graph[Spine[i]].edges : f.name = e.name => f = e
                /\ \A j \in 1..(i - 1) : \A f \in TableBranches(Spine[j]) :
                      f.name = e.name => f.to \in ClosureOf[e.to]
          /\ \A e \in graph[Spine[i]].edges \ TableBranches(Spine[i]) : e.name = ""

VARIABLES
    has, blobs,     \* the claims and the contents the Universe has bytes of
    tags, rev,      \* tags[c][b]: the stamped table height; rev[c]: 1 + the spine revision; 0: none
    top,            \* how many tables of the spine are published
    now,
    sweep,          \* the DeletePlanned call in progress
    tagging,        \* the TagArchive call of each tagger
    torn,           \* a flush of stamps was cut short between two shards, or read there
    copy,           \* the CopyClaims call in progress
    dst, dstBlobs,  \* what the other Universe has
    clean,          \* no copy into it was cut short
    faults          \* how many failures there were

store == <<has, blobs, tags, rev, top>>

target == <<copy, dst, dstBlobs, clean>>

vars == <<store, now, sweep, tagging, torn, target, faults>>

Materialised == EffectiveEdges(graph)

View == [g |-> graph, edges |-> Materialised, held |-> has,
         readable |-> Resolvable(graph, has), tags |-> tags, fields |-> fields, bytes |-> bytes]

Untagged == [b \in Branches |-> 0]

NoSweep == [phase |-> "idle", shard |-> 1, claims |-> {}, contents |-> {}]

NoTagging == [phase |-> "idle", next |-> 1, last |-> 0, revision |-> 0, shard |-> 1, stamps |-> {}]

NoCopy == [phase |-> "idle", root |-> 0, queue |-> <<>>, seen |-> {}]

MayFail(kind) == kind \in Faults /\ faults < MaxFaults /\ faults' = faults + 1

Contents(S) == {content[c] : c \in S} \ {0}

(* The claims the commit of a table adds to the ones below the table before it. *)
Added(i) == ClosureOf[Spine[i]] \ (IF i = 1 THEN {} ELSE ClosureOf[Spine[i - 1]])

Init ==
    /\ top = 1 /\ has = Added(1) /\ blobs = Contents(Added(1))
    /\ tags = [c \in Ids |-> Untagged] /\ rev = [c \in Ids |-> 0]
    /\ now = 1
    /\ sweep = NoSweep /\ tagging = [t \in Taggers |-> NoTagging] /\ torn = FALSE
    /\ copy = NoCopy /\ dst = {} /\ dstBlobs = {} /\ clean = TRUE
    /\ faults = 0

-----------------------------------------------------------------------------
(* The archive advances. *)

(* Contents, then claims, shard by shard, then the head. *)
Publish ==
    /\ top < Len(Spine)
    /\ top' = top + 1
    /\ has' = has \cup Added(top + 1)
    /\ blobs' = blobs \cup Contents(Added(top + 1))
    /\ UNCHANGED <<tags, rev, now, sweep, tagging, torn, target, faults>>

(* A shard refuses its group: the groups before it are written, the head stays. *)
PublishFails ==
    /\ MayFail("put")
    /\ top < Len(Spine)
    /\ \E s \in 1..Shards : has' = has \cup {c \in Added(top + 1) : claimShard[c] < s}
    /\ blobs' = blobs \cup Contents(Added(top + 1))
    /\ UNCHANGED <<tags, rev, top, now, sweep, tagging, torn, target>>

Tick ==
    /\ now < MaxTime
    /\ now' = now + 1
    /\ UNCHANGED <<store, sweep, tagging, torn, target, faults>>

-----------------------------------------------------------------------------
(* DeletePlanned. *)

(* dueForDeletion: the claim's own date, read from the stored form. *)
DueForDeletion(c) ==
    /\ graph[c].due # 0 /\ graph[c].due <= now
    /\ CheckDeletable(graph[c].type, graph[c].due)

(* The walk passes every claim it can read, the due ones too; a gap ends it there. *)
SweepCollect ==
    LET due == {c \in Below(Len(graph), RawEdges, has, {Spine[top]}) \cap has : DueForDeletion(c)}
    IN  /\ sweep.phase = "idle"
        /\ due # {}
        /\ sweep' = [phase |-> "claims", shard |-> 1, claims |-> due, contents |-> Contents(due)]
        /\ UNCHANGED <<store, now, tagging, torn, target, faults>>

NextShard(job, after) ==
    IF job.shard < Shards THEN [job EXCEPT !.shard = @ + 1] ELSE after

(* A shard's claims go, their tags with them. *)
SweepClaims ==
    LET gone == {c \in sweep.claims : claimShard[c] = sweep.shard}
    IN  /\ sweep.phase = "claims"
        /\ has' = has \ gone
        /\ tags' = [c \in Ids |-> IF c \in gone THEN Untagged ELSE tags[c]]
        /\ rev' = [c \in Ids |-> IF c \in gone THEN 0 ELSE rev[c]]
        /\ sweep' = NextShard(sweep, IF sweep.contents = {} THEN NoSweep
                                     ELSE [sweep EXCEPT !.phase = "contents", !.shard = 1])
        /\ UNCHANGED <<blobs, top, now, tagging, torn, target, faults>>

SweepContents ==
    /\ sweep.phase = "contents"
    /\ blobs' = blobs \ {h \in sweep.contents : blobShard[h] = sweep.shard}
    /\ sweep' = NextShard(sweep, NoSweep)
    /\ UNCHANGED <<has, tags, rev, top, now, tagging, torn, target, faults>>

(* A shard fails or the process dies: what is left to delete is forgotten. *)
SweepFails ==
    /\ MayFail("sweep")
    /\ sweep.phase # "idle"
    /\ sweep' = NoSweep
    /\ UNCHANGED <<store, now, tagging, torn, target>>

-----------------------------------------------------------------------------
(* TagArchive. *)

(* Mutant: the revisions are stamped newest first. *)
TableAtNewestFirst(job) == Spine[top + NoTagging.next - job.next]

(* The table of the revision at hand: oldest first. *)
TableAt(job) == Spine[job.next]

(* The first untagged table of the run that ends at the head. *)
SpineResume == Min({i \in 1..top : \A j \in i..top : rev[Spine[j]] = 0})

(* One more than the revision the tagged table below carries. *)
Base(first) == IF first = 1 THEN 0 ELSE rev[Spine[first - 1]]

TagBegin(t) ==
    /\ tagging[t].phase = "idle"
    /\ rev[Spine[top]] = 0
    /\ tagging' = [tagging EXCEPT ![t] =
           [phase |-> "read", next |-> SpineResume, last |-> top,
            revision |-> Base(SpineResume), shard |-> 1, stamps |-> {}]]
    /\ UNCHANGED <<store, now, sweep, torn, target, faults>>

(* tagBranchClosure: down from the head, not past a claim the branch already has. *)
TagBranchClosure(b, head) ==
    Below(Len(graph), RawEdges, {c \in has : tags[c][b] = 0}, {head})

(* Some of a revision's stamps are written and some are not. *)
MidFlush(job) == job.phase = "flush" /\ job.shard > 1

(* A branch the table inherits was stamped before: its own edges are walked. *)
TagRead(t) ==
    LET job == tagging[t]
        walks == {<<e.name, TagBranchClosure(e.name, e.to)>> : e \in TableBranches(TableAt(job))}
        stamps == UNION {{<<c, w[1]>> : c \in {d \in w[2] : tags[d][w[1]] = 0}} : w \in walks}
    IN  /\ job.phase = "read"
        /\ tagging' = [tagging EXCEPT ![t] =
               IF \A w \in walks : w[2] \subseteq has
               THEN [job EXCEPT !.phase = "flush", !.shard = 1, !.stamps = stamps]
               ELSE NoTagging]   \* the bulk read of a frontier misses a claim
        /\ torn' = (torn \/ \E u \in Taggers : MidFlush(tagging[u]))
        /\ UNCHANGED <<store, now, sweep, target, faults>>

(* SetClaimsTags, one shard's group: every stamp of the revision, and the table's own mark. *)
TagFlush(t) ==
    LET job == tagging[t]
        table == TableAt(job)
        here(c) == claimShard[c] = job.shard
    IN  /\ job.phase = "flush"
        /\ tags' = [c \in Ids |-> [b \in Branches |->
                      IF here(c) /\ <<c, b>> \in job.stamps THEN graph[table].height ELSE tags[c][b]]]
        /\ rev' = IF here(table) THEN [rev EXCEPT ![table] = job.revision + 1] ELSE rev
        /\ tagging' = [tagging EXCEPT ![t] = NextShard(job,
               IF job.next = job.last THEN NoTagging
               ELSE [job EXCEPT !.phase = "read", !.next = @ + 1, !.revision = @ + 1])]
        /\ UNCHANGED <<has, blobs, top, now, sweep, torn, target, faults>>

(* A read or the flush of a shard fails, or the process dies: the call gives up. *)
TagFails(t) ==
    /\ MayFail("tag")
    /\ tagging[t].phase # "idle"
    /\ tagging' = [tagging EXCEPT ![t] = NoTagging]
    /\ torn' = (torn \/ MidFlush(tagging[t]))
    /\ UNCHANGED <<store, now, sweep, target>>

-----------------------------------------------------------------------------
(* CopyClaims with closure and content, which is Sync. *)

CopyBegin ==
    /\ copy.phase \in {"idle", "done"}
    /\ \E i \in 1..top :
          copy' = [phase |-> "claim", root |-> Spine[i], queue |-> <<Spine[i]>>, seen |-> {}]
    /\ UNCHANGED <<store, now, sweep, tagging, dst, dstBlobs, clean, faults, torn>>

(* The queue without its first entry and with the references not met yet. *)
Queued(refs) ==
    LET rest == Tail(copy.queue)
        met == copy.seen \cup Range(copy.queue)
        new == InOrder(refs \ met, LAMBDA a, b : a > b)
    IN  [copy EXCEPT !.seen = @ \cup {Head(copy.queue)}, !.queue = rest \o new]

(* DiscoveryComplete, once the queue is empty. *)
Settled(job) == IF job.queue = <<>> THEN [job EXCEPT !.phase = "done"] ELSE [job EXCEPT !.phase = "claim"]

CopyRefs(c) == {e.to : e \in Materialised[c]}

(* A claim the destination has counts as copied with its closure. *)
CopyPresent ==
    /\ copy.phase = "claim"
    /\ Head(copy.queue) \in dst
    /\ copy' = Settled(Queued({}))
    /\ UNCHANGED <<store, now, sweep, tagging, dst, dstBlobs, clean, faults, torn>>

(* Mutant: only the content of the claim asked for is copied. *)
CopiesContentOfRoot(c) == content[c] # 0 /\ c = copy.root

(* Only external content has a blob of its own. *)
CopiesContent(c) == content[c] # 0

CopyClaim ==
    LET c == Head(copy.queue)
    IN  /\ copy.phase = "claim"
        /\ c \notin dst
        /\ c \in View.readable
        /\ dst' = dst \cup {c}
        /\ copy' = IF CopiesContent(c) THEN [copy EXCEPT !.phase = "content"]
                   ELSE Settled(Queued(CopyRefs(c)))
        /\ UNCHANGED <<store, now, sweep, tagging, dstBlobs, clean, faults, torn>>

CopyContent ==
    LET c == Head(copy.queue)
    IN  /\ copy.phase = "content"
        /\ content[c] \in blobs
        /\ dstBlobs' = dstBlobs \cup {content[c]}
        /\ copy' = Settled(Queued(CopyRefs(c)))
        /\ UNCHANGED <<store, now, sweep, tagging, dst, clean, faults, torn>>

(* The source misses what is asked for. *)
CopyMisses ==
    LET c == Head(copy.queue)
    IN  /\ \/ copy.phase = "claim" /\ c \notin dst /\ c \notin View.readable
           \/ copy.phase = "content" /\ content[c] \notin blobs
        /\ copy' = NoCopy /\ clean' = FALSE
        /\ UNCHANGED <<store, now, sweep, tagging, dst, dstBlobs, faults, torn>>

CopyFails ==
    /\ MayFail("copy")
    /\ copy.phase \in {"claim", "content"}
    /\ copy' = NoCopy /\ clean' = FALSE
    /\ UNCHANGED <<store, now, sweep, tagging, dst, dstBlobs, torn>>

-----------------------------------------------------------------------------
Next ==
    \/ Publish \/ PublishFails \/ Tick
    \/ SweepCollect \/ SweepClaims \/ SweepContents \/ SweepFails
    \/ \E t \in Taggers : TagBegin(t) \/ TagRead(t) \/ TagFlush(t) \/ TagFails(t)
    \/ CopyBegin \/ CopyPresent \/ CopyClaim \/ CopyContent \/ CopyMisses \/ CopyFails

Spec == Init /\ [][Next]_vars

-----------------------------------------------------------------------------
(* Properties. *)

(***************************************************************************)
(* The shape of the state: revisions are places of the spine, stamps are   *)
(* heights of its tables, jobs carry what their phase needs.               *)
(***************************************************************************)
TypeOK ==
    /\ has \subseteq Ids /\ blobs \subseteq Hashes
    /\ dst \subseteq Ids /\ dstBlobs \subseteq Hashes
    /\ top \in 1..Len(Spine) /\ now \in 1..MaxTime /\ {clean, torn} \subseteq BOOLEAN
    /\ rev \in [Ids -> 0..Len(Spine)]
    /\ tags \in [Ids -> [Branches -> {0} \cup {graph[Spine[i]].height : i \in DOMAIN Spine}]]
    /\ sweep.phase \in {"idle", "claims", "contents"} /\ sweep.claims \subseteq Ids
    /\ \A t \in Taggers : /\ tagging[t].phase \in {"idle", "read", "flush"}
                          /\ tagging[t].phase # "idle" => tagging[t].next \in 1..tagging[t].last
    /\ copy.phase \in {"idle", "claim", "content", "done"}
    /\ copy.phase \in {"claim", "content"} => copy.queue # <<>>

(* No revision's stamps are written on one shard and missing on another. *)
FlushWhole ==
    ~torn /\ \A t \in Taggers : ~MidFlush(tagging[t])

(* The head of each branch of a published table, as the archive there resolves it. *)
Scopes(v) ==
    {ResolveScope(v, Spine[p[1]], [branch |-> p[2]]) :
        p \in {r \in (1..top) \X Branches : BranchHeads(v, Spine[r[1]], r[2]) # {}}}

(***************************************************************************)
(* Which way membership is decided is a storage tactic: wherever the head  *)
(* of a branch carries its stamp, the stamps at that table's height admit  *)
(* exactly the claims of the branch that are still held, at every          *)
(* published revision, while taggers race, give up and resume and sweeps   *)
(* remove claims and stamps (tagConfinement, TagArchive).  Left out: the   *)
(* stamps of a revision written on one shard and not yet on the next.      *)
(***************************************************************************)
TagsTellBranch ==
    LET v == View
    IN  FlushWhole => \A scope \in Scopes(v) :
            TagsDecide(v, scope) => TagAdmits(v, scope) = ClosureOf[scope.head] \cap has

(***************************************************************************)
(* The oldest revision wins: whatever Tag calls overlap, give up and       *)
(* resume, a claim that has its stamp of a branch keeps it for as long as  *)
(* it has one (tagBranchClosure prunes at tagged claims).                  *)
(***************************************************************************)
StampsStay ==
    [][~torn' => \A c \in Ids, b \in Branches :
           0 \notin {tags[c][b], tags'[c][b]} => tags'[c][b] = tags[c][b]]_vars

(***************************************************************************)
(* The revision a table is marked with is its place in the spine, however  *)
(* often tagging gave up and resumed above it, and whoever else tagged     *)
(* meanwhile (TagArchive: base is one more than the mark it stops at).     *)
(***************************************************************************)
RevisionsCountTables == \A i \in 1..Len(Spine) : rev[Spine[i]] \in {0, i}

(***************************************************************************)
(* GetFromClosure answers for the branch it is asked about: what InClosure *)
(* finds in a branch is reached from that branch's head.                   *)
(***************************************************************************)
MembershipTrue ==
    \A scope \in Scopes(View) : \A c \in Ids :
        TRUE \in InClosure(View, scope.branch, {scope.head}, c) => c \in ClosureOf[scope.head]

(***************************************************************************)
(* A copy that reports completion into a Universe no copy was cut short in *)
(* has brought the whole closure of what was asked for and its contents,   *)
(* although sweeps of the source go on meanwhile (DefaultCopyClaims).      *)
(***************************************************************************)
CopyComplete ==
    (copy.phase = "done" /\ clean) =>
        /\ ClosureOf[copy.root] \subseteq dst
        /\ Contents(ClosureOf[copy.root]) \subseteq dstBlobs

-----------------------------------------------------------------------------
(* The reference for reads: walks of so many hops over the whole graph.    *)

Whole == [View EXCEPT !.held = Ids, !.readable = Ids]

Members(scope) == IF scope.head = 0 THEN Ids ELSE ClosureOf[scope.head]

(* The claims some walk of exactly k hops leads to. *)
AfterHops(index, step, S, k) ==
    FoldLeft(LAMBDA T, i : UNION {Neighbours(Whole, index, c, step) : c \in T}, S, Downward(k))

StepMeans(index, members, step, S) ==
    LET most == IF step.max = 0 THEN Len(graph) ELSE step.max
    IN  {c \in members \cap UNION {AfterHops(index, step, S, k) : k \in step.min..most} :
            MatchTypeList(step.nodes, graph[c].type)}

StartMeans(q, scope, origin) ==
    IF q.claims # {} THEN q.claims
    ELSE IF q.whole THEN {origin}
    ELSE ClosureOf[origin] \cap Members(scope)

QueryMeans(q, scope, origin) ==
    LET index == ClosureOf[IF scope.head = 0 THEN origin ELSE scope.head]
        start == StartMeans(q, scope, origin)
        path == IF q.whole THEN <<AnyEdge>> ELSE q.path
        reached == FoldLeft(LAMBDA S, step : StepMeans(index, Members(scope), step, S), start, path)
    IN  {c \in reached \cap Members(scope) : EvalWhere(Whole, q.where, c)}

(* The routes of k hops that lead from the start to a claim. *)
RoutesTo(index, step, S, k, c) ==
    {r \in FoldLeft(LAMBDA R, i : UNION {{Append(p, d) : d \in Neighbours(Whole, index, Last(p), step)} : p \in R},
                    {<<s>> : s \in S}, Downward(k)) : Last(r) = c}

RouteMeans(q, scope, origin, c) ==
    LET step == q.path[1]
        index == ClosureOf[IF scope.head = 0 THEN origin ELSE scope.head]
        start == StartMeans(q, scope, origin)
        k == Min({n \in step.min..Len(graph) : c \in AfterHops(index, step, start, n)})
    IN  Least(Whole, RoutesTo(index, step, start, k, c))

Sum(sizes) == FoldLeft(LAMBDA n, m : n + m, 0, sizes)

(* R-QCONTENT: a prefix of the claim's contents within the cap, and no shorter one. *)
PrefixRight(limit, sizes, kept) ==
    LET short == {i \in DOMAIN sizes : kept[i] < sizes[i]}
        first == Min(short)
    IN  /\ DOMAIN kept = DOMAIN sizes
        /\ limit.max > 0 => Sum(kept) <= limit.max
        /\ short # {} =>
              /\ \A i \in DOMAIN sizes : i > first => kept[i] = 0
              /\ limit.given => /\ limit.max > 0
                                /\ Sum(SubSeq(sizes, 1, first)) > limit.max
                                /\ IF limit.overflow = "cutoff" THEN Sum(kept) = limit.max
                                   ELSE kept[first] = 0
              /\ ~limit.given => Sum(kept) = 0

AnswerRight(q, scope, r) ==
    LET origin == ClosureOrigin(q, scope)
        means == QueryMeans(q, scope, origin)
        listed == Range(r.claims)
    IN  /\ listed \subseteq means /\ IsInjective(r.claims)
        /\ \A i \in 2..Len(r.claims) : Precedes(Whole, q.order, r.claims[i - 1], r.claims[i])
        /\ q.results > 0 => Len(r.claims) <= q.results
        /\ r.truncated \/ listed = means
        /\ Encodes(q.out) => \A i \in DOMAIN r.claims :
              PrefixRight(q.out.content, bytes[r.claims[i]][q.out.form], r.inlined[i])
        /\ q.time = 0 =>
              /\ r.truncated => Len(r.claims) = q.results
              /\ r.claims # <<>> => \A c \in means \ listed : Precedes(Whole, q.order, Last(r.claims), c)
              /\ (q.out.shape = "path" /\ Len(q.path) = 1) =>
                    \A i \in DOMAIN r.claims : r.routes[i] = RouteMeans(q, scope, origin, r.claims[i])

(* A read looks at has, tags and top: one state for each value of them is enough. *)
ReadsDiffer ==
    /\ copy = NoCopy /\ dst = {} /\ now = MaxTime
    /\ sweep.phase = "idle" \/ (sweep.phase = "claims" /\ sweep.shard > 1)
    /\ \A t \in Taggers : tagging[t].phase # "flush"

(* What a read may have to pass. *)
Realm(q, scope) ==
    UNION {ClosureOf[c] : c \in ({scope.head, ClosureOrigin(q, scope)} \cup q.claims) \ {0}}

(***************************************************************************)
(* A read that answers, answers what the query means over the whole graph: *)
(* the claims some walk within the hop bounds leads to and the branch      *)
(* holds, each once, in order, cut at the limit, with the least of the     *)
(* shortest routes and the longest prefix of its contents the cap affords; *)
(* whichever way membership is decided, whatever was swept, stamped or     *)
(* half written meanwhile.  An answer the time limit cut short holds       *)
(* nothing else and says it is cut.  A read fails only where its closure   *)
(* has a gap, or its time ran out.  Membership tests never find what is    *)
(* neither stamped nor reached, and find what is reached where there is no *)
(* gap.                                                                    *)
(***************************************************************************)
QueryAnswers ==
    LET v == View
    IN  (FlushWhole /\ ReadsDiffer) =>
        /\ \A i \in 1..top : \A q \in Queries : \A r \in ArchiveQuery(v, Spine[i], q) :
              LET scope == ResolveScope(v, Spine[i], q)
              IN  (ValidateQuery(q) /\ ValidateSelect(q) /\ ScopeFound(v, Spine[i], q)) =>
                      IF r.ok THEN AnswerRight(q, scope, r)
                      ELSE q.time > 0 \/ ~(Realm(q, scope) \subseteq has)
        /\ \A scope \in Scopes(v) : \A c \in Ids :
              LET answers == InClosure(v, scope.branch, {scope.head}, c)
                  found == ClaimsInBranches(v, {scope.head}, {c})
              IN  /\ TRUE \in answers => c \in ClosureOf[scope.head] \/ tags[c][scope.branch] # 0
                  /\ found \subseteq ClosureOf[scope.head]
                  /\ (c \in ClosureOf[scope.head] /\ ClosureOf[scope.head] \subseteq has) =>
                        FALSE \notin answers /\ found = {c}
=============================================================================
