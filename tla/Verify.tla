------------------------------- MODULE Verify -------------------------------
(***************************************************************************)
(* The closure verifier (verify*.go) over an archive whose claims are      *)
(* built, admitted, deleted and lost while it runs.                        *)
(*                                                                         *)
(* made is every claim ever sealed (ClaimBuilder), held the ids whose      *)
(* bytes the Universe still has, blobs the ids whose external content it   *)
(* has.  run is the verification: its walk reads one claim and asks which  *)
(* of its references are present (Look), then applies the rules, which     *)
(* read those references again (Judge); deletions fall between the two.    *)
(*                                                                         *)
(* Bounds: MaxMade claims, MaxNow clock ticks, MaxForged smuggled claims,  *)
(* MaxRemovals deletions, losses and sweeps.  Contributions stop when a    *)
(* run starts: its roots are fixed then, and later claims are not below    *)
(* them.  Nothing is removed once it has ended: its verdict is about the   *)
(* store as it was.                                                        *)
(***************************************************************************)
EXTENDS ClaimBuilder

CONSTANTS
    Root,           \* the builder request of the initial contributor claim
    Offers(_),      \* Offers(g): the builder requests contributors may make
    Smuggled(_),    \* the same, sealed with AllowInvalid and put without admission
    Configs,        \* verification options a caller may pick
    MaxMade, MaxNow, MaxForged, MaxRemovals

VARIABLES made, held, blobs, now, run, forged, blind, lost, removals

vars == <<made, held, blobs, now, run, forged, blind, lost, removals>>

Ids == 1..MaxMade

Config ==
    [maxDepth : Nat, maxClaims : Nat, trusted : SUBSET Nat, after : Nat, stopAfter : Nat,
     content : BOOLEAN]

ASSUME BoundsAssumption ==
    /\ MaxMade \in Nat \ {0} /\ MaxNow \in Nat \ 0..(Floor - 1)
    /\ MaxForged \in Nat /\ MaxRemovals \in Nat

ASSUME ConfigsAssumption == Configs \subseteq Config /\ Configs # {}

(* The archive starts from a contributor claim the builder accepts: it cites nothing. *)
ASSUME RootAssumption ==
    /\ BuildAccepted(Root, <<>>, {}) /\ IsRootContributor(Root)
    /\ Root.edges = {} /\ Root.diffOf = 0 /\ Root.at = 0 /\ ~Root.invalid

Refs(c) == {e.to : e \in c.edges}

(* Everything a walk over stored edges reaches; an absent claim has none to follow. *)
Reached(g, present, roots) ==
    LET R[i \in 1..Len(g)] ==
            \/ i \in roots
            \/ \E j \in (i + 1)..Len(g) : j \in present /\ i \in Refs(g[j]) /\ R[j]
    IN  {i \in 1..Len(g) : R[i]}

-----------------------------------------------------------------------------
(* The rules (verifyRules).  i is the claim judged, seen the references HasClaims named. *)

ContributorEdges(c) == {e \in c.edges : e.type = "contributor"}

(* resolveSigner: the claim itself when it references nothing. *)
SignerOf(g, i) ==
    IF g[i].edges = {} THEN i ELSE (CHOOSE e \in ContributorEdges(g[i]) : TRUE).to

ResolveSigner(g, here, i) ==
    \/ g[i].edges = {}
    \/ ContributorEdges(g[i]) # {} /\ SignerOf(g, i) \in Resolvable(g, here)

(* id, type classes, relation direction, edge order, encoding: what the bytes alone show. *)
RecordRules(g, i) == ~g[i].broken

RuleCreatedAtStated(g, i) == g[i].at >= Floor

RuleSignature(g, i) == g[i].key = g[SignerOf(g, i)].pubkey

RuleArchiveFirstTableHeight(g, i) ==
    g[i].type = "branches" /\ g[i].edges = ContributorEdges(g[i]) /\ Cardinality(g[i].edges) = 1
        => g[i].height = 1

(* Mutant: equality is demanded although a reference is missing. *)
RuleHeightExact(g, here, i, seen) ==
    seen \subseteq here /\ g[i].height = HeightOver({g[r].height : r \in seen})

(* A reference that HasClaims named and is gone when its height is read fails the lookup. *)
RuleHeight(g, here, i, seen) ==
    LET want == IF g[i].edges = {} THEN 0 ELSE 1 + Max({0} \cup {g[r].height : r \in seen})
    IN  /\ seen \subseteq here
        /\ IF seen = Refs(g[i]) THEN g[i].height = want ELSE g[i].height >= want

RuleCreatedAtMonotone(g, here, i) ==
    \A r \in Refs(g[i]) \cap here : g[i].at >= g[r].at

RuleDeleteMarkShape(g, i) == g[i].type = "delete" => \E e \in g[i].edges : e.type = "delete"

RuleContent(g, content, i, cfg) == cfg.content /\ g[i].blob => i \in content

RuleBranchTableReference(g, here, i) ==
    \A e \in g[i].edges :
        \/ g[i].type = "branches" /\ e.type \in {"diff", "branches"}
        \/ e.to \notin Resolvable(g, here)
        \/ g[e.to].type # "branches"

(* sweepForExpiry: the ends expiry edges impose on k, in the closure of the run's roots. *)
EndsFor(g, here, roots, k) ==
    {e.ends : e \in {f \in UNION {g[j].edges : j \in Reached(g, here, roots) \cap here} :
                        f.type = "expiry" /\ f.to = k /\ f.ends # 0}}

RuleKeyWindow(g, here, roots, i) ==
    LET s == SignerOf(g, i)
        ends == EndsFor(g, here, roots, s) \cup (IF g[s].until = 0 THEN {} ELSE {g[s].until})
    IN  s # i => /\ g[i].at >= g[s].from
                 /\ \A t \in ends : g[i].at <= t

(* Mutant: only an omitted schedule is refused, not an invented one. *)
RuleDeleteByOmitted(g, here, i) ==
    \A e \in g[i].edges :
        e.to \in Resolvable(g, here) /\ Due(g)[e.to] # 0 => e.due = Due(g)[e.to]

(* Exactly the delete_by the referenced claim reads with, while it can be read. *)
RuleDeleteByCopied(g, here, i) ==
    \A e \in g[i].edges : e.to \in Resolvable(g, here) => e.due = Due(g)[e.to]

RuleStructureNotDeletable(g, i) == CheckDeletable(g[i].type, g[i].due)

VerifyRules(g, here, content, roots, cfg, i, seen) ==
    /\ RecordRules(g, i)
    /\ RuleSignature(g, i)
    /\ RuleArchiveFirstTableHeight(g, i)
    /\ RuleHeight(g, here, i, seen)
    /\ RuleCreatedAtStated(g, i)
    /\ RuleCreatedAtMonotone(g, here, i)
    /\ RuleDeleteMarkShape(g, i)
    /\ RuleContent(g, content, i, cfg)
    /\ RuleBranchTableReference(g, here, i)
    /\ RuleKeyWindow(g, here, roots, i)
    /\ RuleDeleteByCopied(g, here, i)
    /\ RuleStructureNotDeletable(g, i)

(* A claim whose signer cannot be read is judged by no rule. *)
VerifyClaim(g, here, content, roots, cfg, i, seen) ==
    /\ ResolveSigner(g, here, i)
    /\ VerifyRules(g, here, content, roots, cfg, i, seen)

RuleArchiveHead(g, i) == g[i].type = "branches"

-----------------------------------------------------------------------------
(***************************************************************************)
(* What a contribution's heads must cite so that nothing is reached only   *)
(* through a claim scheduled for deletion (StrandedByDeletion, roots).     *)
(***************************************************************************)
Scheduled(g) == {i \in 1..Len(g) : g[i].due # 0}

Kept(g, here, heads) == Reached(g, here \ Scheduled(g), heads) \ Scheduled(g)

Stranded(g, here, heads) == here \ (Kept(g, here, heads) \cup Scheduled(g))

GraphRoots(g, here) == LET heads == OpenHeads(g) IN heads \cup Stranded(g, here, heads)

Tables(g) == {i \in 1..Len(g) : g[i].type = "branches"}

(* Where a run starts: graph.Verify at the open heads, archive.Verify at its head table. *)
RootsOf(g, scope) ==
    IF scope = "graph" THEN OpenHeads(g)
    ELSE IF Tables(g) = {} THEN {} ELSE {Max(Tables(g))}

-----------------------------------------------------------------------------
Idle == [pc |-> "idle", cfg |-> CHOOSE c \in Configs : TRUE, scope |-> "graph", roots |-> {},
         queue |-> {}, visited |-> {}, gaps |-> {}, marked |-> {}, failures |-> {},
         done |-> 0, cur |-> [id |-> 0, depth |-> 0, dated |-> FALSE], seen |-> {},
         raced |-> FALSE]

Init ==
    /\ made = <<BuildClaim(Root, <<>>, Floor)>>
    /\ held = {1}
    /\ blobs = {}
    /\ now = Floor
    /\ run = Idle
    /\ forged = {} /\ blind = {} /\ lost = {}
    /\ removals = 0

Tick ==
    /\ now < MaxNow /\ run.pc = "idle"
    /\ now' = now + 1
    /\ UNCHANGED <<made, held, blobs, run, forged, blind, lost, removals>>

Store(c) ==
    /\ made' = Append(made, c)
    /\ held' = held \cup {Len(made) + 1}
    /\ blobs' = IF c.blob THEN blobs \cup {Len(made) + 1} ELSE blobs

(***************************************************************************)
(* A contributor builds a claim and the Sequencer admits it: it is not     *)
(* dated ahead of the base time, every reference resolves, and             *)
(* verification of the new claim, everything else trusted, finds nothing.  *)
(* The run's root is the contribution's head, so a revocation is seen only *)
(* if it lies below the new claim.                                         *)
(***************************************************************************)
AdmitCreatedAt(c) == c.at <= now

Admitted(c) ==
    LET g == Append(made, c)
        here == held \cup {Len(g)}
    IN  /\ AdmitCreatedAt(c)
        /\ Refs(c) \subseteq held
        /\ VerifyClaim(g, here, blobs \cup {Len(g)}, {Len(g)}, [content |-> FALSE],
                       Len(g), Refs(c))

(* blind keeps the claims admitted while a reference, its predecessor gone, could not be read. *)
Admit(c) ==
    /\ Admitted(c)
    /\ Store(c)
    /\ blind' = IF Refs(c) \subseteq Resolvable(made, held) THEN blind
                ELSE blind \cup {Len(made) + 1}

Contribute(b) ==
    /\ run.pc = "idle" /\ Len(made) < MaxMade
    /\ BuildAccepted(b, made, held)
    /\ Admit(BuildClaim(b, made, now))
    /\ UNCHANGED <<now, run, forged, lost, removals>>

(* A record the builder seals unjudged, put into the Universe past every Sequencer. *)
Smuggle(b) ==
    /\ run.pc = "idle" /\ Len(made) < MaxMade /\ Cardinality(forged) < MaxForged
    /\ BuildAccepted(b, made, held)
    /\ Store(BuildClaim(b, made, now))
    /\ forged' = forged \cup {Len(made) + 1}
    /\ UNCHANGED <<now, run, blind, lost, removals>>

Consolidate(k) ==
    LET heads == GraphRoots(made, held)
        b == [Root EXCEPT !.type = "head", !.contributor = k, !.key = made[k].pubkey, !.pubkey = "",
                          !.edges = ConsolidateEdges(heads),
                          !.height = "fixed", !.stated = HeightOf(made, heads \cup {k}),
                          !.inline = FALSE, !.encoded = FALSE]
    IN  /\ run.pc = "idle" /\ Len(made) < MaxMade
        /\ k \in held /\ heads \subseteq Resolvable(made, held)
        /\ Cardinality(heads) > 1
        /\ BuildAccepted(b, made, held)
        /\ Admit(BuildClaim(b, made, now))
        /\ UNCHANGED <<now, run, forged, lost, removals>>

-----------------------------------------------------------------------------
(* Removals: a sweep of what is due, a mark's target, and bytes lost for no reason. *)

Removal ==
    /\ removals < MaxRemovals /\ run.pc \in {"idle", "walk", "judge"}
    /\ removals' = removals + 1
    /\ run' = [run EXCEPT !.raced = run.pc # "idle"]
    /\ UNCHANGED <<now, forged, blind>>

(* DeletePlanned from the archive's roots, claims and then their contents. *)
Sweep ==
    LET due == {i \in Reached(made, held, GraphRoots(made, held)) \cap held :
                    made[i].due # 0 /\ made[i].due <= now /\ CheckDeletable(made[i].type, made[i].due)}
    IN  /\ due # {}
        /\ held' = held \ due
        /\ blobs' = blobs \ due
        /\ UNCHANGED <<made, lost>>
        /\ Removal

(* Someone honours a contribution/delete mark. *)
Fulfil(m) ==
    \E e \in made[m].edges :
        /\ m \in held /\ made[m].type = "delete" /\ e.type = "delete"
        /\ e.to \in held /\ made[e.to].type \notin Structural
        /\ held' = held \ {e.to}
        /\ blobs' = blobs \ {e.to}
        /\ UNCHANGED <<made, lost>>
        /\ Removal

Lose(i) ==
    /\ i \in held /\ run.pc = "idle"
    /\ held' = held \ {i}
    /\ lost' = lost \cup {i}
    /\ UNCHANGED <<made, blobs>>
    /\ Removal

LoseContent(i) ==
    /\ i \in blobs /\ run.pc = "idle"
    /\ blobs' = blobs \ {i}
    /\ UNCHANGED <<made, held, lost>>
    /\ Removal

(* The stored bytes of i no longer hash to its id. *)
Rot(i) ==
    /\ i \in held
    /\ made' = [made EXCEPT ![i].broken = TRUE]
    /\ forged' = forged \cup {i}
    /\ removals < MaxRemovals /\ run.pc = "idle"
    /\ removals' = removals + 1
    /\ UNCHANGED <<held, blobs, now, run, blind, lost>>

-----------------------------------------------------------------------------
(* The run.  failures holds what was reported, by claim and by kind. *)

Unchanged == UNCHANGED <<made, held, blobs, now, forged, blind, lost, removals>>

Begin(cfg, scope) ==
    /\ run.pc = "idle"
    /\ RootsOf(made, scope) # {}
    /\ run' = [Idle EXCEPT !.pc = "walk", !.cfg = cfg, !.scope = scope,
                           !.roots = RootsOf(made, scope),
                           !.queue = {[id |-> r, depth |-> 0, dated |-> FALSE] :
                                        r \in RootsOf(made, scope)}]
    /\ Unchanged

(* The queue is a FIFO: depths come out in order, the order within one is the hashes'. *)
Front == {q \in run.queue : \A p \in run.queue : q.depth <= p.depth}

(* stopAfter: the walk ends with the failure that reaches it. *)
Failing(r, f) ==
    LET fs == r.failures \cup {f}
    IN  [r EXCEPT !.failures = fs,
                  !.pc = IF r.cfg.stopAfter > 0 /\ Cardinality(fs) >= r.cfg.stopAfter
                         THEN "done" ELSE r.pc]

(* Take one item: skip it, hold it as a gap, or load it and ask for its references. *)
Look(q) ==
    LET r == [run EXCEPT !.queue = @ \ {q}, !.visited = @ \cup {q.id}]
    IN  /\ run.pc = "walk"
        /\ q \in Front
        /\ run' = IF q.id \in run.visited THEN [run EXCEPT !.queue = @ \ {q}]
                  ELSE IF q.id \in run.cfg.trusted THEN r
                  ELSE IF q.id \notin held
                       THEN [r EXCEPT !.gaps = IF q.dated THEN @ ELSE @ \cup {q.id}]
                  ELSE IF made[q.id].at < run.cfg.after THEN r
                  ELSE [r EXCEPT !.pc = "judge", !.cur = q, !.seen = Refs(made[q.id]) \cap held]
        /\ Unchanged

(* What the judged claim adds to the walk: the marks it makes and the edges to follow. *)
Expand(r) ==
    LET c == made[r.cur.id]
        next == {[id |-> e.to, depth |-> r.cur.depth + 1, dated |-> e.due # 0] : e \in c.edges}
    IN  [r EXCEPT !.marked = IF c.type # "delete" THEN @
                             ELSE @ \cup {e.to : e \in {f \in c.edges : f.type = "delete"}},
                  !.queue = IF r.cfg.maxDepth = 0 \/ r.cur.depth < r.cfg.maxDepth
                            THEN @ \cup next ELSE @]

Judge ==
    LET i == run.cur.id
        r == [run EXCEPT !.pc = "walk", !.seen = {}]
        rooted == IF run.scope = "archive" /\ run.cur.depth = 0 /\ ~RuleArchiveHead(made, i)
                  THEN Failing(r, <<i, "root">>) ELSE r
        judged == IF rooted.pc = "done" THEN rooted
                  ELSE IF VerifyClaim(made, held, blobs, run.roots, run.cfg, i, run.seen)
                       THEN rooted ELSE Failing(rooted, <<i, "rule">>)
        counted == [judged EXCEPT !.done = @ + 1]
    IN  /\ run.pc = "judge"
        /\ run' = IF judged.pc = "done" THEN [judged EXCEPT !.cur = Idle.cur]
                  ELSE IF run.cfg.maxClaims > 0 /\ counted.done >= run.cfg.maxClaims
                       THEN [counted EXCEPT !.pc = "done", !.cur = Idle.cur]
                  ELSE [Expand(counted) EXCEPT !.cur = Idle.cur]
        /\ Unchanged

(* The queue is empty: an unmarked gap is data loss. *)
Settle ==
    LET unexplained == {<<i, "gap">> : i \in run.gaps \ run.marked}
        few == {fs \in SUBSET unexplained :
                    run.cfg.stopAfter > 0 =>
                        \/ fs = unexplained
                           /\ Cardinality(run.failures \cup fs) <= run.cfg.stopAfter
                        \/ Cardinality(run.failures \cup fs) = run.cfg.stopAfter}
    IN  /\ run.pc = "walk" /\ run.queue = {}
        /\ \E fs \in IF run.cfg.stopAfter > 0 THEN few ELSE {unexplained} :
              run' = [run EXCEPT !.pc = "done", !.failures = @ \cup fs]
        /\ Unchanged

(* The context is cancelled: the walk aborts with an error and reports no verdict. *)
Abort ==
    /\ run.pc = "walk" /\ run.queue # {}
    /\ run' = [Idle EXCEPT !.pc = "aborted"]
    /\ Unchanged

Step == Judge \/ Settle \/ \E q \in run.queue : Look(q)

Next ==
    \/ Tick
    \/ \E b \in Offers(made) : Contribute(b)
    \/ \E b \in Smuggled(made) : Smuggle(b)
    \/ \E k \in 1..Len(made) : made[k].type = "contributor" /\ Consolidate(k)
    \/ Sweep
    \/ \E i \in 1..Len(made) : Fulfil(i) \/ Lose(i) \/ LoseContent(i) \/ Rot(i)
    \/ \E cfg \in Configs, scope \in {"graph", "archive"} : Begin(cfg, scope)
    \/ Step
    \/ Abort

Spec == Init /\ [][Next]_vars

-----------------------------------------------------------------------------
(* Properties. *)

(* References point back, findings concern claims the run visited. *)
TypeOK ==
    /\ Len(made) \in Ids /\ now \in Floor..MaxNow /\ removals \in 0..MaxRemovals
    /\ held \subseteq 1..Len(made)
    /\ blobs \subseteq {i \in 1..Len(made) : made[i].blob}
    /\ \A i \in 1..Len(made) : Refs(made[i]) \subseteq 1..(i - 1)
    /\ run.pc \in {"idle", "walk", "judge", "done", "aborted"}
    /\ run.gaps \subseteq run.visited
    /\ {f[1] : f \in run.failures} \subseteq run.visited

Full(cfg) == cfg.maxDepth = 0 /\ cfg.maxClaims = 0 /\ cfg.trusted = {} /\ cfg.after = 0

Closure == Reached(made, held, run.roots)

(* A deletion mark among the claims of S names i. *)
MarkedBy(S, i) == \E m \in S \cap held : \E e \in made[m].edges :
                      made[m].type = "delete" /\ e.type = "delete" /\ e.to = i

(* The longest chain of references below each claim. *)
LongestChain ==
    LET H[i \in 1..Len(made)] == HeightOver({H[r] : r \in Refs(made[i])})
    IN  H

(* No claim of the closure is dated after an end imposed on its signer there. *)
KeysHeld ==
    \A i \in Closure \cap held : SignerOf(made, i) # i =>
        \A t \in EndsFor(made, held, run.roots, SignerOf(made, i)) : made[i].at <= t

(***************************************************************************)
(* A full run that ends without a failure, lawful deletions racing it      *)
(* included, says of the whole closure what no rule checks by itself: the  *)
(* walk missed nothing of it, every claim it found lost really was         *)
(* scheduled or marked (when it read nothing smuggled in and nothing whose *)
(* references could not be read at admission: such an edge may assert a    *)
(* schedule nobody can check any more), heights are longest chains where   *)
(* nothing is missing, dates run forward along every path of present       *)
(* claims, and no revoked key signed late.                                 *)
(***************************************************************************)
CleanMeansSound ==
    run.pc = "done" /\ Full(run.cfg) /\ run.failures = {} =>
        /\ Closure \subseteq run.visited
        /\ run.visited \cap (forged \cup blind) = {} =>
              \A i \in run.visited \cap lost : Due(made)[i] # 0 \/ MarkedBy(run.visited, i)
        /\ Closure \subseteq held => \A i \in Closure : made[i].height = LongestChain[i]
        /\ \A i \in Closure \cap held :
              \A j \in Reached(made, held, {i}) \cap held : made[j].at <= made[i].at
        /\ \A i \in Closure \cap held : made[i].key = made[SignerOf(made, i)].pubkey
        /\ KeysHeld

(* The key of every claim of the closure is published by a contributor claim read as it stands. *)
SignersStandAlone ==
    \A i \in Closure \cap held :
        LET s == made[SignerOf(made, i)] IN s.type = "contributor" /\ Predecessors(s) = {}

(***************************************************************************)
(* No false alarm.  Claims that were all admitted, their references read,  *)
(* of which only scheduled and marked ones were removed before the run,    *)
(* verify clean, provided the marks are still reachable, no key was        *)
(* revoked after the fact and no contributor claim is a diff (reading it   *)
(* needs its predecessor, which may lawfully go).                          *)
(***************************************************************************)
LawfulPasses ==
    /\ run.pc = "done" /\ Full(run.cfg) /\ ~run.raced
    /\ forged = {} /\ lost = {} /\ Closure \cap blind = {} /\ KeysHeld /\ SignersStandAlone
    /\ run.roots \subseteq held
    /\ run.scope = "archive" => \A i \in run.roots : made[i].type = "branches"
    /\ \A i \in Closure \ held : Due(made)[i] # 0 \/ MarkedBy(Closure, i)
    /\ run.cfg.content => \A i \in held : made[i].blob => i \in blobs
    => run.failures = {}

(***************************************************************************)
(* A contributor who hands NewEdge the claims it references, lets the      *)
(* store derive the height and dates it by the base time is admitted,      *)
(* whatever was deleted meanwhile, unless the claim overlays a scheduled   *)
(* one (the diff edge Sign adds carries no delete_by), its key is not      *)
(* valid now, by an end this very claim imposes included, or its shape     *)
(* is one the builder lets through and the rules refuse: a root that cites *)
(* something, a mark that names nothing, a reference to a branch table, a  *)
(* first table over a contributor that is not initial.                     *)
(***************************************************************************)
KeyValidNow(b) ==
    LET s == made[b.contributor]
    IN  /\ s.from <= now /\ (s.until # 0 => now <= s.until)
        /\ \A t \in EndsFor(made, held, held, b.contributor) : now <= t
        /\ \A cfg \in b.edges :
              cfg.type = "expiry" /\ cfg.to = b.contributor /\ cfg.ends # 0 => now <= cfg.ends

Careful(b) ==
    /\ ~b.invalid /\ b.at = 0 /\ b.height = "derived"
    /\ \A cfg \in b.edges : cfg.referenced /\ cfg.due = 0 /\ made[cfg.to].type # "branches"
    /\ b.diffOf # 0 => /\ Due(made)[b.diffOf] = 0
                       /\ made[b.diffOf].type = "branches" => b.type = "branches"
    /\ b.type = "delete" => \E cfg \in b.edges : cfg.type = "delete"
    /\ IF IsRootContributor(b) THEN b.edges = {} /\ b.diffOf = 0
       ELSE /\ Predecessors(made[b.contributor]) = {}
            /\ KeyValidNow(b)
            /\ b.type = "branches" /\ b.diffOf = 0 => made[b.contributor].height = 0

BuiltIsAdmitted ==
    run.pc = "idle" /\ forged = {} =>
        \A b \in Offers(made) :
            BuildAccepted(b, made, held) /\ Careful(b)
            => Admitted(BuildClaim(b, made, now))
=============================================================================
