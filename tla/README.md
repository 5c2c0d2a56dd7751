# Verification of ranke-go

TLA+ models of a Ranke-Archive: how it is written, verified, stored, read and
kept up, TLC runs on small instances and TLAPS proofs for every instance.
`src/...` below means a path of the repository.  `PROJECT.json` maps every
definition to the lines it models.

## 1. The system

A *claim* is an immutable, signed, content-addressed node; its id hashes the
ids it references, so references are acyclic and never change.  Claims live in
a *Universe* (`𝒰`), an add-only store.  An *archive* is a claim too: a *branch
table* (`contribution/branches`) that maps branch names to head claims and is a
diff over the table before it; the tables form the *spine*.  What a branch
holds is the closure of its head.  A *bookmark list* (`𝒰_hist`) records each
table in turn; its newest entry is where a reopened archive starts.

| component | state | operations | talks to |
|---|---|---|---|
| concurrent Sequencer (`adapter/sequencer/concurrent`) | `head`, `heads`, `queue`, `committed`, the mutex `seq`, the bookmark cursor | `NewSequencer`/`adopt`, `Found`, `NewContribution`, `AddClaims`, `AddWire`, `CompleteAndVerify`, `Persist`, `Merge`, `drain`, `commit` | Universe, bookmark list, verification |
| dev Sequencer (`adapter/sequencer/dev`) | `head`, `heads`, one mutex | the same, one merge at a time | the same |
| bookmark list (`bookmark*.go`) | records by index; a cursor per client: bounds cache | `NewBookmarks`, `OpenBookmarks`, `Append`, `Latest`, `GetAtIndex`, `Len`, `Verify` | `BookmarkStore` |
| claim graph (`graph.go`, `claim.go`, `filter.go`) | staged claims, open frontier | `AddClaims`, `Cite`, `Consolidate`, closures | Universe |
| claim building (`claim_builder.go`, `edge.go`, `node.go`) | none | `NewEdge`, `Sign`, heights, diffs | a height source |
| closure verification (`verify*.go`) | the walk's queue, visited, gaps, marks | `Verify` of a graph, an archive, a branch | Universe |
| wire codec (`codec_wire.go`, `DrainWire`) | a stream; the reader's constraints | `WriteClaim`, `WriteContent`, `Constraints`, `Next`, `DrainWire` | a contribution |
| archive, branches, spine (`archive.go`, `claim_type_branch.go`) | none, reads a table | `GetBranch`, `GetBranches`, `Query`, `Prev` | Universe |
| query engine (`query*.go`) | none | `DefaultQuery`, `GetFromClosure`, `InClosure` | Universe |
| tagger (`universe_default_tagger.go`) | membership stamps | `Tag` along the spine | Universe |
| planned deletion (`deletion.go`) | none | `DeletePlanned` | Universe |
| default Universe algorithms (`universe_default.go`) | none | `CopyClaims`, `Sync`, `Materialize`, `ClaimsInBranches` | two Universes |
| stack storage (`adapter/storage/stack`) | layers of Universes, detached writes | every Universe call, by tier, with fills | its layers, the filler |
| background filler (`stack/filler.go`) | inbox, byte count, doorbell, batch in flight | `queue`, `run`, `take`, `idle`, `close` | a layer |
| partition storage (`adapter/storage/partition`) | shards | routed reads and writes | its shards |
| blob adapters (`adapter/storage/blob.go`, `fs`, `s3`, `azure`, `redis`, `sqlite`, `rest`, `minimal`) | a byte store, a semaphore, a height cache | bulk calls that fan out | an external service |
| neo4j adapter (`adapter/storage/neo4j`) | nodes, relationships, stamps | `PutClaims`, `Tag`, `Query` as Cypher | neo4j |

What is hard here: writers run in parallel and a commit of one carries the
contributions of others; a commit is several durable writes with a crash or a
failure possible between any two; a bookmark write may land and yet report an
error; a contribution is verified against an archive that has moved on when it
is merged; a reader's search takes many reads while the list grows; claims are
deleted by plan while they are verified, copied, tagged and read; a cache is
filled in the background while the layer below it is cleared; membership is
decided by walks here and by stamps there, and both must agree; two query
engines answer one language.  `PROJECT.json` lists each such place under
"hazards", with the properties that watch it.

What makes the parts correct:

* Sequencers: an acknowledged claim is never lost; a receipt names an archive
  that holds the contribution; nothing unverified is ever bookmarked; every
  advance is atomic over all branches; every `Merge` returns.
* Bookmark list: gapless, an acknowledged entry is final, a search answers with
  a range the list had while it ran.
* Building and verification: what passes is sound beyond what any one rule
  checks, lawful deletions never fail a run, and what the builder makes the
  verifier admits.
* Wire: what is sealed lies within every declaration of the stream, and is what
  was sent.
* Stack, filler, blobs: what was acknowledged is durable and is found; deleted
  stays deleted; success means all of it was done; queued fills land; calls
  return.
* Upkeep and reads: stamps agree with closures; a read answers what the query
  means whatever is swept or tagged meanwhile; a copy that reports completion is
  complete; the graph database answers as the reference engine.

## 2. Modules

```
ClaimGraph            references, closures, walks, frontiers
ArchiveLog            abstract: what a Sequencer promises
ConcurrentSequencer   EXTENDS ClaimGraph, implements ArchiveLog
DevSequencer          EXTENDS ClaimGraph, implements ArchiveLog
Bookmarks             the list, its cursors, its searches
ClaimBuilder          what Sign accepts and makes (operators)
Verify                EXTENDS ClaimBuilder: the verifier over a changing store
Query                 EXTENDS ClaimBuilder: the read language (operators)
Upkeep                EXTENDS Query: sweep, tagger, copy, partition, reads
Neo4j                 EXTENDS Query: the graph cache and its lowering
Wire                  a contribution stream from writer to sealed contribution
Stack                 tiers, fills, the filler, deletion, bookmarks
Blob                  bulk calls over byte stores
MC*                   instances for TLC
ConcurrentSequencerProofs    EXTENDS ConcurrentSequencer: closures and walks, durability, soundness, the spine, ArchiveLog
DevSequencerProofs           EXTENDS DevSequencer: closures, durability, ArchiveLog
BookmarksProofs              EXTENDS Bookmarks: the list and its searches
StackProofs                  EXTENDS Stack: durability, reads, deletions, bookmarks, the filler
WireProofs                   EXTENDS Wire: declarations and delivery
BlobProofs                   EXTENDS Blob: bulk calls, files, answers
VerifyProofs                 EXTENDS Verify: clean verdicts, false alarms, admission
UpkeepProofs                 EXTENDS Upkeep: stamps and membership, copies
```

**ClaimGraph.**  `Refs` is a constant, because ids are hashes.  The code's
breadth-first walks with a seen set are modelled by what they compute: `Walk`
is the least set that holds the roots and the references of everything in it
that is not trusted.

**ArchiveLog.**  Branches hold sets of claims that grow, `Advance` takes in the
contributions of a group at one instant on all branches, `Acknowledge` only
speaks of what is in.  No queue, no fold, no table, no bookmark.

**ConcurrentSequencer.**  `stored`, `folds`, `tables`, `marks` are durable;
`head`, `heads`, `committed`, `cursor`, `queue` are the fields of `Sequencer`;
`phase`, `holder`, `batch`, `todo`, `newHeads` are the locals of the goroutine
that holds `s.seq`; `pc`, `contribution`, `outcome`, `receipt` belong to the
writers.  A contribution's path is `NewContribution`, `AddClaims`,
`StageBranch`, `SealBranch` or `RefuseBranch` per branch (`CompleteAndVerify`),
`Persist`, `Merge`, `Drain`, `Return`.  A commit is `FoldBranch` per branch,
then `NoAdvance`, or `MintTable`, `AppendMark`, `Publish`; `CommitFails` ends it
at each of these.  `Found` is four steps, because `s.head` is assigned in the
middle.  `Crash` may come between any two steps.  `contribution/head` claims
and tables are numbered in the order they are minted, and `folds[i]` is the
closure of the i-th head claim.

**DevSequencer.**  One mutex is held over the whole of `Found` and `Merge`, so
nobody sees their steps; what a failure or a crash leaves is all that shows.
Each is one action per way it can end: through (`Merge`), with nothing to do
(`MergeNothing`), an error (`MergeFails`), death (`MergeDies`).  The parameter
`stop` names the first write that did not happen.

**Bookmarks.**  Each Get of a search is a step, so the searches of two clients
and the writer's Puts interleave.  `cursor[p]` has the fields of the Go struct,
`call[p]` the locals of `bounds`, `ascend`, `descend` and `probeGap`, and the
range of the list when the call began.  The Sequencer modules use the list by
what this module shows of it: `NextIndex` is the cached top plus one, or the
searched top plus one.

**ClaimBuilder, Verify.**  A claim is a record of what the rules look at: type,
edges with their copied schedules, date, height, keys, content.  `BuildAccepted`
is `buildClaim` with all its checks and `BuildClaim` what it seals.  `Verify`
has `made` (every claim ever sealed), `held` and `blobs` (what the Universe
still has) and `run` (the locals of `runVerification`).  `Look` takes one item
of the queue, loads it and asks which of its references are present; `Judge`
applies the rules, which read those references again, so a removal may fall
between.  `Settle` judges the gaps.  Beside a run there are contributions
(`Contribute`), records sealed with `AllowInvalid` (`Smuggle`), `Consolidate`,
`Sweep`, honoured marks (`Fulfil`), lost bytes and rot.  A contribution passes
what a Sequencer asks (`Admitted`): no date after its base time, which is `now`
(`AdmitCreatedAt`), references that are there, and every rule.  Two variables
only record what happened: `forged`, the claims that got in past a Sequencer or
rotted, and `blind`, those admitted while a claim they reference could not be
read because its diff lacked a predecessor.

**Query.**  `DefaultQuery` and the membership tests as operators over a *view*:
validation, scopes, confinement by stamps or by walk, walks with hop bounds and
least routes, filters, collations, limits, content budgets.  A timed read has a
set of answers, one for each point at which its time may run out.

**Upkeep.**  The Universe is a partition (one shard is the plain store).
`Publish` commits the next table, the sweep is `SweepCollect`, `SweepClaims`
and `SweepContents` shard by shard, a Tag call `TagBegin`, `TagRead` and
`TagFlush` per revision and shard, a copy one step per claim and content.  Each
may fail between any two.  Reads are asked in every state, as an invariant,
against a reference that counts walks over the whole graph.

**Neo4j.**  Every Cypher statement is one step, a call several of them.
`LowerCypher` gives what the statement built for a read returns, `Reference` is
the view `Query` answers from.

**Wire.**  The writer, a relay that adds declarations of its own, what damages
the stream, the reader and the receiver that opens, drains and seals a
contribution while the writer still writes.

**Stack.**  What one call does in one layer is one step.  `call[t]` has the
locals of a client's call, `detached` the background writes on their way,
`inbox`, `doorbell`, `batch`, `writing` and `worker` the filler.

**Blob.**  `stage[i]` is where the goroutine of item i is; the three ways of a
`Put` (replace, only where absent, temporary file and rename) are actions of
their own, `FileCreate` to `FileRemove` the steps of `atomicWrite`.  A content
has two blocks, or none: the stream of an empty one ends before its first read,
with neither probe nor hash (`verifyingReader.Read`).

What the models leave out of the parts they cover:

* In the Sequencers a rule violation is one predicate (`Rejected`), a claim
  dated after the base or of a reserved type another (`Inadmissible`); Verify
  has the rules, Wire the constraints.
* Callers stage references before the claims that cite them, as the graph
  requires.
* In the Sequencers the verification walk of one branch is one step.  Other
  writers only add to `𝒰` and to `committed`, so a walk that reads at several
  instants accepts no more than one that reads at the last of them.
* Two attempts of `Found` store two contributor claims when the clock has
  moved; in the model both are `Operator`.
* A failed `Tag` in the dev Sequencer is modelled as the error it returns.
* A list opened by its seed is never pruned (`src/bookmark_locator.go`, `Seed`),
  and pruning does not pass the entry a running search started from.
* In Upkeep and Neo4j a read is one step: claims leave only by the sweep and
  stamps come only from taggers, so a read spread over time fails or sees what
  one instant showed.
* In Upkeep a tagger is a call of `TagArchive` on an archive over the whole
  partition.  `partition.Tag` hands the head to every shard instead; a shard
  that tags by `DefaultTag` is then a store of its own, which is the model with
  one shard.
* In Wire a record is cut off, becomes unreadable, or has its content or claim
  bytes replaced (`Damage`).  The transport does not rename a branch, nor drop
  or swap whole records that decode: the codec has no count and no checksum over
  the stream, so nothing in the stream itself would tell (a claim whose
  reference is missing is still refused), and `DeliveredAsSent` rests on a
  transport that keeps the order.
* The filler's byte count is the sum over its inbox; both change under one lock.
* A Stack call handles one item; a bulk call is several of them that share
  their fate in each layer.
* Id bytes, CBOR, COSE and date grammars.  Values carry what comparisons look at:
  number, place in byte order, instant, midpoint.

## 3. Runs

| run | shows |
|---|---|
| `seq_faults` | two writers, two branches, a failed or an ambiguous bookmark write, a crash anywhere: `NoLostContribution`, `ReceiptHolds`, `CommittedArchived`, `HeadsArePublished` |
| `seq_list` | without the ambiguous write: `ListIsSpine`, `NoEmptyAdvance`, and the group commit implements `ArchiveLog` |
| `seq_verify` | a rule-breaking claim, one that cites it, one dated too late, references into all of `𝒰`, failures of every other write: `ArchiveSound`, and `MergeReturns` |
| `dev_merge` | the dev Sequencer, dying at every point: `NoLostContribution`, `ReceiptHolds`, and it implements `ArchiveLog` |
| `bookmarks` | a reader searches while the writer appends, fails and reopens and entries are pruned: `SettledRange`, `Gapless`, `WrittenStays`; and every list at rest on nine indices, gaps included: `SearchSettles`, `VerifyIsComplete` |
| `stack` | two clients on three kinds of stack, a failing layer or rotten content: `AckedDurable`, `NoFalseMiss`, `AnswersFaithful`, `QuietDeletionHolds`, `BookmarksBacked`, `IdleMeansLanded`, and the liveness properties `FillsLand` and `CallsReturn` |
| `verify` | claims built, smuggled in, swept, marked, lost and damaged, verified meanwhile: `CleanMeansSound`, `LawfulPasses`, `BuiltIsAdmitted` |
| `upkeep` | sweep, tagger, copy and publishes over two shards, one failure: `TagsTellBranch`, `QueryAnswers`, `CopyComplete` |
| `wire` | a stream with a relay and a failure: `WithinEveryDeclaration`, `DeliveredAsSent`, and `DrainEnds` |
| `blob` | three clients on seven kinds of store: `NilMeansDone`, `AnswersGenuine`, and `CallsReturn` |
| `neo4j` | puts, deletions and overlapping Tag calls that are cut short: `ReadsSound`, `EnginesAgree` |
| `tag_snapshot` | expects a violation: `MembershipTrue` |

Bounds.  Two writers are what group commit needs: one drains, one is carried
along, one enqueues during a commit.  Two branches let a contribution name
both and two contributions name different ones.  Two unrelated claims force
head claims, a chain makes one contribution's closure contain another's head.
Three merges allow a retry after a failed merge beside another writer's; one
failure and one crash can each fall at every step and onto each other.  Five
indices make a search take the doubling, the clamp at zero and both bisections;
nine let the doubling step over a gap.  `gapProbe` is 2 instead of 4 in the
passing run, so that entries beyond its reach fit.  In `stack` three calls of
two clients let a put, a deletion and a read overlap in each layer, a projection
and a verbatim cache stand above the authoritative layer, and a filler of one
job is full at once.  In `verify` four claims over a contributor hold a chain, a
diff, a mark over it or a table, and a removal may fall into each step of a run.
In `upkeep` three tables make a branch move, a second one open and move, one
claim fall due that shares its content and lies under a diff; two shards make
every bulk write two steps.  In `neo4j` two tables and two batches let a Tag
come before, between and after the puts.  In `wire` two payload records and two
relayed declarations let a declaration come late, twice, or in a header cut
short.  In `blob` two items on one or two slots make a call wait for another's,
and one more key is that of an empty content.
Writers, unrelated claims, creatable branches and neo4j's taggers are
interchangeable, which is what the symmetry sets say; runs with a liveness
property use none.  Deadlock is not checked: callers may stop, and the bounds
end every behaviour.

Fairness.  Sequencers (`FairSpec`): weak fairness of the commit's and of
`Found`'s steps and of `Return`: a goroutine inside of a call keeps running.
Strong fairness of `Drain(w)`: the lock is taken and released again and again,
and `sync.Mutex` hands itself to a goroutine that has waited too long.  Nobody
is obliged to open, complete or merge anything.  Stack: weak fairness of each
client's step inside of a call and of the filler's worker, each a goroutine of
its own; none of the detached writes.  Wire: weak fairness of the receiver;
nothing makes the writer write or close, so `DrainEnds` starts from a closed
stream.  Blob: some goroutine that can run runs, which is enough because a call
has finitely many steps.  The faults are never fair.

Premises that keep a property from being wider than the code: `seq_list` leaves
the ambiguous bookmark write out, because the list then runs ahead of `s.head`,
the entry is written a second time, and the spine has a table that no bookmark
records; `dev_merge` leaves out a failure between `s.heads` and the bookmark
(`dev_retry` below); `QuietDeletionHolds` speaks of deletions nothing runs
beside (`stack_delete` below); `CopyComplete` of a destination no copy was cut
short in, since `CopyClaims` takes a present claim for a whole closure;
`TagsTellBranch` and `QueryAnswers` of states in which no revision's stamps are
on one shard and missing on the next, and no Tag call read the archive in such a
state of another's flush (`torn`); `NilMeansDone` of keys no failed file
write tore and no medium altered: over altered bytes the stores part, since
`BlobStore.Put` promises to overwrite, which lets a read-through repair an entry,
while the conditional Puts of s3 and azure take a key that is there for put
(`blob_repair` below); `AnswersGenuine` of contents that are not empty
(`blob_empty` below); `CleanMeansSound` says that a lost claim was scheduled or marked
where no claim the run read is `forged` or `blind`, because `ruleDeleteByCopied`
skips a reference that cannot be read, and such an edge may state any schedule
(two removals break a diff and lose the claim: TLC shows it with
`MaxRemovals = 2` and `MaxForged = 0` when `blind` is dropped); `LawfulPasses`
speaks of closures without `forged`, `lost` and `blind` claims, of keys nobody
revoked after the fact, and of contributor claims that are no diffs, since
reading a diff needs a predecessor that may lawfully go; `EnginesAgree` of tags that found their closures whole, where
nothing was deleted.

## 4. Findings

`tag_snapshot`: `GetFromClosure` takes any stamp of the branch for membership
and does not compare its height with that of the table it is asked at, as
`tagConfinement` does; an archive opened at an older table finds claims that
joined its branch later.

Further configurations, kept beside the runs, each of which TLC refutes:

| configuration | module | refutes | what happens |
|---|---|---|---|
| `seq_found_retry` | `MCConcurrentSequencer` | `FoundRefusesTruly` | `Found` assigns `s.head` before the archive exists; after an error it refuses its own retry with "this list already records an archive, and genesis happens once", on an empty list |
| `seq_clobber` | `MCConcurrentSequencer` | `NeverClobbers` | a bookmark write that lands and reports an error is overwritten by the next one, against "this can neither skip a slot nor clobber one already written" (`commit`) |
| `seq_converge` | `MCConcurrentSequencer` | `SameClaimsConverge` | two writers of the same unrelated claims each bring their own consolidating claim, against "makes two writers of the same claims converge" (`foldBranch`) |
| `dev_retry` | `MCDevSequencer` | `ReceiptHolds` | the dev `Merge` assigns `s.heads` before the table is bookmarked; after an error a second merge of the contribution gets a receipt for an archive that does not hold it |
| `bookmark_probe` | `MCBookmarks` | `GapReportTrue` | two appends between a reader's search and its gap probe look like a gap, which "falsifies `V-BMGAPLESS` outright" (`probeGap`) |
| `stack_delete` | `MCStack` | `DeletionHolds` | a read-through fill puts a claim back into a layer that was cleared before the layer below it, against "only done when no layer still serves the claim" (`src/adapter/storage/stack/stack.go`, `DeleteClaims`) |
| `copy_retry` | `MCUpkeep` | `RetryCompletes` | a copy that was cut short leaves a claim without its references; the next copy finds the claim present and reports completion, against "the merge invariant gives it its whole closure, which makes the walk idempotent" (`DefaultCopyClaims`) |
| `sweep_shared` | `MCUpkeep` | `SweepSpares` | a sweep removes a due claim's content by hash, and with it the content of a claim that is not due, against "remove the bytes of every claim whose delete_by has fallen due" (`deletion.go`) |
| `blob_repair` | `MCBlob` | `PutOverwrites` | a conditional Put leaves altered bytes as they are and reports success, against "overwriting any bytes there — the overwrite is what lets a read-through repair restore a corrupted entry" (`BlobStore`) |
| `blob_empty` | `MCBlob` | `EndIsVerified` | the stream of an empty content ends cleanly although bytes have grown under its key, against "reading to EOF also verifies the stream" (`NewVerifyingReader`) |
| `neo4j_dated` | `MCNeo4j` | `EnginesAgree` | `cypherPutNodes` sets neither `dated` nor its midpoint, which `claimParam` computes "so a native `compare: temporal` ORDER BY sorts on it": the order by `dated` is lost |
| `neo4j_scope` | `MCNeo4j` | `ReadsSound` | a reverse step of an `$archive` read at an older table is confined by nothing and leaves the archive |

One more configuration, `tag_race` (`MCUpkeep`), TLC passes: two Tag calls on
two shards overlap while the archive advances, and one of them may give up.
Beside `TagsTellBranch` it checks the two properties of the tagger that are also
theorems, `RevisionsCountTables` (no table is marked with another revision than
its place in the spine) and `StampsStay` (no stamp is overwritten with another
height); the run `upkeep` has one tagger, beside sweeps, copies and reads.

Other reads on which neo4j and the reference engine part, which the compared
reads therefore leave out (`NegatedReads` and `MixedReads` of `MCNeo4j` show the
first two): `not` over a field a claim lacks (null in Cypher, true in the
reference); a number compared with a text that spells one; a text operand on an
integer field; numeric order of texts; anchors outside of the branch;
`connections` with a minimum of one hop that returns to its start; a minimum of
two or more, where the reference's breadth-first walk records first arrivals
only; the lengths of routes over two steps; gaps, which Cypher passes silently;
a branch that was never tagged, which reads empty.

## 5. Proofs

The theorems hold for every value of the constants, hence for any number of
clients, claims, branches, layers, entries, records, failures and crashes.  They
rest on the `ASSUME`s of the models, which TLC evaluates on every run:

* `RefsAssumption` (references are claims) and `RootsCover` (every set of claims
  is reached from its frontier, which acyclicity gives for the finite sets a
  contribution stages);
* `ConstantsAssumption`, `DevConstantsAssumption`, `BookmarksAssumption`,
  `WireAssumption`, `BlobAssumption`: the types of the parameters; in Wire also
  that a payload's bytes are those of its key, in Blob that a request names at
  least one item, a stream exactly one, and no claim is an empty content;
* `StackAssumption` and `MenuAssumption`: the types of layers and requests.
  What `NewStack` refuses is a guard of the model's `Init`, not an assumption;
* `BoundsAssumption`, `ConfigsAssumption`, `RootAssumption` of Verify: the types
  of the bounds and of the run's options, and an initial contributor claim that
  the builder accepts.  What contributors offer and what is smuggled in is any
  request at all;
* `ShardAssumption`, `GraphAssumption`, `SpineAssumption` of Upkeep: every claim
  and content has one shard; a claim references older claims of lower height;
  the spine is a sequence of branch tables, each a diff over the one before,
  which names the branches that advance, each once, and a branch's new head
  reaches the head it had.

Three premises on failures are stated in the theorems that need them.  Each is
needed: with the failures it excludes added to `Faults`, TLC refutes the
properties of the last column.

| premise | says | false without it |
|---|---|---|
| `FoundReliable` | `Found` meets no error between assigning `s.head` and recording the archive; it may die there | `HeadsArePublished` on `seq_faults`; `NoLostContribution`, `ReceiptHolds` and `CommittedArchived` there once `{op}` is among the `Batches`: the founder's own claim is contributed again, `foldBranch` finds it below the head that `s.heads` kept, nothing advances, and the receipt names a table without the branch |
| `MarkReliable` | and a bookmark write that reports an error left no record | `ListIsSpine`, `NoEmptyAdvance` and `RefinesArchiveLog` on `seq_list` with `"landed"` (see `seq_clobber`) |
| `DevReliable` | the dev Sequencer meets no error between assigning `s.heads` and `s.head`; it may die there | `NoLostContribution`, `ReceiptHolds` and `RefinesArchiveLog` on `dev_merge` with the other failures (see `dev_retry`) |

A proof has one lemma per action, under it one step per conjunct the action can
disturb, and at the end `Init => Inv`, `Inv /\ [Next]_vars => Inv'` and
`Inv => Property`.  A candidate for an inductive invariant is cheapest tested as
an invariant of the component's run (`DevInv` on `dev_merge`, `WritersOK`,
`CallOK` and `FileOK` on `blob`).

### Concurrent Sequencer

| theorem | property | premise |
|---|---|---|
| `TypeCorrect` | `TypeOK` | |
| `NothingLost` | `NoLostContribution` | `FoundReliable` |
| `ReceiptsTrue` | `ReceiptHolds` | `FoundReliable` |
| `HeadsPublished` | `HeadsArePublished` | `FoundReliable` |
| `ArchiveIsSound` | `ArchiveSound` | |
| `CommittedIsArchived` | `CommittedArchived` | `FoundReliable` |
| `ListIsTheSpine` | `ListIsSpine` | `MarkReliable` |
| `AdvancesBringNews` | `NoEmptyAdvance` | `MarkReliable` |
| `ImplementsArchiveLog` | `RefinesArchiveLog` | `MarkReliable` |

*Types.*  The inductive invariant adds `IdsOK`: every id a table, a commit or a
contribution names is in `𝒰`, every bookmark names a table.  Without it
`ClosureOf` would apply `folds` outside of its domain.

*Durability* is `DurableInv`.  `FoldsOK`: a head claim's closure is transitively
closed, so folding a head in keeps all it reaches.  `ControlOK`: an entry is
pending exactly while it is in the queue or in the batch.  `Sealed`: a sealed
head reaches all that was staged.  `FoldedOK`: during a commit, the new heads
reach the old heads and every contribution of the batch that is folded already.
`TablesOK`: the table minted last carries exactly that.  `MarksOK`: a bookmark
write hits the top of the list or the slot above it, also after an ambiguous
one.  `AckedOK`: the newest bookmark may run ahead of `s.heads`, never behind,
and `s.heads` reaches all that was acknowledged: this is what makes overwriting
the top harmless and what makes `NoLostContribution` inductive.  `ReceiptsOK`:
receipts name tables that exist and hold what they acknowledge.

*Soundness* is `SoundInv`: what any head stands for (of a table, of `s.heads`,
of a commit, of a contribution) is in `𝒰` and breaks no rule, and so is the
whole closure of every trusted id.  The last part is what a walk that stops at
trusted ids needs; it holds because ids become trusted only when the table that
reaches them is published.  No premise on failures is needed: a `Found` that
fails half-way loses an archive, it lets nothing unsound in.

*The spine* is `SpineInv`: while a commit runs `s.head` is still the newest
bookmark, the table it minted is a diff over `s.head`, and each new head is
outside of the closure of the old one.

*The refinement* maps the branches of `ArchiveLog` to the closures at the newest
bookmark, and a writer's offer to what it is merging.  `Merge` is `Submit`, the
bookmark write of a commit `Advance` with the batch as its group, publishing or
finding nothing to do `Acknowledge`, `Return` `Leave`, a crash `Leave` of all,
the bookmark of the founding `Found`; every other step stutters.  `OnlyBatch`
says that what a commit folds in is the batch and nothing but the batch,
`SpineInv` that the table it starts from is the one the list ends with, `Whole`
that a sealed head stands for exactly what was staged.

### Dev Sequencer

`NothingIsLost` (`NoLostContribution`), `ReceiptsHold` (`ReceiptHolds`) and
`DevImplementsArchiveLog` (`RefinesArchiveLog`), all under `DevReliable`.  A
merge is one step that may die at every write, so the invariant `DevInv` is
about states between merges: `AtTop` (a running Sequencer stands at the newest
bookmark and writes the next one), `FoldsOK` and `IdsOK` as above, and `Whole`
(sealed heads stand for exactly what was staged, receipts hold).  The main
lemmas say what folding the set of named branches into the heads yields: closed
closures, which hold the old heads, the contribution, and nothing else.

### Bookmark list

`ListStaysGapless` (`Gapless`), `AcknowledgedStays` (`WrittenStays`),
`SearchesAreCurrent` (the action property `SettledRange`), `SearchesSettle`
(`SearchSettles`), `VerifyFindsEveryGap` (`VerifyIsComplete`) and `SearchTypes`.

`Shape` orders the locals of doubling and bisection.  On a list that is written
(`LiveLocal`) every bound a search has seen lies between the list as it was when
the call began and as it is now, and the writer's cursor is at most one landed
but unacknowledged record behind the top; that is why the next `Append` leaves
no gap and hits no acknowledged entry.  On a list at rest (`RestLocal`) hits are
occupied and misses free, and the search is a path: `Path(p)` is the orbit of
the configurations that doubling and bisection run through from an entry.  The
path is deterministic, so a search after the first one ends at the same top,
which `probeGap` has examined; without it the claim about entries within
`gapProbe` is not inductive, because a cursor that is loaded does not probe
again.

### Stack and filler

`AckedIsDurable` (`AckedDurable`), `ReadsFind` (`NoFalseMiss`),
`AnswersAreFaithful` (`AnswersFaithful`), `QuietDeletionsHold`
(`QuietDeletionHolds`), `BookmarksAreBacked` (`BookmarksBacked`), `IdleIsLanded`
(`IdleMeansLanded`) and `StackTypes`, for every stack that `NewStack` accepts.

`WellFormed` and `FormsInv` say where a call is in its walk and which form a
layer may keep: projections only in layers without verbatim records, rot only
outside of the durable tier.  `PutInv`: a Put that will be answered for has landed in
every authoritative layer it is done with, and no delete of the item runs.
`WalkInv`: a read that must find its item has an authoritative layer at or below
the one it asks.  `QuietInv`: once an undisturbed deletion has answered, nothing
on its way writes the item, neither call nor fill nor background write.
`MarksInv`: a background bookmark write starts only when the durable tier has
the record.

### Wire

`SealedKeepsWithin` (`WithinEveryDeclaration`) and `TakenIsSent`
(`DeliveredAsSent`), for every payload, all declarations and any relay.

`BlockInv`: every declaration decoded so far has narrowed what the reader holds,
and all that is staged lies within that; a declaration after the block refuses
the stream, so the block held all of them.  The key lemma is that
`narrowScopes` is an intersection of what may be read, not of names.
`DeliveryInv` carries an alignment, which tells for every record sent where on
the stream it lies; a relay that inserts declarations and a damaged record move
or alter it without changing the order.

### Blob adapters

`NilIsDone` (`NilMeansDone`) and `AnswersAreGenuine` (`AnswersGenuine`), for
every store, any clients, requests, slots and failures.

`CallOK`: items are launched in order, an item that ended did its work or left
an error, nothing runs once a call has returned; so a call that reports nil has
launched and done all of them.  `WritersOK`: whoever has a file of a key open is
a Put of that key that is about to write.  `FileOK`: a file that is not whole
yet has its *newest* writer still to come, whether under its temporary name or
already renamed by another; when nobody writes, no such writer is left and the
file is whole.  A failed file write is what breaks this, which is why
`NilMeansDone` leaves those keys out.

### Verification

`CleanRunsAreSound` (`CleanMeansSound`), `LawfulRunsPass` (`LawfulPasses`) and
`BuildersAreAdmitted` (`BuiltIsAdmitted`), for every archive, every set of offers
and of smuggled records, every configuration and any number of removals, from
one inductive invariant (`VerifyInvariant`).

`TypeInv`: references point back, so what the model defines by recursion over
the archive (closures, schedules through diffs, overlaid edges, longest chains)
has a value.  The prover cannot instantiate the library's induction theorems;
`RankedRecursion` stands in for them.  It takes the recursion step and a rank as
functions, not as operators, and looks at the least rank at which no solution
exists.  `KeptInv`: contributors, tables, marks and revocations leave the store
only by loss, never by a deletion.  `AdmittedInv`: a claim that came in through
a Sequencer keeps the rules it kept then, whatever is removed later, and unless
`blind` its edges carry the schedules of what they reference.  `WalkInv`: in a
full run without a failure the references of every judged claim were visited or
are queued, an item is dated only because a visited claim announces it, a lost
claim is a gap or was announced, and what was judged is right about its height,
date and key, also after the removals that came since.  `PassInv`: while nothing
raced a lawful archive's run, no claim has failed and a gap is neither held nor
scheduled.

`CleanMeansSound` then follows by two more arguments about the closure: the
visited claims hold the roots and are closed under the references of present
claims, so they hold the closure; and heights that are right locally are longest
chains, by the least claim at which they are not.  `BuildersAreAdmitted` goes
through the rules one by one and needs of the invariant only that every claim
the new one cites is itself right.

### Upkeep

`StampsTellMembership` (`TagsTellBranch`), `CopiesAreComplete` (`CopyComplete`),
`OldestRevisionWins` (`StampsStay`), `RevisionsAreCounted`
(`RevisionsCountTables`) and `TypeCorrect` (`TypeOK`), for every graph and spine,
any partition, any number of taggers and any failures.

Closures and diffs are recursions over the graph here.  `ClosureFacts` says once
what they are (the claims themselves, what they reference, and nothing beside a
set closed under references); `SpineIsAChain` and `SpineNests` that an older
table of the archive lies in the closure of a younger one.

`CopyInv`: what the copy has seen is in the destination, its root is there or
queued, and every claim of the destination, but for the one whose content is
being fetched, has its content there and its references there or queued.
Without this a copy that stops on a present claim says nothing about what is
below it; it holds only as long as `clean` does, because a copy that was cut
short leaves claims without their references.

`TagInv`: as long as no call has read between two shards of another's flush
(`torn`), a stamp names the first table at which the claim is on the branch
(`StampsTell`); what is held of a stamped claim's closure is `Covered`, stamped
or about to be by a flush that is between two shards (`Pending`, `StampsReach`);
so are the members of every table that is marked or lies below a marked one
(`RevisionsReady`, `Ready`); and each call under way is right (`JobRight`): the
tables below its own are covered, and a flush has in hand every member of its
table that is not covered, and only claims that join the branch there
(`FlushRight`).  That the walk may prune at stamped claims follows from
`StampsReach`.  `TagsTellBranch` itself speaks of heads with a stamp in states
at rest; a proof has to know what a call that is under way will leave there.

`ShapeInv` adds what the types and the numbering need: a mark is the table's
place in the spine, a call carries the place before its table's, and every stamp
is the height of a table.

### Where a proof changed a model

* Upkeep: with two taggers on two shards `TagsTellBranch` was false.  A second
  Tag prunes at a claim that is stamped on one shard, marks the table, and reads
  the next table while the first flush is still between shards: the members whose
  stamps are missing get the younger height, and keep it.  TLC shows it
  (`tag_race` without that premise).  The code has nothing that keeps two calls
  apart; the property now leaves out archives that were read in such a state, as
  it left out flushes cut short there.

* Stack: what counts as a call beside a deletion left out part of a claim's
  chain of predecessors, and the claim a sync began with and goes on to write; a
  deletion taken for quiet could be undone by it.  `Touches` now looks at the
  whole chain and at `first`.
* Verify: `CleanMeansSound` excused losses by marks of the closure, while a run
  knows the marks of what it *visited*; when a removal cuts the closure short
  during the run, the two differ.  Its exemption for `blind` claims and the
  premises of `LawfulPasses` about `blind` claims and contributors that are
  diffs were missing, and so were the base time of admission and the check that
  a builder is attributed to a contributor claim.
* Bookmarks, Stack, Wire and Blob: assumptions became typed; in Bookmarks one
  had bound differently than it read.

### What only TLC checks

* Liveness (`MergeReturns`, `FillsLand`, both `CallsReturn`, `DrainEnds`): the
  prover has no rules for fairness.
* `QueryAnswers` of Upkeep, `ReadsSound` and `EnginesAgree` of Neo4j.  Each
  compares two evaluations of a read, recursions over hops, steps and diffs, for
  the menu of reads the run asks.  Single recursive functions are within reach
  (`RankedRecursion`, and `CountUp` for folds), but the library's induction
  theorems are not, and the order of an answer is a choice (`InOrder`) that is
  unique only where the fields of the graph order the claims, which depends on
  the query.

## 6. Not modelled

* CBOR, COSE, signatures and date grammars (`codec.go`, `codec_envelope.go`,
  `sign.go`, `edtf.go`), JSON and CBOR forms of queries (`query_codec.go`) and
  the taxonomies: conversions of bytes without state.
* A read's report (`query_report.go`): counters.
* `RetagAll`, `Branch.Prev`, `MissingBranches`, copy progress: reads, or the
  operations that are modelled once more.
* neo4j's content and `SetClaimsTags`: a neo4j layer leaves content to others
  and stamps through `Tag`.
* The services behind the adapters, by the failures their callers see.
* The memory adapter: maps under one lock.
* Commands, generators and test support carry no state of the archive.

Hazards without a property are listed with the reason in `PROJECT.json`.

## 7. Plan

Theorems: `ReadsSound` of Neo4j for reads without steps.

Models: the torn flush of a partitioned tagger with its repair, composition of a
Stack with a neo4j layer, two archives that share a Universe and a branch name.
