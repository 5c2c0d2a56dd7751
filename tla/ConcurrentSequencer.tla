------------------------- MODULE ConcurrentSequencer -------------------------
(***************************************************************************)
(* The concurrent Sequencer (adapter/sequencer/concurrent): the write path *)
(* of a Ranke-Archive.  Writers fill and verify contributions in parallel; *)
(* Merge queues a contribution, and whichever writer wins the sequencing   *)
(* thread commits the whole queue as ONE advance: fold each branch, mint   *)
(* one branch table, bookmark it, and only then change what is in memory.  *)
(*                                                                         *)
(* Universe and bookmark list survive a crash, everything else is lost and *)
(* read back by adopt.  Faults says which writes may fail, and how.        *)
(***************************************************************************)
EXTENDS ClaimGraph, Sequences

CONSTANTS
    Writers,        \* goroutines, each with at most one contribution open
    Branches,       \* branch names
    None,           \* a branch the table does not carry, no writer
    Operator,       \* the first contributor, the claim Found writes
    Inadmissible,   \* claims dated after every base time, or of a reserved type
    Rejected,       \* claims that break a verification rule
    Scopes,         \* read scopes contributions are opened with
    Creatable,      \* branches a contribution may bring into being
    Batches,        \* the sets of claims one AddClaims call may stage
    Faults,         \* which failures the storage may produce
    MaxFaults,      \* bound: failures in a behaviour
    MaxCrashes,     \* bound: crashes in a behaviour
    MaxOpened,      \* bound: contributions opened
    MaxMerges       \* bound: calls of Merge

ReadScopes == {"branch", "archive", "universe"}

(* "foundStore", "foundTable", "foundMark", "foundLanded": Found's writes.  *)
(* "verify": an I/O error while completing.  "fold", "table", "mark": a     *)
(* commit's writes.  "landed": a bookmark Put that reports an error and yet *)
(* left the record.                                                         *)
FaultKinds == {"foundStore", "foundTable", "foundMark", "foundLanded",
               "verify", "fold", "table", "mark", "landed"}

ASSUME ConstantsAssumption ==
    /\ Claims \cap Nat = {}
    /\ None \notin Claims \cup Nat
    /\ None \notin Writers
    /\ None \notin Branches
    /\ Operator \in Claims
    /\ Refs[Operator] = {}
    /\ Inadmissible \cup Rejected \subseteq Claims \ {Operator}
    /\ Scopes \subseteq ReadScopes
    /\ Creatable \subseteq Branches
    /\ Batches \subseteq (SUBSET Claims) \ {{}}
    /\ Faults \subseteq FaultKinds
    /\ MaxFaults \in Nat /\ MaxCrashes \in Nat
    /\ MaxOpened \in Nat /\ MaxMerges \in Nat

VARIABLES
    (* 𝒰 and 𝒰_hist: durable *)
    stored,     \* claims of Claims that are in 𝒰
    folds,      \* contribution/head claims in 𝒰: folds[i] is the closure of the i-th
    tables,     \* contribution/branches claims in 𝒰, in the order they were minted
    marks,      \* the bookmark list: marks[i] is the table the i-th bookmark records
    (* Sequencer fields: volatile *)
    process,    \* "up" or "down"
    head,       \* s.head: the current table, 0 before genesis
    heads,      \* s.heads: the head of each branch
    committed,  \* s.committed: ids later verifications do not walk past
    cursor,     \* s.marks: the index this process wrote last, 0 before its first Append
    queue,      \* s.queue
    (* the holder of s.seq *)
    phase,      \* how far the section under s.seq is, "free" when nobody holds it
    holder,     \* the writer inside drain
    batch,      \* the entries drain took
    todo,       \* branches commit has yet to fold
    newHeads,   \* commit's newHeads
    (* writers *)
    pc,         \* where each writer is
    contribution, \* the contribution it holds
    outcome,    \* its queue entry's p.err / p.done
    receipt,    \* its queue entry's p.head
    (* what callers were told, and the bounds *)
    acked,      \* <<branch, claim>> pairs Merge returned a receipt for
    faults, crashes, opened, merges

durable == <<stored, folds, tables, marks>>
memory  == <<process, head, heads, committed, cursor, queue>>
section == <<phase, holder, batch, todo, newHeads>>
writers == <<pc, contribution, outcome, receipt>>
bounds  == <<faults, crashes, opened, merges>>
vars    == <<durable, memory, section, writers, acked, bounds>>

-----------------------------------------------------------------------------
(* Ids, closures and tables.                                               *)

Id == Claims \cup (Nat \ {0})
NoHeads == [b \in Branches |-> None]
HeadMap == [Branches -> Id \cup {None}]
Table == [prev : Nat, heads : HeadMap]

(* closure(id, 𝒰); a branch that is not there has nothing in it. *)
ClosureOf(i) ==
    IF i = None THEN {} ELSE IF i \in Claims THEN ReachFrom[i] ELSE folds[i]

(* The claims branch b holds in the archive at table t: base.GetBranch(b). *)
BranchClosure(t, b) == IF t = 0 THEN {} ELSE ClosureOf(tables[t].heads[b])
ArchiveClosure(t) == UNION {BranchClosure(t, b) : b \in Branches}

(* Mutant: a table that is no diff, and so drops what it does not restate. *)
OverlayRestating(old, new) == new

(* A contribution/diff claim: own named edges over the predecessor's. *)
Overlay(old, new) == [b \in Branches |-> IF new[b] = None THEN old[b] ELSE new[b]]

TableAt(t) == IF t = 0 THEN NoHeads ELSE tables[t].heads

(* The head bookmarked last, which is what a reopened archive starts from. *)
Latest == IF marks = <<>> THEN 0 ELSE marks[Len(marks)]

(* Mutant: a cursor that holds the next index, read as the last one. *)
NextIndexStale == IF cursor = 0 THEN Len(marks) + 1 ELSE cursor

(* Bookmarks.Append's slot: one past the top this process wrote, else one   *)
(* past the top a search finds.                                             *)
NextIndex == IF cursor = 0 THEN Len(marks) + 1 ELSE cursor + 1

PutMark(i, t) ==
    marks' = IF i > Len(marks) THEN Append(marks, t) ELSE [marks EXCEPT ![i] = t]

Fault(kind) ==
    /\ kind \in Faults
    /\ faults < MaxFaults
    /\ faults' = faults + 1
    /\ UNCHANGED <<crashes, opened, merges>>

NoContribution ==
    [base |-> 0, scope |-> "branch", staged |-> [b \in Branches |-> {}],
     heads |-> NoHeads, at |-> None]

Named(w) == {b \in Branches : contribution[w].staged[b] # {}}

Init ==
    /\ stored = {} /\ folds = <<>> /\ tables = <<>> /\ marks = <<>>
    /\ process = "down"
    /\ head = 0 /\ heads = NoHeads /\ committed = {} /\ cursor = 0 /\ queue = {}
    /\ phase = "free" /\ holder = None /\ batch = {} /\ todo = {} /\ newHeads = NoHeads
    /\ pc = [w \in Writers |-> "idle"]
    /\ contribution = [w \in Writers |-> NoContribution]
    /\ outcome = [w \in Writers |-> "pending"]
    /\ receipt = [w \in Writers |-> 0]
    /\ acked = {}
    /\ faults = 0 /\ crashes = 0 /\ opened = 0 /\ merges = 0

-----------------------------------------------------------------------------
(* Opening the list, and losing the process.                               *)

(* Mutant: adopt takes the head alone. *)
NewSequencerHeadless ==
    /\ process = "down"
    /\ process' = "up"
    /\ head' = Latest
    /\ heads' = NoHeads
    /\ UNCHANGED <<committed, cursor, queue, durable, section, writers, acked, bounds>>

(***************************************************************************)
(* NewSequencer and adopt: the head is what the top bookmark names, the    *)
(* branch heads what the archive there carries.  The committed set starts  *)
(* out with the sequencer's own claim and the table, neither in Claims.    *)
(***************************************************************************)
NewSequencer ==
    /\ process = "down"
    /\ process' = "up"
    /\ head' = Latest
    /\ heads' = TableAt(Latest)
    /\ UNCHANGED <<committed, cursor, queue, durable, section, writers, acked, bounds>>

(* The process dies: 𝒰 and the bookmark list stay, nothing else does. *)
Crash ==
    /\ process = "up"
    /\ crashes < MaxCrashes
    /\ crashes' = crashes + 1
    /\ process' = "down"
    /\ head' = 0 /\ heads' = NoHeads /\ committed' = {} /\ cursor' = 0 /\ queue' = {}
    /\ phase' = "free" /\ holder' = None /\ batch' = {} /\ todo' = {} /\ newHeads' = NoHeads
    /\ pc' = [w \in Writers |-> "idle"]
    /\ contribution' = [w \in Writers |-> NoContribution]
    /\ outcome' = [w \in Writers |-> "pending"]
    /\ receipt' = [w \in Writers |-> 0]
    /\ UNCHANGED <<durable, acked, faults, opened, merges>>

-----------------------------------------------------------------------------
(* Found: genesis, one section under s.seq.                                *)

(***************************************************************************)
(* The first contributor and the empty table k0 are stored; s.head and     *)
(* s.heads are assigned here, before k1 is minted and bookmarked.          *)
(***************************************************************************)
FoundGenesis(b) ==
    /\ process = "up" /\ phase = "free" /\ head = 0
    /\ stored' = stored \cup {Operator}
    /\ tables' = Append(tables, [prev |-> 0, heads |-> NoHeads])
    /\ head' = Len(tables) + 1
    /\ heads' = [heads EXCEPT ![b] = Operator]
    /\ phase' = "foundTable"
    /\ newHeads' = [NoHeads EXCEPT ![b] = Operator]
    /\ UNCHANGED <<folds, marks, process, committed, cursor, queue,
                   holder, batch, todo, writers, acked, bounds>>

(* A failed Put of a contributor or of k0: nothing in memory changed. *)
FoundGenesisFails ==
    /\ process = "up" /\ phase = "free" /\ head = 0
    /\ Fault("foundStore")
    /\ stored' \in {stored, stored \cup {Operator}}
    /\ UNCHANGED <<folds, tables, marks, memory, section, writers, acked>>

FoundTable ==
    /\ phase = "foundTable"
    /\ tables' = Append(tables, [prev |-> head, heads |-> Overlay(TableAt(head), newHeads)])
    /\ phase' = "foundMark"
    /\ UNCHANGED <<stored, folds, marks, memory, holder, batch, todo, newHeads,
                   writers, acked, bounds>>

FoundMark ==
    /\ phase = "foundMark"
    /\ PutMark(NextIndex, Len(tables))
    /\ cursor' = NextIndex
    /\ phase' = "foundPublish"
    /\ UNCHANGED <<stored, folds, tables, process, head, heads, committed, queue,
                   holder, batch, todo, newHeads, writers, acked, bounds>>

(* Found returns early: s.head and s.heads keep what FoundGenesis assigned. *)
FoundFails ==
    /\ \/ /\ phase = "foundTable" /\ Fault("foundTable")
          /\ UNCHANGED marks
       \/ /\ phase = "foundMark" /\ Fault("foundMark")
          /\ UNCHANGED marks
       \/ /\ phase = "foundMark" /\ Fault("foundLanded")
          /\ PutMark(NextIndex, Len(tables))
    /\ phase' = "free"
    /\ newHeads' = NoHeads
    /\ UNCHANGED <<stored, folds, tables, memory, holder, batch, todo, writers, acked>>

(* The u.Tag that follows in Found changes nothing here, done or failed. *)
FoundPublish ==
    /\ phase = "foundPublish"
    /\ head' = Len(tables)
    /\ committed' = committed \cup {Operator}
    /\ phase' = "free"
    /\ newHeads' = NoHeads
    /\ UNCHANGED <<durable, process, heads, cursor, queue, holder, batch, todo,
                   writers, acked, bounds>>

-----------------------------------------------------------------------------
(* Steps 1 to 5: a contribution, off the sequencing thread.                *)

(* Step 1: the base is the head as read under s.seq. *)
NewContribution(w, scope) ==
    /\ process = "up" /\ phase = "free" /\ head # 0
    /\ pc[w] = "idle"
    /\ opened < MaxOpened
    /\ opened' = opened + 1
    /\ pc' = [pc EXCEPT ![w] = "open"]
    /\ contribution' = [contribution EXCEPT ![w] =
                            [NoContribution EXCEPT !.base = head, !.scope = scope]]
    /\ UNCHANGED <<durable, memory, section, outcome, receipt, acked,
                   faults, crashes, merges>>

(* Step 2: AddClaims stages for one branch, in memory alone; the call is    *)
(* refused when AdmitCreatedAt or AdmitType refuses one of the claims.  The *)
(* caller stages in dependency order, references first.                     *)
AddClaims(w, b, S) ==
    /\ pc[w] = "open"
    /\ S \cap Inadmissible = {}
    /\ \A c \in contribution[w].staged[b] : Refs[c] \cap S = {}
    /\ contribution' = [contribution EXCEPT ![w].staged[b] = @ \cup S]
    /\ UNCHANGED <<durable, memory, section, pc, outcome, receipt, acked, bounds>>

(* CompleteAndVerify, one branch: g.AddClaims puts the staged claims in 𝒰. *)
StageBranch(w, b) ==
    /\ pc[w] \in {"open", "completing"}
    /\ b \in Named(w)
    /\ contribution[w].heads[b] = None
    /\ stored' = stored \cup contribution[w].staged[b]
    /\ pc' = [pc EXCEPT ![w] = "staged"]
    /\ contribution' = [contribution EXCEPT ![w].at = b]
    /\ UNCHANGED <<folds, tables, marks, memory, section, outcome, receipt, acked, bounds>>

(* AdmitBranch: the base carries the branch, or it may be created. *)
AdmitBranch(w, b) ==
    \/ TableAt(contribution[w].base)[b] # None
    \/ b \in Creatable

(* allowedHeads: the branch written, or the whole archive, at the base. *)
Readable(w, b) ==
    IF contribution[w].scope = "archive"
    THEN ArchiveClosure(contribution[w].base)
    ELSE BranchClosure(contribution[w].base, b)

(* AdmitReferences: every reference out of the branch's own claims lies in *)
(* a scope the contribution may read.                                      *)
AdmitReferences(w, b) ==
    \/ contribution[w].scope = "universe"
    \/ LET own == contribution[w].staged[b]
       IN  (UNION {Refs[c] : c \in own}) \ own \subseteq Readable(w, b)

(* Mutant: whatever is in 𝒰 is trusted, merged or not. *)
VerifiesUnmerged(w, b) ==
    LET others == stored \ contribution[w].staged[b]
        checked == Walk(Roots(contribution[w].staged[b]), others) \ others
    IN  checked \cap Rejected = {}

(* g.Verify(WithTrusted(s.isCommitted)): each claim visited and not yet     *)
(* merged must be there and keep every rule.                                *)
Verifies(w, b) ==
    LET checked == Walk(Roots(contribution[w].staged[b]), committed) \ committed
    IN  /\ checked \subseteq stored
        /\ checked \cap Rejected = {}

CompletesBranch(w, b) ==
    /\ AdmitBranch(w, b)
    /\ AdmitReferences(w, b)
    /\ Verifies(w, b)

(* The rest of CompleteAndVerify for that branch, ending in consolidate: a  *)
(* single root stands for the branch, several are folded into a head claim. *)
SealBranch(w) ==
    LET b == contribution[w].at
        roots == Roots(contribution[w].staged[b])
        fold == Len(folds) + 1
        newHead == IF \E r \in roots : roots = {r} THEN CHOOSE r \in roots : TRUE ELSE fold
    IN  /\ pc[w] = "staged"
        /\ CompletesBranch(w, b)
        /\ folds' = IF newHead = fold
                    THEN Append(folds, {fold} \cup Reach(roots)) ELSE folds
        /\ contribution' = [contribution EXCEPT ![w].heads[b] = newHead, ![w].at = None]
        /\ pc' = [pc EXCEPT ![w] =
                    IF \A n \in Named(w) \ {b} : contribution[w].heads[n] # None
                    THEN "sealed" ELSE "completing"]
        /\ UNCHANGED <<stored, tables, marks, memory, section, outcome, receipt, acked, bounds>>

(* CompleteAndVerify returns an error: the contribution stays unsealed. *)
RefuseBranch(w) ==
    /\ pc[w] = "staged"
    /\ \/ /\ ~CompletesBranch(w, contribution[w].at)
          /\ UNCHANGED bounds
       \/ Fault("verify")
    /\ contribution' = [contribution EXCEPT ![w].heads = NoHeads, ![w].at = None]
    /\ pc' = [pc EXCEPT ![w] = "open"]
    /\ UNCHANGED <<durable, memory, section, outcome, receipt, acked>>

(* Step 5: every claim and every head the contribution names reads back. *)
Persist(w) ==
    /\ pc[w] = "sealed"
    /\ \A b \in Named(w) :
          /\ contribution[w].staged[b] \subseteq stored
          /\ \/ contribution[w].heads[b] \in stored
             \/ contribution[w].heads[b] \in 1..Len(folds)
    /\ pc' = [pc EXCEPT ![w] = "mergable"]
    /\ UNCHANGED <<durable, memory, section, contribution, outcome, receipt, acked, bounds>>

(* The caller drops a contribution it holds, merged or not. *)
Drop(w) ==
    /\ pc[w] \in {"open", "sealed", "mergable"}
    /\ pc' = [pc EXCEPT ![w] = "idle"]
    /\ contribution' = [contribution EXCEPT ![w] = NoContribution]
    /\ outcome' = [outcome EXCEPT ![w] = "pending"]
    /\ receipt' = [receipt EXCEPT ![w] = 0]
    /\ UNCHANGED <<durable, memory, section, acked, bounds>>

-----------------------------------------------------------------------------
(* Steps 6 and 7: Merge, drain, commit.                                    *)

(* Merge: a fresh queue entry, appended before contending for s.seq.  Only  *)
(* currentHead waited for s.seq: the append itself may fall into any phase  *)
(* of somebody else's commit.                                               *)
Merge(w) ==
    /\ process = "up" /\ head # 0
    /\ pc[w] = "mergable"
    /\ merges < MaxMerges
    /\ merges' = merges + 1
    /\ queue' = queue \cup {w}
    /\ pc' = [pc EXCEPT ![w] = "queued"]
    /\ outcome' = [outcome EXCEPT ![w] = "pending"]
    /\ receipt' = [receipt EXCEPT ![w] = 0]
    /\ UNCHANGED <<durable, process, head, heads, committed, cursor, section, contribution, acked,
                   faults, crashes, opened>>

(* drain takes s.seq and the whole queue; an empty queue means another      *)
(* writer took this entry.                                                  *)
Drain(w) ==
    /\ phase = "free"
    /\ pc[w] = "queued"
    /\ queue' = {}
    /\ IF queue = {}
       THEN /\ pc' = [pc EXCEPT ![w] = "waiting"]
            /\ UNCHANGED section
       ELSE /\ pc' = [pc EXCEPT ![w] = "draining"]
            /\ phase' = "fold"
            /\ holder' = w
            /\ batch' = queue
            /\ todo' = UNION {Named(v) : v \in queue}
            /\ newHeads' = NoHeads
    /\ UNCHANGED <<durable, process, head, heads, committed, cursor,
                   contribution, outcome, receipt, acked, bounds>>

(* Mutant: the draining caller's own heads alone. *)
ContributedByHolder(b) == {contribution[holder].heads[b]} \ {None}

(* Mutant: branches the contribution does not name count, with a nil head. *)
ContributedNil(b) == {contribution[v].heads[b] : v \in batch}

(* byBranch[b]: the heads the batch contributes to b. *)
Contributed(b) ==
    {contribution[v].heads[b] : v \in {x \in batch : b \in Named(x)}} \ {None}

(* Mutant: no closure test. *)
FreshUntested(b) == Contributed(b)

(* The heads of the batch the branch does not reach yet. *)
Fresh(b) == Contributed(b) \ ClosureOf(heads[b])

(* Mutant: the branch's own head is replaced, not folded in. *)
FoldSetReplacing(b) == Fresh(b)

(* ... and the branch's own head, unless one of them reaches it. *)
FoldSet(b) ==
    LET reached == UNION {ClosureOf(h) : h \in Fresh(b)}
    IN  Fresh(b) \cup ({heads[b]} \ (reached \cup {None}))

(* foldBranch, with the head claim it mints when several heads remain. *)
FoldBranch(b) ==
    LET set == FoldSet(b)
        fold == Len(folds) + 1
        newHead == IF \E h \in set : set = {h} THEN CHOOSE h \in set : TRUE ELSE fold
    IN  /\ phase = "fold"
        /\ b \in todo
        /\ todo' = todo \ {b}
        /\ IF Fresh(b) = {}
           THEN UNCHANGED <<folds, newHeads>>
           ELSE /\ newHeads' = [newHeads EXCEPT ![b] = newHead]
                /\ folds' = IF newHead = fold
                            THEN Append(folds, {fold} \cup UNION {ClosureOf(h) : h \in set})
                            ELSE folds
        /\ UNCHANGED <<stored, tables, marks, memory, phase, holder, batch,
                       writers, acked, bounds>>

BatchIds ==
    UNION {Contributed(b) \cup UNION {contribution[v].staged[b] : v \in batch} : b \in Branches}

BatchPairs ==
    {p \in Branches \X Claims : \E v \in batch : p[2] \in contribution[v].staged[p[1]]}

(* Mutant: the drainer closes its own entry only. *)
FinishBatchOwn(result, k) ==
    /\ outcome' = [outcome EXCEPT ![holder] = result]
    /\ receipt' = [receipt EXCEPT ![holder] = k]
    /\ pc' = [pc EXCEPT ![holder] = "waiting"]
    /\ phase' = "free" /\ holder' = None /\ batch' = {} /\ todo' = {} /\ newHeads' = NoHeads
    /\ UNCHANGED <<process, cursor, queue, contribution>>

(* drain's loop over the batch, one outcome for all, and the unlock. *)
FinishBatch(result, k) ==
    /\ outcome' = [v \in Writers |-> IF v \in batch THEN result ELSE outcome[v]]
    /\ receipt' = [v \in Writers |-> IF v \in batch THEN k ELSE receipt[v]]
    /\ pc' = [pc EXCEPT ![holder] = "waiting"]
    /\ phase' = "free" /\ holder' = None /\ batch' = {} /\ todo' = {} /\ newHeads' = NoHeads
    /\ UNCHANGED <<process, cursor, queue, contribution>>

(* No branch moved: there is no advance to make, and the merge succeeds. *)
NoAdvance ==
    /\ phase = "fold" /\ todo = {} /\ newHeads = NoHeads
    /\ committed' = committed \cup BatchIds
    /\ acked' = acked \cup BatchPairs
    /\ FinishBatch("ok", head)
    /\ UNCHANGED <<durable, head, heads, bounds>>

(* mintBranchTable: a diff over s.head that restates the branches that moved. *)
MintTable ==
    /\ phase = "fold" /\ todo = {} /\ newHeads # NoHeads
    /\ tables' = Append(tables, [prev |-> head, heads |-> Overlay(TableAt(head), newHeads)])
    /\ phase' = "mark"
    /\ UNCHANGED <<stored, folds, marks, memory, holder, batch, todo, newHeads,
                   writers, acked, bounds>>

(* marks.Append: the write that makes the advance durable. *)
AppendMark ==
    /\ phase = "mark"
    /\ PutMark(NextIndex, Len(tables))
    /\ cursor' = NextIndex
    /\ phase' = "publish"
    /\ UNCHANGED <<stored, folds, tables, process, head, heads, committed, queue,
                   holder, batch, todo, newHeads, writers, acked, bounds>>

(* The mutation, last: s.heads, s.head, the committed ids, the outcomes. *)
Publish ==
    /\ phase = "publish"
    /\ heads' = Overlay(heads, newHeads)
    /\ head' = Len(tables)
    /\ committed' = committed \cup BatchIds
                    \cup {newHeads[b] : b \in {x \in Branches : newHeads[x] # None}}
    /\ acked' = acked \cup BatchPairs
    /\ FinishBatch("ok", Len(tables))
    /\ UNCHANGED <<durable, bounds>>

(* commit returns an error, which every entry of the batch gets: the        *)
(* draining caller's ctx is cancelled, or one of the three writes fails.    *)
CommitFails ==
    /\ \/ /\ phase = "fold" /\ todo # {} /\ Fault("fold")
          /\ UNCHANGED marks
       \/ /\ phase = "fold" /\ todo = {} /\ newHeads # NoHeads /\ Fault("table")
          /\ UNCHANGED marks
       \/ /\ phase = "mark" /\ Fault("mark")
          /\ UNCHANGED marks
       \/ /\ phase = "mark" /\ Fault("landed")
          /\ PutMark(NextIndex, Len(tables))
    /\ FinishBatch("error", 0)
    /\ UNCHANGED <<stored, folds, tables, head, heads, committed, acked>>

(* Merge returns to its caller, who may merge the same contribution again. *)
Return(w) ==
    /\ pc[w] = "waiting"
    /\ outcome[w] # "pending"
    /\ pc' = [pc EXCEPT ![w] = "mergable"]
    /\ UNCHANGED <<durable, memory, section, contribution, outcome, receipt, acked, bounds>>

-----------------------------------------------------------------------------
Found ==
    \/ \E b \in Branches : FoundGenesis(b)
    \/ FoundGenesisFails
    \/ FoundTable
    \/ FoundMark
    \/ FoundFails
    \/ FoundPublish

Contribute(w) ==
    \/ \E scope \in Scopes : NewContribution(w, scope)
    \/ \E b \in Branches, S \in Batches : AddClaims(w, b, S)
    \/ \E b \in Branches : StageBranch(w, b)
    \/ SealBranch(w)
    \/ RefuseBranch(w)
    \/ Persist(w)
    \/ Drop(w)
    \/ Merge(w)
    \/ Drain(w)
    \/ Return(w)

Commit ==
    \/ \E b \in Branches : FoldBranch(b)
    \/ NoAdvance
    \/ MintTable
    \/ AppendMark
    \/ Publish
    \/ CommitFails

Next ==
    \/ NewSequencer
    \/ Crash
    \/ Found
    \/ \E w \in Writers : Contribute(w)
    \/ Commit

Spec == Init /\ [][Next]_vars

(***************************************************************************)
(* A goroutine inside Merge keeps running, and sync.Mutex hands itself to  *)
(* a goroutine that has waited long enough (its starvation mode), so a     *)
(* writer that contends for s.seq gets it.  Nothing obliges a caller to    *)
(* open or to merge a contribution.                                        *)
(***************************************************************************)
Fairness ==
    /\ WF_vars(Commit)
    /\ WF_vars(FoundTable \/ FoundMark \/ FoundPublish)
    /\ \A w \in Writers : SF_vars(Drain(w)) /\ WF_vars(Return(w))

FairSpec == Spec /\ Fairness

-----------------------------------------------------------------------------
(* Properties.                                                             *)

Phases == {"free", "foundTable", "foundMark", "foundPublish", "fold", "mark", "publish"}
Stations == {"idle", "open", "completing", "staged", "sealed", "mergable",
             "queued", "draining", "waiting"}
ContributionType ==
    [base : Nat, scope : ReadScopes, staged : [Branches -> SUBSET Claims],
     heads : HeadMap, at : Branches \cup {None}]

(* The fields of the Sequencer, its contributions and its queue entries     *)
(* hold values of their Go types.                                           *)
TypeOK ==
    /\ stored \subseteq Claims
    /\ folds \in Seq(SUBSET Id)
    /\ tables \in Seq(Table)
    /\ marks \in Seq(Nat)
    /\ process \in {"up", "down"}
    /\ head \in Nat
    /\ heads \in HeadMap
    /\ committed \subseteq Id
    /\ cursor \in Nat
    /\ queue \subseteq Writers
    /\ phase \in Phases
    /\ holder \in Writers \cup {None}
    /\ batch \subseteq Writers
    /\ todo \subseteq Branches
    /\ newHeads \in HeadMap
    /\ pc \in [Writers -> Stations]
    /\ contribution \in [Writers -> ContributionType]
    /\ outcome \in [Writers -> {"pending", "ok", "error"}]
    /\ receipt \in [Writers -> Nat]
    /\ acked \subseteq Branches \X Claims
    /\ faults \in Nat /\ crashes \in Nat /\ opened \in Nat /\ merges \in Nat

(* A claim Merge returned a receipt for is on its branch in the archive the *)
(* newest bookmark records, whatever failed, crashed or was retried since:  *)
(* two contributions opened at one k both survive (concurrent.go, Sequencer)*)
NoLostContribution ==
    \A p \in acked : p[2] \in BranchClosure(Latest, p[1])

(* The head a receipt carries is an archive that holds the contribution.    *)
ReceiptHolds ==
    \A w \in Writers : outcome[w] = "ok" =>
        \A b \in Branches :
            contribution[w].staged[b] \subseteq BranchClosure(receipt[w], b)

(* Every archive ever bookmarked is complete in 𝒰 and holds no claim that   *)
(* breaks a rule, although verification does not walk past committed ids.   *)
ArchiveSound ==
    \A i \in DOMAIN marks :
        ArchiveClosure(marks[i]) \cap Claims \subseteq stored \ (Rejected \cup Inadmissible)

(* What later verifications trust is in the current archive. *)
CommittedArchived == committed \subseteq ArchiveClosure(head)

(* s.heads, which every fold starts from, is the published table: a restart *)
(* that reads the table back would fold onto the same heads.                *)
HeadsArePublished ==
    phase \notin {"foundTable", "foundMark", "foundPublish"} => heads = TableAt(head)

(* The list is the spine: each bookmarked table is a diff over the one      *)
(* bookmarked before it, and outside of a commit s.head is the newest.      *)
ListIsSpine ==
    /\ \A i \in 2..Len(marks) : tables[marks[i]].prev = marks[i - 1]
    /\ process = "up" /\ phase = "free" => head = Latest

(* No advance without news: a new bookmark adds at least one claim, be it   *)
(* a head claim, to some branch (§Idempotency, foldBranch's closure test).  *)
NoEmptyAdvance ==
    [][marks' # marks =>
        \E b \in Branches : ~(BranchClosure(Latest, b)' \subseteq BranchClosure(Latest, b))]_vars

(* Found refuses with "this list already records an archive" (errFounded)   *)
(* exactly when s.head is set; the list then does record one, so that an    *)
(* attempt that failed part-way can be retried (Found).                     *)
FoundRefusesTruly == process = "up" /\ phase = "free" /\ head # 0 => marks # <<>>

(* "Append derives the index itself, so this can neither skip a slot nor    *)
(* clobber one already written" (commit): an entry of the list is final.    *)
NeverClobbers == [][\A i \in DOMAIN marks : marks'[i] = marks[i]]_vars

(* "Dropping a head already reached avoids minting a consolidating claim    *)
(* over an unchanged closure, and makes two writers of the same claims      *)
(* converge" (foldBranch): every advance adds a contributed claim.          *)
SameClaimsConverge ==
    [][marks' # marks =>
        \E b \in Branches :
            ~(BranchClosure(Latest, b)' \cap Claims \subseteq BranchClosure(Latest, b))]_vars

(* Every call of Merge returns. *)
MergeReturns ==
    \A w \in Writers :
        pc[w] = "queued" ~> pc[w] \notin {"queued", "draining", "waiting"}

-----------------------------------------------------------------------------
(* The inductive invariant behind NoLostContribution, HeadsArePublished and *)
(* ReceiptHolds.                                                            *)

(* What an id names is in 𝒰. *)
Present(i) == i \in Claims \/ i \in 1..Len(folds)

(* 𝒰 is add-only and references come first: every head a table, a commit or *)
(* a contribution names is there, and so is every table the list records.   *)
IdsOK ==
    /\ \A i \in 1..Len(folds) : \A j \in folds[i] : Present(j)
    /\ \A t \in 1..Len(tables), b \in Branches :
          tables[t].heads[b] # None => Present(tables[t].heads[b])
    /\ \A b \in Branches : heads[b] # None => Present(heads[b])
    /\ \A b \in Branches : newHeads[b] # None => Present(newHeads[b])
    /\ \A w \in Writers, b \in Branches :
          contribution[w].heads[b] # None => Present(contribution[w].heads[b])
    /\ head \in 0..Len(tables)
    /\ \A i \in 1..Len(marks) : marks[i] \in 1..Len(tables)
    /\ phase \in {"foundTable", "foundMark", "foundPublish", "mark", "publish"} =>
          Len(tables) > 0
    /\ \A w \in Writers : pc[w] = "staged" => contribution[w].at \in Branches

(* A head claim's closure holds the claim, and the closure of each member. *)
FoldsOK ==
    \A i \in 1..Len(folds) :
        /\ i \in folds[i]
        /\ \A j \in folds[i] : ClosureOf(j) \subseteq folds[i]

Founding == phase \in {"foundTable", "foundMark", "foundPublish"}
Submitted == {"queued", "draining", "waiting"}

(* An entry in the queue or in the batch is pending, and in one of the two. *)
ControlOK ==
    /\ process = "down" => phase = "free" /\ queue = {}
    /\ phase \in {"fold", "mark", "publish"} => holder \in Writers /\ pc[holder] = "draining"
    /\ phase \in {"mark", "publish"} => todo = {}
    /\ queue \cap batch = {}
    /\ \A w \in queue \cup batch : outcome[w] = "pending" /\ pc[w] \in Submitted
    /\ \A w \in Writers :
          pc[w] \in {"idle", "open", "completing", "staged", "sealed"} => outcome[w] = "pending"

(* A sealed head reaches what was staged, and nothing is staged after it. *)
Sealed(w) ==
    /\ \A b \in Branches :
          contribution[w].heads[b] # None =>
              contribution[w].staged[b] \subseteq ClosureOf(contribution[w].heads[b])
    /\ pc[w] = "open" => contribution[w].heads = NoHeads
    /\ pc[w] \in {"sealed", "mergable"} \cup Submitted =>
          \A b \in Named(w) : contribution[w].heads[b] # None

(* Where the branches stand once this commit is through. *)
Moved == Overlay(heads, newHeads)

(* Folding loses neither the branch nor, once folded, a contribution. *)
FoldedOK ==
    phase \in {"fold", "mark", "publish"} =>
        \A b \in Branches :
            /\ ClosureOf(heads[b]) \subseteq ClosureOf(Moved[b])
            /\ b \notin todo =>
                  \A v \in batch : b \in Named(v) =>
                      ClosureOf(contribution[v].heads[b]) \subseteq ClosureOf(Moved[b])

(* The table minted last carries what the commit or Found computed. *)
TablesOK ==
    /\ HeadsArePublished
    /\ phase \in {"mark", "publish"} => tables[Len(tables)].heads = Moved
    /\ phase = "foundTable" => TableAt(head) = NoHeads /\ heads = newHeads
    /\ phase \in {"foundMark", "foundPublish"} => tables[Len(tables)].heads = heads

(* A bookmark write always hits the top of the list or the slot above it. *)
MarksOK ==
    /\ cursor # 0 => Len(marks) \in {cursor, cursor + 1}
    /\ phase \in {"publish", "foundPublish"} => Latest = Len(tables)

(* The newest bookmark may run ahead of s.heads but never falls behind it. *)
AckedOK ==
    /\ NoLostContribution
    /\ Founding => acked = {}
    /\ process = "up" /\ ~Founding =>
          /\ \A b \in Branches : ClosureOf(heads[b]) \subseteq BranchClosure(Latest, b)
          /\ \A p \in acked : p[2] \in ClosureOf(heads[p[1]])

ReceiptsOK ==
    /\ \A w \in Writers : receipt[w] \in 0..Len(tables)
    /\ ReceiptHolds

DurableInv ==
    /\ FoldsOK
    /\ ControlOK
    /\ \A w \in Writers : Sealed(w)
    /\ FoldedOK
    /\ TablesOK
    /\ MarksOK
    /\ AckedOK
    /\ ReceiptsOK

-----------------------------------------------------------------------------
(* Refinement: the bookmark list is the archive.                           *)

Merging(w) == pc[w] \in {"queued", "draining", "waiting"}

Log == INSTANCE ArchiveLog WITH
    content  <- [b \in Branches |-> BranchClosure(Latest, b) \cap Claims],
    offer    <- [w \in Writers |->
                   IF Merging(w) THEN contribution[w].staged ELSE [b \in Branches |-> {}]],
    receipts <- acked

(* The group commit, its crashes and its retries implement the atomic       *)
(* archive: the bookmark write is the instant at which a whole batch, and   *)
(* nothing but the batch, takes effect on all its branches.                 *)
RefinesArchiveLog == Log!Spec
=============================================================================
