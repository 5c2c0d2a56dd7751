---------------------------- MODULE DevSequencer ----------------------------
(***************************************************************************)
(* The dev Sequencer (adapter/sequencer/dev): one mutex, one merge at a    *)
(* time, and no trust in what was verified before.                         *)
(*                                                                         *)
(* mu is held from the first read of a merge to its last write, so nobody  *)
(* sees the steps between; what a failure or a crash leaves of them is all *)
(* that shows.  A merge, and Found, is therefore one action per way it can *)
(* end: it gets through, a write fails and it returns the error, or the    *)
(* process dies in it.  stop names the first write that did not happen.    *)
(***************************************************************************)
EXTENDS ClaimGraph, SequencesExt

CONSTANTS
    Writers,        \* goroutines, each with at most one contribution open
    Branches,       \* branch names
    None,           \* a branch the table does not carry
    Operator,       \* the first contributor, the claim Found writes
    Inadmissible,   \* claims dated after every base time, or of a reserved type
    Rejected,       \* claims that break a verification rule
    Scopes,         \* read scopes contributions are opened with
    Creatable,      \* branches a contribution may bring into being
    Batches,        \* the sets of claims one AddClaims call may stage
    Faults,         \* which failures the storage may produce
    MaxFaults,      \* bound: failures in a behaviour
    MaxCrashes,     \* bound: crashes in a behaviour
    MaxOpened,      \* bound: contributions opened
    MaxMerges,      \* bound: calls of Merge
    MaxFolds        \* bound: head claims when CompleteAndVerify mints another

ReadScopes == {"branch", "archive", "universe"}

(* "landed": the bookmark Put reports an error and yet left the record.     *)
(* "tag": everything was written and published, u.Tag fails.                *)
MergeFaults == {"fold", "table", "mark", "landed", "tag"}
FoundFaults == {"foundStore", "foundTable", "foundMark", "foundLanded", "foundTag"}

ASSUME DevConstantsAssumption ==
    /\ Claims \cap Nat = {} /\ None \notin Claims \cup Nat \cup Branches
    /\ Operator \in Claims /\ Refs[Operator] = {}
    /\ Inadmissible \cup Rejected \subseteq Claims \ {Operator}
    /\ Scopes \subseteq ReadScopes
    /\ Creatable \subseteq Branches
    /\ Batches \subseteq (SUBSET Claims) \ {{}}
    /\ Faults \subseteq MergeFaults \cup FoundFaults \cup {"verify"}
    /\ {MaxFaults, MaxCrashes, MaxOpened, MaxMerges, MaxFolds} \subseteq Nat

VARIABLES
    (* 𝒰 and 𝒰_hist: durable *)
    stored,     \* claims of Claims that are in 𝒰
    folds,      \* contribution/head claims in 𝒰: folds[i] is the closure of the i-th
    tables,     \* contribution/branches claims in 𝒰, in the order they were minted
    marks,      \* the bookmark list: marks[i] is the table the i-th bookmark records
    (* Sequencer fields: volatile *)
    process,    \* "up", "dying" inside of a locked section, or "down"
    head,       \* s.head: the current table, 0 before genesis
    heads,      \* s.heads: the head of each branch
    cursor,     \* s.marks: the index this process wrote last, 0 before its first Append
    (* writers *)
    pc,           \* where each writer is
    contribution, \* the contribution it holds
    receipt,      \* the head its last Merge returned, 0 without one
    (* what callers were told, and the bounds *)
    acked,      \* <<branch, claim>> pairs Merge returned a receipt for
    faults, crashes, opened, merges

durable == <<stored, folds, tables, marks>>
memory  == <<process, head, heads, cursor>>
writers == <<pc, contribution, receipt>>
bounds  == <<faults, crashes, opened, merges>>
vars    == <<durable, memory, writers, acked, bounds>>

Id == Claims \cup (Nat \ {0})
NoHeads == [b \in Branches |-> None]
HeadMap == [Branches -> Id \cup {None}]

(* closure(id, 𝒰); a branch that is not there has nothing in it. *)
ClosureOf(i) ==
    IF i = None THEN {} ELSE IF i \in Claims THEN ReachFrom[i] ELSE folds[i]

(* The table a diff over t that restates new carries. *)
Overlay(old, new) == [b \in Branches |-> IF new[b] = None THEN old[b] ELSE new[b]]

TableAt(t) == IF t = 0 THEN NoHeads ELSE tables[t].heads

BranchClosure(t, b) == ClosureOf(TableAt(t)[b])
ArchiveClosure(t) == UNION {BranchClosure(t, b) : b \in Branches}

Latest == IF marks = <<>> THEN 0 ELSE Last(marks)

NextIndex == IF cursor = 0 THEN Len(marks) + 1 ELSE cursor + 1

PutMark(i, t) ==
    marks' = IF i > Len(marks) THEN Append(marks, t) ELSE [marks EXCEPT ![i] = t]

(* mintBranchTable: a diff over s.head, stored in 𝒰. *)
Minted(prev, old, new) == [prev |-> prev, heads |-> Overlay(old, new)]

Fault(kind) ==
    /\ kind \in Faults
    /\ faults < MaxFaults
    /\ faults' = faults + 1
    /\ UNCHANGED crashes

NoContribution ==
    [base |-> 0, scope |-> "branch", staged |-> [b \in Branches |-> {}], heads |-> NoHeads]

Named(w) == {b \in Branches : contribution[w].staged[b] # {}}

Init ==
    /\ stored = {} /\ folds = <<>> /\ tables = <<>> /\ marks = <<>>
    /\ process = "down" /\ head = 0 /\ heads = NoHeads /\ cursor = 0
    /\ pc = [w \in Writers |-> "idle"]
    /\ contribution = [w \in Writers |-> NoContribution]
    /\ receipt = [w \in Writers |-> 0]
    /\ acked = {}
    /\ faults = 0 /\ crashes = 0 /\ opened = 0 /\ merges = 0

-----------------------------------------------------------------------------
(* Opening the list, losing the process, founding the archive.             *)

(* Mutant: adopt takes the head alone. *)
NewSequencerHeadless ==
    /\ process = "down"
    /\ process' = "up"
    /\ head' = Latest
    /\ heads' = NoHeads
    /\ UNCHANGED <<durable, cursor, writers, acked, bounds>>

(* NewSequencer and adopt. *)
NewSequencer ==
    /\ process = "down"
    /\ process' = "up"
    /\ head' = Latest
    /\ heads' = TableAt(Latest)
    /\ UNCHANGED <<durable, cursor, writers, acked, bounds>>

(* The process dies: 𝒰 and the bookmark list stay, nothing else does. *)
Crash ==
    /\ process \in {"up", "dying"}
    /\ crashes < MaxCrashes
    /\ crashes' = crashes + 1
    /\ process' = "down" /\ head' = 0 /\ heads' = NoHeads /\ cursor' = 0
    /\ pc' = [w \in Writers |-> "idle"]
    /\ contribution' = [w \in Writers |-> NoContribution]
    /\ receipt' = [w \in Writers |-> 0]
    /\ UNCHANGED <<durable, acked, faults, opened, merges>>

(* It dies under the lock, which nobody else gets any more: Crash is next   *)
(* for everything that needs it.                                            *)
DiesLocked ==
    /\ crashes < MaxCrashes
    /\ process' = "dying"
    /\ UNCHANGED <<head, heads, cursor, writers, acked, faults, crashes>>

(* k0 carries no branch; k1 binds b to the operator and is bookmarked. *)
GenesisTables(b) ==
    LET k1 == [NoHeads EXCEPT ![b] = Operator]
    IN  <<Minted(0, NoHeads, NoHeads), Minted(Len(tables) + 1, NoHeads, k1)>>

(* Found's writes before stop; the contributor may be in when k0 fails. *)
FoundWrites(b, stop) ==
    /\ \/ stop = "foundStore" /\ stored' = stored
       \/ stored' = stored \cup {Operator}
    /\ tables' = CASE stop = "foundStore" -> tables
                   [] stop = "foundTable" -> Append(tables, GenesisTables(b)[1])
                   [] OTHER -> tables \o GenesisTables(b)
    /\ IF stop \in {"foundStore", "foundTable", "foundMark"}
       THEN UNCHANGED marks
       ELSE PutMark(NextIndex, Len(tables) + 2)
    /\ UNCHANGED folds

MayFound == process = "up" /\ head = 0

Found(b) ==
    /\ MayFound
    /\ FoundWrites(b, "done")
    /\ head' = Len(tables) + 2
    /\ heads' = [heads EXCEPT ![b] = Operator]
    /\ cursor' = NextIndex
    /\ UNCHANGED <<process, writers, acked, bounds>>

(* Found returns an error.  s.head and s.heads were assigned before k1 was  *)
(* minted, and keep what they were assigned.                                *)
FoundFails(b, stop) ==
    /\ MayFound
    /\ Fault(stop)
    /\ FoundWrites(b, stop)
    /\ head' = CASE stop = "foundStore" -> head
                 [] stop = "foundTag" -> Len(tables) + 2
                 [] OTHER -> Len(tables) + 1
    /\ heads' = IF stop = "foundStore" THEN heads ELSE [heads EXCEPT ![b] = Operator]
    /\ cursor' = IF stop = "foundTag" THEN NextIndex ELSE cursor
    /\ UNCHANGED <<process, writers, acked, opened, merges>>

FoundDies(b, stop) ==
    /\ MayFound
    /\ FoundWrites(b, stop)
    /\ DiesLocked
    /\ UNCHANGED <<opened, merges>>

-----------------------------------------------------------------------------
(* Steps 1 to 5: a contribution, outside of the lock.                      *)

NewContribution(w, scope) ==
    /\ process = "up" /\ head # 0
    /\ pc[w] = "idle"
    /\ opened < MaxOpened
    /\ opened' = opened + 1
    /\ pc' = [pc EXCEPT ![w] = "open"]
    /\ contribution' = [contribution EXCEPT ![w] =
                            [NoContribution EXCEPT !.base = head, !.scope = scope]]
    /\ UNCHANGED <<durable, memory, receipt, acked, faults, crashes, merges>>

(* The caller stages in dependency order, references first. *)
AddClaims(w, b, S) ==
    /\ pc[w] = "open"
    /\ S \cap Inadmissible = {}
    /\ \A c \in contribution[w].staged[b] : Refs[c] \cap S = {}
    /\ contribution' = [contribution EXCEPT ![w].staged[b] = @ \cup S]
    /\ UNCHANGED <<durable, memory, pc, receipt, acked, bounds>>

(* AdmitBranch: the base carries the branch, or it may be created. *)
AdmitBranch(w, b) ==
    TableAt(contribution[w].base)[b] # None \/ b \in Creatable

Readable(w, b) ==
    IF contribution[w].scope = "archive"
    THEN ArchiveClosure(contribution[w].base)
    ELSE BranchClosure(contribution[w].base, b)

(* AdmitReferences: what the branch's claims cite lies in a readable scope. *)
AdmitReferences(w, b) ==
    LET own == contribution[w].staged[b]
    IN  \/ contribution[w].scope = "universe"
        \/ (UNION {Refs[c] : c \in own}) \ own \subseteq Readable(w, b)

(* g.Verify() with no trust: the whole closure is there and keeps the rules. *)
Verifies(w, b) ==
    LET checked == Reach(contribution[w].staged[b])
    IN  /\ checked \subseteq stored \cup contribution[w].staged[b]
        /\ checked \cap Rejected = {}

CompletesBranch(w, b) ==
    /\ AdmitBranch(w, b)
    /\ AdmitReferences(w, b)
    /\ Verifies(w, b)

(* CompleteAndVerify, one branch of it: stage in 𝒰, admit, verify, and fold *)
(* the open heads into one.  The last branch seals the contribution.        *)
CompleteBranch(w, b) ==
    LET roots == Roots(contribution[w].staged[b])
        fold == Len(folds) + 1
        newHead == IF \E r \in roots : roots = {r} THEN CHOOSE r \in roots : TRUE ELSE fold
    IN  /\ pc[w] \in {"open", "completing"}
        /\ b \in Named(w)
        /\ contribution[w].heads[b] = None
        /\ Len(folds) < MaxFolds
        /\ CompletesBranch(w, b)
        /\ stored' = stored \cup contribution[w].staged[b]
        /\ folds' = IF newHead = fold THEN Append(folds, {fold} \cup Reach(roots)) ELSE folds
        /\ contribution' = [contribution EXCEPT ![w].heads[b] = newHead]
        /\ pc' = [pc EXCEPT ![w] =
                    IF \A n \in Named(w) \ {b} : contribution[w].heads[n] # None
                    THEN "sealed" ELSE "completing"]
        /\ UNCHANGED <<tables, marks, memory, receipt, acked, bounds>>

(* CompleteAndVerify returns an error: the claims it staged are in 𝒰, the   *)
(* contribution stays unsealed.                                             *)
RefuseBranch(w, b) ==
    /\ pc[w] \in {"open", "completing"}
    /\ b \in Named(w)
    /\ contribution[w].heads[b] = None
    /\ \/ ~CompletesBranch(w, b) /\ UNCHANGED bounds
       \/ Fault("verify") /\ UNCHANGED <<opened, merges>>
    /\ stored' = stored \cup contribution[w].staged[b]
    /\ contribution' = [contribution EXCEPT ![w].heads = NoHeads]
    /\ pc' = [pc EXCEPT ![w] = "open"]
    /\ UNCHANGED <<folds, tables, marks, memory, receipt, acked>>

(* Step 5: every claim and every head the contribution names reads back. *)
Persist(w) ==
    /\ pc[w] = "sealed"
    /\ \A b \in Named(w) :
          /\ contribution[w].staged[b] \subseteq stored
          /\ contribution[w].heads[b] \in stored \cup 1..Len(folds)
    /\ pc' = [pc EXCEPT ![w] = "mergable"]
    /\ UNCHANGED <<durable, memory, contribution, receipt, acked, bounds>>

(* The caller drops a contribution it holds, merged or not. *)
Drop(w) ==
    /\ pc[w] \in {"open", "sealed", "mergable"}
    /\ pc' = [pc EXCEPT ![w] = "idle"]
    /\ contribution' = [contribution EXCEPT ![w] = NoContribution]
    /\ receipt' = [receipt EXCEPT ![w] = 0]
    /\ UNCHANGED <<durable, memory, acked, bounds>>

-----------------------------------------------------------------------------
(* Steps 6 and 7: Merge, under the lock.                                   *)

(* Mutant: what is in 𝒰 at all counts as held. *)
FreshUnstored(w, b) == ({contribution[w].heads[b]} \ {None}) \ stored

(* The head w brings to b, unless the branch already reaches it. *)
Fresh(w, b) == ({contribution[w].heads[b]} \ {None}) \ ClosureOf(heads[b])

Advanced(w) == {b \in Named(w) : Fresh(w, b) # {}}

(* Mutant: the branch's own head is replaced, not folded in. *)
HeadSetReplacing(w, b) == Fresh(w, b)

(* ... and the branch's own head, unless the new one reaches it. *)
HeadSet(w, b) ==
    LET reached == UNION {ClosureOf(h) : h \in Fresh(w, b)}
    IN  Fresh(w, b) \cup ({heads[b]} \ (reached \cup {None}))

(* The branches that take a consolidating head claim, in the order minted. *)
Folded(w) == SetToSeq({b \in Advanced(w) : Cardinality(HeadSet(w, b)) > 1})

NewFolds(w) ==
    [i \in DOMAIN Folded(w) |->
        {Len(folds) + i} \cup UNION {ClosureOf(h) : h \in HeadSet(w, Folded(w)[i])}]

NewHeads(w) ==
    [b \in Branches |->
        IF b \notin Advanced(w) THEN None
        ELSE IF \E i \in DOMAIN Folded(w) : Folded(w)[i] = b
        THEN Len(folds) + CHOOSE i \in DOMAIN Folded(w) : Folded(w)[i] = b
        ELSE CHOOSE h \in HeadSet(w, b) : TRUE]

MayMerge(w) ==
    /\ process = "up" /\ head # 0
    /\ pc[w] = "mergable"
    /\ merges < MaxMerges
    /\ merges' = merges + 1
    /\ UNCHANGED opened

(* The writes of a merge before stop: head claims, one branch at a time,    *)
(* table, bookmark.                                                         *)
MergeWrites(w, stop) ==
    /\ \E n \in 0..Len(NewFolds(w)) :
          /\ stop # "fold" => n = Len(NewFolds(w))
          /\ folds' = folds \o SubSeq(NewFolds(w), 1, n)
    /\ tables' = IF stop \in {"fold", "table"} THEN tables
                 ELSE Append(tables, Minted(head, TableAt(head), NewHeads(w)))
    /\ IF stop \in {"fold", "table", "mark"} THEN UNCHANGED marks
       ELSE PutMark(NextIndex, Len(tables) + 1)
    /\ UNCHANGED stored

(* A merge that moves no branch ends before the table; its closure tests    *)
(* can fail like any other's.                                               *)
Reaches(w, stop) == stop = "fold" \/ Advanced(w) # {}

(* No branch moved: "the caller asked for a state that already holds". *)
MergeNothing(w) ==
    /\ MayMerge(w)
    /\ Advanced(w) = {}
    /\ receipt' = [receipt EXCEPT ![w] = head]
    /\ pc' = [pc EXCEPT ![w] = "returning"]
    /\ UNCHANGED <<durable, memory, contribution, acked, faults, crashes>>

Merge(w) ==
    /\ MayMerge(w)
    /\ Advanced(w) # {}
    /\ MergeWrites(w, "done")
    /\ heads' = Overlay(heads, NewHeads(w))
    /\ head' = Len(tables) + 1
    /\ cursor' = NextIndex
    /\ receipt' = [receipt EXCEPT ![w] = head']
    /\ pc' = [pc EXCEPT ![w] = "returning"]
    /\ UNCHANGED <<process, contribution, acked, faults, crashes>>

(* The caller has its receipt, and may merge the same contribution again. *)
Return(w) ==
    /\ pc[w] = "returning"
    /\ pc' = [pc EXCEPT ![w] = "mergable"]
    /\ acked' = acked \cup {p \in Branches \X Claims : p[2] \in contribution[w].staged[p[1]]}
    /\ UNCHANGED <<durable, memory, contribution, receipt, bounds>>

(* Merge returns an error.  s.heads was assigned before the table was       *)
(* minted, and keeps what it was assigned; s.head follows the bookmark.     *)
MergeFails(w, stop) ==
    /\ MayMerge(w)
    /\ Reaches(w, stop)
    /\ Fault(stop)
    /\ MergeWrites(w, stop)
    /\ heads' = IF stop = "fold" THEN heads ELSE Overlay(heads, NewHeads(w))
    /\ head' = IF stop = "tag" THEN Len(tables) + 1 ELSE head
    /\ cursor' = IF stop = "tag" THEN NextIndex ELSE cursor
    /\ receipt' = [receipt EXCEPT ![w] = 0]
    /\ UNCHANGED <<process, pc, contribution, acked>>

MergeDies(w, stop) ==
    /\ MayMerge(w)
    /\ Reaches(w, stop)
    /\ MergeWrites(w, stop)
    /\ DiesLocked

-----------------------------------------------------------------------------
Founding ==
    \E b \in Branches :
        \/ Found(b)
        \/ \E stop \in FoundFaults : FoundFails(b, stop) \/ FoundDies(b, stop)

Contribute(w) ==
    \/ \E scope \in Scopes : NewContribution(w, scope)
    \/ \E b \in Branches, S \in Batches : AddClaims(w, b, S)
    \/ \E b \in Branches : CompleteBranch(w, b) \/ RefuseBranch(w, b)
    \/ Persist(w)
    \/ Drop(w)

Commit(w) ==
    \/ MergeNothing(w)
    \/ Merge(w)
    \/ Return(w)
    \/ \E stop \in MergeFaults : MergeFails(w, stop) \/ MergeDies(w, stop)

Next ==
    \/ NewSequencer
    \/ Crash
    \/ Founding
    \/ \E w \in Writers : Contribute(w) \/ Commit(w)

Spec == Init /\ [][Next]_vars

-----------------------------------------------------------------------------
(* Properties.                                                             *)

(* The fields of the Sequencer and its contributions hold values of their   *)
(* Go types.                                                                *)
TypeOK ==
    /\ stored \subseteq Claims
    /\ folds \in Seq(SUBSET Id)
    /\ tables \in Seq([prev : Nat, heads : HeadMap])
    /\ marks \in Seq(Nat)
    /\ process \in {"up", "dying", "down"}
    /\ head \in Nat /\ heads \in HeadMap /\ cursor \in Nat
    /\ pc \in [Writers -> {"idle", "open", "completing", "sealed", "mergable", "returning"}]
    /\ contribution \in [Writers -> [base : Nat, scope : ReadScopes,
                                     staged : [Branches -> SUBSET Claims], heads : HeadMap]]
    /\ receipt \in [Writers -> Nat]
    /\ acked \subseteq Branches \X Claims
    /\ {faults, crashes, opened, merges} \subseteq Nat

(* A claim Merge returned a receipt for is on its branch in the archive the *)
(* newest bookmark records, through crashes inside of a later merge.        *)
NoLostContribution ==
    \A p \in acked : p[2] \in BranchClosure(Latest, p[1])

(* The head a receipt carries is an archive that holds the contribution:    *)
(* "the caller asked for a state that already holds" (Merge).               *)
ReceiptHolds ==
    \A w \in Writers : receipt[w] # 0 =>
        \A b \in Branches : contribution[w].staged[b] \subseteq BranchClosure(receipt[w], b)

(* The list is the spine: each bookmarked table is a diff over the one      *)
(* bookmarked before it, and the Sequencer stands at the newest.            *)
ListIsSpine ==
    /\ \A i \in 2..Len(marks) : tables[marks[i]].prev = marks[i - 1]
    /\ process = "up" => head = Latest

Log == INSTANCE ArchiveLog WITH
    content  <- [b \in Branches |-> BranchClosure(Latest, b) \cap Claims],
    offer    <- [w \in Writers |->
                   IF pc[w] \in {"mergable", "returning"} THEN contribution[w].staged
                   ELSE [b \in Branches |-> {}]],
    receipts <- acked

(* A merge is what the concurrent Sequencer's is: whole contributions enter *)
(* the archive at the bookmark write, and a receipt says they are in.       *)
RefinesArchiveLog == Log!Spec
=============================================================================
