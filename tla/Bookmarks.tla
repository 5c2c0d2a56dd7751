------------------------------ MODULE Bookmarks ------------------------------
(***************************************************************************)
(* One bookmark list and the cursors over it (bookmarks.go): the writer's  *)
(* Append at the next free index, and the doubling and bisecting searches  *)
(* that find the list's range from any one of its entries.                 *)
(*                                                                         *)
(* Every Get of a slot is a step of its own, so a search runs while the    *)
(* writer appends and while old entries are pruned.  A slot whose record   *)
(* keys another (V-BMSLOT) is absent to a search and so is not modelled.   *)
(***************************************************************************)
EXTENDS Integers, FiniteSetsExt

CONSTANTS
    Writer,         \* the one cursor that appends
    GapProbe,       \* gapProbe
    RestingLists,   \* the lists that are only read, by the indices that hold an entry
    Calls,          \* the <<client, method>> pairs called on a list that is written,
    RestingCalls,   \*   and on one at rest
    MaxIndex,       \* bound: the highest index written
    MaxPuts,        \* bound: bookmark records written or tried
    MaxFaults,      \* bound: Gets and Puts that fail
    MayPrune        \* whether old entries are pruned out of band

ASSUME BookmarksAssumption ==
    /\ GapProbe \in Nat /\ MaxIndex \in Nat /\ MaxPuts \in Nat /\ MaxFaults \in Nat
    /\ RestingLists \subseteq SUBSET (0..MaxIndex)
    /\ \A c \in Calls \cup RestingCalls :
          /\ c[2] \in {"append", "latest", "len", "verify"}
          /\ c[2] = "append" => c[1] = Writer
    /\ MayPrune \in BOOLEAN

VARIABLES
    live,       \* the list is written; otherwise it is one of RestingLists
    slots,      \* slots[i]: the head recorded at index i, 0 for an empty slot
    puts,       \* the n-th record tried carries head n
    acked,      \* <<index, head>> pairs Append returned, until they are pruned
    faults,     \* Gets and Puts that have failed
    cursor,     \* the Bookmarks value each client holds
    call,       \* the method it is in, the list as it began, the locals of the search
    result      \* what the last call returned

vars == <<live, slots, puts, acked, faults, cursor, call, result>>

Clients == {c[1] : c \in Calls \cup RestingCalls}
Indices == 0..MaxIndex

Occupied == {i \in Indices : slots[i] # 0}
Lowest == IF Occupied = {} THEN 0 ELSE Min(Occupied)
Top == IF Occupied = {} THEN -1 ELSE Max(Occupied)

(* fetchAt's ok: there is no slot below 0, and none written above MaxIndex. *)
Present(i) == i \in Occupied

NoCursor == [open |-> FALSE, entry |-> 0, anchored |-> FALSE, lo |-> 0, hi |-> -1,
             wrote |-> FALSE, loaded |-> FALSE]
NoCall == [op |-> "none", stage |-> "idle", hit |-> 0, miss |-> -1, step |-> 1,
           lo |-> 0, at |-> 0, begun |-> [lo |-> 0, hi |-> -1]]
NoResult == [status |-> "none", op |-> "none"]

Init ==
    /\ live \in BOOLEAN
    /\ \E L \in IF live THEN {{}} ELSE RestingLists :
          /\ slots = [i \in Indices |-> IF i \in L THEN 1 ELSE 0]
          /\ acked = {<<i, 1>> : i \in L}
    /\ puts = 1
    /\ faults = 0
    /\ cursor = [p \in Clients |-> NoCursor]
    /\ call = [p \in Clients |-> NoCall]
    /\ result = [p \in Clients |-> NoResult]

-----------------------------------------------------------------------------
(* Calls.                                                                  *)

Idle(p) == call[p].stage = "idle"

Begin(p, op, stage) ==
    /\ call' = [call EXCEPT ![p] = [NoCall EXCEPT !.op = op, !.stage = stage,
                                        !.at = cursor'[p].lo, !.begun = [lo |-> Lowest, hi |-> Top]]]
    /\ result' = [result EXCEPT ![p] = NoResult]

End(p, status) ==
    /\ call' = [call EXCEPT ![p] = NoCall]
    /\ result' = [result EXCEPT ![p] = [status |-> status, op |-> call[p].op]]

(* An error: no cursor comes out of an OpenBookmarks that fails. *)
Refuse(p, status) ==
    /\ End(p, status)
    /\ cursor' = [cursor EXCEPT ![p] = IF call[p].op = "open" THEN NoCursor ELSE @]

(* The writer opens the list that is written. *)
Opens(p) == p = Writer => live

(* Locator Seed: a list that starts at index 0 and is never pruned.  No I/O. *)
NewBookmarks(p) ==
    /\ ~cursor[p].open /\ Idle(p) /\ Opens(p)
    /\ Occupied = {} \/ 0 \in Occupied
    /\ cursor' = [cursor EXCEPT ![p] = [NoCursor EXCEPT !.open = TRUE]]
    /\ UNCHANGED <<slots, puts, acked, faults, call, result>>

(* Locator At: the entry named yields the seed, and its index the start of  *)
(* the searches; the range is settled before a cursor is handed out.        *)
OpenBookmarks(p, i) ==
    /\ ~cursor[p].open /\ Idle(p) /\ Opens(p)
    /\ Present(i)
    /\ cursor' = [cursor EXCEPT ![p] =
                    [NoCursor EXCEPT !.open = TRUE, !.entry = i, !.anchored = TRUE]]
    /\ Begin(p, "open", "entry")
    /\ UNCHANGED <<slots, puts, acked, faults>>

(* Append, Latest, Len and Verify begin with bounds; a cursor that wrote    *)
(* the top answers bounds, Latest and Len itself.                           *)
Call(p, op) ==
    /\ cursor[p].open /\ Idle(p)
    /\ op = "append" => puts < MaxPuts
    /\ UNCHANGED cursor
    /\ Begin(p, op, IF cursor[p].wrote THEN op ELSE "entry")
    /\ UNCHANGED <<slots, puts, acked, faults>>

(* The client lets go of its cursor, or dies with it, in a call or not. *)
Close(p) ==
    /\ cursor[p].open
    /\ cursor' = [cursor EXCEPT ![p] = NoCursor]
    /\ call' = [call EXCEPT ![p] = NoCall]
    /\ result' = [result EXCEPT ![p] = NoResult]
    /\ UNCHANGED <<slots, puts, acked, faults>>

-----------------------------------------------------------------------------
(* bounds: one Get per step.                                               *)

At(p, stage) == call[p].stage = stage
Unwritten == UNCHANGED <<slots, puts, acked, faults>>
Goes(p, c) == call' = [call EXCEPT ![p] = c] /\ UNCHANGED <<cursor, result>>

(* bounds has lo and hi: the cursor keeps them, and the call goes on. *)
Settle(p, lo, hi) ==
    /\ cursor' = [cursor EXCEPT ![p].lo = lo, ![p].hi = hi,
                                ![p].loaded = @ \/ hi >= 0]
    /\ IF call[p].op = "open" \/ (call[p].op = "latest" /\ hi < 0)
       THEN End(p, "ok")
       ELSE /\ call' = [call EXCEPT ![p] =
                    [NoCall EXCEPT !.op = call[p].op, !.stage = call[p].op, !.at = lo,
                                   !.begun = call[p].begun]]
            /\ UNCHANGED result

(* ascend is through: an initial load still looks above the top. *)
FoundTop(p, c, hi) ==
    IF cursor[p].loaded \/ GapProbe = 0
    THEN Settle(p, c.lo, hi)
    ELSE Goes(p, [c EXCEPT !.stage = "probe", !.hit = hi, !.at = hi + 2])

(* descend is through, with the lowest index. *)
FoundLowest(p, lo) ==
    Goes(p, [call[p] EXCEPT !.stage = "ascend", !.lo = lo, !.hit = cursor[p].entry, !.step = 1])

ProbeBelow(p) == Max({cursor[p].entry - call[p].step, 0})
ProbeAbove(p) == cursor[p].entry + call[p].step

(* Mutant: the bisection stops one slot early. *)
ApartEarly(below, above) == below + 2 < above

(* There are slots left between a hit and a miss: the bisection goes on. *)
Apart(below, above) == below + 1 < above

(* The entry the searches start from.  An unanchored list without one is    *)
(* empty, an anchored one has lost its way in.                              *)
FetchEntry(p) ==
    /\ At(p, "entry")
    /\ LET e == cursor[p].entry
       IN  IF Present(e)
           THEN IF e = 0
                THEN FoundLowest(p, 0)
                ELSE Goes(p, [call[p] EXCEPT !.stage = "descend", !.hit = e])
           ELSE IF cursor[p].anchored
                THEN Refuse(p, "gone")
                ELSE Settle(p, 0, -1)
    /\ Unwritten

(* descend's doubling: a probe that hits goes on below it. *)
Descend(p) ==
    /\ At(p, "descend")
    /\ LET c == call[p]
           probe == ProbeBelow(p)
       IN  IF Present(probe)
           THEN IF probe = 0
                THEN FoundLowest(p, 0)
                ELSE Goes(p, [c EXCEPT !.hit = probe, !.step = 2 * @])
           ELSE IF Apart(probe, c.hit)
                THEN Goes(p, [c EXCEPT !.stage = "bisectDown", !.miss = probe])
                ELSE FoundLowest(p, c.hit)
    /\ Unwritten

BisectDown(p) ==
    /\ At(p, "bisectDown")
    /\ LET c == call[p]
           mid == c.miss + (c.hit - c.miss) \div 2
           hit == IF Present(mid) THEN mid ELSE c.hit
           miss == IF Present(mid) THEN c.miss ELSE mid
       IN  IF Apart(miss, hit)
           THEN Goes(p, [c EXCEPT !.hit = hit, !.miss = miss])
           ELSE FoundLowest(p, hit)
    /\ Unwritten

(* ascend's doubling: a probe that hits goes on above it. *)
Ascend(p) ==
    /\ At(p, "ascend")
    /\ LET c == call[p]
           probe == ProbeAbove(p)
       IN  IF Present(probe)
           THEN Goes(p, [c EXCEPT !.hit = probe, !.step = 2 * @])
           ELSE IF Apart(c.hit, probe)
                THEN Goes(p, [c EXCEPT !.stage = "bisectUp", !.miss = probe])
                ELSE FoundTop(p, c, c.hit)
    /\ Unwritten

BisectUp(p) ==
    /\ At(p, "bisectUp")
    /\ LET c == call[p]
           mid == c.hit + (c.miss - c.hit) \div 2
           hit == IF Present(mid) THEN mid ELSE c.hit
           miss == IF Present(mid) THEN c.miss ELSE mid
       IN  IF Apart(hit, miss)
           THEN Goes(p, [c EXCEPT !.hit = hit, !.miss = miss])
           ELSE FoundTop(p, c, hit)
    /\ Unwritten

(* Mutant: the probe stops one slot short. *)
LastProbeShort(hi) == hi + GapProbe

LastProbe(hi) == hi + 1 + GapProbe

(* probeGap: an entry up to GapProbe above the free slot means a gap. *)
ProbeGap(p) ==
    /\ At(p, "probe")
    /\ LET c == call[p]
       IN  IF Present(c.at)
           THEN Refuse(p, "gap")
           ELSE IF c.at < LastProbe(c.hit)
                THEN Goes(p, [c EXCEPT !.at = @ + 1])
                ELSE Settle(p, c.lo, c.hit)
    /\ Unwritten

(* A Get fails, or the record there is damaged: the call returns the error. *)
FetchFails(p) ==
    /\ faults < MaxFaults
    /\ faults' = faults + 1
    /\ ~Idle(p) /\ ~At(p, "append")
    /\ Refuse(p, "error")
    /\ UNCHANGED <<slots, puts, acked>>

-----------------------------------------------------------------------------
(* What the methods do with the range.                                     *)

(* Mutant: the slot of the top itself. *)
NextIndexTop(p) == IF cursor[p].hi < 0 THEN 0 ELSE cursor[p].hi

(* Mutant: a slot is left free. *)
NextIndexSkipping(p) == cursor[p].hi + 2

NextIndex(p) == cursor[p].hi + 1

(* Append's Put, one past the settled top.  A Put that fails may have       *)
(* landed nevertheless; the cursor moves only with one that reports success.*)
Append(p) ==
    /\ At(p, "append")
    /\ NextIndex(p) \in Indices /\ puts < MaxPuts
    /\ puts' = puts + 1
    /\ \/ /\ slots' = [slots EXCEPT ![NextIndex(p)] = puts + 1]
          /\ cursor' = [cursor EXCEPT ![p].lo = Min({@, NextIndex(p)}), ![p].hi = NextIndex(p),
                           ![p].wrote = TRUE, ![p].loaded = TRUE]
          /\ acked' = acked \cup {<<NextIndex(p), puts + 1>>}
          /\ End(p, "ok")
          /\ UNCHANGED faults
       \/ /\ faults < MaxFaults
          /\ faults' = faults + 1
          /\ slots' \in {slots, [slots EXCEPT ![NextIndex(p)] = puts + 1]}
          /\ Refuse(p, "error")
          /\ UNCHANGED acked

(* Latest reads the entry at the top the search found, unless this cursor   *)
(* wrote it.                                                                *)
Latest(p) ==
    /\ At(p, "latest")
    /\ IF cursor[p].wrote \/ Present(cursor[p].hi)
       THEN End(p, "ok") /\ UNCHANGED cursor
       ELSE Refuse(p, "gone")
    /\ Unwritten

(* Len after its bounds. *)
Length(p) ==
    /\ At(p, "len")
    /\ End(p, "ok")
    /\ UNCHANGED cursor
    /\ Unwritten

(* Mutant: a missing entry is passed over. *)
VerifyLenient(p) ==
    /\ At(p, "verify")
    /\ IF call[p].at > cursor[p].hi
       THEN End(p, "ok") /\ UNCHANGED cursor
       ELSE Goes(p, [call[p] EXCEPT !.at = @ + 1])
    /\ Unwritten

(* Verify walks the whole range; each k it reads was in 𝒰 before its        *)
(* bookmark was, so V-BMREF never fails here.                               *)
Verify(p) ==
    /\ At(p, "verify")
    /\ LET c == call[p]
       IN  IF c.at > cursor[p].hi
           THEN End(p, "ok") /\ UNCHANGED cursor
           ELSE IF Present(c.at)
                THEN Goes(p, [c EXCEPT !.at = @ + 1])
                ELSE Refuse(p, "gap")
    /\ Unwritten

(* Pruning, out of band and from the front: a list opened by its seed is    *)
(* never pruned, and no entry a running search started from is.             *)
Prune(n) ==
    /\ MayPrune /\ live
    /\ n \in Occupied \ {Lowest}
    /\ \A p \in Clients : /\ cursor[p].open => cursor[p].anchored
                          /\ ~Idle(p) => n <= cursor[p].entry
    /\ slots' = [i \in Indices |-> IF i < n THEN 0 ELSE slots[i]]
    /\ acked' = {a \in acked : a[1] >= n}
    /\ UNCHANGED <<puts, faults, cursor, call, result>>

Bounds(p) ==
    \/ FetchEntry(p)
    \/ Descend(p)
    \/ BisectDown(p)
    \/ Ascend(p)
    \/ BisectUp(p)
    \/ ProbeGap(p)
    \/ FetchFails(p)

Next ==
    /\ \/ \E p \in Clients :
             \/ NewBookmarks(p)
             \/ \E i \in Indices : OpenBookmarks(p, i)
             \/ \E op \in {c[2] : c \in {x \in IF live THEN Calls ELSE RestingCalls : x[1] = p}} : Call(p, op)
             \/ Bounds(p)
             \/ Append(p)
             \/ Latest(p)
             \/ Length(p)
             \/ Verify(p)
             \/ Close(p)
       \/ \E n \in Indices : Prune(n)
    /\ UNCHANGED live

Spec == Init /\ [][Next]_vars

-----------------------------------------------------------------------------
(* Properties.                                                             *)

Statuses == {"none", "ok", "gap", "gone", "error"}
Stages == {"idle", "entry", "descend", "bisectDown", "ascend", "bisectUp", "probe",
           "append", "latest", "len", "verify"}
Ops == {"none", "open", "append", "latest", "len", "verify"}

(* The fields of the cursors and the locals of the searches are integers of *)
(* the list's range; hi is -1 for an empty list.                            *)
TypeOK ==
    /\ live \in BOOLEAN
    /\ slots \in [Indices -> 0..MaxPuts + 1]
    /\ puts \in Nat /\ faults \in Nat
    /\ acked \subseteq Indices \X Nat
    /\ cursor \in [Clients -> [open : BOOLEAN, entry : Indices, anchored : BOOLEAN,
                               lo : Indices, hi : Indices \cup {-1},
                               wrote : BOOLEAN, loaded : BOOLEAN]]
    /\ call \in [Clients -> [op : Ops, stage : Stages, hit : Indices, miss : Nat \cup {-1},
                             step : Nat, lo : Indices, at : 0..MaxIndex + 1 + GapProbe,
                             begun : [lo : Indices, hi : Indices \cup {-1}]]]
    /\ result \in [Clients -> [status : Statuses, op : Ops]]

(* A call of p succeeds in this step. *)
Returns(p) == ~Idle(p) /\ Idle(p)' /\ result'[p].status = "ok"

(* A search that ran while the list grew and was pruned answers with a      *)
(* range the list had during the search: its top is no older than the top   *)
(* at the call, its bottom no lower than the bottom then (bounds).          *)
SettledRange ==
    [][\A p \in Clients :
        live /\ Returns(p) /\ ~cursor[p].wrote =>
            /\ call[p].begun.hi <= cursor'[p].hi /\ cursor'[p].hi <= Top'
            /\ call[p].begun.lo <= cursor'[p].lo /\ cursor'[p].lo <= Lowest']_vars

(* The list stays gapless (R-C7BOOKMARK, V-BMGAPLESS) whatever fails, dies  *)
(* or is pruned: Append's index is one past the top.                        *)
Gapless == live => Occupied = Lowest..Top

(* An entry Append reported as written is never overwritten, although the   *)
(* writer trusts its own cursor and a failed Put may have landed.           *)
WrittenStays ==
    \A a \in acked : slots[a[1]] = a[2]

(* On a list at rest, gaps or none, a search that succeeds ends between two *)
(* free slots, and an initial load finds every entry within GapProbe of the *)
(* upper one (ascend, descend, probeGap).                                   *)
SearchSettles ==
    \A p \in Clients :
        ~live /\ result[p].status = "ok" /\ cursor[p].hi >= 0 =>
            /\ Present(cursor[p].lo) /\ ~Present(cursor[p].lo - 1)
            /\ Present(cursor[p].hi) /\ ~Present(cursor[p].hi + 1)
            /\ \A i \in Occupied : i > cursor[p].hi => i > cursor[p].hi + 1 + GapProbe

(* On a list at rest Verify accepts exactly the ranges without a gap, the   *)
(* gaps the doubling steps over included (Verify).                          *)
VerifyIsComplete ==
    \A p \in Clients :
        ~live /\ result[p].op = "verify" /\ result[p].status # "error" /\ cursor[p].loaded =>
            (result[p].status = "ok" <=> cursor[p].lo..cursor[p].hi \subseteq Occupied)

(* "an entry stands over a missing index and so falsifies V-BMGAPLESS       *)
(* outright" (probeGap): a gap is reported only of a list that has one.     *)
GapReportTrue == \A p \in Clients : result[p].status = "gap" => Occupied # Lowest..Top
=============================================================================
