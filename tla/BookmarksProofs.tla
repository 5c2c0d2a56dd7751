-------------------------- MODULE BookmarksProofs --------------------------
(***************************************************************************)
(* Proofs about the bookmark list: the list stays gapless and acknowledged *)
(* entries stay put whatever fails, and the searches settle on a range the *)
(* list has, for any number of indices, records, clients and failures.     *)
(***************************************************************************)
EXTENDS Bookmarks, WellFoundedInduction, TLAPS

-----------------------------------------------------------------------------
(* The inductive invariant.                                                *)

Searching == {"entry", "descend", "bisectDown", "ascend", "bisectUp", "probe"}
Settled == {"append", "latest", "len", "verify"}

(* The call of a client and its cursor belong together, and the locals of a *)
(* search are in the order the doubling and the bisection keep them in.     *)
Shape(p) ==
    LET c == call[p]
        k == cursor[p]
    IN  /\ ~k.open => k = NoCursor
        /\ ~Idle(p) => k.open /\ c.op # "none" /\ result[p] = NoResult
        /\ ~k.anchored => k.entry = 0
        /\ k.open /\ p = Writer => live
        /\ k.wrote => p = Writer /\ k.open /\ k.hi >= 0
        /\ c.op = "append" => p = Writer
        /\ c.stage \in Settled => c.op = c.stage
        /\ c.stage \in Searching => ~k.wrote
        /\ c.step >= 1
        /\ c.stage = "descend" => 0 < c.hit /\ c.hit <= k.entry /\ k.entry - c.step < c.hit
        /\ c.stage = "bisectDown" => 0 <= c.miss /\ c.miss + 1 < c.hit /\ c.hit <= k.entry
        /\ c.stage = "ascend" => k.entry <= c.hit /\ c.hit < k.entry + c.step
        /\ c.stage = "bisectUp" => k.entry <= c.hit /\ c.hit + 1 < c.miss
        /\ c.stage = "probe" => /\ k.entry <= c.hit /\ c.hit + 2 <= c.at /\ ~k.loaded
                                /\ GapProbe > 0 /\ c.at <= LastProbe(c.hit)

(* On a list that is written: what a search has seen is bounded by the list *)
(* as it was when the call began and as it is now, and the writer's own     *)
(* cursor is at most one landed but unacknowledged record behind the top.   *)
LiveLocal(p) ==
    LET c == call[p]
        k == cursor[p]
    IN  /\ k.open /\ ~k.anchored => Occupied = {} \/ 0 \in Occupied
        /\ k.open /\ k.anchored => Occupied # {} /\ k.entry <= Top
        /\ k.wrote => /\ Occupied # {} /\ Top \in {k.hi, k.hi + 1}
                      /\ \A a \in acked : a[1] <= k.hi
        /\ ~Idle(p) => /\ c.begun.hi <= Top /\ c.begun.lo <= Lowest
                       /\ c.begun.lo <= c.begun.hi + 1
                       /\ p = Writer => c.begun.hi = Top
        /\ c.stage \in Searching \ {"entry"} => k.entry \in Occupied
        /\ c.stage \in {"descend", "bisectDown"} => c.begun.lo <= c.hit
        /\ c.stage = "bisectDown" => c.miss < Lowest
        /\ c.stage \in {"ascend", "bisectUp", "probe"} =>
              c.begun.lo <= c.lo /\ c.lo <= Lowest /\ c.hit \in Occupied
        /\ c.stage = "bisectUp" => c.begun.hi < c.miss
        /\ c.stage = "probe" => c.begun.hi <= c.hit
        /\ c.stage \in Settled /\ ~k.wrote =>
              /\ c.begun.hi <= k.hi /\ k.hi <= Top
              /\ c.begun.lo <= k.lo /\ k.lo <= Lowest

LiveInv ==
    /\ Gapless
    /\ WrittenStays
    /\ \A a \in acked : a[2] > 0
    /\ live => \A p \in Clients : LiveLocal(p)

(* ascend as a function of what it has found so far: the doubling from e,   *)
(* the bisection, and the top it ends with, in a list that holds O.         *)
UpStep(O, e, x) ==
    LET probe == e + x[3]
        mid == x[2] + (x[3] - x[2]) \div 2
        hit == IF mid \in O THEN mid ELSE x[2]
        miss == IF mid \in O THEN x[3] ELSE mid
    IN  IF x[1] = "ascend"
        THEN IF probe \in O
             THEN <<"ascend", probe, 2 * x[3]>>
             ELSE IF Apart(x[2], probe) THEN <<"bisectUp", x[2], probe>>
                                        ELSE <<"top", x[2], 0>>
        ELSE IF Apart(hit, miss) THEN <<"bisectUp", hit, miss>> ELSE <<"top", hit, 0>>

Config == {"ascend", "bisectUp", "top"} \X Int \X Int
UpClosed(O, e, S) == \A x \in S : x[1] # "top" => UpStep(O, e, x) \in S
Orbit(O, e, x) == {y \in Config : \A S \in SUBSET Config : x \in S /\ UpClosed(O, e, S) => y \in S}
Path(p) == Orbit(Occupied, cursor[p].entry, <<"ascend", cursor[p].entry, 1>>)

Clear(h) == \A i \in Occupied : i > h => i > h + 1 + GapProbe

RangeHolds(p) ==
    cursor[p].hi >= 0 =>
        /\ Present(cursor[p].lo) /\ ~Present(cursor[p].lo - 1)
        /\ Present(cursor[p].hi) /\ ~Present(cursor[p].hi + 1)
        /\ Clear(cursor[p].hi)

(* On a list at rest: hits are occupied and misses free, and every search   *)
(* of a cursor takes the path its first one took.                           *)
RestLocal(p) ==
    LET c == call[p]
        k == cursor[p]
    IN  /\ k.open /\ k.anchored => Present(k.entry)
        /\ c.stage \in {"descend", "bisectDown"} => Present(k.entry) /\ Present(c.hit)
        /\ c.stage = "bisectDown" => ~Present(c.miss)
        /\ c.stage \in {"ascend", "bisectUp", "probe"} =>
              Present(c.lo) /\ ~Present(c.lo - 1) /\ Present(c.hit)
        /\ c.stage = "ascend" => <<"ascend", c.hit, c.step>> \in Path(p)
        /\ c.stage = "bisectUp" => ~Present(c.miss) /\ <<"bisectUp", c.hit, c.miss>> \in Path(p)
        /\ c.stage = "probe" => /\ <<"top", c.hit, 0>> \in Path(p)
                                /\ ~Present(c.hit + 1)
                                /\ \A i \in Occupied : i > c.hit => i >= c.at
        /\ k.loaded => \E h \in Int : <<"top", h, 0>> \in Path(p) /\ Clear(h)
        /\ c.stage \in Settled \/ result[p].status = "ok" => RangeHolds(p)
        /\ c.stage = "verify" => /\ k.lo <= c.at
                                 /\ \A i \in Indices : k.lo <= i /\ i < c.at => Present(i)
        /\ result[p].op = "verify" /\ result[p].status # "error" /\ k.loaded =>
              (result[p].status = "ok" <=> k.lo..k.hi \subseteq Occupied)

RestInv == ~live => \A p \in Clients : RestLocal(p)

ListInv ==
    /\ TypeOK
    /\ \A p \in Clients : Shape(p)
    /\ LiveInv
    /\ RestInv

-----------------------------------------------------------------------------
(* The ends of the list.                                                   *)

CursorType == [open : BOOLEAN, entry : Indices, anchored : BOOLEAN, lo : Indices,
               hi : Indices \cup {-1}, wrote : BOOLEAN, loaded : BOOLEAN]
CallType == [op : Ops, stage : Stages, hit : Indices, miss : Nat \cup {-1}, step : Nat,
             lo : Indices, at : 0..MaxIndex + 1 + GapProbe,
             begun : [lo : Indices, hi : Indices \cup {-1}]]
ResultType == [status : Statuses, op : Ops]

(* A set of natural numbers that has an element has a smallest one. *)
LEMMA SmallestOf ==
    ASSUME NEW S, S \subseteq Nat, S # {}
    PROVE  \E x \in S : \A y \in S : x <= y
<1>1. \E R : /\ IsWellFoundedOn(R, Nat)
             /\ \A x, y \in Nat : x < y => <<x, y>> \in R
  <2>1. IsWellFoundedOn(OpToRel(<, Nat), Nat)
    BY NatLessThanWellFounded
  <2>2. \A x, y \in Nat : x < y => <<x, y>> \in OpToRel(<, Nat)
    BY Zenon DEF OpToRel
  <2> QED BY <2>1, <2>2, Zenon
<1>2. PICK R : /\ IsWellFoundedOn(R, Nat)
               /\ \A x, y \in Nat : x < y => <<x, y>> \in R
  BY <1>1
<1>3. \E x \in S : \A y \in S : ~ (<<y, x>> \in R)
  <2>1. IsWellFoundedOn(R, Nat) /\ S \subseteq Nat /\ S # {}
    BY <1>2
  <2> QED BY <2>1, WFMin, Zenon
<1>4. PICK x \in S : \A y \in S : ~ (<<y, x>> \in R)
  BY <1>3
<1>5. \A y \in S : x \in Nat /\ y \in Nat /\ (y < x => <<y, x>> \in R)
  BY <1>2
<1>6. \A y \in S : x <= y
  <2>1. \A y \in S : ~ (y < x)
    BY <1>4, <1>5, Zenon
  <2>2. x \in Nat /\ \A y \in S : y \in Nat
    OBVIOUS
  <2> QED BY <2>1, <2>2, SMT
<1> QED BY <1>6

(* A set of numbers up to n that has an element has a largest one. *)
LEMMA LargestOf ==
    ASSUME NEW n \in Nat, NEW S, S \subseteq 0..n, S # {}
    PROVE  \E x \in S : \A y \in S : y <= x
<1> DEFINE D == {n - x : x \in S}
<1>1. D \subseteq Nat /\ D # {}
  <2>1. \A x \in S : n - x \in Nat
    OBVIOUS
  <2>2. PICK x \in S : TRUE
    OBVIOUS
  <2>3. n - x \in D
    OBVIOUS
  <2> QED BY <2>1, <2>3
<1>2. PICK d \in D : \A e \in D : d <= e
  BY <1>1, SmallestOf
<1>3. PICK x \in S : d = n - x
  BY <1>2
<1>4. \A y \in S : n - x <= n - y
  BY <1>2, <1>3
<1> QED BY <1>4

(* Lowest and Top are the ends of what is occupied; -1 tops an empty list. *)
EndsHold ==
    /\ Occupied \subseteq Indices /\ Indices \subseteq Nat
    /\ Lowest \in Indices /\ Top \in Indices \cup {-1}
    /\ Occupied = {} => Lowest = 0 /\ Top = -1
    /\ Occupied # {} => Lowest \in Occupied /\ Top \in Occupied /\ Lowest <= Top
    /\ \A i \in Occupied : Lowest <= i /\ i <= Top

LEMMA Ends == TypeOK => EndsHold
<1> SUFFICES ASSUME TypeOK PROVE EndsHold
  OBVIOUS
<1> USE DEF EndsHold
<1>1. Occupied \subseteq Indices /\ Indices \subseteq Nat /\ 0 \in Indices /\ MaxIndex \in Nat
  BY BookmarksAssumption DEF Occupied, Indices
<1>2. CASE Occupied = {}
  BY <1>1, <1>2 DEF Lowest, Top
<1>3. CASE Occupied # {}
  <2>1. \E x \in Occupied : \A y \in Occupied : x <= y
    BY <1>1, <1>3, SmallestOf
  <2>2. \E x \in Occupied : \A y \in Occupied : y <= x
    BY <1>1, <1>3, LargestOf DEF Indices
  <2>3. Lowest \in Occupied /\ \A y \in Occupied : Lowest <= y
    BY <1>1, <1>3, <2>1 DEF Lowest, Min
  <2>4. Top \in Occupied /\ \A y \in Occupied : y <= Top
    <3>1. \E x \in Occupied : \A y \in Occupied : x >= y
      BY <2>2, <1>1
    <3>2. Max(Occupied) \in Occupied /\ \A y \in Occupied : Max(Occupied) >= y
      BY <3>1 DEF Max
    <3> QED BY <1>1, <1>3, <3>2 DEF Top
  <2> QED BY <1>1, <1>3, <2>3, <2>4
<1> QED BY <1>2, <1>3

LEMMA EndsNext == TypeOK' => EndsHold'
  BY Ends, PTL

-----------------------------------------------------------------------------
(* One step of one client.                                                 *)

(* The other clients' cursors and calls are as they were. *)
Others(p) ==
    \A q \in Clients \ {p} :
        cursor'[q] = cursor[q] /\ call'[q] = call[q] /\ result'[q] = result[q]

(* What SettledRange says of p in this step. *)
Honest(p) ==
    live /\ Returns(p) /\ ~cursor[p].wrote =>
        /\ call[p].begun.hi <= cursor'[p].hi /\ cursor'[p].hi <= Top'
        /\ call[p].begun.lo <= cursor'[p].lo /\ cursor'[p].lo <= Lowest'

LEMMA Types ==
    TypeOK => /\ cursor \in [Clients -> CursorType]
              /\ call \in [Clients -> CallType]
              /\ result \in [Clients -> ResultType]
  BY DEF TypeOK, CursorType, CallType, ResultType

(* A step that leaves the list as it is keeps the invariant when it keeps   *)
(* it of the client that takes it.                                          *)
LEMMA Frame ==
    ASSUME ListInv, NEW p \in Clients, Others(p),
           UNCHANGED <<live, slots, puts, acked>>, faults' \in Nat,
           cursor' \in [Clients -> CursorType], call' \in [Clients -> CallType],
           result' \in [Clients -> ResultType],
           Shape(p)', live => LiveLocal(p)', ~live => RestLocal(p)'
    PROVE  ListInv'
<1>1. TypeOK'
  BY DEF ListInv, TypeOK, CursorType, CallType, ResultType
<1>2. Occupied' = Occupied /\ Lowest' = Lowest /\ Top' = Top
  BY DEF Occupied, Lowest, Top
<1>3. \A q \in Clients : Shape(q)'
  <2> SUFFICES ASSUME NEW q \in Clients, q # p PROVE Shape(q)'
    OBVIOUS
  <2>1. Shape(q) /\ cursor'[q] = cursor[q] /\ call'[q] = call[q] /\ result'[q] = result[q]
    BY DEF ListInv, Others
  <2> QED BY <2>1 DEF Shape, Idle
<1>4. LiveInv'
  <2>1. Gapless' /\ WrittenStays' /\ \A a \in acked' : a[2] > 0
    BY <1>2 DEF ListInv, LiveInv, Gapless, WrittenStays
  <2>2. ASSUME live, NEW q \in Clients, q # p PROVE LiveLocal(q)'
    <3>1. LiveLocal(q) /\ cursor'[q] = cursor[q] /\ call'[q] = call[q] /\ result'[q] = result[q]
      BY <2>2 DEF ListInv, LiveInv, Others
    <3> QED BY <3>1, <1>2 DEF LiveLocal, Idle
  <2> QED BY <2>1, <2>2 DEF LiveInv
<1>5. RestInv'
  <2>1. ASSUME ~live, NEW q \in Clients, q # p PROVE RestLocal(q)'
    <3>1. RestLocal(q) /\ cursor'[q] = cursor[q] /\ call'[q] = call[q] /\ result'[q] = result[q]
      BY <2>1 DEF ListInv, RestInv, Others
    <3>2. Path(q)' = Path(q)
      BY <3>1, <1>2 DEF Path
    <3>3. RangeHolds(q)' = RangeHolds(q) /\ \A h : Clear(h)' = Clear(h)
      BY <3>1, <1>2 DEF RangeHolds, Clear, Present
    <3> QED BY <3>1, <3>2, <3>3, <1>2 DEF RestLocal, Present
  <2> QED BY <2>1 DEF RestInv
<1> QED BY <1>1, <1>3, <1>4, <1>5 DEF ListInv

(* A search goes on with other locals. *)
LEMMA GoesEffect ==
    ASSUME TypeOK, NEW p \in Clients, NEW c \in CallType, Goes(p, c), Unwritten, live' = live
    PROVE  /\ Others(p) /\ UNCHANGED <<live, slots, puts, acked>> /\ faults' \in Nat
           /\ cursor' \in [Clients -> CursorType] /\ call' \in [Clients -> CallType]
           /\ result' \in [Clients -> ResultType]
           /\ cursor' = cursor /\ result' = result /\ call'[p] = c
           /\ Occupied' = Occupied /\ Lowest' = Lowest /\ Top' = Top /\ Path(p)' = Path(p)
<1>1. cursor \in [Clients -> CursorType] /\ call \in [Clients -> CallType]
          /\ result \in [Clients -> ResultType]
  BY Types
<1>2. Occupied' = Occupied /\ Lowest' = Lowest /\ Top' = Top
  BY DEF Unwritten, Occupied, Lowest, Top
<1>3. faults' \in Nat
  BY DEF Unwritten, TypeOK
<1>4. cursor' = cursor /\ result' = result /\ call' = [call EXCEPT ![p] = c]
  BY DEF Goes
<1>5. Path(p)' = Path(p)
  BY <1>2, <1>4 DEF Path
<1> QED BY <1>1, <1>2, <1>3, <1>4, <1>5 DEF Others, Unwritten

(* A call ends without an error: a range that was settled stays settled. *)
LEMMA EndInv ==
    ASSUME ListInv, NEW p \in Clients, call[p].stage \in Settled, End(p, "ok"),
           UNCHANGED cursor, Unwritten, live' = live,
           ~live /\ call[p].op = "verify" => cursor[p].lo..cursor[p].hi \subseteq Occupied
    PROVE  ListInv' /\ Honest(p)
<1>1. TypeOK /\ Shape(p)
  BY DEF ListInv
<1>2. cursor \in [Clients -> CursorType] /\ call \in [Clients -> CallType]
          /\ result \in [Clients -> ResultType]
  BY <1>1, Types
<1>3. NoCall \in CallType
  BY BookmarksAssumption DEF NoCall, CallType, Ops, Stages, Indices
<1>4. /\ call' = [call EXCEPT ![p] = NoCall] /\ call'[p] = NoCall
      /\ result' = [result EXCEPT ![p] = [status |-> "ok", op |-> call[p].op]]
      /\ result'[p] = [status |-> "ok", op |-> call[p].op]
      /\ cursor' = cursor
  BY <1>2 DEF End
<1>5. /\ Others(p) /\ UNCHANGED <<live, slots, puts, acked>> /\ faults' \in Nat
      /\ cursor' \in [Clients -> CursorType] /\ call' \in [Clients -> CallType]
      /\ result' \in [Clients -> ResultType]
  BY <1>1, <1>2, <1>3, <1>4 DEF Others, Unwritten, TypeOK, ResultType, Statuses, CallType
<1>6. Occupied' = Occupied /\ Lowest' = Lowest /\ Top' = Top /\ Path(p)' = Path(p)
  BY <1>4, <1>5 DEF Occupied, Lowest, Top, Path
<1>7. Shape(p)'
  BY <1>1, <1>2, <1>4, <1>5 DEF Shape, Idle, NoCall, Settled, Searching
<1>8. ASSUME live PROVE LiveLocal(p)'
  BY <1>4, <1>5, <1>6, <1>8 DEF ListInv, LiveInv, LiveLocal, Idle, NoCall, Settled, Searching
<1>9. ASSUME ~live PROVE RestLocal(p)'
  <2>1. RestLocal(p) /\ RangeHolds(p)
    BY <1>9 DEF ListInv, RestInv, RestLocal
  <2>2. RangeHolds(p)' /\ \A h : Clear(h)' = Clear(h)
    BY <2>1, <1>4, <1>6 DEF RangeHolds, Clear, Present
  <2> QED BY <2>1, <2>2, <1>4, <1>6, <1>9 DEF RestLocal, Present, NoCall, Settled
<1>10. Honest(p)
  <2> SUFFICES ASSUME live, ~cursor[p].wrote
               PROVE  /\ call[p].begun.hi <= cursor'[p].hi /\ cursor'[p].hi <= Top'
                      /\ call[p].begun.lo <= cursor'[p].lo /\ cursor'[p].lo <= Lowest'
    BY DEF Honest
  <2>1. LiveLocal(p)
    BY DEF ListInv, LiveInv
  <2> QED BY <2>1, <1>4, <1>6 DEF LiveLocal
<1> QED BY <1>5, <1>7, <1>8, <1>9, <1>10, Frame

(* A call ends with an error: only the client's call and, of an             *)
(* OpenBookmarks, the cursor go.                                            *)
LEMMA RefuseInv ==
    ASSUME ListInv, NEW p \in Clients, ~Idle(p), NEW status \in {"gone", "gap", "error"},
           Refuse(p, status), UNCHANGED <<slots, puts, acked>>, faults' \in Nat, live' = live,
           ~live /\ call[p].op = "verify" /\ status # "error" /\ cursor[p].loaded =>
               ~(cursor[p].lo..cursor[p].hi \subseteq Occupied)
    PROVE  ListInv' /\ Honest(p)
<1>1. TypeOK /\ Shape(p)
  BY DEF ListInv
<1>2. cursor \in [Clients -> CursorType] /\ call \in [Clients -> CallType]
          /\ result \in [Clients -> ResultType]
  BY <1>1, Types
<1>3. NoCall \in CallType /\ NoCursor \in CursorType
  BY BookmarksAssumption DEF NoCall, CallType, NoCursor, CursorType, Ops, Stages, Indices
<1>4. /\ call' = [call EXCEPT ![p] = NoCall] /\ call'[p] = NoCall
      /\ result' = [result EXCEPT ![p] = [status |-> status, op |-> call[p].op]]
      /\ result'[p] = [status |-> status, op |-> call[p].op]
  BY <1>2 DEF Refuse, End
<1>5. /\ cursor' = [cursor EXCEPT ![p] = IF call[p].op = "open" THEN NoCursor ELSE @]
      /\ cursor'[p] = IF call[p].op = "open" THEN NoCursor ELSE cursor[p]
  BY <1>2 DEF Refuse
<1>6. /\ Others(p) /\ UNCHANGED <<live, slots, puts, acked>> /\ faults' \in Nat
      /\ cursor' \in [Clients -> CursorType] /\ call' \in [Clients -> CallType]
      /\ result' \in [Clients -> ResultType]
  <2>1. [status |-> status, op |-> call[p].op] \in ResultType
    BY <1>2 DEF ResultType, CallType, Statuses
  <2> QED BY <1>2, <1>3, <1>4, <1>5, <2>1 DEF Others
<1>7. Occupied' = Occupied /\ Lowest' = Lowest /\ Top' = Top
  BY <1>6 DEF Occupied, Lowest, Top
<1>8. Shape(p)'
  BY <1>1, <1>2, <1>4, <1>5, <1>6 DEF Shape, Idle, NoCall, NoCursor, Settled, Searching
<1>9. ASSUME live PROVE LiveLocal(p)'
  BY <1>4, <1>5, <1>6, <1>7, <1>9
    DEF ListInv, LiveInv, LiveLocal, Idle, NoCall, NoCursor, Settled, Searching
<1>10. ASSUME ~live PROVE RestLocal(p)'
  <2>1. RestLocal(p)
    BY <1>10 DEF ListInv, RestInv
  <2>2. CASE call[p].op = "open"
    BY <2>2, <1>4, <1>5 DEF RestLocal, NoCall, NoCursor, Settled
  <2>3. CASE call[p].op # "open"
    <3>1. cursor'[p] = cursor[p] /\ Path(p)' = Path(p) /\ \A h : Clear(h)' = Clear(h)
      BY <2>3, <1>5, <1>7 DEF Path, Clear
    <3> QED BY <2>1, <3>1, <1>4, <1>7, <1>10 DEF RestLocal, Present, NoCall, Settled
  <2> QED BY <2>2, <2>3
<1>11. Honest(p)
  BY <1>4 DEF Honest, Returns
<1> QED BY <1>6, <1>8, <1>9, <1>10, <1>11, Frame

(* bounds comes back with a range: what it must have established of it. *)
SettlesOn(p, lo, hi) ==
    /\ live => /\ call[p].begun.hi <= hi /\ hi <= Top
               /\ call[p].begun.lo <= lo /\ lo <= Lowest
    /\ ~live /\ hi >= 0 =>
          /\ Present(lo) /\ ~Present(lo - 1) /\ Present(hi) /\ ~Present(hi + 1)
          /\ Clear(hi) /\ <<"top", hi, 0>> \in Path(p)

LEMMA SettleInv ==
    ASSUME ListInv, NEW p \in Clients, call[p].stage \in Searching,
           NEW lo \in Indices, NEW hi \in Indices \cup {-1}, SettlesOn(p, lo, hi),
           Settle(p, lo, hi), Unwritten, live' = live
    PROVE  ListInv' /\ Honest(p)
<1>1. TypeOK /\ Shape(p)
  BY DEF ListInv
<1>2. cursor \in [Clients -> CursorType] /\ call \in [Clients -> CallType]
          /\ result \in [Clients -> ResultType]
  BY <1>1, Types
<1> DEFINE k == cursor[p]
           c == call[p]
           ends == c.op = "open" \/ (c.op = "latest" /\ hi < 0)
           kk == [k EXCEPT !.lo = lo, !.hi = hi, !.loaded = @ \/ hi >= 0]
           cc == IF ends THEN NoCall
                 ELSE [NoCall EXCEPT !.op = c.op, !.stage = c.op, !.at = lo, !.begun = c.begun]
           rr == IF ends THEN [status |-> "ok", op |-> c.op] ELSE result[p]
<1>3. k \in CursorType /\ c \in CallType /\ result[p] \in ResultType
  BY <1>2
<1>4. ~Idle(p) /\ k.open /\ ~k.wrote /\ result[p] = NoResult
  BY <1>1 DEF Shape, Idle, Searching
<1>5. c.op \in Settled \cup {"open"}
  BY <1>1, <1>3, <1>4 DEF Shape, CallType, Ops, Settled
<1>6. cursor' = [cursor EXCEPT ![p] = kk] /\ cursor'[p] = kk
  BY <1>2 DEF Settle
<1>7. call' = [call EXCEPT ![p] = cc] /\ call'[p] = cc
  BY <1>2 DEF Settle, End
<1>8. result' = [result EXCEPT ![p] = rr] /\ result'[p] = rr
  BY <1>2 DEF Settle, End
<1>9. /\ kk \in CursorType /\ kk.open = k.open /\ kk.entry = k.entry /\ kk.anchored = k.anchored
      /\ kk.lo = lo /\ kk.hi = hi /\ kk.wrote = k.wrote /\ kk.loaded = (k.loaded \/ hi >= 0)
  BY <1>3 DEF CursorType
<1>10. cc \in CallType
  <2>1. [op |-> c.op, stage |-> c.op, hit |-> 0, miss |-> -1, step |-> 1, lo |-> 0, at |-> lo,
         begun |-> c.begun] \in CallType \/ c.op = "open"
    BY <1>3, <1>5, BookmarksAssumption DEF CallType, Ops, Stages, Indices, Settled
  <2>2. NoCall \in CallType
    BY BookmarksAssumption DEF NoCall, CallType, Ops, Stages, Indices
  <2> QED BY <2>1, <2>2 DEF NoCall
<1>11. rr \in ResultType
  BY <1>3 DEF ResultType, CallType, Statuses
<1> HIDE DEF kk, rr
<1>12. /\ Others(p) /\ UNCHANGED <<live, slots, puts, acked>> /\ faults' \in Nat
       /\ cursor' \in [Clients -> CursorType] /\ call' \in [Clients -> CallType]
       /\ result' \in [Clients -> ResultType]
  <2> HIDE DEF cc
  <2> QED BY <1>1, <1>2, <1>6, <1>7, <1>8, <1>9, <1>10, <1>11 DEF Others, Unwritten, TypeOK
<1>13. Occupied' = Occupied /\ Lowest' = Lowest /\ Top' = Top /\ Path(p)' = Path(p)
  BY <1>6, <1>9, <1>12 DEF Occupied, Lowest, Top, Path
<1>14. /\ cc.stage = (IF ends THEN "idle" ELSE c.op) /\ cc.op = (IF ends THEN "none" ELSE c.op)
       /\ cc.step = 1 /\ cc.at = (IF ends THEN 0 ELSE lo)
       /\ ~ends => cc.begun = c.begun
  BY <1>3 DEF NoCall
<1>a. cc.stage \in {"idle"} \cup Settled /\ (cc.stage # "idle" => cc.op = cc.stage /\ cc.op = c.op)
        /\ (cc.stage = "idle" => cc.op = "none") /\ (cc.stage = "idle" <=> ends)
  BY <1>14, <1>5 DEF Settled
<1> HIDE DEF cc
<1>15. Shape(p)'
  <2>1. cc.stage # "idle" => rr = NoResult
    BY <1>a, <1>4 DEF rr
  <2>2. p = Writer => live
    BY <1>1, <1>4 DEF Shape
  <2>3. cc.op = "append" => p = Writer
    BY <1>1, <1>a DEF Shape
  <2>4. ~k.anchored => k.entry = 0
    BY <1>1 DEF Shape
  <2>5. kk.open /\ ~kk.wrote /\ (~kk.anchored => kk.entry = 0)
    BY <2>4, <1>4, <1>9
  <2>6. cc.stage \notin Searching /\ (cc.stage # "idle" => cc.op # "none")
          /\ (cc.stage \in Settled => cc.op = cc.stage) /\ cc.step >= 1
    BY <1>a, <1>14 DEF Searching, Settled
  <2> HIDE DEF k, c
  <2> QED BY <2>1, <2>2, <2>3, <2>5, <2>6, <1>6, <1>7, <1>8, <1>12 DEF Shape, Idle, Searching
<1>16. ASSUME live PROVE LiveLocal(p)'
  <2>1. LiveLocal(p)
    BY <1>16 DEF ListInv, LiveInv
  <2> QED BY <2>1, <1>16, <1>1, <1>3, <1>4, <1>5, <1>6, <1>7, <1>8, <1>9, <1>12, <1>13, <1>14
    DEF LiveLocal, SettlesOn, Idle, Settled, Searching
<1>17. ASSUME ~live PROVE RestLocal(p)'
  <2>1. RestLocal(p)
    BY <1>17 DEF ListInv, RestInv
  <2>2. \A h : Clear(h)' = Clear(h)
    BY <1>13 DEF Clear
  <2>3. RangeHolds(p)'
    BY <1>17, <1>6, <1>9, <1>13, <2>2 DEF SettlesOn, RangeHolds, Present
  <2>4. kk.loaded => \E h \in Int : <<"top", h, 0>> \in Path(p) /\ Clear(h)
    <3>1. hi \in Int
      BY BookmarksAssumption DEF Indices
    <3>2. CASE hi >= 0
      BY <3>1, <3>2, <1>17 DEF SettlesOn
    <3>3. CASE ~(hi >= 0) /\ kk.loaded
      <4>1. k.loaded
        BY <3>3, <1>9
      <4> QED BY <4>1, <2>1 DEF RestLocal
    <3> QED BY <3>2, <3>3
  <2>5. rr.op # "verify"
    BY <1>4, <1>5 DEF rr, NoResult
  <2>6. /\ cc.stage = "verify" => lo <= cc.at
        /\ \A i \in Indices : lo <= i /\ i < cc.at => Present(i)
    BY <1>14, BookmarksAssumption DEF Indices
  <2>7. cc.stage \notin {"descend", "bisectDown", "ascend", "bisectUp", "probe"}
    BY <1>14, <1>5 DEF Settled
  <2> QED BY <2>1, <2>2, <2>3, <2>4, <2>5, <2>6, <2>7, <1>6, <1>7, <1>8, <1>9, <1>13, <1>14, <1>17
     DEF RestLocal, Present
<1>18. Honest(p)
  BY <1>6, <1>9, <1>13 DEF Honest, SettlesOn
<1> QED BY <1>12, <1>15, <1>16, <1>17, <1>18, Frame

-----------------------------------------------------------------------------
(* ascend is deterministic: on a list at rest it has one top.              *)

LEMMA UpStepType ==
    ASSUME NEW O, NEW e \in Int, NEW x \in Config
    PROVE  UpStep(O, e, x) \in Config
<1>1. x[2] \in Int /\ x[3] \in Int /\ x[2] + (x[3] - x[2]) \div 2 \in Int
  BY DEF Config
<1> QED BY <1>1 DEF Config, UpStep

LEMMA OrbitStart ==
    ASSUME NEW O, NEW e, NEW x \in Config
    PROVE  x \in Orbit(O, e, x)
  BY DEF Orbit

LEMMA OrbitStep ==
    ASSUME NEW O, NEW e \in Int, NEW x, NEW y \in Orbit(O, e, x), y[1] # "top"
    PROVE  UpStep(O, e, y) \in Orbit(O, e, x)
<1>1. UpStep(O, e, y) \in Config
  BY UpStepType DEF Orbit
<1> QED BY <1>1 DEF Orbit, UpClosed

(* What is reached from x and is not x is reached from the step of x. *)
LEMMA OrbitTail ==
    ASSUME NEW O, NEW e \in Int, NEW x \in Config, x[1] # "top", NEW y \in Orbit(O, e, x), y # x
    PROVE  y \in Orbit(O, e, UpStep(O, e, x))
<1> DEFINE T == Orbit(O, e, UpStep(O, e, x))
<1>1. UpStep(O, e, x) \in T
  BY UpStepType, OrbitStart
<1>2. {x} \cup T \in SUBSET Config
  BY DEF Orbit
<1>3. UpClosed(O, e, {x} \cup T)
  <2>1. \A z \in T : z[1] # "top" => UpStep(O, e, z) \in T
    BY OrbitStep
  <2> HIDE DEF T
  <2> QED BY <1>1, <2>1 DEF UpClosed
<1>4. y \in {x} \cup T
  <2> HIDE DEF T
  <2> QED BY <1>2, <1>3 DEF Orbit
<1> QED BY <1>4

LEMMA TopUnique ==
    ASSUME NEW O, NEW e \in Int, NEW x \in Config,
           NEW s \in Orbit(O, e, x), s[1] = "top", NEW t \in Orbit(O, e, x), t[1] = "top"
    PROVE  s = t
<1> DEFINE Leads == {y \in Config : s \in Orbit(O, e, y)}
<1>1. x \in Leads
  OBVIOUS
<1>2. UpClosed(O, e, Leads)
  <2> SUFFICES ASSUME NEW y \in Leads, y[1] # "top" PROVE UpStep(O, e, y) \in Leads
    BY DEF UpClosed
  <2>1. UpStep(O, e, y) \in Config
    BY UpStepType
  <2>2. s \in Orbit(O, e, UpStep(O, e, y))
    BY OrbitTail
  <2> QED BY <2>1, <2>2
<1>3. t \in Leads
  <2>1. Leads \in SUBSET Config
    OBVIOUS
  <2> HIDE DEF Leads
  <2> QED BY <1>1, <1>2, <2>1 DEF Orbit
<1>4. UpClosed(O, e, {t}) /\ {t} \in SUBSET Config
  BY DEF UpClosed, Orbit
<1>5. s \in {t}
  BY <1>3, <1>4 DEF Orbit
<1> QED BY <1>5

-----------------------------------------------------------------------------
(* The ends of descend and of ascend.                                      *)

LEMMA FoundLowestInv ==
    ASSUME ListInv, NEW p \in Clients, call[p].stage \in {"entry", "descend", "bisectDown"},
           NEW lo \in Indices, Present(cursor[p].entry),
           live => call[p].begun.lo <= lo /\ lo <= Lowest,
           ~live => Present(lo) /\ ~Present(lo - 1),
           FoundLowest(p, lo), Unwritten, live' = live
    PROVE  ListInv' /\ Honest(p)
<1>1. TypeOK /\ Shape(p)
  BY DEF ListInv
<1>2. cursor[p] \in CursorType /\ call[p] \in CallType
  BY <1>1, Types
<1> DEFINE cc == [call[p] EXCEPT !.stage = "ascend", !.lo = lo, !.hit = cursor[p].entry, !.step = 1]
<1>3. cc \in CallType
  BY <1>2 DEF CallType, CursorType, Stages
<1>4. /\ cc.stage = "ascend" /\ cc.lo = lo /\ cc.hit = cursor[p].entry /\ cc.step = 1
      /\ cc.op = call[p].op /\ cc.begun = call[p].begun
  BY <1>2 DEF CallType
<1>5. Goes(p, cc)
  BY DEF FoundLowest
<1> HIDE DEF cc
<1>6. /\ Others(p) /\ UNCHANGED <<live, slots, puts, acked>> /\ faults' \in Nat
      /\ cursor' \in [Clients -> CursorType] /\ call' \in [Clients -> CallType]
      /\ result' \in [Clients -> ResultType]
      /\ cursor' = cursor /\ result' = result /\ call'[p] = cc
      /\ Occupied' = Occupied /\ Lowest' = Lowest /\ Top' = Top /\ Path(p)' = Path(p)
  BY <1>1, <1>3, <1>5, GoesEffect
<1>7. cursor[p].entry \in Int
  BY <1>2, BookmarksAssumption DEF CursorType, Indices
<1>8. Shape(p)'
  BY <1>1, <1>4, <1>6, <1>7 DEF Shape, Idle, Searching, Settled
<1>9. ASSUME live PROVE LiveLocal(p)'
  BY <1>4, <1>6, <1>9 DEF ListInv, LiveInv, LiveLocal, Idle, Searching, Settled, Present
<1>10. ASSUME ~live PROVE RestLocal(p)'
  <2>1. RestLocal(p) /\ result[p] = NoResult
    BY <1>1, <1>10 DEF ListInv, RestInv, Shape, Idle
  <2>2. \A h : Clear(h)' = Clear(h)
    BY <1>6 DEF Clear
  <2>3. <<"ascend", cursor[p].entry, 1>> \in Path(p)
    BY <1>7, OrbitStart DEF Path, Config
  <2> QED BY <2>1, <2>2, <2>3, <1>4, <1>6, <1>10 DEF RestLocal, Settled, Present, NoResult
<1>11. Honest(p)
  BY <1>4, <1>6 DEF Honest, Returns, Idle
<1> QED BY <1>6, <1>8, <1>9, <1>10, <1>11, Frame

LEMMA FoundTopInv ==
    ASSUME ListInv, NEW p \in Clients, call[p].stage \in {"ascend", "bisectUp"},
           NEW hi \in Indices, cursor[p].entry <= hi, Present(hi),
           live => call[p].begun.hi <= hi,
           ~live => ~Present(hi + 1) /\ <<"top", hi, 0>> \in Path(p),
           FoundTop(p, call[p], hi), Unwritten, live' = live
    PROVE  ListInv' /\ Honest(p)
<1>1. TypeOK /\ Shape(p)
  BY DEF ListInv
<1>2. cursor[p] \in CursorType /\ call[p] \in CallType
  BY <1>1, Types
<1>3. EndsHold
  BY <1>1, Ends
<1>4. CASE cursor[p].loaded \/ GapProbe = 0
  <2>1. Settle(p, call[p].lo, hi) /\ call[p].lo \in Indices
    BY <1>2, <1>4 DEF FoundTop, CallType
  <2>2. SettlesOn(p, call[p].lo, hi)
    <3>1. ASSUME live PROVE hi <= Top /\ call[p].begun.lo <= call[p].lo /\ call[p].lo <= Lowest
      BY <1>3, <3>1 DEF ListInv, LiveInv, LiveLocal, EndsHold, Present
    <3>2. ASSUME ~live PROVE /\ Present(call[p].lo) /\ ~Present(call[p].lo - 1) /\ Clear(hi)
      <4>1. RestLocal(p)
        BY <3>2 DEF ListInv, RestInv
      <4>2. CASE GapProbe = 0
        BY <1>3, <3>2, <4>1, <4>2 DEF RestLocal, Clear, Present, EndsHold, Indices
      <4>3. CASE cursor[p].loaded
        <5>1. PICK h \in Int : <<"top", h, 0>> \in Path(p) /\ Clear(h)
          BY <4>1, <4>3 DEF RestLocal
        <5>2. cursor[p].entry \in Int
          BY <1>2, BookmarksAssumption DEF CursorType, Indices
        <5>3. <<"top", h, 0>> = <<"top", hi, 0>>
          <6>1. <<"ascend", cursor[p].entry, 1>> \in Config
            BY <5>2 DEF Config
          <6>2. <<"top", h, 0>> \in Path(p) /\ <<"top", hi, 0>> \in Path(p)
            BY <5>1, <3>2
          <6> QED BY <5>2, <6>1, <6>2, TopUnique DEF Path
        <5> QED BY <4>1, <5>1, <5>3 DEF RestLocal
      <4> QED BY <1>4, <4>2, <4>3
    <3> QED BY <3>1, <3>2 DEF SettlesOn
  <2> QED BY <2>1, <2>2, SettleInv DEF Searching
<1>5. CASE ~(cursor[p].loaded \/ GapProbe = 0)
  <2> DEFINE cc == [call[p] EXCEPT !.stage = "probe", !.hit = hi, !.at = hi + 2]
  <2>1. GapProbe >= 1 /\ hi + 2 \in 0..MaxIndex + 1 + GapProbe /\ hi \in Nat /\ GapProbe \in Nat
    BY <1>5, BookmarksAssumption DEF Indices
  <2>2. cc \in CallType
    BY <1>2, <2>1 DEF CallType, Stages
  <2>3. /\ cc.stage = "probe" /\ cc.hit = hi /\ cc.at = hi + 2 /\ cc.lo = call[p].lo
        /\ cc.step = call[p].step /\ cc.op = call[p].op /\ cc.begun = call[p].begun
    BY <1>2 DEF CallType
  <2>4. Goes(p, cc)
    BY <1>5 DEF FoundTop
  <2> HIDE DEF cc
  <2>5. /\ Others(p) /\ UNCHANGED <<live, slots, puts, acked>> /\ faults' \in Nat
        /\ cursor' \in [Clients -> CursorType] /\ call' \in [Clients -> CallType]
        /\ result' \in [Clients -> ResultType]
        /\ cursor' = cursor /\ result' = result /\ call'[p] = cc
        /\ Occupied' = Occupied /\ Lowest' = Lowest /\ Top' = Top /\ Path(p)' = Path(p)
    BY <1>1, <2>2, <2>4, GoesEffect
  <2>6. Shape(p)'
    <3>1. ~cursor[p].loaded /\ hi + 2 <= LastProbe(hi)
      BY <1>5, <2>1 DEF LastProbe
    <3> QED BY <1>1, <2>1, <2>3, <2>5, <3>1 DEF Shape, Idle, Searching, Settled
  <2>7. ASSUME live PROVE LiveLocal(p)'
    BY <2>3, <2>5, <2>7 DEF ListInv, LiveInv, LiveLocal, Idle, Searching, Settled, Present
  <2>8. ASSUME ~live PROVE RestLocal(p)'
    <3>1. RestLocal(p) /\ result[p] = NoResult
      BY <1>1, <2>8 DEF ListInv, RestInv, Shape, Idle
    <3>2. \A i \in Occupied : i > hi => i >= hi + 2
      <4>1. hi + 1 \notin Occupied
        BY <2>8 DEF Present
      <4>2. Occupied \subseteq Nat
        BY <1>3 DEF EndsHold
      <4>3. ASSUME NEW i \in Occupied, i > hi PROVE i >= hi + 2
        <5>1. i \in Nat /\ i # hi + 1
          BY <4>1, <4>2
        <5> QED BY <2>1, <4>3, <5>1
      <4> QED BY <4>3
    <3> QED BY <1>5, <3>1, <3>2, <2>3, <2>5, <2>8 DEF RestLocal, Settled, Present, NoResult
  <2>9. Honest(p)
    BY <2>3, <2>5 DEF Honest, Returns, Idle
  <2> QED BY <2>5, <2>6, <2>7, <2>8, <2>9, Frame
<1> QED BY <1>4, <1>5

-----------------------------------------------------------------------------
(* The steps of a search.                                                  *)

(* What the locals c a search of p goes on with must satisfy. *)
Finds(p, c) ==
    LET k == cursor[p]
    IN  /\ c.op = call[p].op /\ c.begun = call[p].begun /\ c.step >= 1
        /\ c.stage = "descend" => 0 < c.hit /\ c.hit <= k.entry /\ k.entry - c.step < c.hit
        /\ c.stage = "bisectDown" => 0 <= c.miss /\ c.miss + 1 < c.hit /\ c.hit <= k.entry
        /\ c.stage = "ascend" => k.entry <= c.hit /\ c.hit < k.entry + c.step
        /\ c.stage = "bisectUp" => k.entry <= c.hit /\ c.hit + 1 < c.miss
        /\ c.stage = "probe" => /\ k.entry <= c.hit /\ c.hit + 2 <= c.at /\ ~k.loaded
                                /\ GapProbe > 0 /\ c.at <= LastProbe(c.hit)

FindsLive(p, c) ==
    /\ cursor[p].entry \in Occupied
    /\ c.stage \in {"descend", "bisectDown"} => c.begun.lo <= c.hit
    /\ c.stage = "bisectDown" => c.miss < Lowest
    /\ c.stage \in {"ascend", "bisectUp", "probe"} =>
          c.begun.lo <= c.lo /\ c.lo <= Lowest /\ c.hit \in Occupied
    /\ c.stage = "bisectUp" => c.begun.hi < c.miss
    /\ c.stage = "probe" => c.begun.hi <= c.hit

FindsRest(p, c) ==
    /\ c.stage \in {"descend", "bisectDown"} => Present(cursor[p].entry) /\ Present(c.hit)
    /\ c.stage = "bisectDown" => ~Present(c.miss)
    /\ c.stage \in {"ascend", "bisectUp", "probe"} =>
          Present(c.lo) /\ ~Present(c.lo - 1) /\ Present(c.hit)
    /\ c.stage = "ascend" => <<"ascend", c.hit, c.step>> \in Path(p)
    /\ c.stage = "bisectUp" => ~Present(c.miss) /\ <<"bisectUp", c.hit, c.miss>> \in Path(p)
    /\ c.stage = "probe" => /\ <<"top", c.hit, 0>> \in Path(p)
                            /\ ~Present(c.hit + 1)
                            /\ \A i \in Occupied : i > c.hit => i >= c.at

LEMMA GoesInv ==
    ASSUME ListInv, NEW p \in Clients, call[p].stage \in Searching, NEW c \in CallType,
           c.stage \in Searching \ {"entry"}, Goes(p, c), Unwritten, live' = live,
           Finds(p, c), live => FindsLive(p, c), ~live => FindsRest(p, c)
    PROVE  ListInv' /\ Honest(p)
<1>1. TypeOK /\ Shape(p)
  BY DEF ListInv
<1>2. /\ Others(p) /\ UNCHANGED <<live, slots, puts, acked>> /\ faults' \in Nat
      /\ cursor' \in [Clients -> CursorType] /\ call' \in [Clients -> CallType]
      /\ result' \in [Clients -> ResultType]
      /\ cursor' = cursor /\ result' = result /\ call'[p] = c
      /\ Occupied' = Occupied /\ Lowest' = Lowest /\ Top' = Top /\ Path(p)' = Path(p)
  BY <1>1, GoesEffect
<1>3. Shape(p)'
  BY <1>1, <1>2 DEF Shape, Finds, Idle, Searching, Settled
<1>4. ASSUME live PROVE LiveLocal(p)'
  <2>1. LiveLocal(p)
    BY <1>4 DEF ListInv, LiveInv
  <2> QED BY <2>1, <1>2, <1>4 DEF LiveLocal, Finds, FindsLive, Idle, Searching, Settled
<1>5. ASSUME ~live PROVE RestLocal(p)'
  <2>1. RestLocal(p) /\ result[p] = NoResult
    BY <1>1, <1>5 DEF ListInv, RestInv, Shape, Idle, Searching
  <2>2. \A h : Clear(h)' = Clear(h)
    BY <1>2 DEF Clear
  <2> QED BY <2>1, <2>2, <1>2, <1>5 DEF RestLocal, FindsRest, Searching, Settled, Present, NoResult
<1>6. Honest(p)
  BY <1>2 DEF Honest, Returns, Idle, Searching
<1> QED BY <1>2, <1>3, <1>4, <1>5, <1>6, Frame

(* What every step of a search relies on. *)
LEMMA Known ==
    ASSUME ListInv, NEW p \in Clients
    PROVE  /\ TypeOK /\ EndsHold /\ Shape(p)
           /\ cursor[p] \in CursorType /\ call[p] \in CallType /\ result[p] \in ResultType
           /\ cursor[p].entry \in Nat /\ call[p].hit \in Nat /\ call[p].miss \in Int
           /\ call[p].step \in Nat /\ call[p].at \in Nat
           /\ call[p].begun.lo \in Nat /\ call[p].begun.hi \in Int
           /\ call[p].lo \in Nat /\ cursor[p].hi \in Int /\ cursor[p].lo \in Nat
           /\ Lowest \in Nat /\ Top \in Int /\ Occupied \subseteq Nat
           /\ live => Occupied = Lowest..Top /\ LiveLocal(p)
           /\ ~live => RestLocal(p)
<1>1. TypeOK /\ Shape(p)
  BY DEF ListInv
<1>2. EndsHold
  BY <1>1, Ends
<1>3. cursor[p] \in CursorType /\ call[p] \in CallType /\ result[p] \in ResultType
  BY <1>1, Types
<1>4. Indices \subseteq Nat
  BY <1>2 DEF EndsHold
<1>5. /\ cursor[p].entry \in Nat /\ call[p].hit \in Nat /\ call[p].miss \in Int
      /\ call[p].step \in Nat /\ call[p].at \in Nat
      /\ call[p].begun.lo \in Nat /\ call[p].begun.hi \in Int
      /\ call[p].lo \in Nat /\ cursor[p].hi \in Int /\ cursor[p].lo \in Nat
  <2>1. cursor[p].entry \in Nat /\ cursor[p].hi \in Int /\ cursor[p].lo \in Nat
    BY <1>3, BookmarksAssumption DEF CursorType, Indices
  <2>2. call[p].hit \in Nat /\ call[p].miss \in Int /\ call[p].step \in Nat /\ call[p].lo \in Nat
    BY <1>3, BookmarksAssumption DEF CallType, Indices
  <2>3. call[p].at \in Nat
    BY <1>3, BookmarksAssumption DEF CallType
  <2>4. call[p].begun \in [lo : Indices, hi : Indices \cup {-1}]
    BY <1>3 DEF CallType
  <2>5. call[p].begun.lo \in Nat /\ call[p].begun.hi \in Int
    BY <2>4, <1>4
  <2> QED BY <2>1, <2>2, <2>3, <2>5
<1>6. Lowest \in Nat /\ Top \in Int /\ Occupied \subseteq Nat
  BY <1>2, <1>4 DEF EndsHold
<1>7. /\ live => Occupied = Lowest..Top /\ LiveLocal(p)
      /\ ~live => RestLocal(p)
  BY DEF ListInv, LiveInv, RestInv, Gapless
<1> QED BY <1>1, <1>2, <1>3, <1>5, <1>6, <1>7

LEMMA FetchEntryInv ==
    ASSUME ListInv, NEW p \in Clients, FetchEntry(p), live' = live
    PROVE  ListInv' /\ Honest(p)
<1> DEFINE e == cursor[p].entry
<1>1. /\ EndsHold /\ Shape(p) /\ cursor[p] \in CursorType /\ call[p] \in CallType
      /\ e \in Nat /\ call[p].step \in Nat /\ call[p].begun.lo \in Nat /\ call[p].begun.hi \in Int
      /\ Lowest \in Nat /\ Top \in Int /\ Occupied \subseteq Nat
      /\ live => Occupied = Lowest..Top /\ LiveLocal(p)
      /\ ~live => RestLocal(p)
  BY Known
<1>2. call[p].stage = "entry" /\ Unwritten
  BY DEF FetchEntry, At
<1>3. CASE Present(e) /\ e = 0
  <2>1. FoundLowest(p, 0)
    BY <1>3 DEF FetchEntry
  <2>2. 0 \in Indices
    BY BookmarksAssumption DEF Indices
  <2>3. live => call[p].begun.lo <= 0 /\ 0 <= Lowest
    BY <1>1, <1>2, <1>3 DEF LiveLocal, Idle, EndsHold, Present
  <2>4. Present(0) /\ ~Present(0 - 1)
    BY <1>1, <1>3 DEF Present
  <2> QED BY <1>2, <1>3, <2>1, <2>2, <2>3, <2>4, FoundLowestInv
<1>4. CASE Present(e) /\ e # 0
  <2> DEFINE cc == [call[p] EXCEPT !.stage = "descend", !.hit = e]
  <2>1. Goes(p, cc)
    BY <1>4 DEF FetchEntry
  <2>2. cc \in CallType
    BY <1>1 DEF CallType, CursorType, Stages
  <2>3. /\ cc.stage = "descend" /\ cc.hit = e /\ cc.step = call[p].step
        /\ cc.op = call[p].op /\ cc.begun = call[p].begun
    BY <1>1 DEF CallType
  <2> HIDE DEF cc
  <2>4. call[p].step >= 1
    BY <1>1 DEF Shape
  <2>5. Finds(p, cc)
    BY <1>1, <1>4, <2>3, <2>4 DEF Finds
  <2>6. live => FindsLive(p, cc)
    BY <1>1, <1>2, <1>4, <2>3 DEF FindsLive, LiveLocal, Idle, Present, EndsHold
  <2>7. ~live => FindsRest(p, cc)
    BY <1>4, <2>3 DEF FindsRest
  <2> QED BY <1>2, <2>1, <2>2, <2>3, <2>5, <2>6, <2>7, GoesInv DEF Searching
<1>5. CASE ~Present(e) /\ cursor[p].anchored
  <2>1. Refuse(p, "gone")
    BY <1>5 DEF FetchEntry
  <2>2. ~Idle(p) /\ cursor[p].open
    BY <1>1, <1>2 DEF Idle, Shape
  <2>3. live
    BY <1>1, <1>5, <2>2 DEF RestLocal
  <2>4. UNCHANGED <<slots, puts, acked>> /\ faults' \in Nat
    BY <1>2 DEF Unwritten, ListInv, TypeOK
  <2> QED BY <2>1, <2>2, <2>3, <2>4, RefuseInv
<1>6. CASE ~Present(e) /\ ~cursor[p].anchored
  <2>1. Settle(p, 0, -1)
    BY <1>6 DEF FetchEntry
  <2>2. 0 \in Indices /\ -1 \in Indices \cup {-1}
    BY BookmarksAssumption DEF Indices
  <2>3. e = 0 /\ cursor[p].open
    BY <1>1, <1>2, <1>6 DEF Shape, Idle
  <2>4. live => Occupied = {}
    BY <1>1, <1>6, <2>3 DEF LiveLocal, Present
  <2>5. live => Top = -1 /\ Lowest = 0
    BY <2>4, <1>1 DEF EndsHold
  <2>6. SettlesOn(p, 0, -1)
    BY <1>1, <1>2, <2>5 DEF SettlesOn, LiveLocal, Idle
  <2> QED BY <1>2, <2>1, <2>2, <2>6, SettleInv DEF Searching
<1> QED BY <1>3, <1>4, <1>5, <1>6

LEMMA MaxZero ==
    ASSUME NEW a \in Int
    PROVE  Max({a, 0}) = IF a >= 0 THEN a ELSE 0
  BY DEF Max

LEMMA MinTwo ==
    ASSUME NEW a \in Int, NEW b \in Int
    PROVE  Min({a, b}) = IF a <= b THEN a ELSE b
  BY DEF Min

LEMMA Half ==
    ASSUME NEW n \in Int, n >= 2
    PROVE  n \div 2 \in Int /\ 1 <= n \div 2 /\ n \div 2 < n
  OBVIOUS

LEMMA DescendInv ==
    ASSUME ListInv, NEW p \in Clients, Descend(p), live' = live
    PROVE  ListInv' /\ Honest(p)
<1> DEFINE e == cursor[p].entry
           c == call[p]
           probe == ProbeBelow(p)
<1>1. /\ EndsHold /\ Shape(p) /\ cursor[p] \in CursorType /\ c \in CallType
      /\ e \in Nat /\ c.step \in Nat /\ c.hit \in Nat
      /\ c.begun.lo \in Nat /\ c.begun.hi \in Int
      /\ Lowest \in Nat /\ Top \in Int /\ Occupied \subseteq Nat
      /\ live => Occupied = Lowest..Top /\ LiveLocal(p)
      /\ ~live => RestLocal(p)
  BY Known
<1>2. c.stage = "descend" /\ Unwritten
  BY DEF Descend, At
<1>3. c.step >= 1 /\ 0 < c.hit /\ c.hit <= e /\ e - c.step < c.hit /\ ~Idle(p)
  BY <1>1, <1>2 DEF Shape, Idle
<1>4. probe = (IF e - c.step >= 0 THEN e - c.step ELSE 0)
  BY <1>1, MaxZero DEF ProbeBelow
<1>5. probe \in Nat /\ probe < c.hit /\ e - 2 * c.step < e - c.step /\ e - c.step <= probe
  BY <1>1, <1>3, <1>4
<1>6. live => e \in Occupied /\ c.begun.lo <= Lowest /\ c.begun.lo <= c.hit
  BY <1>1, <1>2, <1>3 DEF LiveLocal, Searching
<1>7. ~live => Present(e) /\ Present(c.hit)
  BY <1>1, <1>2 DEF RestLocal
<1>8. Present(e)
  BY <1>6, <1>7 DEF Present
<1>9. probe \in Occupied => probe \in Indices /\ Lowest <= probe
  BY <1>1 DEF EndsHold
<1>10. live /\ probe \notin Occupied => probe < Lowest
  BY <1>1, <1>3, <1>5, <1>6
<1> HIDE DEF probe
<1>11. CASE Present(probe) /\ probe = 0
  <2>1. FoundLowest(p, 0)
    BY <1>11 DEF Descend, probe
  <2>2. 0 \in Indices /\ (live => c.begun.lo <= 0 /\ 0 <= Lowest) /\ Present(0) /\ ~Present(0 - 1)
    <3>1. 0 \in Occupied
      BY <1>11 DEF Present
    <3>2. 0 \in Indices /\ Lowest <= 0
      BY <3>1, <1>1 DEF EndsHold
    <3>3. 0 - 1 \notin Occupied
      BY <1>1
    <3> QED BY <1>1, <1>6, <3>1, <3>2, <3>3 DEF Present
  <2> QED BY <1>2, <1>8, <2>1, <2>2, FoundLowestInv
<1>12. CASE Present(probe) /\ probe # 0
  <2> DEFINE cc == [c EXCEPT !.hit = probe, !.step = 2 * @]
  <2>1. Goes(p, cc)
    BY <1>12 DEF Descend, probe
  <2>2. cc \in CallType
    <3>1. 2 * c.step \in Nat /\ probe \in Indices
      BY <1>1, <1>9, <1>12 DEF Present
    <3> QED BY <1>1, <3>1 DEF CallType
  <2>3. /\ cc.stage = "descend" /\ cc.hit = probe /\ cc.step = 2 * c.step
        /\ cc.op = c.op /\ cc.begun = c.begun
    BY <1>1, <1>2 DEF CallType
  <2> HIDE DEF cc
  <2>4. Finds(p, cc)
    BY <1>1, <1>3, <1>5, <1>12, <2>3, SMTT(40) DEF Finds
  <2>5. live => FindsLive(p, cc)
    BY <1>1, <1>6, <1>9, <1>12, <2>3 DEF FindsLive, Present
  <2>6. ~live => FindsRest(p, cc)
    BY <1>7, <1>12, <2>3 DEF FindsRest
  <2> QED BY <1>2, <2>1, <2>2, <2>3, <2>4, <2>5, <2>6, GoesInv DEF Searching
<1>13. CASE ~Present(probe) /\ Apart(probe, c.hit)
  <2> DEFINE cc == [c EXCEPT !.stage = "bisectDown", !.miss = probe]
  <2>1. Goes(p, cc)
    BY <1>13 DEF Descend, probe
  <2>2. cc \in CallType
    BY <1>1, <1>5 DEF CallType, Stages
  <2>3. /\ cc.stage = "bisectDown" /\ cc.miss = probe /\ cc.hit = c.hit /\ cc.step = c.step
        /\ cc.op = c.op /\ cc.begun = c.begun
    BY <1>1 DEF CallType
  <2> HIDE DEF cc
  <2>4. Finds(p, cc)
    BY <1>1, <1>3, <1>5, <1>13, <2>3 DEF Finds, Apart
  <2>5. live => FindsLive(p, cc)
    BY <1>1, <1>6, <1>10, <1>13, <2>3 DEF FindsLive, Present
  <2>6. ~live => FindsRest(p, cc)
    BY <1>7, <1>13, <2>3 DEF FindsRest
  <2> QED BY <1>2, <2>1, <2>2, <2>3, <2>4, <2>5, <2>6, GoesInv DEF Searching
<1>14. CASE ~Present(probe) /\ ~Apart(probe, c.hit)
  <2>1. FoundLowest(p, c.hit)
    BY <1>14 DEF Descend, probe
  <2>2. probe = c.hit - 1
    BY <1>1, <1>5, <1>14, SMTT(40) DEF Apart
  <2>3. c.hit \in Indices /\ (live => c.begun.lo <= c.hit /\ c.hit <= Lowest)
    BY <1>1, <1>6, <1>10, <1>14, <2>2 DEF CallType, Present
  <2>4. ~live => Present(c.hit) /\ ~Present(c.hit - 1)
    BY <1>7, <1>14, <2>2
  <2> QED BY <1>2, <1>8, <2>1, <2>3, <2>4, FoundLowestInv
<1> QED BY <1>11, <1>12, <1>13, <1>14

LEMMA BisectDownInv ==
    ASSUME ListInv, NEW p \in Clients, BisectDown(p), live' = live
    PROVE  ListInv' /\ Honest(p)
<1> DEFINE e == cursor[p].entry
           c == call[p]
           mid == c.miss + (c.hit - c.miss) \div 2
           hit == IF Present(mid) THEN mid ELSE c.hit
           miss == IF Present(mid) THEN c.miss ELSE mid
<1>1. /\ EndsHold /\ Shape(p) /\ cursor[p] \in CursorType /\ c \in CallType
      /\ e \in Nat /\ c.step \in Nat /\ c.hit \in Nat /\ c.miss \in Int
      /\ c.begun.lo \in Nat /\ c.begun.hi \in Int
      /\ Lowest \in Nat /\ Top \in Int /\ Occupied \subseteq Nat
      /\ live => Occupied = Lowest..Top /\ LiveLocal(p)
      /\ ~live => RestLocal(p)
  BY Known
<1>2. c.stage = "bisectDown" /\ Unwritten
  BY DEF BisectDown, At
<1>3. c.step >= 1 /\ 0 <= c.miss /\ c.miss + 1 < c.hit /\ c.hit <= e /\ ~Idle(p)
  BY <1>1, <1>2 DEF Shape, Idle
<1>4. mid \in Nat /\ c.miss < mid /\ mid < c.hit
  <2> DEFINE n == c.hit - c.miss
  <2>1. n \in Int /\ n >= 2
    BY <1>1, <1>3
  <2>2. n \div 2 \in Int /\ 1 <= n \div 2 /\ n \div 2 < n
    BY <2>1, Half
  <2> DEFINE d == n \div 2
  <2>3. mid = c.miss + d /\ d \in Int /\ 1 <= d /\ d < c.hit - c.miss
    BY <2>2
  <2> HIDE DEF d, n, mid
  <2> QED BY <1>1, <1>3, <2>3, SMTT(40)
<1>5. IF Apart(miss, hit) THEN Goes(p, [c EXCEPT !.hit = hit, !.miss = miss]) ELSE FoundLowest(p, hit)
  BY DEF BisectDown
<1> HIDE DEF mid
<1>6. live => e \in Occupied /\ c.begun.lo <= Lowest /\ c.begun.lo <= c.hit /\ c.miss < Lowest
  BY <1>1, <1>2, <1>3 DEF LiveLocal, Searching
<1>7. ~live => Present(e) /\ Present(c.hit) /\ ~Present(c.miss)
  BY <1>1, <1>2 DEF RestLocal
<1>8. Present(e)
  BY <1>6, <1>7 DEF Present
<1>9. hit \in Indices /\ miss \in Nat /\ miss < hit /\ hit <= e /\ hit \in Nat
  <2>1. c.hit \in Indices /\ (mid \in Occupied => mid \in Indices)
    BY <1>1 DEF EndsHold, CallType
  <2> QED BY <2>1, <1>1, <1>3, <1>4 DEF Present
<1>10. live => c.begun.lo <= hit /\ miss < Lowest
  BY <1>1, <1>3, <1>4, <1>6 DEF Present
<1>11. ~live => Present(hit) /\ ~Present(miss)
  BY <1>7
<1> HIDE DEF hit, miss
<1>12. CASE Apart(miss, hit)
  <2> DEFINE cc == [c EXCEPT !.hit = hit, !.miss = miss]
  <2>1. Goes(p, cc)
    BY <1>5, <1>12
  <2>2. cc \in CallType
    BY <1>1, <1>9 DEF CallType
  <2>3. /\ cc.stage = "bisectDown" /\ cc.miss = miss /\ cc.hit = hit /\ cc.step = c.step
        /\ cc.op = c.op /\ cc.begun = c.begun
    BY <1>1, <1>2 DEF CallType
  <2> HIDE DEF cc
  <2>4. Finds(p, cc)
    BY <1>1, <1>3, <1>9, <1>12, <2>3 DEF Finds, Apart
  <2>5. live => FindsLive(p, cc)
    BY <1>6, <1>10, <2>3 DEF FindsLive
  <2>6. ~live => FindsRest(p, cc)
    BY <1>7, <1>11, <2>3 DEF FindsRest
  <2> QED BY <1>2, <2>1, <2>2, <2>3, <2>4, <2>5, <2>6, GoesInv DEF Searching
<1>13. CASE ~Apart(miss, hit)
  <2>1. FoundLowest(p, hit)
    BY <1>5, <1>13
  <2>2. miss = hit - 1
    BY <1>9, <1>13 DEF Apart
  <2>3. live => c.begun.lo <= hit /\ hit <= Lowest
    BY <1>1, <1>9, <1>10, <2>2
  <2>4. ~live => Present(hit) /\ ~Present(hit - 1)
    BY <1>11, <2>2
  <2> QED BY <1>2, <1>8, <1>9, <2>1, <2>3, <2>4, FoundLowestInv
<1> QED BY <1>12, <1>13

(* One step of ascend is one step along the path of the search. *)
LEMMA PathAscends ==
    ASSUME NEW p, cursor[p].entry \in Int, NEW h \in Int, NEW s \in Int,
           <<"ascend", h, s>> \in Path(p)
    PROVE  LET probe == cursor[p].entry + s
           IN  /\ Present(probe) => <<"ascend", probe, 2 * s>> \in Path(p)
               /\ ~Present(probe) /\ Apart(h, probe) => <<"bisectUp", h, probe>> \in Path(p)
               /\ ~Present(probe) /\ ~Apart(h, probe) => <<"top", h, 0>> \in Path(p)
<1> DEFINE e == cursor[p].entry
           y == <<"ascend", h, s>>
<1>1. y[1] = "ascend" /\ y[2] = h /\ y[3] = s
  OBVIOUS
<1>2. y[1] # "top" /\ y \in Orbit(Occupied, e, <<"ascend", e, 1>>)
  BY DEF Path
<1>3. UpStep(Occupied, e, y) \in Path(p)
  BY <1>2, OrbitStep DEF Path
<1>4. UpStep(Occupied, e, y) = IF e + s \in Occupied
                               THEN <<"ascend", e + s, 2 * s>>
                               ELSE IF Apart(h, e + s) THEN <<"bisectUp", h, e + s>>
                                                       ELSE <<"top", h, 0>>
  BY <1>1 DEF UpStep
<1> QED BY <1>3, <1>4 DEF Present

LEMMA PathBisects ==
    ASSUME NEW p, cursor[p].entry \in Int, NEW h \in Int, NEW m \in Int,
           <<"bisectUp", h, m>> \in Path(p)
    PROVE  LET mid == h + (m - h) \div 2
               hit == IF Present(mid) THEN mid ELSE h
               miss == IF Present(mid) THEN m ELSE mid
           IN  /\ Apart(hit, miss) => <<"bisectUp", hit, miss>> \in Path(p)
               /\ ~Apart(hit, miss) => <<"top", hit, 0>> \in Path(p)
<1> DEFINE e == cursor[p].entry
           y == <<"bisectUp", h, m>>
           mid == h + (m - h) \div 2
           hit == IF Present(mid) THEN mid ELSE h
           miss == IF Present(mid) THEN m ELSE mid
<1>1. y[1] = "bisectUp" /\ y[2] = h /\ y[3] = m
  OBVIOUS
<1>2. y[1] # "top" /\ y \in Orbit(Occupied, e, <<"ascend", e, 1>>)
  BY DEF Path
<1>3. UpStep(Occupied, e, y) \in Path(p)
  BY <1>2, OrbitStep DEF Path
<1>4. UpStep(Occupied, e, y) = IF Apart(hit, miss) THEN <<"bisectUp", hit, miss>>
                                                   ELSE <<"top", hit, 0>>
  BY <1>1 DEF UpStep, Present
<1> HIDE DEF hit, miss
<1>5. /\ Apart(hit, miss) => <<"bisectUp", hit, miss>> \in Path(p)
      /\ ~Apart(hit, miss) => <<"top", hit, 0>> \in Path(p)
  BY <1>3, <1>4
<1> QED BY <1>5 DEF hit, miss

LEMMA AscendInv ==
    ASSUME ListInv, NEW p \in Clients, Ascend(p), live' = live
    PROVE  ListInv' /\ Honest(p)
<1> DEFINE e == cursor[p].entry
           c == call[p]
           probe == ProbeAbove(p)
<1>1. /\ EndsHold /\ Shape(p) /\ cursor[p] \in CursorType /\ c \in CallType
      /\ e \in Nat /\ c.step \in Nat /\ c.hit \in Nat /\ c.lo \in Nat
      /\ c.begun.lo \in Nat /\ c.begun.hi \in Int
      /\ Lowest \in Nat /\ Top \in Int /\ Occupied \subseteq Nat
      /\ live => Occupied = Lowest..Top /\ LiveLocal(p)
      /\ ~live => RestLocal(p)
  BY Known
<1>2. c.stage = "ascend" /\ Unwritten
  BY DEF Ascend, At
<1>3. c.step >= 1 /\ e <= c.hit /\ c.hit < e + c.step /\ ~Idle(p)
  BY <1>1, <1>2 DEF Shape, Idle
<1>4. probe = e + c.step /\ probe \in Nat /\ c.hit < probe /\ 2 * c.step \in Nat
  BY <1>1, <1>3 DEF ProbeAbove
<1>5. live => /\ e \in Occupied /\ c.hit \in Occupied /\ c.begun.hi <= Top
              /\ c.begun.lo <= c.lo /\ c.lo <= Lowest
  BY <1>1, <1>2, <1>3 DEF LiveLocal, Searching
<1>6. ~live => /\ Present(c.lo) /\ ~Present(c.lo - 1) /\ Present(c.hit)
               /\ <<"ascend", c.hit, c.step>> \in Path(p)
  BY <1>1, <1>2 DEF RestLocal
<1>7. ~live => /\ Present(probe) => <<"ascend", probe, 2 * c.step>> \in Path(p)
               /\ ~Present(probe) /\ Apart(c.hit, probe) => <<"bisectUp", c.hit, probe>> \in Path(p)
               /\ ~Present(probe) /\ ~Apart(c.hit, probe) => <<"top", c.hit, 0>> \in Path(p)
  <2>1. e \in Int /\ c.hit \in Int /\ c.step \in Int
    BY <1>1
  <2>2. ASSUME ~live
        PROVE  LET pr == e + c.step
               IN  /\ Present(pr) => <<"ascend", pr, 2 * c.step>> \in Path(p)
                   /\ ~Present(pr) /\ Apart(c.hit, pr) => <<"bisectUp", c.hit, pr>> \in Path(p)
                   /\ ~Present(pr) /\ ~Apart(c.hit, pr) => <<"top", c.hit, 0>> \in Path(p)
    BY <2>1, <2>2, <1>6, PathAscends
  <2> QED BY <2>2, <1>4
<1>8. live /\ probe \notin Occupied => Top < probe
  BY <1>1, <1>3, <1>4, <1>5
<1>9. probe \in Occupied => probe \in Indices
  BY <1>1 DEF EndsHold
<1> HIDE DEF probe
<1>10. CASE Present(probe)
  <2> DEFINE cc == [c EXCEPT !.hit = probe, !.step = 2 * @]
  <2>1. Goes(p, cc)
    BY <1>10 DEF Ascend, probe
  <2>2. cc \in CallType
    <3>1. probe \in Indices
      BY <1>9, <1>10 DEF Present
    <3> QED BY <1>1, <1>4, <3>1 DEF CallType
  <2>3. /\ cc.stage = "ascend" /\ cc.hit = probe /\ cc.step = 2 * c.step /\ cc.lo = c.lo
        /\ cc.op = c.op /\ cc.begun = c.begun
    BY <1>1, <1>2 DEF CallType
  <2> HIDE DEF cc
  <2>4. Finds(p, cc)
    BY <1>1, <1>3, <1>4, <2>3 DEF Finds
  <2>5. live => FindsLive(p, cc)
    BY <1>5, <1>10, <2>3 DEF FindsLive, Present
  <2>6. ~live => FindsRest(p, cc)
    BY <1>6, <1>7, <1>10, <2>3 DEF FindsRest
  <2> QED BY <1>2, <2>1, <2>2, <2>3, <2>4, <2>5, <2>6, GoesInv DEF Searching
<1>11. CASE ~Present(probe) /\ Apart(c.hit, probe)
  <2> DEFINE cc == [c EXCEPT !.stage = "bisectUp", !.miss = probe]
  <2>1. Goes(p, cc)
    BY <1>11 DEF Ascend, probe
  <2>2. cc \in CallType
    BY <1>1, <1>4 DEF CallType, Stages
  <2>3. /\ cc.stage = "bisectUp" /\ cc.miss = probe /\ cc.hit = c.hit /\ cc.step = c.step
        /\ cc.lo = c.lo /\ cc.op = c.op /\ cc.begun = c.begun
    BY <1>1 DEF CallType
  <2> HIDE DEF cc
  <2>4. Finds(p, cc)
    BY <1>1, <1>3, <1>4, <1>11, <2>3 DEF Finds, Apart
  <2>5. live => FindsLive(p, cc)
    BY <1>1, <1>4, <1>5, <1>8, <1>11, <2>3 DEF FindsLive, Present
  <2>6. ~live => FindsRest(p, cc)
    BY <1>6, <1>7, <1>11, <2>3 DEF FindsRest
  <2> QED BY <1>2, <2>1, <2>2, <2>3, <2>4, <2>5, <2>6, GoesInv DEF Searching
<1>12. CASE ~Present(probe) /\ ~Apart(c.hit, probe)
  <2>1. FoundTop(p, c, c.hit)
    BY <1>12 DEF Ascend, probe
  <2>2. probe = c.hit + 1
    BY <1>1, <1>4, <1>12 DEF Apart
  <2>3. c.hit \in Indices /\ ~Present(c.hit + 1) /\ Present(c.hit)
    BY <1>1, <1>5, <1>6, <1>12, <2>2 DEF CallType, Present
  <2>4. live => c.begun.hi <= c.hit
    BY <1>1, <1>4, <1>5, <1>8, <1>12, <2>2 DEF Present
  <2>5. ~live => <<"top", c.hit, 0>> \in Path(p)
    BY <1>7, <1>12
  <2> QED BY <1>2, <1>3, <2>1, <2>3, <2>4, <2>5, FoundTopInv
<1> QED BY <1>10, <1>11, <1>12

LEMMA BisectUpInv ==
    ASSUME ListInv, NEW p \in Clients, BisectUp(p), live' = live
    PROVE  ListInv' /\ Honest(p)
<1> DEFINE e == cursor[p].entry
           c == call[p]
           mid == c.hit + (c.miss - c.hit) \div 2
           hit == IF Present(mid) THEN mid ELSE c.hit
           miss == IF Present(mid) THEN c.miss ELSE mid
<1>1. /\ EndsHold /\ Shape(p) /\ cursor[p] \in CursorType /\ c \in CallType
      /\ e \in Nat /\ c.step \in Nat /\ c.hit \in Nat /\ c.miss \in Int /\ c.lo \in Nat
      /\ c.begun.lo \in Nat /\ c.begun.hi \in Int
      /\ Lowest \in Nat /\ Top \in Int /\ Occupied \subseteq Nat
      /\ live => Occupied = Lowest..Top /\ LiveLocal(p)
      /\ ~live => RestLocal(p)
  BY Known
<1>2. c.stage = "bisectUp" /\ Unwritten
  BY DEF BisectUp, At
<1>3. c.step >= 1 /\ e <= c.hit /\ c.hit + 1 < c.miss /\ ~Idle(p)
  BY <1>1, <1>2 DEF Shape, Idle
<1>4. mid \in Nat /\ c.hit < mid /\ mid < c.miss
  <2> DEFINE n == c.miss - c.hit
  <2>1. n \in Int /\ n >= 2
    BY <1>1, <1>3
  <2>2. n \div 2 \in Int /\ 1 <= n \div 2 /\ n \div 2 < n
    BY <2>1, Half
  <2> DEFINE d == n \div 2
  <2>3. mid = c.hit + d /\ d \in Int /\ 1 <= d /\ d < c.miss - c.hit
    BY <2>2
  <2> HIDE DEF d, n, mid
  <2> QED BY <1>1, <1>3, <2>3, SMTT(40)
<1>5. IF Apart(hit, miss) THEN Goes(p, [c EXCEPT !.hit = hit, !.miss = miss]) ELSE FoundTop(p, c, hit)
  BY DEF BisectUp
<1>6. live => /\ e \in Occupied /\ c.hit \in Occupied /\ c.begun.hi <= Top /\ c.begun.hi < c.miss
              /\ c.begun.lo <= c.lo /\ c.lo <= Lowest
  BY <1>1, <1>2, <1>3 DEF LiveLocal, Searching
<1>7. ~live => /\ Present(c.lo) /\ ~Present(c.lo - 1) /\ Present(c.hit) /\ ~Present(c.miss)
               /\ <<"bisectUp", c.hit, c.miss>> \in Path(p)
  BY <1>1, <1>2 DEF RestLocal
<1>8. ~live => /\ Apart(hit, miss) => <<"bisectUp", hit, miss>> \in Path(p)
               /\ ~Apart(hit, miss) => <<"top", hit, 0>> \in Path(p)
  <2>1. e \in Int /\ c.hit \in Int /\ c.miss \in Int
    BY <1>1
  <2> QED BY <2>1, <1>7, PathBisects
<1> HIDE DEF mid
<1>9. /\ hit \in Indices /\ miss \in Nat /\ hit \in Nat /\ hit < miss /\ e <= hit
      /\ Present(hit)
  <2>1. c.hit \in Indices /\ (mid \in Occupied => mid \in Indices)
    BY <1>1 DEF EndsHold, CallType
  <2>2. Present(c.hit)
    BY <1>6, <1>7 DEF Present
  <2> QED BY <2>1, <2>2, <1>1, <1>3, <1>4 DEF Present
<1>10. live => c.begun.hi < miss
  BY <1>1, <1>3, <1>4, <1>6 DEF Present
<1>11. ~live => ~Present(miss)
  BY <1>7
<1> HIDE DEF hit, miss
<1>12. CASE Apart(hit, miss)
  <2> DEFINE cc == [c EXCEPT !.hit = hit, !.miss = miss]
  <2>1. Goes(p, cc)
    BY <1>5, <1>12
  <2>2. cc \in CallType
    BY <1>1, <1>9 DEF CallType
  <2>3. /\ cc.stage = "bisectUp" /\ cc.miss = miss /\ cc.hit = hit /\ cc.step = c.step
        /\ cc.lo = c.lo /\ cc.op = c.op /\ cc.begun = c.begun
    BY <1>1, <1>2 DEF CallType
  <2> HIDE DEF cc
  <2>4. Finds(p, cc)
    BY <1>1, <1>3, <1>9, <1>12, <2>3 DEF Finds, Apart
  <2>5. live => FindsLive(p, cc)
    BY <1>6, <1>9, <1>10, <2>3 DEF FindsLive, Present
  <2>6. ~live => FindsRest(p, cc)
    BY <1>7, <1>8, <1>9, <1>11, <1>12, <2>3 DEF FindsRest
  <2> QED BY <1>2, <2>1, <2>2, <2>3, <2>4, <2>5, <2>6, GoesInv DEF Searching
<1>13. CASE ~Apart(hit, miss)
  <2>1. FoundTop(p, c, hit)
    BY <1>5, <1>13
  <2>2. miss = hit + 1
    BY <1>9, <1>13 DEF Apart
  <2>3. live => c.begun.hi <= hit
    BY <1>1, <1>9, <1>10, <2>2
  <2>4. ~live => ~Present(hit + 1)
    BY <1>11, <2>2
  <2>5. ~live => <<"top", hit, 0>> \in Path(p)
    BY <1>8, <1>13
  <2> QED BY <1>2, <1>9, <2>1, <2>3, <2>4, <2>5, FoundTopInv
<1> QED BY <1>12, <1>13

LEMMA ProbeGapInv ==
    ASSUME ListInv, NEW p \in Clients, ProbeGap(p), live' = live
    PROVE  ListInv' /\ Honest(p)
<1> DEFINE e == cursor[p].entry
           c == call[p]
<1>1. /\ EndsHold /\ Shape(p) /\ cursor[p] \in CursorType /\ c \in CallType
      /\ e \in Nat /\ c.step \in Nat /\ c.hit \in Nat /\ c.lo \in Nat /\ c.at \in Nat
      /\ c.begun.lo \in Nat /\ c.begun.hi \in Int
      /\ Lowest \in Nat /\ Top \in Int /\ Occupied \subseteq Nat
      /\ live => Occupied = Lowest..Top /\ LiveLocal(p)
      /\ ~live => RestLocal(p)
  BY Known
<1>2. c.stage = "probe" /\ Unwritten
  BY DEF ProbeGap, At
<1>3. /\ c.step >= 1 /\ e <= c.hit /\ c.hit + 2 <= c.at /\ ~cursor[p].loaded /\ GapProbe > 0
      /\ c.at <= LastProbe(c.hit) /\ ~Idle(p)
  BY <1>1, <1>2 DEF Shape, Idle
<1>4. live => /\ e \in Occupied /\ c.hit \in Occupied /\ c.begun.hi <= c.hit
              /\ c.begun.lo <= c.lo /\ c.lo <= Lowest
  BY <1>1, <1>2 DEF LiveLocal, Searching
<1>5. ~live => /\ Present(c.lo) /\ ~Present(c.lo - 1) /\ Present(c.hit) /\ ~Present(c.hit + 1)
               /\ <<"top", c.hit, 0>> \in Path(p)
               /\ \A i \in Occupied : i > c.hit => i >= c.at
  BY <1>1, <1>2 DEF RestLocal
<1>6. c.hit \in Indices /\ c.lo \in Indices
  BY <1>1 DEF CallType
<1>7. CASE Present(c.at)
  <2>1. Refuse(p, "gap")
    BY <1>7 DEF ProbeGap
  <2>2. UNCHANGED <<slots, puts, acked>> /\ faults' \in Nat
    BY <1>2 DEF Unwritten, ListInv, TypeOK
  <2> QED BY <1>3, <2>1, <2>2, RefuseInv
<1>8. CASE ~Present(c.at) /\ c.at < LastProbe(c.hit)
  <2> DEFINE cc == [c EXCEPT !.at = @ + 1]
  <2>1. Goes(p, cc)
    BY <1>8 DEF ProbeGap
  <2>2. c.at + 1 \in 0..MaxIndex + 1 + GapProbe /\ c.at + 1 <= LastProbe(c.hit)
    <3>1. c.hit \in 0..MaxIndex /\ MaxIndex \in Nat /\ GapProbe \in Nat
      BY <1>6, BookmarksAssumption DEF Indices
    <3>2. c.at < c.hit + 1 + GapProbe
      BY <1>8 DEF LastProbe
    <3> DEFINE a == c.at
               h == c.hit
    <3>3. a \in Nat /\ h \in 0..MaxIndex /\ a < h + 1 + GapProbe
      BY <1>1, <3>1, <3>2
    <3> HIDE DEF a, h
    <3>4. a + 1 \in 0..MaxIndex + 1 + GapProbe /\ a + 1 <= h + 1 + GapProbe
      BY <3>1, <3>3
    <3> QED BY <3>4 DEF LastProbe, a, h
  <2>3. cc \in CallType
    BY <1>1, <2>2 DEF CallType
  <2>4. /\ cc.stage = "probe" /\ cc.hit = c.hit /\ cc.at = c.at + 1 /\ cc.step = c.step
        /\ cc.lo = c.lo /\ cc.op = c.op /\ cc.begun = c.begun
    BY <1>1, <1>2 DEF CallType
  <2> HIDE DEF cc
  <2>5. Finds(p, cc)
    BY <1>1, <1>3, <2>2, <2>4 DEF Finds
  <2>6. live => FindsLive(p, cc)
    BY <1>4, <2>4 DEF FindsLive
  <2>7. ASSUME ~live PROVE FindsRest(p, cc)
    <3>1. ASSUME NEW i \in Occupied, i > c.hit PROVE i >= c.at + 1
      <4>1. i \in Nat /\ i >= c.at /\ i # c.at
        BY <1>1, <1>5, <1>8, <2>7, <3>1 DEF Present
      <4> QED BY <1>1, <4>1
    <3> QED BY <1>5, <2>4, <2>7, <3>1 DEF FindsRest
  <2> QED BY <1>2, <2>1, <2>3, <2>4, <2>5, <2>6, <2>7, GoesInv DEF Searching
<1>9. CASE ~Present(c.at) /\ ~(c.at < LastProbe(c.hit))
  <2>1. Settle(p, c.lo, c.hit)
    BY <1>9 DEF ProbeGap
  <2>2. c.at = c.hit + 1 + GapProbe
    <3>1. GapProbe \in Nat /\ LastProbe(c.hit) = c.hit + 1 + GapProbe
      BY BookmarksAssumption DEF LastProbe
    <3> DEFINE a == c.at
               h == c.hit
    <3>2. a \in Nat /\ h \in Nat /\ a <= h + 1 + GapProbe /\ ~(a < h + 1 + GapProbe)
      BY <1>1, <1>3, <1>9, <3>1
    <3> HIDE DEF a, h
    <3>3. a = h + 1 + GapProbe
      BY <3>1, <3>2
    <3> QED BY <3>3 DEF a, h
  <2>3. ~live => Clear(c.hit)
    <3> SUFFICES ASSUME ~live, NEW i \in Occupied, i > c.hit PROVE i > c.hit + 1 + GapProbe
      BY DEF Clear
    <3>1. i \in Nat /\ i >= c.at /\ i # c.at
      BY <1>1, <1>5, <1>9 DEF Present
    <3> QED BY <1>1, <2>2, <3>1, BookmarksAssumption
  <2>4. live => c.hit <= Top
    BY <1>1, <1>4 DEF EndsHold
  <2>5. SettlesOn(p, c.lo, c.hit)
    BY <1>4, <1>5, <2>3, <2>4 DEF SettlesOn
  <2> QED BY <1>2, <1>6, <2>1, <2>5, SettleInv DEF Searching
<1> QED BY <1>7, <1>8, <1>9

LEMMA FetchFailsInv ==
    ASSUME ListInv, NEW p \in Clients, FetchFails(p), live' = live
    PROVE  ListInv' /\ Honest(p)
<1>1. faults' \in Nat
  BY DEF FetchFails, ListInv, TypeOK
<1> QED BY <1>1, RefuseInv DEF FetchFails

-----------------------------------------------------------------------------
(* Opening, calling and closing.                                           *)

LEMMA NoneTyped ==
    NoCall \in CallType /\ NoCursor \in CursorType /\ NoResult \in ResultType
  BY BookmarksAssumption
    DEF NoCall, CallType, NoCursor, CursorType, NoResult, ResultType, Ops, Stages, Indices, Statuses

(* A call begins: the list as it is now is what its range is held to. *)
LEMMA BeginEffect ==
    ASSUME TypeOK, NEW p \in Clients, NEW op \in Ops, NEW stage \in Stages,
           cursor' \in [Clients -> CursorType], Begin(p, op, stage)
    PROVE  /\ call' \in [Clients -> CallType] /\ result' \in [Clients -> ResultType]
           /\ call'[p] \in CallType /\ call'[p].op = op /\ call'[p].stage = stage
           /\ call'[p].step = 1 /\ call'[p].begun = [lo |-> Lowest, hi |-> Top]
           /\ call'[p].begun.lo = Lowest /\ call'[p].begun.hi = Top
           /\ result'[p] = NoResult
           /\ \A q \in Clients \ {p} : call'[q] = call[q] /\ result'[q] = result[q]
<1>1. call \in [Clients -> CallType] /\ result \in [Clients -> ResultType]
  BY Types
<1>2. EndsHold
  BY Ends
<1> DEFINE begun == [lo |-> Lowest, hi |-> Top]
           at == cursor'[p].lo
           cc == [NoCall EXCEPT !.op = op, !.stage = stage, !.at = at, !.begun = begun]
<1>3. begun \in [lo : Indices, hi : Indices \cup {-1}] /\ begun.lo = Lowest /\ begun.hi = Top
  BY <1>2 DEF EndsHold
<1>4. at \in 0..MaxIndex + 1 + GapProbe
  BY BookmarksAssumption DEF CursorType, Indices
<1>5. /\ call' = [call EXCEPT ![p] = cc]
      /\ result' = [result EXCEPT ![p] = NoResult]
  BY DEF Begin
<1> HIDE DEF begun, at
<1>6. NoCall \in CallType /\ NoCall.step = 1
  BY NoneTyped DEF NoCall
<1>8. cc \in CallType /\ cc.op = op /\ cc.stage = stage /\ cc.step = 1 /\ cc.begun = begun
  BY <1>3, <1>4, <1>6 DEF CallType
<1> HIDE DEF cc
<1>9. call'[p] = cc /\ result'[p] = NoResult
  BY <1>1, <1>5
<1>10. call' \in [Clients -> CallType] /\ result' \in [Clients -> ResultType]
  BY <1>1, <1>5, <1>8, NoneTyped
<1>11. \A q \in Clients \ {p} : call'[q] = call[q] /\ result'[q] = result[q]
  BY <1>1, <1>5
<1>12. cc.begun = [lo |-> Lowest, hi |-> Top] /\ cc.begun.lo = Lowest /\ cc.begun.hi = Top
  BY <1>3, <1>8 DEF begun
<1> QED BY <1>8, <1>9, <1>10, <1>11, <1>12

LEMMA NewBookmarksInv ==
    ASSUME ListInv, NEW p \in Clients, NewBookmarks(p), live' = live
    PROVE  ListInv' /\ Honest(p)
<1>1. TypeOK /\ Shape(p)
  BY DEF ListInv
<1>2. cursor \in [Clients -> CursorType] /\ call \in [Clients -> CallType]
          /\ result \in [Clients -> ResultType]
  BY <1>1, Types
<1> DEFINE kk == [NoCursor EXCEPT !.open = TRUE]
<1>3. /\ kk \in CursorType /\ kk.open /\ kk.entry = 0 /\ ~kk.anchored /\ kk.lo = 0 /\ kk.hi = -1
      /\ ~kk.wrote /\ ~kk.loaded
  <2>1. NoCursor \in CursorType
    BY NoneTyped
  <2>2. /\ NoCursor.entry = 0 /\ ~NoCursor.anchored /\ NoCursor.lo = 0 /\ NoCursor.hi = -1
        /\ ~NoCursor.wrote /\ ~NoCursor.loaded
    BY DEF NoCursor
  <2> QED BY <2>1, <2>2 DEF CursorType
<1> HIDE DEF kk
<1>4. cursor' = [cursor EXCEPT ![p] = kk] /\ call' = call /\ result' = result /\ Idle(p)
        /\ Opens(p) /\ (Occupied = {} \/ 0 \in Occupied)
        /\ UNCHANGED <<slots, puts, acked, faults>>
  BY DEF NewBookmarks, kk
<1>5. cursor'[p] = kk /\ cursor' \in [Clients -> CursorType] /\ Others(p)
  BY <1>2, <1>3, <1>4 DEF Others
<1>6. Occupied' = Occupied /\ Lowest' = Lowest /\ Top' = Top
  BY <1>4 DEF Occupied, Lowest, Top
<1>7. Shape(p)'
  BY <1>1, <1>3, <1>4, <1>5 DEF Shape, Idle, Opens, Searching, Settled
<1>8. ASSUME live PROVE LiveLocal(p)'
  BY <1>3, <1>4, <1>5, <1>6 DEF LiveLocal, Idle, Searching, Settled
<1>9. ASSUME ~live PROVE RestLocal(p)'
  <2>1. RangeHolds(p)'
    BY <1>3, <1>5 DEF RangeHolds
  <2> QED BY <2>1, <1>3, <1>4, <1>5 DEF RestLocal, Idle, Settled
<1>10. faults' \in Nat /\ call' \in [Clients -> CallType] /\ result' \in [Clients -> ResultType]
  BY <1>1, <1>2, <1>4 DEF TypeOK
<1>11. Honest(p)
  BY <1>4 DEF Honest, Returns
<1> QED BY <1>4, <1>5, <1>7, <1>8, <1>9, <1>10, <1>11, Frame

LEMMA OpenBookmarksInv ==
    ASSUME ListInv, NEW p \in Clients, NEW i \in Indices, OpenBookmarks(p, i), live' = live
    PROVE  ListInv' /\ Honest(p)
<1>1. TypeOK /\ Shape(p) /\ EndsHold
  BY Ends DEF ListInv
<1>2. cursor \in [Clients -> CursorType]
  BY <1>1, Types
<1> DEFINE kk == [NoCursor EXCEPT !.open = TRUE, !.entry = i, !.anchored = TRUE]
<1>3. /\ kk \in CursorType /\ kk.open /\ kk.entry = i /\ kk.anchored /\ kk.lo = 0 /\ kk.hi = -1
      /\ ~kk.wrote /\ ~kk.loaded
  <2>1. NoCursor \in CursorType
    BY NoneTyped
  <2>2. /\ NoCursor.entry = 0 /\ ~NoCursor.anchored /\ NoCursor.lo = 0 /\ NoCursor.hi = -1
        /\ ~NoCursor.wrote /\ ~NoCursor.loaded
    BY DEF NoCursor
  <2> QED BY <2>1, <2>2 DEF CursorType
<1> HIDE DEF kk
<1>4. cursor' = [cursor EXCEPT ![p] = kk] /\ Begin(p, "open", "entry") /\ Idle(p)
        /\ Opens(p) /\ Present(i) /\ UNCHANGED <<slots, puts, acked, faults>>
  BY DEF OpenBookmarks, kk
<1>5. cursor'[p] = kk /\ cursor' \in [Clients -> CursorType]
  BY <1>2, <1>3, <1>4
<1>6. /\ call' \in [Clients -> CallType] /\ result' \in [Clients -> ResultType]
      /\ call'[p] \in CallType /\ call'[p].op = "open" /\ call'[p].stage = "entry"
      /\ call'[p].step = 1 /\ call'[p].begun.lo = Lowest /\ call'[p].begun.hi = Top
      /\ result'[p] = NoResult
      /\ \A q \in Clients \ {p} : call'[q] = call[q] /\ result'[q] = result[q]
  BY <1>1, <1>4, <1>5, BeginEffect DEF Ops, Stages
<1>7. Others(p)
  BY <1>2, <1>4, <1>6 DEF Others
<1>8. Occupied' = Occupied /\ Lowest' = Lowest /\ Top' = Top
  BY <1>4 DEF Occupied, Lowest, Top
<1>9. Shape(p)'
  BY <1>3, <1>4, <1>5, <1>6 DEF Shape, Idle, Opens, Searching, Settled
<1>10. ASSUME live PROVE LiveLocal(p)'
  <2>1. Occupied # {} /\ i <= Top /\ Lowest <= Top /\ Lowest <= Top + 1
    BY <1>1, <1>4, BookmarksAssumption DEF EndsHold, Present, Indices
  <2>2. Lowest \in Int /\ Top \in Int
    BY <1>1, BookmarksAssumption DEF EndsHold, Indices
  <2> QED BY <2>1, <2>2, <1>3, <1>5, <1>6, <1>8 DEF LiveLocal, Idle, Searching, Settled
<1>11. ASSUME ~live PROVE RestLocal(p)'
  BY <1>3, <1>4, <1>5, <1>6, <1>8 DEF RestLocal, Present, Settled, NoResult
<1>12. faults' \in Nat
  BY <1>1, <1>4 DEF TypeOK
<1>13. Honest(p)
  BY <1>4 DEF Honest, Returns
<1> QED BY <1>4, <1>5, <1>6, <1>7, <1>9, <1>10, <1>11, <1>12, <1>13, Frame

LEMMA CallInv ==
    ASSUME ListInv, NEW p \in Clients, NEW op \in Settled, op = "append" => p = Writer,
           Call(p, op), live' = live
    PROVE  ListInv' /\ Honest(p)
<1>1. TypeOK /\ Shape(p) /\ EndsHold
  BY Ends DEF ListInv
<1>2. cursor \in [Clients -> CursorType] /\ cursor[p] \in CursorType
  BY <1>1, Types
<1> DEFINE stage == IF cursor[p].wrote THEN op ELSE "entry"
<1>3. /\ cursor' = cursor /\ cursor[p].open /\ Begin(p, op, stage)
      /\ UNCHANGED <<slots, puts, acked, faults>>
  BY DEF Call
<1>4. op \in Ops /\ stage \in Stages /\ stage # "idle"
  BY DEF Settled, Ops, Stages
<1>5. /\ call' \in [Clients -> CallType] /\ result' \in [Clients -> ResultType]
      /\ call'[p] \in CallType /\ call'[p].op = op /\ call'[p].stage = stage
      /\ call'[p].step = 1 /\ call'[p].begun.lo = Lowest /\ call'[p].begun.hi = Top
      /\ result'[p] = NoResult
      /\ \A q \in Clients \ {p} : call'[q] = call[q] /\ result'[q] = result[q]
  BY <1>1, <1>2, <1>3, <1>4, BeginEffect
<1>6. Others(p)
  BY <1>3, <1>5 DEF Others
<1>7. Occupied' = Occupied /\ Lowest' = Lowest /\ Top' = Top /\ Path(p)' = Path(p)
  BY <1>3 DEF Occupied, Lowest, Top, Path
<1>8. Shape(p)'
  <2>1. op # "none"
    BY DEF Settled
  <2>2. stage \in Settled => stage = op
    BY DEF Settled
  <2>3. stage \in Searching => ~cursor[p].wrote
    BY DEF Settled, Searching
  <2>4. stage \notin {"descend", "bisectDown", "ascend", "bisectUp", "probe"}
    BY DEF Settled
  <2> HIDE DEF stage
  <2> QED BY <2>1, <2>2, <2>3, <2>4, <1>1, <1>3, <1>5 DEF Shape, Idle
<1>9. ASSUME live PROVE LiveLocal(p)'
  <2>1. Lowest \in Int /\ Top \in Int /\ Lowest <= Top + 1
    BY <1>1, BookmarksAssumption DEF EndsHold, Indices
  <2>2. LiveLocal(p)
    BY <1>9 DEF ListInv, LiveInv
  <2>3. stage \notin Searching \ {"entry"} /\ (stage \in Settled => cursor[p].wrote)
    BY DEF Settled, Searching
  <2>4. stage \notin {"descend", "bisectDown", "ascend", "bisectUp", "probe"}
    BY DEF Settled
  <2> HIDE DEF stage
  <2> QED BY <2>1, <2>2, <2>3, <2>4, <1>3, <1>5, <1>7 DEF LiveLocal, Idle
<1>10. ASSUME ~live PROVE RestLocal(p)'
  <2>1. RestLocal(p) /\ ~cursor[p].wrote
    BY <1>1, <1>10 DEF ListInv, RestInv, Shape
  <2>2. \A h : Clear(h)' = Clear(h)
    BY <1>7 DEF Clear
  <2> QED BY <2>1, <2>2, <1>3, <1>5, <1>7 DEF RestLocal, Present, Settled, NoResult
<1>11. faults' \in Nat
  BY <1>1, <1>3 DEF TypeOK
<1>12. Honest(p)
  BY DEF Honest, Returns, Call
<1> QED BY <1>2, <1>3, <1>5, <1>6, <1>8, <1>9, <1>10, <1>11, <1>12, Frame

LEMMA CloseInv ==
    ASSUME ListInv, NEW p \in Clients, Close(p), live' = live
    PROVE  ListInv' /\ Honest(p)
<1>1. TypeOK
  BY DEF ListInv
<1>2. cursor \in [Clients -> CursorType] /\ call \in [Clients -> CallType]
          /\ result \in [Clients -> ResultType]
  BY <1>1, Types
<1>3. /\ cursor' = [cursor EXCEPT ![p] = NoCursor] /\ call' = [call EXCEPT ![p] = NoCall]
      /\ result' = [result EXCEPT ![p] = NoResult] /\ UNCHANGED <<slots, puts, acked, faults>>
  BY DEF Close
<1>4. /\ cursor'[p] = NoCursor /\ call'[p] = NoCall /\ result'[p] = NoResult
      /\ cursor' \in [Clients -> CursorType] /\ call' \in [Clients -> CallType]
      /\ result' \in [Clients -> ResultType] /\ Others(p)
  BY <1>2, <1>3, NoneTyped DEF Others
<1>5. Shape(p)'
  BY <1>4 DEF Shape, Idle, NoCursor, NoCall, Searching, Settled
<1>6. ASSUME live PROVE LiveLocal(p)'
  BY <1>4 DEF LiveLocal, Idle, NoCursor, NoCall, Searching, Settled
<1>7. ASSUME ~live PROVE RestLocal(p)'
  BY <1>4 DEF RestLocal, NoCursor, NoCall, NoResult, Settled
<1>8. faults' \in Nat
  BY <1>1, <1>3 DEF TypeOK
<1>9. Honest(p)
  BY <1>4 DEF Honest, Returns, NoResult
<1> QED BY <1>3, <1>4, <1>5, <1>6, <1>7, <1>8, <1>9, Frame

-----------------------------------------------------------------------------
(* What the methods do with the range.                                     *)

LEMMA LatestInv ==
    ASSUME ListInv, NEW p \in Clients, Latest(p), live' = live
    PROVE  ListInv' /\ Honest(p)
<1>1. call[p].stage = "latest" /\ call[p].op = "latest" /\ ~Idle(p) /\ Unwritten
  BY DEF Latest, At, ListInv, Shape, Settled, Idle
<1>2. UNCHANGED <<slots, puts, acked>> /\ faults' \in Nat
  BY <1>1 DEF Unwritten, ListInv, TypeOK
<1>3. CASE End(p, "ok") /\ UNCHANGED cursor
  BY <1>1, <1>3, EndInv DEF Settled
<1>4. CASE Refuse(p, "gone")
  BY <1>1, <1>2, <1>4, RefuseInv
<1> QED BY <1>3, <1>4 DEF Latest

LEMMA LengthInv ==
    ASSUME ListInv, NEW p \in Clients, Length(p), live' = live
    PROVE  ListInv' /\ Honest(p)
<1>1. call[p].stage = "len" /\ call[p].op = "len" /\ Unwritten
  BY DEF Length, At, ListInv, Shape, Settled
<1> QED BY <1>1, EndInv DEF Length, Settled

LEMMA VerifyInv ==
    ASSUME ListInv, NEW p \in Clients, Verify(p), live' = live
    PROVE  ListInv' /\ Honest(p)
<1> DEFINE c == call[p]
           k == cursor[p]
<1>1. /\ TypeOK /\ EndsHold /\ Shape(p) /\ k \in CursorType /\ c \in CallType
      /\ c.at \in Nat /\ k.lo \in Nat /\ k.hi \in Int /\ Occupied \subseteq Nat
      /\ live => LiveLocal(p)
      /\ ~live => RestLocal(p)
  BY Known
<1>2. c.stage = "verify" /\ Unwritten
  BY DEF Verify, At
<1>3. c.op = "verify" /\ ~Idle(p) /\ k.open /\ result[p] = NoResult
  BY <1>1, <1>2 DEF Shape, Settled, Idle
<1>4. ~live => k.lo <= c.at /\ \A i \in Indices : k.lo <= i /\ i < c.at => Present(i)
  BY <1>1, <1>2 DEF RestLocal
<1>5. k.hi \in Indices \cup {-1} /\ MaxIndex \in Nat /\ GapProbe \in Nat
  BY <1>1, BookmarksAssumption DEF CursorType
<1>6. CASE c.at > k.hi
  <2>1. End(p, "ok") /\ UNCHANGED cursor
    BY <1>6 DEF Verify
  <2>2. ~live => k.lo..k.hi \subseteq Occupied
    BY <1>1, <1>4, <1>5, <1>6 DEF Present, Indices
  <2> QED BY <1>2, <2>1, <2>2, EndInv DEF Settled
<1>7. CASE ~(c.at > k.hi) /\ Present(c.at)
  <2> DEFINE cc == [c EXCEPT !.at = @ + 1]
  <2>1. Goes(p, cc)
    BY <1>7 DEF Verify
  <2>2. c.at + 1 \in 0..MaxIndex + 1 + GapProbe
    BY <1>1, <1>5, <1>7 DEF Indices
  <2>3. cc \in CallType
    BY <1>1, <2>2 DEF CallType
  <2>4. /\ cc.stage = "verify" /\ cc.at = c.at + 1 /\ cc.step = c.step
        /\ cc.op = c.op /\ cc.begun = c.begun
    BY <1>1, <1>2 DEF CallType
  <2> HIDE DEF cc
  <2>5. /\ Others(p) /\ UNCHANGED <<live, slots, puts, acked>> /\ faults' \in Nat
        /\ cursor' \in [Clients -> CursorType] /\ call' \in [Clients -> CallType]
        /\ result' \in [Clients -> ResultType]
        /\ cursor' = cursor /\ result' = result /\ call'[p] = cc
        /\ Occupied' = Occupied /\ Lowest' = Lowest /\ Top' = Top /\ Path(p)' = Path(p)
    BY <1>1, <1>2, <2>1, <2>3, GoesEffect
  <2>6. Shape(p)'
    BY <1>1, <1>2, <2>4, <2>5 DEF Shape, Idle, Searching, Settled
  <2>7. ASSUME live PROVE LiveLocal(p)'
    BY <1>1, <1>2, <2>4, <2>5, <2>7 DEF LiveLocal, Idle, Searching, Settled
  <2>8. ASSUME ~live PROVE RestLocal(p)'
    <3>1. RestLocal(p) /\ RangeHolds(p)
      BY <1>1, <1>2, <2>8 DEF RestLocal, Settled
    <3>2. RangeHolds(p)' /\ \A h : Clear(h)' = Clear(h)
      BY <3>1, <2>5 DEF RangeHolds, Clear, Present
    <3>3. k.lo <= c.at + 1 /\ \A i \in Indices : k.lo <= i /\ i < c.at + 1 => Present(i)
      <4>1. ASSUME NEW i \in Indices, k.lo <= i, i < c.at + 1 PROVE Present(i)
        <5>1. i \in Nat /\ (i < c.at \/ i = c.at)
          BY <1>1, <4>1 DEF EndsHold
        <5> QED BY <1>4, <1>7, <2>8, <4>1, <5>1
      <4>2. k.lo <= c.at + 1
        BY <1>1, <1>4, <2>8
      <4> QED BY <4>1, <4>2
    <3> QED BY <3>1, <3>2, <3>3, <1>3, <2>4, <2>5 DEF RestLocal, Present, Settled, NoResult
  <2>9. Honest(p)
    BY <2>4, <2>5 DEF Honest, Returns, Idle
  <2> QED BY <2>5, <2>6, <2>7, <2>8, <2>9, Frame
<1>8. CASE ~(c.at > k.hi) /\ ~Present(c.at)
  <2>1. Refuse(p, "gap")
    BY <1>8 DEF Verify
  <2>2. UNCHANGED <<slots, puts, acked>> /\ faults' \in Nat
    BY <1>1, <1>2 DEF Unwritten, TypeOK
  <2>3. ~live => ~(k.lo..k.hi \subseteq Occupied)
    BY <1>1, <1>4, <1>8 DEF Present
  <2> QED BY <1>3, <2>1, <2>2, <2>3, RefuseInv
<1> QED BY <1>6, <1>7, <1>8

-----------------------------------------------------------------------------
(* The steps that change the list.                                         *)

LEMMA IntervalEnds ==
    ASSUME NEW a \in Int, NEW b \in Int, a <= b
    PROVE  Min(a..b) = a /\ Max(a..b) = b
  BY DEF Min, Max

(* Where the writer's next record goes: on or right above the top, at 0 of  *)
(* an empty list, and never on an acknowledged record.                      *)
LEMMA NextIsFree ==
    ASSUME ListInv, NEW p \in Clients, At(p, "append")
    PROVE  /\ live /\ p = Writer /\ call[p].op = "append"
           /\ NextIndex(p) \in {Top, Top + 1}
           /\ Occupied = {} => NextIndex(p) = 0
           /\ \A a \in acked : a[1] # NextIndex(p)
           /\ cursor[p].wrote => NextIndex(p) = cursor[p].hi + 1 /\ Top \in {cursor[p].hi, cursor[p].hi + 1}
           /\ ~cursor[p].wrote => NextIndex(p) = Top + 1
<1> DEFINE k == cursor[p]
           c == call[p]
<1>1. /\ TypeOK /\ EndsHold /\ Shape(p) /\ k.hi \in Int /\ c.begun.hi \in Int
      /\ Lowest \in Nat /\ Top \in Int /\ Occupied \subseteq Nat
      /\ live => Occupied = Lowest..Top /\ LiveLocal(p)
  BY Known
<1>2. c.stage = "append"
  BY DEF At
<1>3. c.op = "append" /\ p = Writer /\ live /\ ~Idle(p)
  BY <1>1, <1>2 DEF Shape, Settled, Idle
<1>4. \A a \in acked : a[1] \in Occupied
  BY <1>1 DEF ListInv, LiveInv, WrittenStays, TypeOK, Occupied
<1>5. CASE k.wrote
  <2>1. Occupied # {} /\ Top \in {k.hi, k.hi + 1} /\ \A a \in acked : a[1] <= k.hi
    BY <1>1, <1>3, <1>5 DEF LiveLocal
  <2>2. \A a \in acked : a[1] \in Nat
    BY <1>1, <1>4
  <2> QED BY <1>1, <1>3, <1>5, <2>1, <2>2 DEF NextIndex
<1>6. CASE ~k.wrote
  <2>1. c.begun.hi <= k.hi /\ k.hi <= Top /\ c.begun.hi = Top
    BY <1>1, <1>2, <1>3, <1>6 DEF LiveLocal, Settled
  <2>2. k.hi = Top /\ NextIndex(p) = Top + 1
    BY <1>1, <2>1 DEF NextIndex
  <2>3. \A a \in acked : a[1] # Top + 1
    BY <1>1, <1>3, <1>4
  <2>4. Occupied = {} => Top + 1 = 0
    BY <1>1 DEF EndsHold
  <2> QED BY <1>3, <1>6, <2>2, <2>3, <2>4
<1> QED BY <1>5, <1>6

(* A record that lands extends the list by at most its index. *)
LEMMA Landed ==
    ASSUME ListInv, NEW p \in Clients, At(p, "append"), NextIndex(p) \in Indices, puts < MaxPuts,
           slots' = [slots EXCEPT ![NextIndex(p)] = puts + 1]
    PROVE  /\ slots' \in [Indices -> 0..MaxPuts + 1]
           /\ Occupied' = Lowest..NextIndex(p) /\ NextIndex(p) \in Occupied'
           /\ Occupied \subseteq Occupied' /\ Occupied' # {}
           /\ Lowest' = Lowest /\ Top' = NextIndex(p) /\ Top <= Top'
           /\ slots'[NextIndex(p)] = puts + 1
           /\ \A a \in acked : slots'[a[1]] = a[2]
<1> DEFINE i == NextIndex(p)
<1>1. /\ TypeOK /\ EndsHold /\ Lowest \in Nat /\ Top \in Int /\ Occupied \subseteq Nat
      /\ live => Occupied = Lowest..Top
  BY Known
<1>2. live /\ i \in {Top, Top + 1} /\ (Occupied = {} => i = 0) /\ \A a \in acked : a[1] # i
  BY NextIsFree
<1>3. puts \in Nat /\ MaxPuts \in Nat /\ slots \in [Indices -> 0..MaxPuts + 1] /\ acked \subseteq Indices \X Nat
  BY <1>1, BookmarksAssumption DEF TypeOK
<1>4. i \in Int /\ i \in Indices
  BY <1>1, <1>2
<1> HIDE DEF i
<1>5. slots' = [slots EXCEPT ![i] = puts + 1]
  BY DEF i
<1>6. puts + 1 \in 0..MaxPuts + 1 /\ puts + 1 # 0
  BY <1>3
<1>7. slots' \in [Indices -> 0..MaxPuts + 1] /\ slots'[i] = puts + 1
  BY <1>3, <1>4, <1>5, <1>6
<1>8. \A j \in Indices : j # i => slots'[j] = slots[j]
  BY <1>3, <1>5
<1>9. Occupied' = Occupied \cup {i}
  BY <1>4, <1>6, <1>7, <1>8 DEF Occupied
<1>10. Lowest <= i /\ Top <= i /\ Occupied' = Lowest..i
  <2>1. CASE Occupied = {}
    <3>1. i = 0 /\ Lowest = 0 /\ Top = -1
      BY <1>1, <1>2, <2>1 DEF EndsHold
    <3>2. Occupied' = {0}
      BY <1>9, <2>1, <3>1
    <3> QED BY <3>1, <3>2
  <2>2. CASE Occupied # {}
    <3>1. Lowest <= Top /\ Occupied = Lowest..Top
      BY <1>1, <1>2, <2>2 DEF EndsHold
    <3> QED BY <1>1, <1>2, <1>4, <1>9, <3>1
  <2> QED BY <2>1, <2>2
<1>11. i \in Occupied' /\ Occupied' # {}
  BY <1>9
<1>12. Lowest' = Lowest /\ Top' = i
  <2>1. Min(Lowest..i) = Lowest /\ Max(Lowest..i) = i
    BY <1>1, <1>4, <1>10, IntervalEnds
  <2>2. Lowest' = Min(Occupied') /\ Top' = Max(Occupied')
    BY <1>11 DEF Lowest, Top
  <2> QED BY <1>10, <2>1, <2>2
<1>13. \A a \in acked : slots'[a[1]] = a[2]
  BY <1>2, <1>3, <1>8 DEF ListInv, LiveInv, WrittenStays
<1> QED BY <1>7, <1>9, <1>10, <1>11, <1>12, <1>13 DEF i

(* A search of another client goes on while the list grows above it. *)
LEMMA OthersWhileItGrows ==
    ASSUME ListInv, live, Occupied \subseteq Occupied', Lowest' = Lowest, Top' \in Int, Top <= Top',
           Occupied = {} => Occupied' = {} \/ 0 \in Occupied',
           NEW q \in Clients, q # Writer,
           cursor'[q] = cursor[q], call'[q] = call[q]
    PROVE  LiveLocal(q)'
<1>1. /\ Shape(q) /\ LiveLocal(q) /\ cursor[q].entry \in Nat /\ Top \in Int /\ Lowest \in Nat
      /\ call[q].begun.hi \in Int /\ cursor[q].hi \in Int
  BY Known
<1>2. ~cursor[q].wrote
  BY <1>1 DEF Shape
<1> QED BY <1>1, <1>2 DEF LiveLocal, Idle

LEMMA AppendInv ==
    ASSUME ListInv, NEW p \in Clients, Append(p), live' = live
    PROVE  ListInv' /\ Honest(p)
<1> DEFINE i == NextIndex(p)
           k == cursor[p]
<1>1. /\ TypeOK /\ EndsHold /\ Shape(p) /\ k \in CursorType /\ call[p] \in CallType
      /\ k.hi \in Int /\ k.lo \in Nat /\ k.entry \in Nat
      /\ Lowest \in Nat /\ Top \in Int /\ Occupied \subseteq Nat
      /\ live => Occupied = Lowest..Top /\ LiveLocal(p)
  BY Known
<1>2. cursor \in [Clients -> CursorType] /\ call \in [Clients -> CallType]
          /\ result \in [Clients -> ResultType]
  BY <1>1, Types
<1>3. At(p, "append") /\ i \in Indices /\ puts < MaxPuts /\ puts' = puts + 1
  BY DEF Append
<1>4. /\ live /\ p = Writer /\ call[p].op = "append" /\ i \in {Top, Top + 1}
      /\ (Occupied = {} => i = 0)
      /\ (k.wrote => i = k.hi + 1 /\ Top \in {k.hi, k.hi + 1})
      /\ (~k.wrote => i = Top + 1)
  BY <1>3, NextIsFree
<1>5. LiveLocal(p) /\ k.open /\ ~Idle(p)
  BY <1>1, <1>3, <1>4 DEF Shape, Idle, At
<1>6. /\ \A a \in acked : slots[a[1]] = a[2] /\ a[2] > 0
      /\ puts \in Nat /\ acked \subseteq Indices \X Nat /\ faults \in Nat /\ live \in BOOLEAN
      /\ slots \in [Indices -> 0..MaxPuts + 1]
  BY <1>1 DEF ListInv, LiveInv, WrittenStays, TypeOK
<1>7. i \in Nat
  BY <1>1, <1>3 DEF EndsHold
<1> DEFINE Lands == slots' = [slots EXCEPT ![i] = puts + 1]
<1>8. Lands => /\ slots' \in [Indices -> 0..MaxPuts + 1]
               /\ Occupied' = Lowest..i /\ i \in Occupied'
               /\ Occupied \subseteq Occupied' /\ Occupied' # {}
               /\ Lowest' = Lowest /\ Top' = i /\ Top <= Top'
               /\ slots'[i] = puts + 1
               /\ \A a \in acked : slots'[a[1]] = a[2]
  BY <1>3, Landed
<1> HIDE DEF i
<1>9. CASE /\ Lands
           /\ cursor' = [cursor EXCEPT ![p].lo = Min({@, i}), ![p].hi = i,
                            ![p].wrote = TRUE, ![p].loaded = TRUE]
           /\ acked' = acked \cup {<<i, puts + 1>>}
           /\ End(p, "ok")
           /\ UNCHANGED faults
  <2> DEFINE kk == [k EXCEPT !.lo = Min({@, i}), !.hi = i, !.wrote = TRUE, !.loaded = TRUE]
             r == [status |-> "ok", op |-> "append"]
  <2>1. Min({k.lo, i}) \in Indices
    <3>1. k.lo \in Indices /\ k.lo \in Int /\ i \in Int
      BY <1>1, <1>7 DEF CursorType
    <3>2. Min({k.lo, i}) \in {k.lo, i}
      BY <3>1, MinTwo
    <3> QED BY <1>3, <3>1, <3>2
  <2>2. kk \in CursorType /\ kk.open = k.open /\ kk.anchored = k.anchored /\ kk.entry = k.entry
          /\ kk.hi = i /\ kk.wrote
    BY <1>1, <1>3, <2>1 DEF CursorType
  <2>3. cursor' = [cursor EXCEPT ![p] = kk]
    BY <1>2, <1>9
  <2> HIDE DEF kk
  <2>4. call' = [call EXCEPT ![p] = NoCall] /\ result' = [result EXCEPT ![p] = r]
    BY <1>4, <1>9 DEF End
  <2>5. r \in ResultType
    BY DEF ResultType, Statuses, Ops
  <2> HIDE DEF r
  <2>6. /\ cursor'[p] = kk /\ call'[p] = NoCall
        /\ cursor' \in [Clients -> CursorType] /\ call' \in [Clients -> CallType]
        /\ result' \in [Clients -> ResultType] /\ Others(p)
    BY <1>2, <2>2, <2>3, <2>4, <2>5, NoneTyped DEF Others
  <2>7. TypeOK'
    <3>1. acked' \subseteq Indices \X Nat
      BY <1>3, <1>6, <1>9
    <3> QED BY <1>1, <1>3, <1>6, <1>8, <1>9, <2>6, <3>1
      DEF TypeOK, CursorType, CallType, ResultType
  <2>8. ASSUME NEW q \in Clients, q # p
        PROVE  Shape(q)' /\ LiveLocal(q)'
    <3>1. cursor'[q] = cursor[q] /\ call'[q] = call[q] /\ result'[q] = result[q]
      BY <2>6, <2>8 DEF Others
    <3>2. Shape(q)'
      BY <3>1 DEF ListInv, Shape, Idle
    <3>3. Top' \in Int /\ (Occupied = {} => 0 \in Occupied')
      BY <1>4, <1>7, <1>8, <1>9
    <3> QED BY <1>4, <1>8, <1>9, <2>8, <3>1, <3>2, <3>3, OthersWhileItGrows
  <2>9. Shape(p)'
    <3>1. ~kk.anchored => kk.entry = 0
      BY <1>1, <2>2 DEF Shape
    <3>2. NoCall.stage = "idle" /\ NoCall.op = "none" /\ NoCall.step = 1
      BY DEF NoCall
    <3>3. kk.open /\ kk.hi >= 0
      BY <1>5, <1>7, <2>2
    <3> QED BY <1>4, <2>2, <2>6, <3>1, <3>2, <3>3 DEF Shape, Idle, Searching, Settled
  <2>10. WrittenStays' /\ \A a \in acked' : a[2] > 0
    BY <1>6, <1>8, <1>9 DEF WrittenStays
  <2>11. \A a \in acked' : a[1] <= i
    <3>1. ASSUME NEW a \in acked PROVE a[1] <= i
      <4>1. a[1] \in Occupied
        BY <1>6, <3>1 DEF Occupied
      <4> QED BY <4>1, <1>1, <1>7, <1>8, <1>9
    <3> QED BY <3>1, <1>7, <1>9
  <2>12. LiveLocal(p)'
    <3>1. k.entry <= i \/ ~k.anchored
      BY <1>1, <1>5, <1>7, <1>8, <1>9 DEF LiveLocal
    <3>2. ~k.anchored => 0 \in Occupied'
      BY <1>4, <1>5, <1>8, <1>9 DEF LiveLocal
    <3> QED BY <1>7, <1>8, <1>9, <2>2, <2>6, <2>11, <3>1, <3>2
      DEF LiveLocal, Idle, NoCall, Searching, Settled
  <2>13. Gapless'
    BY <1>8, <1>9 DEF Gapless
  <2>14. Honest(p)
    <3> SUFFICES ASSUME ~k.wrote
                 PROVE  /\ call[p].begun.hi <= cursor'[p].hi /\ cursor'[p].hi <= Top'
                        /\ call[p].begun.lo <= cursor'[p].lo /\ cursor'[p].lo <= Lowest'
      BY DEF Honest
    <3> DEFINE b == call[p].begun
    <3>1. /\ b.hi \in Int /\ b.lo \in Nat /\ b.hi = Top /\ b.lo <= b.hi + 1
          /\ b.lo <= k.lo /\ k.lo <= Lowest
      <4>1. call[p].begun.hi \in Int /\ call[p].begun.lo \in Nat
        BY Known
      <4>2. call[p].stage \in Settled
        BY <1>3 DEF At, Settled
      <4> QED BY <4>1, <4>2, <1>4, <1>5 DEF LiveLocal
    <3>2. i = Top + 1 /\ Top' = i /\ Lowest' = Lowest
      BY <1>4, <1>8, <1>9
    <3>3. kk.lo = Min({k.lo, i})
      BY <1>1 DEF kk, CursorType
    <3>4. Min({k.lo, i}) = IF k.lo <= i THEN k.lo ELSE i
      BY <1>1, <1>7, MinTwo
    <3> HIDE DEF b
    <3>5. b.hi <= i /\ b.lo <= kk.lo /\ kk.lo <= Lowest
      BY <1>1, <1>7, <3>1, <3>2, <3>3, <3>4
    <3> QED BY <1>7, <2>2, <2>6, <3>2, <3>5 DEF b
  <2> QED BY <1>4, <2>7, <2>8, <2>9, <2>10, <2>12, <2>13, <2>14 DEF ListInv, LiveInv, RestInv
<1>10. CASE /\ faults' = faults + 1
            /\ slots' \in {slots, [slots EXCEPT ![i] = puts + 1]}
            /\ Refuse(p, "error")
            /\ UNCHANGED acked
  <2> DEFINE r == [status |-> "error", op |-> "append"]
  <2>1. call' = [call EXCEPT ![p] = NoCall] /\ result' = [result EXCEPT ![p] = r]
    BY <1>4, <1>10 DEF Refuse, End
  <2>2. cursor' = cursor
    <3>1. cursor' = [cursor EXCEPT ![p] = cursor[p]]
      BY <1>4, <1>10 DEF Refuse
    <3> QED BY <1>2, <3>1
  <2>3. r \in ResultType
    BY DEF ResultType, Statuses, Ops
  <2> HIDE DEF r
  <2>4. /\ call'[p] = NoCall
        /\ cursor' \in [Clients -> CursorType] /\ call' \in [Clients -> CallType]
        /\ result' \in [Clients -> ResultType] /\ Others(p)
    BY <1>2, <2>1, <2>2, <2>3, NoneTyped DEF Others
  <2>5. slots' = slots => Occupied' = Occupied /\ Lowest' = Lowest /\ Top' = Top
    BY DEF Occupied, Lowest, Top
  <2>6. /\ slots' \in [Indices -> 0..MaxPuts + 1]
        /\ Occupied \subseteq Occupied' /\ Occupied' = Lowest'..Top' /\ Lowest' = Lowest
        /\ Top' \in {Top, i} /\ Top <= Top' /\ Top' \in Int
        /\ (Occupied = {} => Occupied' = {} \/ 0 \in Occupied')
        /\ \A a \in acked : slots'[a[1]] = a[2]
    <3>1. CASE slots' = slots
      <4>1. Occupied' = Occupied /\ Lowest' = Lowest /\ Top' = Top
        BY <3>1, <2>5
      <4>2. slots' \in [Indices -> 0..MaxPuts + 1] /\ \A a \in acked : slots'[a[1]] = a[2]
        BY <3>1, <1>6
      <4> QED BY <4>1, <4>2, <1>1, <1>4
    <3>2. CASE Lands
      BY <3>2, <1>4, <1>7, <1>8
    <3> QED BY <3>1, <3>2, <1>10
  <2>7. TypeOK'
    <3>1. puts' \in Nat /\ faults' \in Nat /\ acked' \subseteq Indices \X Nat /\ live' \in BOOLEAN
      BY <1>3, <1>6, <1>10
    <3> QED BY <3>1, <2>4, <2>6 DEF TypeOK, CursorType, CallType, ResultType
  <2>8. ASSUME NEW q \in Clients, q # p
        PROVE  Shape(q)' /\ LiveLocal(q)'
    <3>1. cursor'[q] = cursor[q] /\ call'[q] = call[q] /\ result'[q] = result[q]
      BY <2>4, <2>8 DEF Others
    <3>2. Shape(q)'
      BY <3>1 DEF ListInv, Shape, Idle
    <3> QED BY <1>4, <2>6, <2>8, <3>1, <3>2, OthersWhileItGrows
  <2>9. Shape(p)'
    BY <1>1, <1>4, <1>5, <2>2, <2>4 DEF Shape, Idle, NoCall, Searching, Settled
  <2>10. LiveLocal(p)'
    <3>1. k.wrote => Top' \in {k.hi, k.hi + 1}
      BY <1>4, <2>6
    <3>2. k.anchored => k.entry <= Top'
      BY <1>1, <1>5, <2>6 DEF LiveLocal
    <3>3. acked' = acked
      BY <1>10
    <3>4. NoCall.stage = "idle"
      BY DEF NoCall
    <3>5. k.wrote => Occupied' # {} /\ \A a \in acked' : a[1] <= k.hi
      BY <1>5, <2>6, <3>3 DEF LiveLocal
    <3>6. /\ ~k.anchored => Occupied' = {} \/ 0 \in Occupied'
          /\ k.anchored => Occupied' # {}
      BY <1>5, <2>6 DEF LiveLocal
    <3> QED BY <2>2, <2>4, <3>1, <3>2, <3>4, <3>5, <3>6 DEF LiveLocal, Idle, Searching, Settled
  <2>11. Gapless' /\ WrittenStays' /\ \A a \in acked' : a[2] > 0
    BY <1>6, <1>10, <2>6 DEF Gapless, WrittenStays
  <2>12. Honest(p)
    <3>1. result'[p].status # "ok"
      BY <1>2, <2>1 DEF r
    <3> QED BY <3>1 DEF Honest, Returns
  <2> QED BY <1>4, <2>7, <2>8, <2>9, <2>10, <2>11, <2>12 DEF ListInv, LiveInv, RestInv
<1> QED BY <1>9, <1>10 DEF Append, i

LEMMA PruneInv ==
    ASSUME ListInv, NEW n \in Indices, Prune(n), live' = live
    PROVE  ListInv'
<1>1. TypeOK /\ EndsHold /\ WrittenStays /\ Gapless
  BY Ends DEF ListInv, LiveInv
<1>2. /\ live /\ n \in Occupied /\ n # Lowest
      /\ \A p \in Clients : (cursor[p].open => cursor[p].anchored) /\ (~Idle(p) => n <= cursor[p].entry)
      /\ slots' = [i \in Indices |-> IF i < n THEN 0 ELSE slots[i]]
      /\ acked' = {a \in acked : a[1] >= n}
      /\ UNCHANGED <<puts, faults, cursor, call, result>>
  BY DEF Prune
<1>3. /\ Lowest \in Nat /\ Top \in Int /\ Occupied = Lowest..Top /\ n \in Nat
      /\ Lowest < n /\ n <= Top /\ Indices \subseteq Nat
  BY <1>1, <1>2 DEF EndsHold, Gapless
<1>4. /\ slots \in [Indices -> 0..MaxPuts + 1] /\ acked \subseteq Indices \X Nat /\ MaxPuts \in Nat
  BY <1>1, BookmarksAssumption DEF TypeOK
<1>5. slots' \in [Indices -> 0..MaxPuts + 1]
  BY <1>2, <1>4
<1>6. TypeOK'
  <2>1. acked' \subseteq Indices \X Nat
    BY <1>2, <1>4
  <2> QED BY <1>1, <1>2, <1>5, <2>1 DEF TypeOK
<1>7. Occupied' = n..Top
  <2>1. Occupied' = {i \in Indices : i >= n /\ slots[i] # 0}
    BY <1>2, <1>3, <1>4 DEF Occupied
  <2>2. Occupied' = {i \in Occupied : i >= n}
    BY <2>1 DEF Occupied
  <2> QED BY <2>2, <1>3
<1>8. Lowest' = n /\ Top' = Top /\ Occupied' # {}
  <2>1. Min(n..Top) = n /\ Max(n..Top) = Top /\ n..Top # {}
    BY <1>3, IntervalEnds
  <2> QED BY <1>7, <2>1 DEF Lowest, Top
<1>9. Gapless'
  BY <1>7, <1>8 DEF Gapless
<1>10. WrittenStays' /\ \A a \in acked' : a[2] > 0
  <2>1. ASSUME NEW a \in acked' PROVE slots'[a[1]] = a[2] /\ a[2] > 0
    <3>1. a \in acked /\ a[1] >= n /\ a[1] \in Indices
      BY <1>2, <1>4, <2>1
    <3>2. slots[a[1]] = a[2] /\ a[2] > 0
      BY <1>1, <3>1 DEF ListInv, LiveInv, WrittenStays
    <3>3. slots'[a[1]] = slots[a[1]]
      <4> DEFINE j == a[1]
      <4>1. j \in Indices /\ j \in Nat /\ j >= n
        BY <1>3, <3>1
      <4> HIDE DEF j
      <4>2. slots'[j] = slots[j]
        BY <1>2, <1>3, <4>1
      <4> QED BY <4>2 DEF j
    <3> QED BY <3>2, <3>3
  <2> QED BY <2>1 DEF WrittenStays
<1>11. ASSUME NEW p \in Clients PROVE Shape(p)'
  BY <1>2 DEF ListInv, Shape, Idle
<1>12. ASSUME NEW p \in Clients PROVE LiveLocal(p)'
  <2> DEFINE c == call[p]
             k == cursor[p]
  <2>1. /\ Shape(p) /\ LiveLocal(p) /\ k.entry \in Nat /\ c.hit \in Nat /\ c.miss \in Int
        /\ c.begun.lo \in Nat /\ c.begun.hi \in Int /\ c.lo \in Nat /\ k.hi \in Int /\ k.lo \in Nat
    BY <1>2, Known
  <2>2. cursor'[p] = k /\ call'[p] = c
    BY <1>2
  <2>3. (k.open => k.anchored) /\ (c.stage # "idle" => n <= k.entry)
    BY <1>2 DEF Idle
  <2>4. /\ k.open /\ ~k.anchored => Occupied' = {} \/ 0 \in Occupied'
        /\ k.open /\ k.anchored => Occupied' # {} /\ k.entry <= Top'
    BY <2>1, <2>3, <1>8 DEF LiveLocal
  <2>5. k.wrote => /\ Occupied' # {} /\ Top' \in {k.hi, k.hi + 1}
                   /\ \A a \in acked' : a[1] <= k.hi
    BY <2>1, <1>2, <1>8 DEF LiveLocal
  <2>6. c.stage # "idle" => /\ c.begun.hi <= Top' /\ c.begun.lo <= Lowest'
                            /\ c.begun.lo <= c.begun.hi + 1
                            /\ p = Writer => c.begun.hi = Top'
    BY <2>1, <1>3, <1>8 DEF LiveLocal, Idle
  <2>7. c.stage \in Searching \ {"entry"} => k.entry \in Occupied'
    BY <2>1, <2>3, <1>3, <1>7 DEF LiveLocal, Searching
  <2>8. /\ c.stage \in {"descend", "bisectDown"} => c.begun.lo <= c.hit
        /\ c.stage = "bisectDown" => c.miss < Lowest'
        /\ c.stage = "bisectUp" => c.begun.hi < c.miss
        /\ c.stage = "probe" => c.begun.hi <= c.hit
    BY <2>1, <1>3, <1>8 DEF LiveLocal
  <2>9. c.stage \in {"ascend", "bisectUp", "probe"} =>
              c.begun.lo <= c.lo /\ c.lo <= Lowest' /\ c.hit \in Occupied'
    <3> SUFFICES ASSUME c.stage \in {"ascend", "bisectUp", "probe"}
                 PROVE  c.begun.lo <= c.lo /\ c.lo <= Lowest' /\ c.hit \in Occupied'
      OBVIOUS
    <3>1. k.entry <= c.hit /\ n <= k.entry
      BY <2>1, <2>3 DEF Shape
    <3>2. c.begun.lo <= c.lo /\ c.lo <= Lowest /\ c.hit \in Occupied
      BY <2>1 DEF LiveLocal
    <3> QED BY <2>1, <3>1, <3>2, <1>3, <1>7, <1>8
  <2>10. c.stage \in Settled /\ ~k.wrote =>
              /\ c.begun.hi <= k.hi /\ k.hi <= Top'
              /\ c.begun.lo <= k.lo /\ k.lo <= Lowest'
    BY <2>1, <1>3, <1>8 DEF LiveLocal
  <2> HIDE DEF c, k
  <2> QED BY <2>2, <2>4, <2>5, <2>6, <2>7, <2>8, <2>9, <2>10 DEF LiveLocal, Idle
<1> QED BY <1>2, <1>6, <1>9, <1>10, <1>11, <1>12 DEF ListInv, LiveInv, RestInv

-----------------------------------------------------------------------------
(* The invariant.                                                          *)

LEMMA InitInv == Init => ListInv
<1> SUFFICES ASSUME Init PROVE ListInv
  OBVIOUS
<1>1. PICK L \in IF live THEN {{}} ELSE RestingLists :
          /\ slots = [i \in Indices |-> IF i \in L THEN 1 ELSE 0]
          /\ acked = {<<i, 1>> : i \in L}
  BY DEF Init
<1>2. L \subseteq Indices /\ (live => L = {})
  BY <1>1, BookmarksAssumption DEF Indices
<1>3. /\ live \in BOOLEAN /\ puts = 1 /\ faults = 0
      /\ cursor = [p \in Clients |-> NoCursor]
      /\ call = [p \in Clients |-> NoCall]
      /\ result = [p \in Clients |-> NoResult]
  BY DEF Init
<1>4. TypeOK
  <2>1. slots \in [Indices -> 0..MaxPuts + 1] /\ acked \subseteq Indices \X Nat
    BY <1>1, <1>2, BookmarksAssumption
  <2>2. /\ cursor \in [Clients -> CursorType] /\ call \in [Clients -> CallType]
        /\ result \in [Clients -> ResultType]
    BY <1>3, NoneTyped
  <2> QED BY <1>3, <2>1, <2>2 DEF TypeOK, CursorType, CallType, ResultType
<1>5. Occupied = L
  BY <1>1, <1>2 DEF Occupied
<1>6. Gapless
  <2> SUFFICES ASSUME live PROVE Occupied = Lowest..Top
    BY DEF Gapless
  <2>1. Occupied = {}
    BY <1>2, <1>5
  <2>2. Lowest = 0 /\ Top = -1
    BY <2>1 DEF Lowest, Top
  <2> QED BY <2>1, <2>2
<1>7. WrittenStays /\ \A a \in acked : a[2] > 0
  BY <1>1, <1>2 DEF WrittenStays
<1>8. ASSUME NEW p \in Clients PROVE Shape(p) /\ LiveLocal(p) /\ RestLocal(p)
  <2>1. cursor[p] = NoCursor /\ call[p] = NoCall /\ result[p] = NoResult
    BY <1>3
  <2>2. Shape(p)
    BY <2>1 DEF Shape, Idle, NoCursor, NoCall, Searching, Settled
  <2>3. LiveLocal(p)
    BY <2>1 DEF LiveLocal, Idle, NoCursor, NoCall, Searching, Settled
  <2>4. RestLocal(p)
    BY <2>1 DEF RestLocal, NoCursor, NoCall, NoResult, Settled
  <2> QED BY <2>2, <2>3, <2>4
<1> QED BY <1>4, <1>6, <1>7, <1>8 DEF ListInv, LiveInv, RestInv

LEMMA StepInv == ListInv /\ [Next]_vars => ListInv'
<1> SUFFICES ASSUME ListInv, [Next]_vars PROVE ListInv'
  OBVIOUS
<1>1. CASE UNCHANGED vars
  <2>1. UNCHANGED <<live, slots, puts, acked, faults, cursor, call, result>>
    BY <1>1 DEF vars
  <2>2. Occupied' = Occupied /\ Lowest' = Lowest /\ Top' = Top
    BY <2>1 DEF Occupied, Lowest, Top
  <2>3. TypeOK'
    BY <2>1 DEF ListInv, TypeOK
  <2>4. ASSUME NEW p \in Clients
        PROVE  Shape(p)' /\ (LiveLocal(p) => LiveLocal(p)') /\ (RestLocal(p) => RestLocal(p)')
    <3>1. Path(p)' = Path(p)
      BY <2>1, <2>2 DEF Path
    <3>2. RangeHolds(p)' = RangeHolds(p) /\ \A h : Clear(h)' = Clear(h)
      BY <2>1, <2>2 DEF RangeHolds, Clear, Present
    <3>3. Shape(p)'
      BY <2>1 DEF ListInv, Shape, Idle
    <3>4. LiveLocal(p) => LiveLocal(p)'
      BY <2>1, <2>2 DEF LiveLocal, Idle
    <3>5. RestLocal(p) => RestLocal(p)'
      BY <2>1, <2>2, <3>1, <3>2 DEF RestLocal, Present
    <3> QED BY <3>3, <3>4, <3>5
  <2>5. Gapless' /\ WrittenStays' /\ \A a \in acked' : a[2] > 0
    BY <2>1, <2>2 DEF ListInv, LiveInv, Gapless, WrittenStays
  <2> QED BY <2>1, <2>3, <2>4, <2>5 DEF ListInv, LiveInv, RestInv
<1>2. CASE Next
  <2>1. live' = live
    BY <1>2 DEF Next
  <2>2. ASSUME NEW p \in Clients, NewBookmarks(p) PROVE ListInv'
    BY <2>1, <2>2, NewBookmarksInv
  <2>3. ASSUME NEW p \in Clients, NEW i \in Indices, OpenBookmarks(p, i) PROVE ListInv'
    BY <2>1, <2>3, OpenBookmarksInv
  <2>4. ASSUME NEW p \in Clients,
               NEW x \in IF live THEN Calls ELSE RestingCalls, x[1] = p, Call(p, x[2])
        PROVE  ListInv'
    <3>1. x[2] \in Settled /\ (x[2] = "append" => p = Writer)
      <4>1. x \in Calls \cup RestingCalls
        BY <2>4
      <4> QED BY <4>1, <2>4, BookmarksAssumption DEF Settled
    <3> QED BY <2>1, <2>4, <3>1, CallInv
  <2>5. ASSUME NEW p \in Clients, Bounds(p) PROVE ListInv'
    BY <2>1, <2>5, FetchEntryInv, DescendInv, BisectDownInv, AscendInv, BisectUpInv, ProbeGapInv,
       FetchFailsInv DEF Bounds
  <2>6. ASSUME NEW p \in Clients, Append(p) \/ Latest(p) \/ Length(p) \/ Verify(p) \/ Close(p)
        PROVE  ListInv'
    BY <2>1, <2>6, AppendInv, LatestInv, LengthInv, VerifyInv, CloseInv
  <2>7. ASSUME NEW n \in Indices, Prune(n) PROVE ListInv'
    BY <2>1, <2>7, PruneInv
  <2> QED BY <1>2, <2>2, <2>3, <2>4, <2>5, <2>6, <2>7 DEF Next
<1> QED BY <1>1, <1>2

LEMMA ListInvariant == Spec => []ListInv
  BY InitInv, StepInv, PTL DEF Spec

-----------------------------------------------------------------------------
(* The theorems.                                                           *)

(* The fields of the cursors and the locals of doubling and bisection stay  *)
(* integers of the list's range (bounds, ascend, descend, probeGap).        *)
THEOREM SearchTypes == Spec => []TypeOK
<1>1. ListInv => TypeOK
  BY DEF ListInv
<1> QED BY <1>1, ListInvariant, PTL

(* Whatever Puts and Gets fail, whoever dies with a cursor and however much *)
(* is pruned, Append leaves no gap (R-C7BOOKMARK).                          *)
THEOREM ListStaysGapless == Spec => []Gapless
<1>1. ListInv => Gapless
  BY DEF ListInv, LiveInv
<1> QED BY <1>1, ListInvariant, PTL

(* No Append ever writes over an entry another Append reported as written,  *)
(* with a trusted cursor or a searched one.                                 *)
THEOREM AcknowledgedStays == Spec => []WrittenStays
<1>1. ListInv => WrittenStays
  BY DEF ListInv, LiveInv
<1> QED BY <1>1, ListInvariant, PTL

(* On a list at rest, gaps included, a search that succeeds ends between    *)
(* two free slots with nothing within the probe's reach above it (ascend,   *)
(* descend, probeGap).                                                      *)
THEOREM SearchesSettle == Spec => []SearchSettles
<1>1. ListInv => SearchSettles
  <2> SUFFICES ASSUME ListInv, NEW p \in Clients, ~live, result[p].status = "ok", cursor[p].hi >= 0
               PROVE  /\ Present(cursor[p].lo) /\ ~Present(cursor[p].lo - 1)
                      /\ Present(cursor[p].hi) /\ ~Present(cursor[p].hi + 1)
                      /\ \A i \in Occupied : i > cursor[p].hi => i > cursor[p].hi + 1 + GapProbe
    BY DEF SearchSettles
  <2>1. RangeHolds(p)
    BY DEF ListInv, RestInv, RestLocal
  <2> QED BY <2>1 DEF RangeHolds, Clear
<1> QED BY <1>1, ListInvariant, PTL

(* On a list at rest Verify accepts exactly the ranges without a gap.       *)
THEOREM VerifyFindsEveryGap == Spec => []VerifyIsComplete
<1>1. ListInv => VerifyIsComplete
  <2> SUFFICES ASSUME ListInv, NEW p \in Clients, ~live, result[p].op = "verify",
                      result[p].status # "error", cursor[p].loaded
               PROVE  result[p].status = "ok" <=> cursor[p].lo..cursor[p].hi \subseteq Occupied
    BY DEF VerifyIsComplete
  <2>1. RestLocal(p)
    BY DEF ListInv, RestInv
  <2> QED BY <2>1 DEF RestLocal
<1> QED BY <1>1, ListInvariant, PTL

(* A client's step leaves the calls of the others alone. *)
LEMMA OwnCall ==
    ASSUME TypeOK, NEW p \in Clients, NEW q \in Clients, q # p,
           \/ NewBookmarks(p) \/ \E i \in Indices : OpenBookmarks(p, i)
           \/ \E op : Call(p, op)
           \/ Bounds(p) \/ Append(p) \/ Latest(p) \/ Length(p) \/ Verify(p) \/ Close(p)
    PROVE  call'[q] = call[q]
<1>1. call \in [Clients -> CallType]
  BY Types
<1>2. ASSUME NEW x, call' = [call EXCEPT ![p] = x] PROVE call'[q] = call[q]
  BY <1>1, <1>2
<1>3. ASSUME NEW x, Goes(p, x) PROVE call'[q] = call[q]
  BY <1>2, <1>3 DEF Goes
<1>4. ASSUME NEW status, End(p, status) \/ Refuse(p, status) PROVE call'[q] = call[q]
  BY <1>2, <1>4 DEF End, Refuse
<1>5. ASSUME NEW lo, NEW hi, Settle(p, lo, hi) PROVE call'[q] = call[q]
  BY <1>2, <1>4, <1>5 DEF Settle
<1>6. ASSUME NEW op, NEW stage, Begin(p, op, stage) PROVE call'[q] = call[q]
  BY <1>2, <1>6 DEF Begin
<1>7. ASSUME NEW c, NEW hi, FoundTop(p, c, hi) PROVE call'[q] = call[q]
  BY <1>3, <1>5, <1>7 DEF FoundTop
<1>8. ASSUME NEW lo, FoundLowest(p, lo) PROVE call'[q] = call[q]
  BY <1>3, <1>8 DEF FoundLowest
<1>9. CASE NewBookmarks(p) \/ (\E i \in Indices : OpenBookmarks(p, i)) \/ \E op : Call(p, op)
  BY <1>6, <1>9 DEF NewBookmarks, OpenBookmarks, Call
<1>10. CASE Bounds(p)
  <2>1. CASE FetchEntry(p)
    BY <1>3, <1>4, <1>5, <1>8, <2>1 DEF FetchEntry
  <2>2. CASE Descend(p)
    BY <1>3, <1>8, <2>2 DEF Descend
  <2>3. CASE BisectDown(p)
    BY <1>3, <1>8, <2>3 DEF BisectDown
  <2>4. CASE Ascend(p)
    BY <1>3, <1>7, <2>4 DEF Ascend
  <2>5. CASE BisectUp(p)
    BY <1>3, <1>7, <2>5 DEF BisectUp
  <2>6. CASE ProbeGap(p)
    BY <1>3, <1>4, <1>5, <2>6 DEF ProbeGap
  <2>7. CASE FetchFails(p)
    BY <1>4, <2>7 DEF FetchFails
  <2> QED BY <1>10, <2>1, <2>2, <2>3, <2>4, <2>5, <2>6, <2>7 DEF Bounds
<1>11. CASE Append(p)
  BY <1>4, <1>11 DEF Append
<1>12. CASE Latest(p) \/ Length(p)
  BY <1>4, <1>12 DEF Latest, Length
<1>13. CASE Verify(p)
  BY <1>3, <1>4, <1>13 DEF Verify
<1>14. CASE Close(p)
  BY <1>2, <1>14 DEF Close
<1> QED BY <1>9, <1>10, <1>11, <1>12, <1>13, <1>14

LEMMA HonestStep ==
    ASSUME ListInv, [Next]_vars, NEW p \in Clients
    PROVE  Honest(p)
<1>1. TypeOK
  BY DEF ListInv
<1>2. call'[p] = call[p] => Honest(p)
  BY DEF Honest, Returns, Idle
<1>3. CASE UNCHANGED vars
  BY <1>2, <1>3 DEF vars
<1>4. CASE Next
  <2>1. live' = live
    BY <1>4 DEF Next
  <2>2. ASSUME NEW q \in Clients,
               \/ NewBookmarks(q) \/ \E i \in Indices : OpenBookmarks(q, i)
               \/ \E x \in IF live THEN Calls ELSE RestingCalls : x[1] = q /\ Call(q, x[2])
               \/ Bounds(q) \/ Append(q) \/ Latest(q) \/ Length(q) \/ Verify(q) \/ Close(q)
        PROVE  Honest(p)
    <3>1. CASE q # p
      BY <1>1, <1>2, <2>2, <3>1, OwnCall
    <3>2. CASE q = p
      <4>1. CASE NewBookmarks(p) \/ \E i \in Indices : OpenBookmarks(p, i)
        BY <2>1, <4>1, NewBookmarksInv, OpenBookmarksInv
      <4>2. ASSUME NEW x \in IF live THEN Calls ELSE RestingCalls, x[1] = p, Call(p, x[2])
            PROVE  Honest(p)
        BY <4>2 DEF Call, Honest, Returns
      <4>3. CASE Bounds(p)
        BY <2>1, <4>3, FetchEntryInv, DescendInv, BisectDownInv, AscendInv, BisectUpInv,
           ProbeGapInv, FetchFailsInv DEF Bounds
      <4>4. CASE Append(p) \/ Latest(p) \/ Length(p) \/ Verify(p) \/ Close(p)
        BY <2>1, <4>4, AppendInv, LatestInv, LengthInv, VerifyInv, CloseInv
      <4> QED BY <2>2, <3>2, <4>1, <4>2, <4>3, <4>4
    <3> QED BY <3>1, <3>2
  <2>3. ASSUME NEW n \in Indices, Prune(n) PROVE Honest(p)
    BY <1>2, <2>3 DEF Prune
  <2> QED BY <1>4, <2>2, <2>3 DEF Next
<1> QED BY <1>3, <1>4

(* A search of a list that grows and is pruned meanwhile comes back with a  *)
(* range the list had while it ran (bounds).                                *)
THEOREM SearchesAreCurrent == Spec => SettledRange
<1>1. ListInv /\ [Next]_vars =>
        [\A p \in Clients :
            live /\ Returns(p) /\ ~cursor[p].wrote =>
                /\ call[p].begun.hi <= cursor'[p].hi /\ cursor'[p].hi <= Top'
                /\ call[p].begun.lo <= cursor'[p].lo /\ cursor'[p].lo <= Lowest']_vars
  BY HonestStep DEF Honest
<1> QED BY <1>1, ListInvariant, PTL DEF Spec, SettledRange
=============================================================================
