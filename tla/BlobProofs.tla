----------------------------- MODULE BlobProofs -----------------------------
(***************************************************************************)
(* The blob adapters, for every set of clients, keys and requests, every   *)
(* kind of store and any number of failures: a bulk call that reports      *)
(* success did all of it, what was put or deleted last is what is there,   *)
(* and what is handed over is what was put.                                *)
(***************************************************************************)
EXTENDS Blob, TLAPS

Kinds == {"none", "whole", "part", "rot", "long"}
Stages == {"queued", "create", "op", "write", "rename", "remove", "release", "end"}
Puts == {"putClaims", "putContents"}
WriterIds == Clients \X Nat

CallRecords ==
    [op : Ops \cup {"idle"}, items : Seq(Keys), next : Nat, stage : Seq(Stages), ferr : BOOLEAN,
     done : BOOLEAN, did : SUBSET Nat, out : Seq(Kinds \cup {"unset"}), bytes : Kinds, read : Nat,
     result : {"open", "ok", "error", "unsupported"}]

TempFiles ==
    [bytes : {"none", "part", "whole"}, by : SUBSET WriterIds, newest : WriterIds \cup {<<>>}]

(* What an item left: an error, or a result of the kind its call hands over. *)
ItemOK(c, i, lost) ==
    /\ c.op # "stream" => (c.stage[i] # "queued" <=> i < c.next)
    /\ c.op = "stream" => c.stage[i] = "queued"
    /\ c.stage[i] \in {"release", "end"} => i \in c.did \/ c.ferr
    /\ c.stage[i] \in {"create", "write", "rename", "remove"} => c.op \in Puts
    /\ (i \in c.did /\ c.op = "getContents") => c.out[i] = "whole"
    /\ (i \in c.did /\ c.op \in {"getClaims", "heights"}) => c.out[i] \in {"whole", "rot"}
    /\ c.out[i] = "rot" => c.items[i] \in lost

(* A call: items are launched in order, an item that ended did its work or *)
(* left an error, and nothing runs once the call has returned.             *)
CallOK(c, lost) ==
    /\ c \in CallRecords
    /\ Len(c.stage) = Len(c.items) /\ Len(c.out) = Len(c.items) /\ c.did \subseteq DOMAIN c.items
    /\ c.op = "idle" => c = NoCall
    /\ c.op = "stream" => Len(c.items) = 1
    /\ \A i \in DOMAIN c.items : ItemOK(c, i, lost)
    /\ c.result # "open" => Running(c) = {}
    /\ c.result = "ok" => c.did = DOMAIN c.items
    /\ (c.op = "stream" /\ c.items[1] \notin Empty /\ (c.result = "ok" \/ c.read = Size)) => c.bytes = "whole"

BlobTypes ==
    /\ file \in [Keys -> Kinds] /\ temp \in [Keys -> TempFiles]
    /\ holder \in [Keys -> [by : SUBSET WriterIds, newest : WriterIds \cup {<<>>}]]
    /\ last \in [Keys -> {"never", "put", "delete"}] /\ spoilt \subseteq Keys
    /\ heights \in [Keys -> {"unknown", "true", "false"}]
    /\ DOMAIN call = Clients

(* Who has a file of k open is a Put of k that is about to write. *)
WritersOK ==
    \A k \in Keys : \A w \in temp[k].by \cup holder[k].by :
        At(w[1], w[2], "write") /\ Key(w[1], w[2]) = k

(* A file that is not whole yet has its newest writer still to come. *)
FileOK(k) ==
    /\ temp[k].bytes = "part" => temp[k].newest \in temp[k].by
    /\ (last[k] = "put" /\ file[k] # "whole") => holder[k].newest \in holder[k].by
    /\ last[k] = "delete" => file[k] = "none" /\ holder[k].by = {}
    /\ file[k] \notin {"rot", "long"} /\ heights[k] # "false"

BlobInv ==
    /\ BlobTypes /\ WritersOK
    /\ \A p \in Clients : CallOK(call[p], spoilt)
    /\ \A k \in Keys \ spoilt : FileOK(k)

-----------------------------------------------------------------------------
(* One call *)

LEMMA RequestTypes ==
    ASSUME NEW p \in Clients, NEW r \in Requests[p]
    PROVE  /\ r.op \in Ops /\ r.items \in Seq(Keys)
           /\ r.op = "stream" => Len(r.items) = 1
<1>1. Requests[p] \in Range(Requests)
  BY BlobAssumption DEF Range
<1>2. Range(r.items) \subseteq Keys
  BY <1>1 DEF Keys
<1>3. r.items \in Seq(Range(r.items))
  BY BlobAssumption
<1>4. r.items \in Seq(Keys)
  <2> DEFINE R == Range(r.items)
             s == r.items
  <2>1. s \in Seq(R) /\ R \subseteq Keys
    BY <1>2, <1>3
  <2> HIDE DEF R, s
  <2>2. s \in Seq(Keys)
    BY <2>1
  <2> QED BY <2>2 DEF s
<1> QED BY <1>4, BlobAssumption

LEMMA Indices ==
    ASSUME NEW T, NEW s \in Seq(T)
    PROVE  Len(s) \in Nat /\ DOMAIN s = 1..Len(s) /\ \A j \in DOMAIN s : s[j] \in T /\ j \in Nat
OBVIOUS

LEMMA CallFields ==
    ASSUME NEW c \in CallRecords
    PROVE  /\ c.op \in Ops \cup {"idle"} /\ c.items \in Seq(Keys) /\ c.next \in Nat
           /\ c.stage \in Seq(Stages) /\ c.ferr \in BOOLEAN /\ c.done \in BOOLEAN
           /\ c.did \subseteq Nat /\ c.out \in Seq(Kinds \cup {"unset"}) /\ c.bytes \in Kinds
           /\ c.read \in Nat /\ c.result \in {"open", "ok", "error", "unsupported"}
BY DEF CallRecords

(* More keys may be spoilt by the time a call goes on. *)
LEMMA CallKept ==
    ASSUME NEW c, NEW lost, NEW more, CallOK(c, lost), lost \subseteq more
    PROVE  CallOK(c, more)
BY DEF CallOK, ItemOK

LEMMA NoCallOK == ASSUME NEW lost PROVE CallOK(NoCall, lost)
BY DEF CallOK, NoCall, CallRecords, Running, Kinds, Size

(* A call that has just been made. *)
FreshCall(op, items, result) ==
    [NoCall EXCEPT !.op = op, !.items = items,
                   !.stage = [i \in DOMAIN items |-> "queued"], !.out = [i \in DOMAIN items |-> "unset"],
                   !.result = result]

LEMMA FreshCallOK ==
    ASSUME NEW lost, NEW op \in Ops, NEW items \in Seq(Keys), op = "stream" => Len(items) = 1,
           NEW result \in {"open", "unsupported"}
    PROVE  CallOK(FreshCall(op, items, result), lost)
<1> DEFINE n == Len(items)
           blank == [i \in DOMAIN items |-> "queued"]
           unset == [i \in DOMAIN items |-> "unset"]
           d == FreshCall(op, items, result)
<1>1. n \in Nat /\ DOMAIN items = 1..n
  OBVIOUS
<1>2. /\ blank \in Seq(Stages) /\ Len(blank) = n
      /\ unset \in Seq(Kinds \cup {"unset"}) /\ Len(unset) = n
  BY <1>1 DEF Stages
<1>3. \A i \in 1..n : blank[i] = "queued" /\ unset[i] = "unset"
  BY <1>1
<1> HIDE DEF blank, unset
<1>4. /\ d.op = op /\ d.items = items /\ d.next = 1 /\ d.stage = blank /\ d.did = {} /\ d.out = unset
      /\ d.read = 0 /\ d.result = result
  BY DEF blank, unset, FreshCall, NoCall
<1>5. d \in CallRecords
  BY <1>2 DEF CallRecords, Kinds, blank, unset, FreshCall, NoCall
<1> HIDE DEF n, d
<1>6. Running(d) = {}
  BY <1>1, <1>3, <1>4 DEF Running
<1>7. \A i \in DOMAIN d.items : ItemOK(d, i, lost)
  <2> SUFFICES ASSUME NEW i \in 1..n PROVE ItemOK(d, i, lost)
    BY <1>1, <1>4
  <2>1. d.stage[i] = "queued" /\ d.out[i] = "unset" /\ ~(i < d.next) /\ i \notin d.did
    BY <1>1, <1>3, <1>4
  <2> QED BY <2>1 DEF ItemOK
<1>8. Len(d.stage) = Len(d.items) /\ Len(d.out) = Len(d.items)
  BY <1>2, <1>4 DEF n
<1>9. d.op # "idle" /\ d.result # "ok" /\ d.read # Size /\ d.did \subseteq DOMAIN d.items
  BY <1>4 DEF Ops, Size
<1>10. CallOK(d, lost)
  BY <1>4, <1>5, <1>6, <1>7, <1>8, <1>9 DEF CallOK
<1> QED BY <1>10 DEF d

LEMMA BeginOK ==
    ASSUME NEW p \in Clients, NEW r \in Requests[p], NEW lost, Begin(p, r), DOMAIN call = Clients
    PROVE  \E d : call' = [call EXCEPT ![p] = d] /\ CallOK(d, lost)
<1> DEFINE res == IF r.op = "deleteAll" /\ ~store.delete THEN "unsupported" ELSE "open"
<1>1. /\ r.op \in Ops /\ r.items \in Seq(Keys)
      /\ r.op = "stream" => Len(r.items) = 1
  BY RequestTypes
<1>2. res \in {"open", "unsupported"}
  OBVIOUS
<1>3. call' = [call EXCEPT ![p] = FreshCall(r.op, r.items, res)]
  BY DEF Begin, FreshCall
<1> HIDE DEF res
<1>4. CallOK(FreshCall(r.op, r.items, res), lost)
  BY <1>1, <1>2, FreshCallOK, Zenon
<1> QED BY <1>3, <1>4

(* One item of a call moves on: the rest of the call stays. *)
Moved(c, d, i) ==
    /\ d.op = c.op /\ d.items = c.items /\ Len(d.stage) = Len(c.stage)
    /\ \A j \in DOMAIN c.items : j # i => d.stage[j] = c.stage[j]

(* An item that runs is at i. *)
AtWork(c, i) == i \in DOMAIN c.items /\ c.stage[i] \notin {"queued", "end"}

(* The item ends well, ends in an error, or goes on. *)
Success(c, i, out) ==
    [c EXCEPT !.stage = [c.stage EXCEPT ![i] = After(c)], !.did = c.did \cup {i},
              !.out = [c.out EXCEPT ![i] = out]]
Failure(c, i) == [c EXCEPT !.stage = [c.stage EXCEPT ![i] = After(c)], !.ferr = TRUE]
Staged(c, i, s) == [c EXCEPT !.stage = [c.stage EXCEPT ![i] = s]]

LEMMA WorkFacts ==
    ASSUME NEW c, NEW lost, CallOK(c, lost), NEW i, AtWork(c, i)
    PROVE  /\ c \in CallRecords /\ i \in 1..Len(c.items) /\ Len(c.items) \in Nat
           /\ c.stage \in Seq(Stages) /\ c.out \in Seq(Kinds \cup {"unset"}) /\ c.items \in Seq(Keys)
           /\ Len(c.stage) = Len(c.items) /\ Len(c.out) = Len(c.items) /\ DOMAIN c.items = 1..Len(c.items)
           /\ c.did \subseteq DOMAIN c.items /\ i \in Nat
           /\ c.result = "open" /\ c.op # "stream" /\ c.op # "idle"
<1>1. c \in CallRecords /\ Len(c.stage) = Len(c.items) /\ Len(c.out) = Len(c.items)
      /\ c.did \subseteq DOMAIN c.items
  BY DEF CallOK
<1>2. c.stage \in Seq(Stages) /\ c.out \in Seq(Kinds \cup {"unset"}) /\ c.items \in Seq(Keys)
  BY <1>1, CallFields
<1>3. /\ Len(c.items) \in Nat /\ DOMAIN c.items = 1..Len(c.items)
      /\ \A j \in DOMAIN c.items : j \in Nat
  BY <1>2, Indices, Zenon
<1>4. i \in 1..Len(c.items) /\ i \in Nat
  BY <1>3, Zenon DEF AtWork
<1>5. i \in Running(c)
  BY DEF AtWork, Running
<1>6. c.result = "open"
  BY <1>5 DEF CallOK
<1>7. c.op # "stream"
  BY DEF CallOK, ItemOK, AtWork
<1>8. c.op # "idle"
  <2>1. NoCall.items = <<>>
    BY DEF NoCall
  <2>2. c # NoCall
    BY <1>4, <1>3, <2>1
  <2> QED BY <2>2 DEF CallOK
<1> QED BY <1>1, <1>2, <1>3, <1>4, <1>6, <1>7, <1>8

(* One element of a sequence is replaced. *)
LEMMA Replaced ==
    ASSUME NEW T, NEW s \in Seq(T), NEW i \in 1..Len(s), NEW e \in T
    PROVE  /\ [s EXCEPT ![i] = e] \in Seq(T) /\ Len([s EXCEPT ![i] = e]) = Len(s)
           /\ [s EXCEPT ![i] = e][i] = e
           /\ \A j \in 1..Len(s) : j # i => [s EXCEPT ![i] = e][j] = s[j]
OBVIOUS

LEMMA ItemSucceeds ==
    ASSUME NEW c, NEW lost, CallOK(c, lost), NEW i, AtWork(c, i), NEW out \in Kinds,
           c.op = "getContents" => out = "whole",
           c.op \in {"getClaims", "heights"} => out \in {"whole", "rot"},
           out = "rot" => c.items[i] \in lost
    PROVE  CallOK(Success(c, i, out), lost) /\ Moved(c, Success(c, i, out), i)
<1> DEFINE d == Success(c, i, out)
<1>1. /\ c \in CallRecords /\ i \in 1..Len(c.items) /\ Len(c.items) \in Nat
      /\ c.stage \in Seq(Stages) /\ c.out \in Seq(Kinds \cup {"unset"}) /\ c.items \in Seq(Keys)
      /\ Len(c.stage) = Len(c.items) /\ Len(c.out) = Len(c.items) /\ DOMAIN c.items = 1..Len(c.items)
      /\ c.did \subseteq DOMAIN c.items /\ i \in Nat
  BY WorkFacts
<1>2. c.result = "open" /\ c.op # "stream" /\ c.op # "idle"
  BY WorkFacts
<1> DEFINE S == [c.stage EXCEPT ![i] = After(c)]
           O == [c.out EXCEPT ![i] = out]
<1>3. After(c) \in {"release", "end"} /\ After(c) \in Stages
  BY DEF After, Stages
<1>4. /\ S \in Seq(Stages) /\ Len(S) = Len(c.items) /\ S[i] = After(c)
      /\ \A j \in DOMAIN c.items : j # i => S[j] = c.stage[j]
  <2>1. i \in 1..Len(c.stage)
    BY <1>1
  <2> QED BY <1>1, <1>3, <2>1, Replaced
<1>5. /\ O \in Seq(Kinds \cup {"unset"}) /\ Len(O) = Len(c.items) /\ O[i] = out
      /\ \A j \in DOMAIN c.items : j # i => O[j] = c.out[j]
  <2>1. out \in Kinds \cup {"unset"} /\ i \in 1..Len(c.out)
    BY <1>1
  <2> QED BY <1>1, <2>1, Replaced
<1> HIDE DEF S, O
<1>6. /\ d.op = c.op /\ d.items = c.items /\ d.next = c.next /\ d.stage = S /\ d.ferr = c.ferr
      /\ d.did = c.did \cup {i} /\ d.out = O /\ d.result = c.result
      /\ d.bytes = c.bytes /\ d.read = c.read
  BY <1>1 DEF CallRecords, S, O, Success
<1>7. d \in CallRecords
  BY <1>1, <1>4, <1>5 DEF CallRecords, S, O, Success
<1> HIDE DEF d
<1>8. ASSUME NEW j \in DOMAIN d.items PROVE ItemOK(d, j, lost)
  <2>1. ItemOK(c, j, lost)
    BY <1>6 DEF CallOK
  <2>2. CASE j = i
    <3>1. /\ d.stage[i] \in {"release", "end"} /\ d.out[i] = out /\ i \in d.did
          /\ c.stage[i] # "queued" /\ d.op # "stream"
      BY <1>2, <1>3, <1>4, <1>5, <1>6 DEF AtWork
    <3> QED BY <1>6, <2>1, <2>2, <3>1 DEF ItemOK
  <2>3. CASE j # i
    BY <1>4, <1>5, <1>6, <2>1, <2>3 DEF ItemOK
  <2> QED BY <2>2, <2>3
<1>9. CallOK(d, lost)
  BY <1>1, <1>2, <1>4, <1>5, <1>6, <1>7, <1>8 DEF CallOK
<1> QED BY <1>1, <1>4, <1>6, <1>9 DEF Moved, d

LEMMA ItemFailed ==
    ASSUME NEW c, NEW lost, CallOK(c, lost), NEW i, AtWork(c, i)
    PROVE  CallOK(Failure(c, i), lost) /\ Moved(c, Failure(c, i), i)
<1> DEFINE d == Failure(c, i)
<1>1. /\ c \in CallRecords /\ i \in 1..Len(c.items) /\ Len(c.items) \in Nat
      /\ c.stage \in Seq(Stages) /\ c.out \in Seq(Kinds \cup {"unset"}) /\ c.items \in Seq(Keys)
      /\ Len(c.stage) = Len(c.items) /\ Len(c.out) = Len(c.items) /\ DOMAIN c.items = 1..Len(c.items)
      /\ c.did \subseteq DOMAIN c.items /\ i \in Nat
  BY WorkFacts
<1>2. c.result = "open" /\ c.op # "stream" /\ c.op # "idle"
  BY WorkFacts
<1> DEFINE S == [c.stage EXCEPT ![i] = After(c)]
<1>3. After(c) \in {"release", "end"} /\ After(c) \in Stages
  BY DEF After, Stages
<1>4. /\ S \in Seq(Stages) /\ Len(S) = Len(c.items) /\ S[i] = After(c)
      /\ \A j \in DOMAIN c.items : j # i => S[j] = c.stage[j]
  <2>1. i \in 1..Len(c.stage)
    BY <1>1
  <2> QED BY <1>1, <1>3, <2>1, Replaced
<1> HIDE DEF S
<1>5. /\ d.op = c.op /\ d.items = c.items /\ d.next = c.next /\ d.stage = S /\ d.ferr = TRUE
      /\ d.did = c.did /\ d.out = c.out /\ d.result = c.result
      /\ d.bytes = c.bytes /\ d.read = c.read
  BY <1>1 DEF CallRecords, S, Failure
<1>6. d \in CallRecords
  BY <1>1, <1>4 DEF CallRecords, S, Failure
<1> HIDE DEF d
<1>7. ASSUME NEW j \in DOMAIN d.items PROVE ItemOK(d, j, lost)
  <2>1. ItemOK(c, j, lost)
    BY <1>5 DEF CallOK
  <2>2. CASE j = i
    BY <1>2, <1>3, <1>4, <1>5, <2>1, <2>2 DEF ItemOK, AtWork
  <2>3. CASE j # i
    BY <1>4, <1>5, <2>1, <2>3 DEF ItemOK
  <2> QED BY <2>2, <2>3
<1>8. CallOK(d, lost)
  BY <1>1, <1>2, <1>4, <1>5, <1>6, <1>7 DEF CallOK
<1> QED BY <1>1, <1>4, <1>5, <1>8 DEF Moved, d

(* The writing of a file goes through its stages, and a slot is given back. *)
LEMMA ItemGoesOn ==
    ASSUME NEW c, NEW lost, CallOK(c, lost), NEW i, AtWork(c, i), NEW s \in Stages \ {"queued"},
           \/ s \in {"write", "rename", "remove"} /\ c.stage[i] \in {"create", "write", "rename"}
           \/ s = "end" /\ c.stage[i] = "release"
    PROVE  /\ CallOK(Staged(c, i, s), lost) /\ Moved(c, Staged(c, i, s), i)
           /\ Staged(c, i, s).stage[i] = s
<1> DEFINE d == Staged(c, i, s)
<1>1. /\ c \in CallRecords /\ i \in 1..Len(c.items) /\ Len(c.items) \in Nat
      /\ c.stage \in Seq(Stages) /\ c.out \in Seq(Kinds \cup {"unset"}) /\ c.items \in Seq(Keys)
      /\ Len(c.stage) = Len(c.items) /\ Len(c.out) = Len(c.items) /\ DOMAIN c.items = 1..Len(c.items)
      /\ c.did \subseteq DOMAIN c.items /\ i \in Nat
  BY WorkFacts
<1>2. c.result = "open" /\ c.op # "stream" /\ c.op # "idle"
  BY WorkFacts
<1> DEFINE S == [c.stage EXCEPT ![i] = s]
<1>4. /\ S \in Seq(Stages) /\ Len(S) = Len(c.items) /\ S[i] = s
      /\ \A j \in DOMAIN c.items : j # i => S[j] = c.stage[j]
  <2>1. i \in 1..Len(c.stage)
    BY <1>1
  <2> QED BY <1>1, <2>1, Replaced
<1> HIDE DEF S
<1>5. /\ d.op = c.op /\ d.items = c.items /\ d.next = c.next /\ d.stage = S /\ d.ferr = c.ferr
      /\ d.did = c.did /\ d.out = c.out /\ d.result = c.result
      /\ d.bytes = c.bytes /\ d.read = c.read
  BY <1>1 DEF CallRecords, S, Staged
<1>6. d \in CallRecords
  BY <1>1, <1>4 DEF CallRecords, S, Staged
<1> HIDE DEF d
<1>7. ASSUME NEW j \in DOMAIN d.items PROVE ItemOK(d, j, lost)
  <2>1. ItemOK(c, j, lost)
    BY <1>5 DEF CallOK
  <2>2. CASE j = i
    BY <1>2, <1>4, <1>5, <2>1, <2>2 DEF ItemOK, AtWork
  <2>3. CASE j # i
    BY <1>4, <1>5, <2>1, <2>3 DEF ItemOK
  <2> QED BY <2>2, <2>3
<1>8. CallOK(d, lost)
  BY <1>1, <1>2, <1>4, <1>5, <1>6, <1>7 DEF CallOK
<1> QED BY <1>1, <1>4, <1>5, <1>8 DEF Moved, d

(* The caller's context is done. *)
LEMMA CancelOK ==
    ASSUME NEW c, NEW lost, CallOK(c, lost), c.op # "idle"
    PROVE  CallOK([c EXCEPT !.done = TRUE], lost)
<1> DEFINE d == [c EXCEPT !.done = TRUE]
<1>1. c \in CallRecords
  BY DEF CallOK
<1>2. /\ d.op = c.op /\ d.items = c.items /\ d.next = c.next /\ d.stage = c.stage /\ d.ferr = c.ferr
      /\ d.did = c.did /\ d.out = c.out /\ d.result = c.result
      /\ d.bytes = c.bytes /\ d.read = c.read /\ d \in CallRecords
  BY <1>1 DEF CallRecords
<1> HIDE DEF d
<1>3. Running(d) = Running(c) /\ \A i \in DOMAIN c.items : ItemOK(c, i, lost) => ItemOK(d, i, lost)
  BY <1>2 DEF Running, ItemOK
<1>4. CallOK(d, lost)
  BY <1>2, <1>3 DEF CallOK
<1> QED BY <1>4 DEF d

(* forEach, or a loop, takes the next item. *)
Launched(c, s) == [c EXCEPT !.next = @ + 1, !.stage = [c.stage EXCEPT ![c.next] = s]]

LEMMA LaunchOK ==
    ASSUME NEW c, NEW lost, CallOK(c, lost), c.op \notin {"idle", "stream"}, c.result = "open",
           c.next \in DOMAIN c.items, NEW s \in {"create", "op"}, s = "create" => c.op \in Puts
    PROVE  CallOK(Launched(c, s), lost) /\ Moved(c, Launched(c, s), c.next)
<1> DEFINE d == Launched(c, s)
           n == c.next
<1>1. c \in CallRecords /\ Len(c.stage) = Len(c.items) /\ Len(c.out) = Len(c.items)
      /\ c.did \subseteq DOMAIN c.items
  BY DEF CallOK
<1>2. c.stage \in Seq(Stages) /\ c.items \in Seq(Keys) /\ c.next \in Nat
  BY <1>1, CallFields
<1>3. Len(c.items) \in Nat /\ DOMAIN c.items = 1..Len(c.items)
  BY <1>2
<1> DEFINE S == [c.stage EXCEPT ![n] = s]
<1>4. /\ S \in Seq(Stages) /\ Len(S) = Len(c.items) /\ S[n] = s
      /\ \A j \in DOMAIN c.items : j # n => S[j] = c.stage[j]
  <2>1. n \in 1..Len(c.stage) /\ s \in Stages
    BY <1>1, <1>3 DEF Stages
  <2> QED BY <1>1, <1>2, <1>3, <2>1, Replaced
<1> HIDE DEF S
<1>5. /\ d.op = c.op /\ d.items = c.items /\ d.next = c.next + 1 /\ d.stage = S /\ d.ferr = c.ferr
      /\ d.did = c.did /\ d.out = c.out /\ d.result = c.result
      /\ d.bytes = c.bytes /\ d.read = c.read
  BY <1>1 DEF CallRecords, S, Launched
<1>6. d \in CallRecords
  <2>1. c.next + 1 \in Nat
    BY <1>2
  <2> QED BY <1>1, <1>4, <2>1 DEF CallRecords, S, Launched
<1> HIDE DEF d
<1>7. ASSUME NEW j \in DOMAIN d.items PROVE ItemOK(d, j, lost)
  <2>1. ItemOK(c, j, lost) /\ j \in Nat
    BY <1>3, <1>5 DEF CallOK
  <2>2. CASE j = n
    <3>1. d.stage[j] = s /\ j < d.next
      BY <1>2, <1>4, <1>5, <2>2
    <3> QED BY <1>5, <2>1, <3>1 DEF ItemOK
  <2>3. CASE j # n
    <3>1. d.stage[j] = c.stage[j] /\ (j < d.next <=> j < c.next)
      BY <1>2, <1>4, <1>5, <2>1, <2>3
    <3> QED BY <1>5, <2>1, <3>1 DEF ItemOK
  <2> QED BY <2>2, <2>3
<1>8. CallOK(d, lost)
  BY <1>1, <1>4, <1>5, <1>6, <1>7 DEF CallOK
<1> QED BY <1>1, <1>4, <1>5, <1>8 DEF Moved, d

(* wg.Wait is over, and no error is to report: all items were launched, and *)
(* each of them did its work.                                               *)
LEMMA ReturnOK ==
    ASSUME NEW c, NEW lost, CallOK(c, lost), c.op \notin {"idle", "stream"}, c.result = "open",
           StopsLaunching(c), Running(c) = {}
    PROVE  CallOK([c EXCEPT !.result = Result(c)], lost)
<1> DEFINE d == [c EXCEPT !.result = Result(c)]
<1>1. c \in CallRecords /\ Len(c.stage) = Len(c.items) /\ Len(c.out) = Len(c.items)
      /\ c.did \subseteq DOMAIN c.items
  BY DEF CallOK
<1>2. /\ d.op = c.op /\ d.items = c.items /\ d.next = c.next /\ d.stage = c.stage /\ d.ferr = c.ferr
      /\ d.did = c.did /\ d.out = c.out /\ d.result = Result(c)
      /\ d.bytes = c.bytes /\ d.read = c.read /\ d \in CallRecords
  BY <1>1 DEF CallRecords, Result
<1> HIDE DEF d
<1>3. Running(d) = Running(c) /\ \A i \in DOMAIN c.items : ItemOK(c, i, lost) => ItemOK(d, i, lost)
  BY <1>2 DEF Running, ItemOK
<1>4. ASSUME Result(c) = "ok" PROVE c.did = DOMAIN c.items
  <2>1. ~c.ferr /\ c.next > Len(c.items)
    BY <1>4 DEF Result, StopsLaunching, Cancelled
  <2>2. c.items \in Seq(Keys) /\ c.next \in Nat
    BY <1>1, CallFields
  <2>3. \A i \in DOMAIN c.items : i < c.next
    BY <2>1, <2>2
  <2>4. \A i \in DOMAIN c.items : c.stage[i] = "end"
    BY <2>3 DEF CallOK, ItemOK, Running
  <2>5. \A i \in DOMAIN c.items : i \in c.did
    BY <2>1, <2>4 DEF CallOK, ItemOK
  <2> QED BY <1>1, <2>5
<1>5. CallOK(d, lost)
  BY <1>2, <1>3, <1>4 DEF CallOK
<1> QED BY <1>5 DEF d

(* The verifying reader: the end is reached, and read, only of the content *)
(* asked for.                                                              *)
LEMMA StreamReadOK ==
    ASSUME NEW c, NEW lost, CallOK(c, lost), c.op = "stream", c.result = "open", c.bytes # "none",
           c.items[1] \notin Empty, NEW n \in 1..Size, NEW d,
           LET left == Size - c.read
               take == IF n < left THEN n ELSE left
               got == IF c.read + take <= Length[c.bytes] THEN take ELSE Length[c.bytes] - c.read
               read == c.read + got
           IN  d = IF read = Size
                   THEN IF FinalCheck(c.bytes) THEN [c EXCEPT !.result = "error"]
                        ELSE [c EXCEPT !.read = read, !.result = "ok", !.did = {1}]
                   ELSE [c EXCEPT !.read = read, !.result = IF got < take THEN "error" ELSE "open"]
    PROVE  CallOK(d, lost)
<1> DEFINE left == Size - c.read
           take == IF n < left THEN n ELSE left
           got == IF c.read + take <= Length[c.bytes] THEN take ELSE Length[c.bytes] - c.read
           read == c.read + got
           result == IF read = Size THEN IF FinalCheck(c.bytes) THEN "error" ELSE "ok"
                     ELSE IF got < take THEN "error" ELSE "open"
<1>1. c \in CallRecords /\ c.read \in Nat /\ c.bytes \in Kinds \ {"none"} /\ Len(c.items) = 1
  BY CallFields DEF CallOK
<1>2. c.items \in Seq(Keys) /\ c.did \subseteq Nat /\ DOMAIN c.items = {1}
  BY <1>1, CallFields
<1>3. c.bytes \in {"whole", "rot", "part", "long"}
  BY <1>1 DEF Kinds
<1>4. Length[c.bytes] \in Nat /\ (c.bytes = "part" => Length[c.bytes] = 1)
      /\ (c.bytes = "long" => Length[c.bytes] = 3)
  BY <1>3 DEF Length
<1>5. n \in Nat /\ Size = 2
  BY DEF Size
<1>6. read \in Nat
  BY <1>1, <1>4, <1>5
<1>7. read = Size /\ ~FinalCheck(c.bytes) => c.bytes = "whole"
  BY <1>1, <1>3, <1>4, <1>5 DEF FinalCheck
<1>8. /\ d.op = c.op /\ d.items = c.items /\ d.next = c.next /\ d.stage = c.stage /\ d.ferr = c.ferr
      /\ d.out = c.out /\ d.bytes = c.bytes /\ d.result = result
      /\ d.did = IF result = "ok" THEN {1} ELSE c.did
      /\ d.read = IF read = Size /\ FinalCheck(c.bytes) THEN c.read ELSE read
  BY <1>1 DEF CallRecords
<1>9. d \in CallRecords
  <2>1. {1} \subseteq Nat
    OBVIOUS
  <2> HIDE DEF read, got, take
  <2>2. CASE read = Size /\ FinalCheck(c.bytes)
    BY <1>1, <2>2 DEF CallRecords, read, got, take
  <2>3. CASE read = Size /\ ~FinalCheck(c.bytes)
    BY <1>1, <1>6, <2>1, <2>3 DEF CallRecords, read, got, take
  <2>4. CASE read # Size
    BY <1>1, <1>6, <2>4 DEF CallRecords, read, got, take
  <2> QED BY <2>2, <2>3, <2>4
<1>10. Running(d) = {} /\ \A i \in DOMAIN c.items : ItemOK(d, i, lost)
  <2>1. \A i \in DOMAIN c.items : ItemOK(c, i, lost)
    BY DEF CallOK
  <2>2. \A i \in DOMAIN c.items : ItemOK(d, i, lost)
    BY <1>8, <2>1 DEF ItemOK
  <2>3. \A i \in DOMAIN c.items : d.stage[i] = "queued"
    BY <1>8, <2>1 DEF ItemOK
  <2> QED BY <1>8, <2>2, <2>3 DEF Running
<1>11. d.result = "ok" => read = Size /\ ~FinalCheck(c.bytes) /\ d.did = {1}
  BY <1>8
<1>12. d.read = Size => c.read = Size \/ (read = Size /\ ~FinalCheck(c.bytes))
  BY <1>8
<1> HIDE DEF left, take, got, read, result
<1>13. (d.result = "ok" \/ d.read = Size) => d.bytes = "whole"
  BY <1>7, <1>8, <1>11, <1>12 DEF CallOK
<1>14. d.did \subseteq DOMAIN d.items
  BY <1>2, <1>8 DEF CallOK
<1>15. (d.result = "ok" => d.did = DOMAIN d.items) /\ d.op # "idle"
  BY <1>2, <1>8, <1>11
<1> QED BY <1>8, <1>9, <1>10, <1>13, <1>14, <1>15 DEF CallOK

(* An empty content's stream ends before anything is read. *)
LEMMA StreamEmptyOK ==
    ASSUME NEW c, NEW lost, CallOK(c, lost), c.op = "stream", c.result = "open", c.items[1] \in Empty
    PROVE  CallOK([c EXCEPT !.result = "ok", !.did = {1}], lost)
<1> DEFINE d == [c EXCEPT !.result = "ok", !.did = {1}]
<1>1. c \in CallRecords /\ Len(c.items) = 1
  BY DEF CallOK
<1>2. c.items \in Seq(Keys) /\ DOMAIN c.items = {1}
  BY <1>1, CallFields
<1>3. /\ d.op = c.op /\ d.items = c.items /\ d.next = c.next /\ d.stage = c.stage /\ d.ferr = c.ferr
      /\ d.out = c.out /\ d.bytes = c.bytes /\ d.read = c.read /\ d.result = "ok" /\ d.did = {1}
  BY <1>1 DEF CallRecords
<1>4. d \in CallRecords
  <2>1. {1} \subseteq Nat
    OBVIOUS
  <2> QED BY <1>1, <2>1 DEF CallRecords
<1> HIDE DEF d
<1>5. \A i \in DOMAIN c.items : ItemOK(c, i, lost)
  BY DEF CallOK
<1>6. Running(d) = {} /\ \A i \in DOMAIN c.items : ItemOK(d, i, lost)
  <2>1. \A i \in DOMAIN c.items : ItemOK(d, i, lost)
    BY <1>3, <1>5 DEF ItemOK
  <2>2. \A i \in DOMAIN c.items : d.stage[i] = "queued"
    BY <1>3, <1>5 DEF ItemOK
  <2> QED BY <1>3, <2>1, <2>2 DEF Running
<1>7. CallOK(d, lost)
  BY <1>2, <1>3, <1>4, <1>6 DEF CallOK
<1> QED BY <1>7 DEF d

(* A stream that fails goes nowhere. *)
LEMMA StreamFailsOK ==
    ASSUME NEW c, NEW lost, CallOK(c, lost), c.op = "stream", c.result = "open"
    PROVE  CallOK([c EXCEPT !.result = "error"], lost)
<1> DEFINE d == [c EXCEPT !.result = "error"]
<1>1. /\ d.op = c.op /\ d.items = c.items /\ d.next = c.next /\ d.stage = c.stage /\ d.ferr = c.ferr
      /\ d.did = c.did /\ d.out = c.out /\ d.bytes = c.bytes /\ d.read = c.read /\ d.result = "error"
      /\ d \in CallRecords
  BY DEF CallOK, CallRecords
<1> HIDE DEF d
<1>2. \A i \in DOMAIN c.items : ItemOK(c, i, lost)
  BY DEF CallOK
<1>3. Running(d) = {} /\ \A i \in DOMAIN c.items : ItemOK(d, i, lost)
  <2>1. \A i \in DOMAIN c.items : ItemOK(d, i, lost)
    BY <1>1, <1>2 DEF ItemOK
  <2>2. \A i \in DOMAIN c.items : d.stage[i] = "queued"
    BY <1>1, <1>2 DEF ItemOK
  <2> QED BY <1>1, <2>1, <2>2 DEF Running
<1>4. CallOK(d, lost)
  BY <1>1, <1>3 DEF CallOK
<1> QED BY <1>4 DEF d

(* The stream is opened, on whatever is there. *)
LEMMA StreamOpenOK ==
    ASSUME NEW c, NEW lost, CallOK(c, lost), c.op = "stream", c.result = "open", c.bytes = "none",
           NEW b \in Kinds
    PROVE  CallOK([c EXCEPT !.bytes = b, !.result = IF b = "none" THEN "error" ELSE "open"], lost)
<1> DEFINE d == [c EXCEPT !.bytes = b, !.result = IF b = "none" THEN "error" ELSE "open"]
<1>1. c \in CallRecords /\ (c.items[1] \notin Empty => c.read # Size)
  BY DEF CallOK
<1>2. /\ d.op = c.op /\ d.items = c.items /\ d.next = c.next /\ d.stage = c.stage /\ d.ferr = c.ferr
      /\ d.did = c.did /\ d.out = c.out /\ d.result # "ok" /\ d.read = c.read /\ d \in CallRecords
  BY <1>1 DEF CallRecords
<1> HIDE DEF d
<1>3. \A i \in DOMAIN d.items : d.stage[i] = "queued" /\ ItemOK(d, i, lost)
  BY <1>2 DEF CallOK, ItemOK
<1>4. Running(d) = {}
  BY <1>3 DEF Running
<1>5. CallOK(d, lost)
  BY <1>1, <1>2, <1>3, <1>4 DEF CallOK
<1> QED BY <1>5 DEF d

-----------------------------------------------------------------------------
(* A call among the others *)

LEMMA SucceedsIs ==
    ASSUME NEW p \in Clients, NEW i, NEW out, DOMAIN call = Clients, call[p] \in CallRecords,
           Succeeds(p, i, out)
    PROVE  call' = [call EXCEPT ![p] = Success(call[p], i, out)]
BY DEF Succeeds, Success, CallRecords

LEMMA FailsIs ==
    ASSUME NEW p \in Clients, NEW i, DOMAIN call = Clients, call[p] \in CallRecords, Fails(p, i)
    PROVE  call' = [call EXCEPT ![p] = Failure(call[p], i)]
BY DEF Fails, Failure, CallRecords

LEMMA StagedIs ==
    ASSUME NEW p \in Clients, NEW i, NEW s, DOMAIN call = Clients, call[p] \in CallRecords,
           call' = [call EXCEPT ![p].stage[i] = s]
    PROVE  call' = [call EXCEPT ![p] = Staged(call[p], i, s)]
BY DEF Staged, CallRecords

LEMMA AtIsWork ==
    ASSUME NEW p, NEW i, NEW s, At(p, i, s), s \notin {"queued", "end"}
    PROVE  AtWork(call[p], i)
BY DEF At, AtWork

(* Only an item that writes has a file open. *)
LEMMA NotWriting ==
    ASSUME BlobInv, NEW p, NEW i, ~At(p, i, "write"), NEW k \in Keys
    PROVE  <<p, i>> \notin temp[k].by \cup holder[k].by
BY DEF BlobInv, WritersOK

(* What other writers of a call go on with. *)
Writes(c, d, i) ==
    \A j \in DOMAIN c.items : (j # i /\ c.stage[j] = "write") =>
        j \in DOMAIN d.items /\ d.stage[j] = "write" /\ d.items[j] = c.items[j]

LEMMA MovedWrites ==
    ASSUME NEW c, NEW d, NEW i, Moved(c, d, i)
    PROVE  Writes(c, d, i)
BY DEF Moved, Writes

(* A writer of k after the step: one of before, or the item that just opened it. *)
StaysWriter(w, k, p, d, i) ==
    \/ w \in temp[k].by \cup holder[k].by /\ w # <<p, i>>
    \/ w = <<p, i>> /\ i \in DOMAIN d.items /\ d.stage[i] = "write" /\ d.items[i] = k

LEMMA WritersStep ==
    ASSUME BlobInv, NEW p \in Clients, NEW d, NEW i, call' = [call EXCEPT ![p] = d],
           Writes(call[p], d, i),
           \A k \in Keys : \A w \in temp'[k].by \cup holder'[k].by : StaysWriter(w, k, p, d, i)
    PROVE  WritersOK'
<1>1. DOMAIN call = Clients
  BY DEF BlobInv, BlobTypes
<1>2. call'[p] = d /\ \A q \in Clients \ {p} : call'[q] = call[q]
  BY <1>1
<1> SUFFICES ASSUME NEW k \in Keys, NEW w \in temp'[k].by \cup holder'[k].by
             PROVE  /\ w[2] \in DOMAIN call'[w[1]].items /\ call'[w[1]].stage[w[2]] = "write"
                    /\ call'[w[1]].items[w[2]] = k
  BY DEF WritersOK, At, Key
<1>3. CASE w = <<p, i>> /\ i \in DOMAIN d.items /\ d.stage[i] = "write" /\ d.items[i] = k
  BY <1>2, <1>3
<1>4. CASE w \in temp[k].by \cup holder[k].by /\ w # <<p, i>>
  <2>1. temp[k].by \subseteq WriterIds /\ holder[k].by \subseteq WriterIds
    BY DEF BlobInv, BlobTypes, TempFiles
  <2>2. w \in WriterIds
    BY <1>4, <2>1
  <2>3. w[1] \in Clients /\ w = <<w[1], w[2]>>
    BY <2>2 DEF WriterIds
  <2>4. /\ w[2] \in DOMAIN call[w[1]].items /\ call[w[1]].stage[w[2]] = "write"
        /\ call[w[1]].items[w[2]] = k
    BY <1>4 DEF BlobInv, WritersOK, At, Key
  <2>5. CASE w[1] = p
    <3>1. w[2] # i
      BY <1>4, <2>3, <2>5
    <3> QED BY <1>2, <2>4, <2>5, <3>1 DEF Writes
  <2>6. CASE w[1] # p
    BY <1>2, <2>3, <2>4, <2>6
  <2> QED BY <2>5, <2>6
<1> QED BY <1>3, <1>4 DEF StaysWriter

LEMMA CallsStep ==
    ASSUME BlobInv, NEW p \in Clients, NEW d, call' = [call EXCEPT ![p] = d], spoilt \subseteq spoilt',
           CallOK(d, spoilt')
    PROVE  DOMAIN call' = Clients /\ \A q \in Clients : CallOK(call'[q], spoilt')
<1>1. DOMAIN call = Clients
  BY DEF BlobInv, BlobTypes
<1>2. DOMAIN call' = Clients /\ call'[p] = d /\ \A q \in Clients \ {p} : call'[q] = call[q]
  BY <1>1
<1>3. ASSUME NEW q \in Clients PROVE CallOK(call'[q], spoilt')
  <2>1. CASE q = p
    BY <1>2, <2>1
  <2>2. CASE q # p
    <3>1. CallOK(call[q], spoilt) /\ call'[q] = call[q]
      BY <1>2, <2>2 DEF BlobInv
    <3> QED BY <3>1, CallKept
  <2> QED BY <2>1, <2>2
<1> QED BY <1>2, <1>3

(* A step of one call that touches no file. *)
LEMMA FrameStep ==
    ASSUME BlobInv, NEW p \in Clients, NEW d, NEW i, call' = [call EXCEPT ![p] = d],
           CallOK(d, spoilt), Writes(call[p], d, i), ~At(p, i, "write"),
           UNCHANGED <<file, temp, last, holder, spoilt>>,
           heights' \in [Keys -> {"unknown", "true", "false"}],
           \A k \in Keys \ spoilt : heights'[k] # "false"
    PROVE  BlobInv'
<1>1. DOMAIN call' = Clients /\ \A q \in Clients : CallOK(call'[q], spoilt')
  BY CallsStep
<1>2. BlobTypes'
  BY <1>1 DEF BlobInv, BlobTypes
<1>3. WritersOK'
  <2>1. \A k \in Keys : \A w \in temp'[k].by \cup holder'[k].by : StaysWriter(w, k, p, d, i)
    BY NotWriting DEF StaysWriter
  <2> QED BY <2>1, WritersStep
<1>4. \A k \in Keys \ spoilt' : FileOK(k)'
  BY DEF BlobInv, FileOK
<1> QED BY <1>1, <1>2, <1>3, <1>4 DEF BlobInv

(* What the invariant says of the heights. *)
LEMMA HeightFacts ==
    ASSUME BlobInv
    PROVE  /\ heights \in [Keys -> {"unknown", "true", "false"}]
           /\ \A k \in Keys \ spoilt : heights[k] # "false"
BY DEF BlobInv, BlobTypes, FileOK

LEMMA CallOf ==
    ASSUME BlobInv, NEW p \in Clients
    PROVE  DOMAIN call = Clients /\ CallOK(call[p], spoilt) /\ call[p] \in CallRecords
BY DEF BlobInv, BlobTypes, CallOK

-----------------------------------------------------------------------------
(* Every action keeps the invariant: first those that touch no file. *)

LEMMA BeginInv ==
    ASSUME BlobInv, NEW p \in Clients, NEW r \in Requests[p], Begin(p, r)
    PROVE  BlobInv'
<1>1. PICK d : call' = [call EXCEPT ![p] = d] /\ CallOK(d, spoilt)
  BY CallOf, BeginOK
<1>2. call[p].items = <<>>
  BY DEF Begin, NoCall
<1>3. Writes(call[p], d, 0) /\ ~At(p, 0, "write")
  BY <1>2 DEF Writes, At
<1>4. UNCHANGED <<file, temp, last, holder, spoilt, heights>>
  BY DEF Begin
<1> QED BY <1>1, <1>3, <1>4, HeightFacts, FrameStep

(* The stages are as they were. *)
LEMMA SameStages ==
    ASSUME NEW c, NEW lost, CallOK(c, lost), NEW d, d.items = c.items, d.stage = c.stage
    PROVE  Writes(c, d, 0) /\ 0 \notin DOMAIN c.items
<1>1. c.items \in Seq(Keys)
  BY CallFields DEF CallOK
<1> QED BY <1>1 DEF Writes

LEMMA CancelInv ==
    ASSUME BlobInv, NEW p \in Clients, Cancel(p)
    PROVE  BlobInv'
<1> DEFINE d == [call[p] EXCEPT !.done = TRUE]
<1>1. DOMAIN call = Clients /\ CallOK(call[p], spoilt) /\ call[p] \in CallRecords
  BY CallOf
<1>2. call' = [call EXCEPT ![p] = d]
  BY <1>1 DEF Cancel
<1>3. CallOK(d, spoilt)
  BY <1>1, CancelOK DEF Cancel, Open
<1>4. d.items = call[p].items /\ d.stage = call[p].stage
  BY <1>1 DEF CallRecords
<1> HIDE DEF d
<1>5. Writes(call[p], d, 0) /\ ~At(p, 0, "write")
  BY <1>1, <1>4, SameStages DEF At
<1>6. UNCHANGED <<file, temp, last, holder, spoilt, heights>>
  BY DEF Cancel
<1> QED BY <1>2, <1>3, <1>5, <1>6, HeightFacts, FrameStep

LEMMA LaunchInv ==
    ASSUME BlobInv, NEW p \in Clients, Launch(p)
    PROVE  BlobInv'
<1> DEFINE c == call[p]
           s == IF c.op \in Puts /\ store.put = "rename" THEN "create" ELSE "op"
           d == Launched(c, s)
<1>1. DOMAIN call = Clients /\ CallOK(c, spoilt) /\ c \in CallRecords
  BY CallOf
<1>2. /\ c.op \notin {"idle", "stream"} /\ c.result = "open" /\ c.next \in DOMAIN c.items
  BY DEF Launch, Open
<1>3. call' = [call EXCEPT ![p] = d]
  BY <1>1 DEF Launch, Launched, CallRecords, Puts
<1>4. s \in {"create", "op"} /\ (s = "create" => c.op \in Puts)
  OBVIOUS
<1> HIDE DEF s
<1>5. CallOK(d, spoilt) /\ Moved(c, d, c.next)
  BY <1>1, <1>2, <1>4, LaunchOK
<1>6. c.stage[c.next] = "queued"
  <2>1. ItemOK(c, c.next, spoilt) /\ ~(c.next < c.next)
    BY <1>1, <1>2 DEF CallOK, CallRecords
  <2> QED BY <1>2, <2>1 DEF ItemOK
<1>7. ~At(p, c.next, "write")
  BY <1>6 DEF At
<1>8. UNCHANGED <<file, temp, last, holder, spoilt, heights>>
  BY DEF Launch
<1> HIDE DEF c, d
<1>9. Writes(call[p], d, c.next)
  BY <1>5, MovedWrites DEF c
<1> QED BY <1>3, <1>5, <1>7, <1>8, <1>9, HeightFacts, FrameStep

LEMMA ReturnInv ==
    ASSUME BlobInv, NEW p \in Clients, Return(p)
    PROVE  BlobInv'
<1> DEFINE c == call[p]
           d == [c EXCEPT !.result = Result(c)]
<1>1. DOMAIN call = Clients /\ CallOK(c, spoilt) /\ c \in CallRecords
  BY CallOf
<1>2. /\ c.op \notin {"idle", "stream"} /\ c.result = "open" /\ StopsLaunching(c) /\ Running(c) = {}
      /\ heights' = Note(heights, c) /\ UNCHANGED <<file, temp, last, holder, spoilt>>
  BY DEF Return, Open
<1>3. call' = [call EXCEPT ![p] = d]
  BY <1>1 DEF Return
<1>4. CallOK(d, spoilt)
  BY <1>1, <1>2, ReturnOK
<1>5. d.items = c.items /\ d.stage = c.stage
  BY <1>1 DEF CallRecords
<1>6. \A k \in Keys : Noted(c, k) \in {"unknown", "true", "false"}
  BY DEF Noted
<1>7. ASSUME NEW k \in Keys \ spoilt PROVE Noted(c, k) # "false"
  <2> SUFFICES ASSUME Noted(c, k) = "false" PROVE FALSE
    OBVIOUS
  <2>1. PICK i \in DOMAIN c.items : c.items[i] = k /\ c.out[i] = "rot"
    BY DEF Noted
  <2> QED BY <1>1, <2>1 DEF CallOK, ItemOK
<1> HIDE DEF c, d
<1>8. heights' \in [Keys -> {"unknown", "true", "false"}]
  BY <1>2, <1>6, HeightFacts DEF Note
<1>9. \A k \in Keys \ spoilt : heights'[k] # "false"
  BY <1>2, <1>7, HeightFacts DEF Note
<1>10. Writes(c, d, 0) /\ ~At(p, 0, "write")
  BY <1>1, <1>5, SameStages DEF At, c
<1> QED BY <1>2, <1>3, <1>4, <1>8, <1>9, <1>10, FrameStep DEF c

LEMMA StreamOpenInv ==
    ASSUME BlobInv, NEW p \in Clients, StreamOpen(p)
    PROVE  BlobInv'
<1> DEFINE c == call[p]
           b == file[Key(p, 1)]
           d == [c EXCEPT !.bytes = b, !.result = IF b = "none" THEN "error" ELSE "open"]
<1>1. DOMAIN call = Clients /\ CallOK(c, spoilt) /\ c \in CallRecords
  BY CallOf
<1>2. /\ c.op = "stream" /\ c.result = "open" /\ c.bytes = "none"
      /\ UNCHANGED <<file, temp, last, holder, spoilt, heights>>
  BY DEF StreamOpen, Open
<1>3. call' = [call EXCEPT ![p] = d]
  BY <1>1 DEF StreamOpen, CallRecords
<1>4. b \in Kinds
  <2>1. c.items \in Seq(Keys) /\ Len(c.items) = 1
    BY <1>1, <1>2, CallFields DEF CallOK
  <2>2. c.items[1] \in Keys
    BY <2>1
  <2> QED BY <2>2 DEF BlobInv, BlobTypes, Key
<1>5. d.items = c.items /\ d.stage = c.stage
  BY <1>1 DEF CallRecords
<1> HIDE DEF b
<1>6. CallOK(d, spoilt)
  BY <1>1, <1>2, <1>4, StreamOpenOK
<1> HIDE DEF c, d
<1>7. Writes(c, d, 0) /\ ~At(p, 0, "write")
  BY <1>1, <1>5, SameStages DEF At, c
<1> QED BY <1>2, <1>3, <1>6, <1>7, HeightFacts, FrameStep DEF c

LEMMA StreamFailsInv ==
    ASSUME BlobInv, NEW p \in Clients, StreamFails(p)
    PROVE  BlobInv'
<1> DEFINE c == call[p]
           d == [c EXCEPT !.result = "error"]
<1>1. DOMAIN call = Clients /\ CallOK(c, spoilt) /\ c \in CallRecords
  BY CallOf
<1>2. /\ c.op = "stream" /\ c.result = "open"
      /\ UNCHANGED <<file, temp, last, holder, spoilt, heights>>
  BY DEF StreamFails, Open
<1>3. call' = [call EXCEPT ![p] = d]
  BY <1>1 DEF StreamFails, CallRecords
<1>4. CallOK(d, spoilt)
  BY <1>1, <1>2, StreamFailsOK
<1>5. d.items = c.items /\ d.stage = c.stage
  BY <1>1 DEF CallRecords
<1> HIDE DEF c, d
<1>6. Writes(c, d, 0) /\ ~At(p, 0, "write")
  BY <1>1, <1>5, SameStages DEF At, c
<1> QED BY <1>2, <1>3, <1>4, <1>6, HeightFacts, FrameStep DEF c

LEMMA StreamReadInv ==
    ASSUME BlobInv, NEW p \in Clients, NEW n \in 1..Size, StreamRead(p, n)
    PROVE  BlobInv'
<1> DEFINE c == call[p]
           left == Size - c.read
           take == IF n < left THEN n ELSE left
           got == IF c.read + take <= Length[c.bytes] THEN take ELSE Length[c.bytes] - c.read
           read == c.read + got
           d == IF c.items[1] \in Empty THEN [c EXCEPT !.result = "ok", !.did = {1}]
                ELSE IF read = Size
                THEN IF FinalCheck(c.bytes) THEN [c EXCEPT !.result = "error"]
                     ELSE [c EXCEPT !.read = read, !.result = "ok", !.did = {1}]
                ELSE [c EXCEPT !.read = read, !.result = IF got < take THEN "error" ELSE "open"]
<1>1. DOMAIN call = Clients /\ CallOK(c, spoilt) /\ c \in CallRecords
  BY CallOf
<1>2. /\ c.op = "stream" /\ c.result = "open" /\ c.bytes # "none"
      /\ UNCHANGED <<file, temp, last, holder, spoilt, heights>>
  BY DEF StreamRead, Open
<1>3. call' = [call EXCEPT ![p] = d]
  BY DEF StreamRead, Key
<1>4. CallOK(d, spoilt)
  <2>1. CASE c.items[1] \in Empty
    BY <1>1, <1>2, <2>1, StreamEmptyOK
  <2>2. CASE c.items[1] \notin Empty
    BY <1>1, <1>2, <2>2, StreamReadOK
  <2> QED BY <2>1, <2>2
<1>5. d.items = c.items /\ d.stage = c.stage
  BY <1>1 DEF CallRecords
<1> HIDE DEF c, d
<1>6. Writes(c, d, 0) /\ ~At(p, 0, "write")
  BY <1>1, <1>5, SameStages DEF At, c
<1> QED BY <1>2, <1>3, <1>4, <1>6, HeightFacts, FrameStep DEF c

(* An item that is at work is one of a key, and what is read of it is rot only where it is spoilt. *)
LEMMA ItemFacts ==
    ASSUME BlobInv, NEW p \in Clients, NEW i, NEW s, At(p, i, s), s \notin {"queued", "end"}
    PROVE  /\ AtWork(call[p], i) /\ Key(p, i) \in Keys /\ Key(p, i) = call[p].items[i]
           /\ file[Key(p, i)] \in Kinds /\ i \in Nat
           /\ file[Key(p, i)] = "rot" => Key(p, i) \in spoilt
           /\ heights[Key(p, i)] \in {"unknown", "true", "false"}
           /\ heights[Key(p, i)] = "false" => Key(p, i) \in spoilt
<1>1. AtWork(call[p], i)
  BY AtIsWork
<1>2. CallOK(call[p], spoilt)
  BY CallOf
<1>3. call[p].items \in Seq(Keys) /\ i \in 1..Len(call[p].items) /\ i \in Nat
  BY <1>1, <1>2, WorkFacts
<1>4. Key(p, i) \in Keys
  BY <1>3 DEF Key
<1>5. Key(p, i) \notin spoilt => FileOK(Key(p, i))
  BY <1>4 DEF BlobInv
<1> HIDE DEF Key
<1>6. file[Key(p, i)] \in Kinds /\ heights[Key(p, i)] \in {"unknown", "true", "false"}
  BY <1>4 DEF BlobInv, BlobTypes
<1> QED BY <1>1, <1>3, <1>4, <1>5, <1>6 DEF FileOK, Key

LEMMA SuccessStep ==
    ASSUME BlobInv, NEW p \in Clients, NEW i, NEW out \in Kinds, At(p, i, "op"),
           call[p].op = "getContents" => out = "whole",
           call[p].op \in {"getClaims", "heights"} => out \in {"whole", "rot"},
           out = "rot" => Key(p, i) \in spoilt,
           Succeeds(p, i, out), UNCHANGED <<file, temp, last, holder, spoilt, heights>>
    PROVE  BlobInv'
<1> DEFINE d == Success(call[p], i, out)
<1>1. DOMAIN call = Clients /\ CallOK(call[p], spoilt) /\ call[p] \in CallRecords
  BY CallOf
<1>2. AtWork(call[p], i) /\ Key(p, i) = call[p].items[i]
  BY AtIsWork DEF Key
<1>3. call' = [call EXCEPT ![p] = d]
  BY <1>1, SucceedsIs
<1>4. CallOK(d, spoilt) /\ Moved(call[p], d, i)
  BY <1>1, <1>2, ItemSucceeds
<1> HIDE DEF d
<1>5. Writes(call[p], d, i) /\ ~At(p, i, "write")
  BY <1>4, MovedWrites DEF At
<1> QED BY <1>3, <1>4, <1>5, HeightFacts, FrameStep

LEMMA FailureStep ==
    ASSUME BlobInv, NEW p \in Clients, NEW i, NEW s \in {"op", "create"}, At(p, i, s),
           Fails(p, i), UNCHANGED <<file, temp, last, holder, spoilt, heights>>
    PROVE  BlobInv'
<1> DEFINE d == Failure(call[p], i)
<1>1. DOMAIN call = Clients /\ CallOK(call[p], spoilt) /\ call[p] \in CallRecords
  BY CallOf
<1>2. AtWork(call[p], i)
  BY AtIsWork
<1>3. call' = [call EXCEPT ![p] = d]
  BY <1>1, FailsIs
<1>4. CallOK(d, spoilt) /\ Moved(call[p], d, i)
  BY <1>1, <1>2, ItemFailed
<1> HIDE DEF d
<1>5. Writes(call[p], d, i) /\ ~At(p, i, "write")
  BY <1>4, MovedWrites DEF At
<1> QED BY <1>3, <1>4, <1>5, HeightFacts, FrameStep

LEMMA ItemFailsInv ==
    ASSUME BlobInv, NEW p \in Clients, NEW i, ItemFails(p, i)
    PROVE  BlobInv'
<1>1. /\ At(p, i, "op") \/ At(p, i, "create")
      /\ Fails(p, i) /\ UNCHANGED <<file, temp, last, holder, spoilt, heights>>
  BY DEF ItemFails
<1> QED BY <1>1, FailureStep

LEMMA HasAllInv ==
    ASSUME BlobInv, NEW p \in Clients, NEW i, HasAll(p, i)
    PROVE  BlobInv'
<1> DEFINE out == file[Key(p, i)]
<1>1. /\ At(p, i, "op") /\ call[p].op = "hasAll" /\ Succeeds(p, i, out)
      /\ UNCHANGED <<file, temp, last, holder, spoilt, heights>>
  BY DEF HasAll, Fetched
<1>2. out \in Kinds /\ (out = "rot" => Key(p, i) \in spoilt)
  BY <1>1, ItemFacts
<1> HIDE DEF out
<1> QED BY <1>1, <1>2, SuccessStep

LEMMA GetContentsInv ==
    ASSUME BlobInv, NEW p \in Clients, NEW i, GetContents(p, i)
    PROVE  BlobInv'
<1> DEFINE out == file[Key(p, i)]
<1>1. /\ At(p, i, "op") /\ call[p].op = "getContents"
      /\ UNCHANGED <<file, temp, last, holder, spoilt, heights>>
      /\ \/ out = "whole" /\ Succeeds(p, i, out)
         \/ Fails(p, i)
  BY DEF GetContents, Fetched, VerifyContent
<1>2. out \in Kinds
  BY <1>1, ItemFacts
<1> HIDE DEF out
<1>3. CASE out = "whole" /\ Succeeds(p, i, out)
  BY <1>1, <1>2, <1>3, SuccessStep
<1> QED BY <1>1, <1>3, FailureStep

(* A claim that is decoded is whole, or its bytes were altered. *)
LEMMA DecodeStep ==
    ASSUME BlobInv, NEW p \in Clients, NEW i, At(p, i, "op"), call[p].op \in {"getClaims", "heights"},
           UNCHANGED <<file, temp, last, holder, spoilt, heights>>,
           NEW ok \in Decodes(file[Key(p, i)]),
           IF ok THEN Succeeds(p, i, file[Key(p, i)]) ELSE Fails(p, i)
    PROVE  BlobInv'
<1> DEFINE out == file[Key(p, i)]
<1>1. out \in Kinds /\ (out = "rot" => Key(p, i) \in spoilt)
  BY ItemFacts
<1>2. ok \in BOOLEAN /\ (ok => out \in {"whole", "rot"})
  BY DEF Decodes
<1>3. CASE ok
  <2>1. Succeeds(p, i, out) /\ out \in {"whole", "rot"}
    BY <1>2, <1>3
  <2> HIDE DEF out
  <2> QED BY <1>1, <2>1, SuccessStep
<1>4. CASE ~ok
  BY <1>4, FailureStep
<1> QED BY <1>3, <1>4

LEMMA GetClaimsInv ==
    ASSUME BlobInv, NEW p \in Clients, NEW i, GetClaims(p, i)
    PROVE  BlobInv'
<1>1. /\ At(p, i, "op") /\ call[p].op = "getClaims"
      /\ UNCHANGED <<file, temp, last, holder, spoilt, heights>>
  BY DEF GetClaims
<1>2. PICK ok \in Decodes(file[Key(p, i)]) : IF ok THEN Succeeds(p, i, file[Key(p, i)]) ELSE Fails(p, i)
  BY DEF GetClaims, Fetched
<1> QED BY <1>1, <1>2, DecodeStep

LEMMA GetClaimHeightsInv ==
    ASSUME BlobInv, NEW p \in Clients, NEW i, GetClaimHeights(p, i)
    PROVE  BlobInv'
<1> DEFINE k == Key(p, i)
           known == [true |-> "whole", false |-> "rot"]
<1>1. /\ At(p, i, "op") /\ call[p].op = "heights"
      /\ UNCHANGED <<file, temp, last, holder, spoilt, heights>>
  BY DEF GetClaimHeights
<1>2. CASE heights[k] # "unknown"
  <2> DEFINE out == known[heights[k]]
  <2>1. heights[k] \in {"true", "false"} /\ (heights[k] = "false" => k \in spoilt)
    BY <1>1, <1>2, ItemFacts
  <2>2. out \in {"whole", "rot"} /\ (out = "rot" => k \in spoilt)
    BY <2>1
  <2>3. Succeeds(p, i, out)
    BY <1>2 DEF GetClaimHeights
  <2> HIDE DEF out, k
  <2>4. out \in Kinds
    BY <2>2 DEF Kinds
  <2> QED BY <1>1, <2>2, <2>3, <2>4, SuccessStep DEF k
<1>3. CASE heights[k] = "unknown"
  <2>1. PICK ok \in Decodes(file[k]) : IF ok THEN Succeeds(p, i, file[k]) ELSE Fails(p, i)
    BY <1>3 DEF GetClaimHeights, Fetched
  <2> QED BY <1>1, <2>1, DecodeStep
<1> QED BY <1>2, <1>3

LEMMA ReleaseInv ==
    ASSUME BlobInv, NEW p \in Clients, NEW i, Release(p, i)
    PROVE  BlobInv'
<1> DEFINE d == Staged(call[p], i, "end")
<1>1. DOMAIN call = Clients /\ CallOK(call[p], spoilt) /\ call[p] \in CallRecords
  BY CallOf
<1>2. AtWork(call[p], i) /\ call[p].stage[i] = "release" /\ ~At(p, i, "write")
      /\ UNCHANGED <<file, temp, last, holder, spoilt, heights>>
  BY DEF Release, At, AtWork
<1>3. call' = [call EXCEPT ![p] = d]
  <2>1. call' = [call EXCEPT ![p].stage[i] = "end"]
    BY DEF Release
  <2> QED BY <1>1, <2>1 DEF Staged, CallRecords
<1>4. CallOK(d, spoilt) /\ Moved(call[p], d, i)
  BY <1>1, <1>2, ItemGoesOn DEF Stages
<1> HIDE DEF d
<1>5. Writes(call[p], d, i)
  BY <1>4, MovedWrites
<1> QED BY <1>2, <1>3, <1>4, <1>5, HeightFacts, FrameStep

LEMMA FileRenameFailsInv ==
    ASSUME BlobInv, NEW p \in Clients, NEW i, FileRenameFails(p, i)
    PROVE  BlobInv'
<1> DEFINE d == Staged(call[p], i, "remove")
<1>1. DOMAIN call = Clients /\ CallOK(call[p], spoilt) /\ call[p] \in CallRecords
  BY CallOf
<1>2. AtWork(call[p], i) /\ call[p].stage[i] = "rename" /\ ~At(p, i, "write")
      /\ UNCHANGED <<file, temp, last, holder, spoilt, heights>>
  BY DEF FileRenameFails, At, AtWork
<1>3. call' = [call EXCEPT ![p] = d]
  <2>1. call' = [call EXCEPT ![p].stage[i] = "remove"]
    BY DEF FileRenameFails
  <2> QED BY <1>1, <2>1 DEF Staged, CallRecords
<1>4. CallOK(d, spoilt) /\ Moved(call[p], d, i)
  BY <1>1, <1>2, ItemGoesOn DEF Stages
<1> HIDE DEF d
<1>5. Writes(call[p], d, i)
  BY <1>4, MovedWrites
<1> QED BY <1>2, <1>3, <1>4, <1>5, HeightFacts, FrameStep

-----------------------------------------------------------------------------
(* The steps on files *)

FileTypes ==
    /\ file \in [Keys -> Kinds] /\ temp \in [Keys -> TempFiles]
    /\ holder \in [Keys -> [by : SUBSET WriterIds, newest : WriterIds \cup {<<>>}]]
    /\ last \in [Keys -> {"never", "put", "delete"}] /\ spoilt \subseteq Keys
    /\ heights \in [Keys -> {"unknown", "true", "false"}]

LEMMA FileStep ==
    ASSUME BlobInv, NEW p \in Clients, NEW d, NEW i, call' = [call EXCEPT ![p] = d],
           spoilt \subseteq spoilt', CallOK(d, spoilt), Writes(call[p], d, i), FileTypes',
           \A k \in Keys : \A w \in temp'[k].by \cup holder'[k].by : StaysWriter(w, k, p, d, i),
           \A k \in Keys \ spoilt' : FileOK(k)'
    PROVE  BlobInv'
<1>1. CallOK(d, spoilt')
  BY CallKept
<1>2. DOMAIN call' = Clients /\ \A q \in Clients : CallOK(call'[q], spoilt')
  BY <1>1, CallsStep
<1>3. BlobTypes'
  BY <1>2 DEF BlobTypes, FileTypes
<1>4. WritersOK'
  BY WritersStep
<1> QED BY <1>2, <1>3, <1>4 DEF BlobInv

LEMMA TypesOf == ASSUME BlobInv PROVE FileTypes
BY DEF BlobInv, BlobTypes, FileTypes

(* The item that is put or deleted has no file open: who writes stays as it was, or goes. *)
LEMMA NobodyNew ==
    ASSUME BlobInv, NEW p, NEW i, NEW d, ~At(p, i, "write"),
           \A k \in Keys : temp'[k].by \cup holder'[k].by \subseteq temp[k].by \cup holder[k].by
    PROVE  \A k \in Keys : \A w \in temp'[k].by \cup holder'[k].by : StaysWriter(w, k, p, d, i)
BY NotWriting DEF StaysWriter

(* The call of an item that succeeds, or fails, at k. *)
LEMMA SuccessCall ==
    ASSUME BlobInv, NEW p \in Clients, NEW i, NEW s, At(p, i, s), s \notin {"queued", "end", "write"},
           NEW out \in {"none", "whole"}, call[p].op \in Puts \cup {"deleteAll"}, Succeeds(p, i, out)
    PROVE  \E d : /\ call' = [call EXCEPT ![p] = d] /\ CallOK(d, spoilt) /\ Writes(call[p], d, i)
                  /\ ~At(p, i, "write")
<1>1. DOMAIN call = Clients /\ CallOK(call[p], spoilt) /\ call[p] \in CallRecords
  BY CallOf
<1>2. AtWork(call[p], i) /\ ~At(p, i, "write")
  BY AtIsWork DEF At
<1>3. call' = [call EXCEPT ![p] = Success(call[p], i, out)]
  BY <1>1, SucceedsIs
<1>4. out \in Kinds /\ call[p].op \notin {"getContents", "getClaims", "heights"} /\ out # "rot"
  BY DEF Kinds, Puts
<1>5. CallOK(Success(call[p], i, out), spoilt) /\ Moved(call[p], Success(call[p], i, out), i)
  BY <1>1, <1>2, <1>4, ItemSucceeds
<1>6. Writes(call[p], Success(call[p], i, out), i)
  BY <1>5, MovedWrites
<1> QED BY <1>2, <1>3, <1>5, <1>6

LEMMA FailureCall ==
    ASSUME BlobInv, NEW p \in Clients, NEW i, NEW s, At(p, i, s), s \notin {"queued", "end"}, Fails(p, i)
    PROVE  \E d : call' = [call EXCEPT ![p] = d] /\ CallOK(d, spoilt) /\ Writes(call[p], d, i)
<1>1. DOMAIN call = Clients /\ CallOK(call[p], spoilt) /\ call[p] \in CallRecords
  BY CallOf
<1>2. AtWork(call[p], i)
  BY AtIsWork
<1>3. call' = [call EXCEPT ![p] = Failure(call[p], i)]
  BY <1>1, FailsIs
<1>4. CallOK(Failure(call[p], i), spoilt) /\ Moved(call[p], Failure(call[p], i), i)
  BY <1>1, <1>2, ItemFailed
<1>5. Writes(call[p], Failure(call[p], i), i)
  BY <1>4, MovedWrites
<1> QED BY <1>3, <1>4, <1>5

LEMMA PutReplacesInv ==
    ASSUME BlobInv, NEW p \in Clients, NEW i, PutReplaces(p, i)
    PROVE  BlobInv'
<1> DEFINE k == Key(p, i)
<1>1. /\ At(p, i, "op") /\ call[p].op \in Puts /\ Succeeds(p, i, "whole")
      /\ file' = [file EXCEPT ![k] = "whole"] /\ last' = [last EXCEPT ![k] = "put"]
      /\ UNCHANGED <<spoilt, temp, holder, heights>>
  BY DEF PutReplaces, Puts
<1>2. PICK d : /\ call' = [call EXCEPT ![p] = d] /\ CallOK(d, spoilt) /\ Writes(call[p], d, i)
               /\ ~At(p, i, "write")
  BY <1>1, SuccessCall
<1>3. k \in Keys
  BY <1>1, ItemFacts
<1> HIDE DEF k
<1>4. FileTypes'
  BY <1>1, <1>3, TypesOf DEF FileTypes, Kinds
<1>5. \A x \in Keys : \A w \in temp'[x].by \cup holder'[x].by : StaysWriter(w, x, p, d, i)
  BY <1>1, <1>2, NobodyNew
<1>6. ASSUME NEW x \in Keys \ spoilt' PROVE FileOK(x)'
  <2>1. FileOK(x)
    BY <1>1, <1>6 DEF BlobInv
  <2>2. file'[x] = (IF x = k THEN "whole" ELSE file[x]) /\ last'[x] = IF x = k THEN "put" ELSE last[x]
    BY <1>1, TypesOf DEF FileTypes
  <2> QED BY <1>1, <2>1, <2>2 DEF FileOK
<1> QED BY <1>1, <1>2, <1>4, <1>5, <1>6, FileStep

LEMMA PutWhenAbsentInv ==
    ASSUME BlobInv, NEW p \in Clients, NEW i, PutWhenAbsent(p, i)
    PROVE  BlobInv'
<1> DEFINE k == Key(p, i)
<1>1. /\ At(p, i, "op") /\ call[p].op \in Puts /\ Succeeds(p, i, "whole")
      /\ file' = [file EXCEPT ![k] = IF @ = "none" THEN "whole" ELSE @]
      /\ last' = [last EXCEPT ![k] = IF file[k] = "none" THEN "put" ELSE @]
      /\ UNCHANGED <<spoilt, temp, holder, heights>>
  BY DEF PutWhenAbsent, Puts
<1>2. PICK d : /\ call' = [call EXCEPT ![p] = d] /\ CallOK(d, spoilt) /\ Writes(call[p], d, i)
               /\ ~At(p, i, "write")
  BY <1>1, SuccessCall
<1>3. k \in Keys
  BY <1>1, ItemFacts
<1> HIDE DEF k
<1>4. FileTypes'
  BY <1>1, <1>3, TypesOf DEF FileTypes, Kinds
<1>5. \A x \in Keys : \A w \in temp'[x].by \cup holder'[x].by : StaysWriter(w, x, p, d, i)
  BY <1>1, <1>2, NobodyNew
<1>6. ASSUME NEW x \in Keys \ spoilt' PROVE FileOK(x)'
  <2>1. FileOK(x)
    BY <1>1, <1>6 DEF BlobInv
  <2>2. \/ file'[x] = "whole" /\ last'[x] = "put"
        \/ file'[x] = file[x] /\ last'[x] = last[x]
    BY <1>1, TypesOf DEF FileTypes
  <2> QED BY <1>1, <2>1, <2>2 DEF FileOK
<1> QED BY <1>1, <1>2, <1>4, <1>5, <1>6, FileStep

LEMMA DeleteInv ==
    ASSUME BlobInv, NEW p \in Clients, NEW i, Delete(p, i)
    PROVE  BlobInv'
<1> DEFINE k == Key(p, i)
<1>1. /\ At(p, i, "op") /\ call[p].op = "deleteAll" /\ Succeeds(p, i, "none")
      /\ file' = [file EXCEPT ![k] = "none"] /\ holder' = [holder EXCEPT ![k] = NoWriters]
      /\ last' = [last EXCEPT ![k] = "delete"]
      /\ UNCHANGED <<spoilt, temp, heights>>
  BY DEF Delete
<1>2. PICK d : /\ call' = [call EXCEPT ![p] = d] /\ CallOK(d, spoilt) /\ Writes(call[p], d, i)
               /\ ~At(p, i, "write")
  BY <1>1, SuccessCall
<1>3. k \in Keys
  BY <1>1, ItemFacts
<1> HIDE DEF k
<1>4. FileTypes'
  BY <1>1, <1>3, TypesOf DEF FileTypes, Kinds, NoWriters
<1>5. \A x \in Keys : holder'[x] = IF x = k THEN NoWriters ELSE holder[x]
  BY <1>1, TypesOf DEF FileTypes
<1>6. \A x \in Keys : \A w \in temp'[x].by \cup holder'[x].by : StaysWriter(w, x, p, d, i)
  <2>1. \A x \in Keys : holder'[x].by \subseteq holder[x].by
    BY <1>5 DEF NoWriters
  <2>2. \A x \in Keys : temp'[x].by \cup holder'[x].by \subseteq temp[x].by \cup holder[x].by
    BY <1>1, <2>1
  <2> QED BY <1>2, <2>2, NobodyNew
<1>7. ASSUME NEW x \in Keys \ spoilt' PROVE FileOK(x)'
  <2>1. FileOK(x)
    BY <1>1, <1>7 DEF BlobInv
  <2>2. file'[x] = (IF x = k THEN "none" ELSE file[x]) /\ last'[x] = IF x = k THEN "delete" ELSE last[x]
    BY <1>1, TypesOf DEF FileTypes
  <2> QED BY <1>1, <1>5, <2>1, <2>2 DEF FileOK, NoWriters
<1> QED BY <1>1, <1>2, <1>4, <1>6, <1>7, FileStep

(* The call of an item that goes on to its next stage. *)
LEMMA StagedCall ==
    ASSUME BlobInv, NEW p \in Clients, NEW i, NEW s, At(p, i, s),
           NEW t \in {"write", "rename"}, s \in {"create", "write"},
           call' = [call EXCEPT ![p].stage[i] = t]
    PROVE  \E d : /\ call' = [call EXCEPT ![p] = d] /\ CallOK(d, spoilt) /\ Writes(call[p], d, i)
                  /\ d.items = call[p].items /\ d.stage[i] = t
<1> DEFINE d == Staged(call[p], i, t)
<1>1. DOMAIN call = Clients /\ CallOK(call[p], spoilt) /\ call[p] \in CallRecords
  BY CallOf
<1>2. AtWork(call[p], i) /\ call[p].stage[i] = s
  BY DEF At, AtWork
<1>3. call' = [call EXCEPT ![p] = d]
  BY <1>1 DEF Staged, CallRecords
<1>4. CallOK(d, spoilt) /\ Moved(call[p], d, i) /\ d.stage[i] = t
  <2>1. t \in Stages \ {"queued"} /\ t \in {"write", "rename", "remove"}
    BY DEF Stages
  <2> QED BY <1>1, <1>2, <2>1, ItemGoesOn
<1> HIDE DEF d
<1>5. Writes(call[p], d, i) /\ d.items = call[p].items
  BY <1>4, MovedWrites DEF Moved
<1> QED BY <1>3, <1>4, <1>5

LEMMA FileCreateInv ==
    ASSUME BlobInv, NEW p \in Clients, NEW i, FileCreate(p, i)
    PROVE  BlobInv'
<1> DEFINE k == Key(p, i)
           w0 == <<p, i>>
           t == [bytes |-> Truncated(k), by |-> temp[k].by \cup {w0}, newest |-> w0]
<1>1. /\ At(p, i, "create") /\ temp' = [temp EXCEPT ![k] = t]
      /\ call' = [call EXCEPT ![p].stage[i] = "write"]
      /\ UNCHANGED <<file, last, holder, spoilt, heights>>
  BY DEF FileCreate
<1>2. PICK d : /\ call' = [call EXCEPT ![p] = d] /\ CallOK(d, spoilt) /\ Writes(call[p], d, i)
               /\ d.items = call[p].items /\ d.stage[i] = "write"
  BY <1>1, StagedCall
<1>3. k \in Keys /\ k = call[p].items[i] /\ i \in DOMAIN call[p].items /\ i \in Nat
  BY <1>1, ItemFacts DEF At
<1> HIDE DEF k
<1>4. t \in TempFiles
  <2>1. temp[k] \in TempFiles /\ w0 \in WriterIds
    BY <1>3, TypesOf DEF FileTypes, WriterIds
  <2>2. temp[k].by \cup {w0} \in SUBSET WriterIds
    BY <2>1 DEF TempFiles
  <2> HIDE DEF w0
  <2> QED BY <2>1, <2>2 DEF TempFiles, Truncated
<1>5. FileTypes'
  BY <1>1, <1>4, TypesOf DEF FileTypes
<1>6. \A x \in Keys : temp'[x] = IF x = k THEN t ELSE temp[x]
  BY <1>1, TypesOf DEF FileTypes
<1>7. t.by = temp[k].by \cup {w0} /\ t.newest = w0 /\ t.newest \in t.by
  OBVIOUS
<1> HIDE DEF t
<1>8. ASSUME NEW x \in Keys, NEW w \in temp'[x].by \cup holder'[x].by PROVE StaysWriter(w, x, p, d, i)
  <2>1. ~At(p, i, "write")
    BY <1>1 DEF At
  <2>2. w0 \notin temp[x].by \cup holder[x].by
    BY <2>1, NotWriting
  <2>3. w \in temp[x].by \cup holder[x].by \/ (w = w0 /\ x = k)
    BY <1>1, <1>6, <1>7, <1>8
  <2> QED BY <1>2, <1>3, <2>2, <2>3 DEF StaysWriter
<1>9. ASSUME NEW x \in Keys \ spoilt' PROVE FileOK(x)'
  <2>1. FileOK(x)
    BY <1>1, <1>9 DEF BlobInv
  <2> QED BY <1>1, <1>6, <1>7, <2>1 DEF FileOK
<1> QED BY <1>1, <1>2, <1>5, <1>8, <1>9, FileStep

LEMMA FileWriteInv ==
    ASSUME BlobInv, NEW p \in Clients, NEW i, FileWrite(p, i)
    PROVE  BlobInv'
<1> DEFINE k == Key(p, i)
           w0 == <<p, i>>
<1>1. /\ At(p, i, "write") /\ call' = [call EXCEPT ![p].stage[i] = "rename"]
      /\ UNCHANGED <<last, spoilt, heights>>
  BY DEF FileWrite
<1>2. PICK d : /\ call' = [call EXCEPT ![p] = d] /\ CallOK(d, spoilt) /\ Writes(call[p], d, i)
               /\ d.items = call[p].items /\ d.stage[i] = "rename"
  BY <1>1, StagedCall
<1>3. k \in Keys
  BY <1>1, ItemFacts
<1>4. \/ w0 \notin temp[k].by /\ temp' = temp
      \/ /\ w0 \in temp[k].by
         /\ \E b \in Written(w0, temp[k].bytes, temp[k].newest) :
               temp' = [temp EXCEPT ![k].bytes = b, ![k].by = temp[k].by \ {w0}]
  BY DEF FileWrite
<1>5. \/ w0 \notin holder[k].by /\ file' = file /\ holder' = holder
      \/ /\ w0 \in holder[k].by
         /\ \E b \in Written(w0, file[k], holder[k].newest) : file' = [file EXCEPT ![k] = b]
         /\ holder' = [holder EXCEPT ![k].by = holder[k].by \ {w0}]
  BY DEF FileWrite
<1> HIDE DEF k, w0
<1>6. /\ temp' \in [Keys -> TempFiles] /\ temp'[k].by = temp[k].by \ {w0}
      /\ temp'[k].newest = temp[k].newest
      /\ \/ temp'[k].bytes = temp[k].bytes /\ (temp[k].newest = w0 => w0 \notin temp[k].by)
         \/ temp'[k].bytes = "whole"
      /\ \A x \in Keys \ {k} : temp'[x] = temp[x]
  <2>1. temp \in [Keys -> TempFiles] /\ temp[k] \in TempFiles
    BY <1>3, TypesOf DEF FileTypes
  <2>2. CASE w0 \notin temp[k].by /\ temp' = temp
    BY <2>1, <2>2
  <2>3. CASE w0 \in temp[k].by
    <3>1. PICK b \in Written(w0, temp[k].bytes, temp[k].newest) :
              temp' = [temp EXCEPT ![k].bytes = b, ![k].by = temp[k].by \ {w0}]
      BY <1>4, <2>3
    <3>2. b \in {"none", "part", "whole"} /\ ((b = temp[k].bytes /\ temp[k].newest # w0) \/ b = "whole")
      BY <2>1 DEF Written, TempFiles
    <3>3. temp[k].by \ {w0} \in SUBSET WriterIds
      BY <2>1 DEF TempFiles
    <3> DEFINE t == [temp[k] EXCEPT !.bytes = b, !.by = temp[k].by \ {w0}]
    <3>4. temp' = [temp EXCEPT ![k] = t]
      BY <1>3, <2>1, <3>1 DEF TempFiles
    <3>5. t \in TempFiles /\ t.bytes = b /\ t.by = temp[k].by \ {w0} /\ t.newest = temp[k].newest
      BY <2>1, <3>2, <3>3 DEF TempFiles
    <3> HIDE DEF t
    <3> QED BY <1>3, <2>1, <3>2, <3>4, <3>5
  <2> QED BY <1>4, <2>2, <2>3
<1>7. /\ holder' \in [Keys -> [by : SUBSET WriterIds, newest : WriterIds \cup {<<>>}]]
      /\ file' \in [Keys -> Kinds] /\ holder'[k].by = holder[k].by \ {w0}
      /\ holder'[k].newest = holder[k].newest
      /\ \/ file'[k] = file[k] /\ (holder[k].newest = w0 => w0 \notin holder[k].by)
         \/ file'[k] = "whole" /\ w0 \in holder[k].by
      /\ \A x \in Keys \ {k} : holder'[x] = holder[x] /\ file'[x] = file[x]
  <2> DEFINE H == [by : SUBSET WriterIds, newest : WriterIds \cup {<<>>}]
  <2>1. holder \in [Keys -> H] /\ holder[k] \in H /\ file \in [Keys -> Kinds]
    BY <1>3, TypesOf DEF FileTypes
  <2>2. CASE w0 \notin holder[k].by
    BY <1>5, <2>1, <2>2
  <2>3. CASE w0 \in holder[k].by
    <3>1. PICK b \in Written(w0, file[k], holder[k].newest) : file' = [file EXCEPT ![k] = b]
      BY <1>5, <2>3
    <3>2. b \in Kinds /\ ((b = file[k] /\ holder[k].newest # w0) \/ b = "whole")
      BY <1>3, <2>1 DEF Written, Kinds
    <3> DEFINE t == [holder[k] EXCEPT !.by = holder[k].by \ {w0}]
    <3>3. holder' = [holder EXCEPT ![k] = t]
      BY <1>5, <2>3
    <3>4. t \in H /\ t.by = holder[k].by \ {w0} /\ t.newest = holder[k].newest
      BY <2>1
    <3> HIDE DEF t, H
    <3>5. holder' \in [Keys -> H] /\ holder'[k] = t /\ \A x \in Keys \ {k} : holder'[x] = holder[x]
      BY <1>3, <2>1, <3>3, <3>4
    <3>6. file' \in [Keys -> Kinds] /\ file'[k] = b /\ \A x \in Keys \ {k} : file'[x] = file[x]
      BY <1>3, <2>1, <3>1, <3>2
    <3> QED BY <2>3, <3>2, <3>4, <3>5, <3>6 DEF H
  <2> QED BY <2>2, <2>3
<1>8. FileTypes'
  BY <1>1, <1>6, <1>7, TypesOf DEF FileTypes
<1>9. ASSUME NEW x \in Keys, NEW w \in temp'[x].by \cup holder'[x].by PROVE StaysWriter(w, x, p, d, i)
  <2>1. w \in temp[x].by \cup holder[x].by
    BY <1>6, <1>7, <1>9
  <2>2. w # w0
    <3>1. CASE x = k
      BY <1>6, <1>7, <1>9, <3>1
    <3>2. CASE x # k
      <4>1. w = w0 => Key(p, i) = x
        BY <2>1 DEF BlobInv, WritersOK, w0
      <4> QED BY <3>2, <4>1 DEF k
    <3> QED BY <3>1, <3>2
  <2> QED BY <2>1, <2>2 DEF StaysWriter, w0
<1>10. ASSUME NEW x \in Keys \ spoilt' PROVE FileOK(x)'
  <2>1. FileOK(x)
    BY <1>1, <1>10 DEF BlobInv
  <2>2. CASE x # k
    BY <1>1, <1>6, <1>7, <2>1, <2>2 DEF FileOK
  <2>3. CASE x = k
    <3>1. (temp[k].bytes = "part" => temp[k].newest \in temp[k].by)
          => (temp'[k].bytes = "part" => temp'[k].newest \in temp'[k].by)
      BY <1>6
    <3>2. (last[k] = "put" /\ file[k] # "whole" => holder[k].newest \in holder[k].by)
          => (last'[k] = "put" /\ file'[k] # "whole" => holder'[k].newest \in holder'[k].by)
      BY <1>1, <1>7
    <3>3. (last[k] = "delete" => file[k] = "none" /\ holder[k].by = {})
          => (last'[k] = "delete" => file'[k] = "none" /\ holder'[k].by = {})
      BY <1>1, <1>7
    <3>4. file[k] \notin {"rot", "long"} => file'[k] \notin {"rot", "long"}
      BY <1>7
    <3> QED BY <1>1, <2>1, <2>3, <3>1, <3>2, <3>3, <3>4 DEF FileOK
  <2> QED BY <2>2, <2>3
<1> QED BY <1>1, <1>2, <1>8, <1>9, <1>10, FileStep

LEMMA FileWriteFailsInv ==
    ASSUME BlobInv, NEW p \in Clients, NEW i, FileWriteFails(p, i)
    PROVE  BlobInv'
<1> DEFINE k == Key(p, i)
           w0 == <<p, i>>
           H == [by : SUBSET WriterIds, newest : WriterIds \cup {<<>>}]
<1>1. /\ At(p, i, "write") /\ Fails(p, i) /\ spoilt' = spoilt \cup {k}
      /\ temp' = [temp EXCEPT ![k].by = temp[k].by \ {w0}]
      /\ holder' = [holder EXCEPT ![k].by = holder[k].by \ {w0}]
      /\ UNCHANGED <<file, last, heights>>
  BY DEF FileWriteFails
<1>2. PICK d : call' = [call EXCEPT ![p] = d] /\ CallOK(d, spoilt) /\ Writes(call[p], d, i)
  BY <1>1, FailureCall
<1>3. k \in Keys
  BY <1>1, ItemFacts
<1> HIDE DEF k, w0
<1>4. temp \in [Keys -> TempFiles] /\ holder \in [Keys -> H]
  BY TypesOf DEF FileTypes
<1>5. /\ temp' \in [Keys -> TempFiles] /\ temp'[k].by = temp[k].by \ {w0}
      /\ \A x \in Keys \ {k} : temp'[x] = temp[x]
  BY <1>1, <1>3, <1>4 DEF TempFiles
<1>6. /\ holder' \in [Keys -> H] /\ holder'[k].by = holder[k].by \ {w0}
      /\ \A x \in Keys \ {k} : holder'[x] = holder[x]
  BY <1>1, <1>3, <1>4
<1>7. FileTypes'
  BY <1>1, <1>3, <1>5, <1>6, TypesOf DEF FileTypes
<1>8. ASSUME NEW x \in Keys, NEW w \in temp'[x].by \cup holder'[x].by PROVE StaysWriter(w, x, p, d, i)
  <2>1. w \in temp[x].by \cup holder[x].by
    BY <1>5, <1>6, <1>8
  <2>2. w # w0
    <3>1. CASE x = k
      BY <1>5, <1>6, <1>8, <3>1
    <3>2. CASE x # k
      <4>1. w = w0 => Key(p, i) = x
        BY <2>1 DEF BlobInv, WritersOK, w0
      <4> QED BY <3>2, <4>1 DEF k
    <3> QED BY <3>1, <3>2
  <2> QED BY <2>1, <2>2 DEF StaysWriter, w0
<1>9. ASSUME NEW x \in Keys \ spoilt' PROVE FileOK(x)'
  <2>1. FileOK(x) /\ x # k
    BY <1>1, <1>9 DEF BlobInv
  <2> QED BY <1>1, <1>5, <1>6, <2>1 DEF FileOK
<1> QED BY <1>1, <1>2, <1>7, <1>8, <1>9, FileStep

LEMMA FileRenameInv ==
    ASSUME BlobInv, NEW p \in Clients, NEW i, FileRename(p, i)
    PROVE  BlobInv'
<1> DEFINE k == Key(p, i)
           h == [by |-> temp[k].by, newest |-> temp[k].newest]
           H == [by : SUBSET WriterIds, newest : WriterIds \cup {<<>>}]
<1>1. /\ At(p, i, "rename") /\ temp[k].bytes # "none" /\ Succeeds(p, i, "whole")
      /\ file' = [file EXCEPT ![k] = temp[k].bytes] /\ holder' = [holder EXCEPT ![k] = h]
      /\ temp' = [temp EXCEPT ![k] = NoTemp] /\ last' = [last EXCEPT ![k] = "put"]
      /\ UNCHANGED <<spoilt, heights>>
  BY DEF FileRename
<1>2. call[p].op \in Puts
  <2>1. i \in DOMAIN call[p].items /\ call[p].stage[i] = "rename" /\ CallOK(call[p], spoilt)
    BY <1>1, CallOf DEF At
  <2> QED BY <2>1 DEF CallOK, ItemOK
<1>3. PICK d : /\ call' = [call EXCEPT ![p] = d] /\ CallOK(d, spoilt) /\ Writes(call[p], d, i)
               /\ ~At(p, i, "write")
  BY <1>1, <1>2, SuccessCall
<1>4. k \in Keys
  BY <1>1, ItemFacts
<1> HIDE DEF k
<1>5. /\ temp \in [Keys -> TempFiles] /\ temp[k] \in TempFiles /\ holder \in [Keys -> H]
      /\ file \in [Keys -> Kinds] /\ last \in [Keys -> {"never", "put", "delete"}]
  BY <1>4, TypesOf DEF FileTypes
<1>6. temp[k].bytes \in {"part", "whole"} /\ h \in H /\ h.by = temp[k].by /\ h.newest = temp[k].newest
  BY <1>1, <1>5 DEF TempFiles
<1>7. NoTemp \in TempFiles /\ NoTemp.by = {} /\ NoTemp.bytes = "none"
  BY DEF NoTemp, TempFiles
<1> HIDE DEF h
<1>8. /\ file'[k] = temp[k].bytes /\ holder'[k] = h /\ temp'[k] = NoTemp /\ last'[k] = "put"
      /\ \A x \in Keys \ {k} : /\ file'[x] = file[x] /\ holder'[x] = holder[x]
                              /\ temp'[x] = temp[x] /\ last'[x] = last[x]
  BY <1>1, <1>4, <1>5
<1>9. FileTypes'
  <2>1. temp[k].bytes \in Kinds
    BY <1>6 DEF Kinds
  <2> QED BY <1>1, <1>4, <1>5, <1>6, <1>7, <2>1, TypesOf DEF FileTypes
<1>10. \A x \in Keys : \A w \in temp'[x].by \cup holder'[x].by : StaysWriter(w, x, p, d, i)
  <2>1. ASSUME NEW x \in Keys
        PROVE  temp'[x].by \cup holder'[x].by \subseteq temp[x].by \cup holder[x].by
    <3>1. CASE x = k
      BY <1>6, <1>7, <1>8, <3>1
    <3>2. CASE x # k
      BY <1>8, <3>2
    <3> QED BY <3>1, <3>2
  <2> QED BY <1>3, <2>1, NobodyNew
<1>11. ASSUME NEW x \in Keys \ spoilt' PROVE FileOK(x)'
  <2>1. FileOK(x)
    BY <1>1, <1>11 DEF BlobInv
  <2>2. CASE x = k
    BY <1>1, <1>6, <1>7, <1>8, <2>1, <2>2 DEF FileOK
  <2>3. CASE x # k
    BY <1>1, <1>8, <2>1, <2>3 DEF FileOK
  <2> QED BY <2>2, <2>3
<1> QED BY <1>1, <1>3, <1>9, <1>10, <1>11, FileStep

LEMMA FileRemoveInv ==
    ASSUME BlobInv, NEW p \in Clients, NEW i, FileRemove(p, i)
    PROVE  BlobInv'
<1> DEFINE k == Key(p, i)
<1>1. /\ At(p, i, "remove") /\ Fails(p, i) /\ temp' = [temp EXCEPT ![k] = NoTemp]
      /\ UNCHANGED <<file, last, holder, spoilt, heights>>
  BY DEF FileRemove
<1>2. PICK d : call' = [call EXCEPT ![p] = d] /\ CallOK(d, spoilt) /\ Writes(call[p], d, i)
  BY <1>1, FailureCall
<1>3. k \in Keys /\ ~At(p, i, "write")
  BY <1>1, ItemFacts DEF At
<1> HIDE DEF k
<1>4. NoTemp \in TempFiles /\ NoTemp.by = {} /\ NoTemp.bytes = "none"
  BY DEF NoTemp, TempFiles
<1>5. FileTypes'
  BY <1>1, <1>4, TypesOf DEF FileTypes
<1>6. \A x \in Keys : temp'[x] = IF x = k THEN NoTemp ELSE temp[x]
  BY <1>1, TypesOf DEF FileTypes
<1>7. \A x \in Keys : \A w \in temp'[x].by \cup holder'[x].by : StaysWriter(w, x, p, d, i)
  <2>1. \A x \in Keys : temp'[x].by \subseteq temp[x].by
    BY <1>4, <1>6
  <2>2. \A x \in Keys : temp'[x].by \cup holder'[x].by \subseteq temp[x].by \cup holder[x].by
    BY <1>1, <2>1
  <2> QED BY <1>3, <2>2, NobodyNew
<1>8. ASSUME NEW x \in Keys \ spoilt' PROVE FileOK(x)'
  <2>1. FileOK(x)
    BY <1>1, <1>8 DEF BlobInv
  <2> QED BY <1>1, <1>4, <1>6, <2>1 DEF FileOK
<1> QED BY <1>1, <1>2, <1>5, <1>7, <1>8, FileStep

LEMMA RotInv ==
    ASSUME BlobInv, NEW k \in Keys, Rot(k)
    PROVE  BlobInv'
<1>1. PICK b \in {"rot", "part", "long"} : file' = [file EXCEPT ![k] = b]
  BY DEF Rot, Altered
<1>2. spoilt' = spoilt \cup {k} /\ UNCHANGED <<temp, last, holder, call, heights>>
  BY DEF Rot
<1>3. BlobTypes'
  BY <1>1, <1>2 DEF BlobInv, BlobTypes, Kinds
<1>4. WritersOK'
  BY <1>2 DEF BlobInv, WritersOK, At, Key
<1>5. \A p \in Clients : CallOK(call[p], spoilt')
  BY <1>2, CallKept DEF BlobInv
<1>6. ASSUME NEW x \in Keys \ spoilt' PROVE FileOK(x)'
  <2>1. FileOK(x) /\ x # k
    BY <1>2, <1>6 DEF BlobInv
  <2>2. file'[x] = file[x]
    BY <1>1, <2>1 DEF BlobInv, BlobTypes
  <2> QED BY <1>2, <2>1, <2>2 DEF FileOK
<1> QED BY <1>2, <1>3, <1>4, <1>5, <1>6 DEF BlobInv

-----------------------------------------------------------------------------
(* The theorems *)

LEMMA BlobInitially == Init => BlobInv
<1> SUFFICES ASSUME Init PROVE BlobInv
  OBVIOUS
<1>1. NoTemp \in TempFiles /\ NoTemp.by = {} /\ NoTemp.bytes = "none"
  BY DEF NoTemp, TempFiles
<1>2. NoWriters \in [by : SUBSET WriterIds, newest : WriterIds \cup {<<>>}] /\ NoWriters.by = {}
  BY DEF NoWriters
<1>3. file \in [Keys -> Kinds] /\ \A k \in Keys : file[k] \in {"none", "whole"}
  BY DEF Init, Kinds
<1>4. BlobTypes
  BY <1>1, <1>2, <1>3 DEF Init, BlobTypes
<1>5. WritersOK
  BY <1>1, <1>2 DEF Init, WritersOK
<1>6. \A p \in Clients : CallOK(call[p], spoilt)
  BY NoCallOK DEF Init
<1>7. \A k \in Keys : FileOK(k)
  BY <1>1, <1>3 DEF Init, FileOK
<1> QED BY <1>4, <1>5, <1>6, <1>7 DEF BlobInv

LEMMA BlobStep == BlobInv /\ [Next]_vars => BlobInv'
<1> SUFFICES ASSUME BlobInv, [Next]_vars PROVE BlobInv'
  OBVIOUS
<1>1. ASSUME NEW p \in Clients, NEW r \in Requests[p], Begin(p, r) PROVE BlobInv'
  BY <1>1, BeginInv
<1>2. ASSUME NEW p \in Clients, Cancel(p) PROVE BlobInv'
  BY <1>2, CancelInv
<1>3. ASSUME NEW p \in Clients, Launch(p) PROVE BlobInv'
  BY <1>3, LaunchInv
<1>4. ASSUME NEW p \in Clients, Return(p) PROVE BlobInv'
  BY <1>4, ReturnInv
<1>5. ASSUME NEW p \in Clients, Stream(p) PROVE BlobInv'
  BY <1>5, StreamOpenInv, StreamReadInv, StreamFailsInv DEF Stream
<1>6. ASSUME NEW p \in Clients, Item(p) PROVE BlobInv'
  <2>1. PICK i \in DOMAIN call[p].items :
            \/ ItemFails(p, i) \/ PutReplaces(p, i) \/ PutWhenAbsent(p, i)
            \/ FileCreate(p, i) \/ FileWrite(p, i) \/ FileWriteFails(p, i)
            \/ FileRename(p, i) \/ FileRenameFails(p, i) \/ FileRemove(p, i)
            \/ Delete(p, i) \/ HasAll(p, i) \/ GetContents(p, i) \/ GetClaims(p, i)
            \/ GetClaimHeights(p, i) \/ Release(p, i)
    BY <1>6 DEF Item
  <2>2. CASE ItemFails(p, i) \/ PutReplaces(p, i) \/ PutWhenAbsent(p, i) \/ Delete(p, i)
    BY <2>2, ItemFailsInv, PutReplacesInv, PutWhenAbsentInv, DeleteInv
  <2>3. CASE FileCreate(p, i) \/ FileWrite(p, i) \/ FileWriteFails(p, i)
    BY <2>3, FileCreateInv, FileWriteInv, FileWriteFailsInv
  <2>4. CASE FileRename(p, i) \/ FileRenameFails(p, i) \/ FileRemove(p, i)
    BY <2>4, FileRenameInv, FileRenameFailsInv, FileRemoveInv
  <2>5. CASE HasAll(p, i) \/ GetContents(p, i) \/ GetClaims(p, i) \/ GetClaimHeights(p, i)
    BY <2>5, HasAllInv, GetContentsInv, GetClaimsInv, GetClaimHeightsInv
  <2>6. CASE Release(p, i)
    BY <2>6, ReleaseInv
  <2> QED BY <2>1, <2>2, <2>3, <2>4, <2>5, <2>6
<1>7. ASSUME NEW k \in Keys, Rot(k) PROVE BlobInv'
  BY <1>7, RotInv
<1>8. CASE UNCHANGED vars
  BY <1>8 DEF vars, BlobInv, BlobTypes, WritersOK, At, Key, FileOK
<1> QED BY <1>1, <1>2, <1>3, <1>4, <1>5, <1>6, <1>7, <1>8 DEF Next, Step

LEMMA BlobInvariant == Spec => []BlobInv
BY BlobInitially, BlobStep, PTL DEF Spec

(* Nobody writes k: nobody has its file open. *)
LEMMA QuietIsClosed ==
    ASSUME BlobInv, NEW k \in Keys, Quiet(k)
    PROVE  holder[k].by = {}
<1> SUFFICES ASSUME NEW w \in holder[k].by PROVE FALSE
  OBVIOUS
<1>1. w \in WriterIds
  BY DEF BlobInv, BlobTypes
<1>2. w[1] \in Clients
  BY <1>1 DEF WriterIds
<1>3. At(w[1], w[2], "write") /\ Key(w[1], w[2]) = k
  BY DEF BlobInv, WritersOK
<1>4. CallOK(call[w[1]], spoilt)
  BY <1>2 DEF BlobInv
<1>5. call[w[1]].op \in Puts
  BY <1>3, <1>4 DEF At, CallOK, ItemOK
<1>6. w[2] \in Running(call[w[1]])
  BY <1>3 DEF At, Running
<1> QED BY <1>2, <1>3, <1>5, <1>6 DEF Quiet, Puts

(***************************************************************************)
(* forEach and the Put of every store: a bulk call that returned nil did   *)
(* all of its items, and once nobody writes a key, what was put or deleted *)
(* last is what is there, for any number of writers that share temporary   *)
(* files, and any number of failures.                                      *)
(***************************************************************************)
THEOREM NilIsDone == Spec => []NilMeansDone
<1>1. BlobInv => NilMeansDone
  <2> SUFFICES ASSUME BlobInv PROVE NilMeansDone
    OBVIOUS
  <2>1. \A p \in Clients : call[p].result = "ok" => call[p].did = DOMAIN call[p].items
    BY DEF BlobInv, CallOK
  <2>2. ASSUME NEW k \in Keys \ spoilt, Quiet(k)
        PROVE  (last[k] = "put" => file[k] = "whole") /\ (last[k] = "delete" => file[k] = "none")
    <3>1. FileOK(k) /\ holder[k].by = {}
      BY <2>2, QuietIsClosed DEF BlobInv
    <3> QED BY <3>1 DEF FileOK
  <2> QED BY <2>1, <2>2 DEF NilMeansDone
<1> QED BY <1>1, BlobInvariant, PTL

(***************************************************************************)
(* VerifyContent and the verifying reader: no content is handed over, nor  *)
(* streamed to its end, that is not the one asked for (an empty one's      *)
(* stream hands nothing out); and claims and heights are right wherever    *)
(* the medium left the claim alone.                                        *)
(***************************************************************************)
THEOREM AnswersAreGenuine == Spec => []AnswersGenuine
<1>1. BlobInv => AnswersGenuine
  <2> SUFFICES ASSUME BlobInv, NEW p \in Clients
               PROVE  LET c == call[p]
                      IN  /\ (c.op = "getContents" /\ c.result = "ok") => \A i \in DOMAIN c.out : c.out[i] = "whole"
                          /\ (c.op = "stream" /\ Key(p, 1) \notin Empty /\ (c.result = "ok" \/ c.read = Size)) => c.bytes = "whole"
                          /\ (c.op \in {"getClaims", "heights"} /\ c.result = "ok") =>
                                \A i \in DOMAIN c.out : Key(p, i) \notin spoilt => c.out[i] = "whole"
    BY DEF AnswersGenuine
  <2> DEFINE c == call[p]
  <2>1. CallOK(c, spoilt)
    BY DEF BlobInv
  <2>2. DOMAIN c.out = DOMAIN c.items
    <3>1. c.items \in Seq(Keys) /\ c.out \in Seq(Kinds \cup {"unset"}) /\ Len(c.out) = Len(c.items)
      BY <2>1, CallFields DEF CallOK
    <3> QED BY <3>1
  <2>3. c.result = "ok" => \A i \in DOMAIN c.out : i \in c.did /\ ItemOK(c, i, spoilt)
    BY <2>1, <2>2 DEF CallOK
  <2>4. (c.op = "stream" /\ Key(p, 1) \notin Empty /\ (c.result = "ok" \/ c.read = Size)) => c.bytes = "whole"
    BY <2>1 DEF CallOK, Key
  <2>5. (c.op = "getContents" /\ c.result = "ok") => \A i \in DOMAIN c.out : c.out[i] = "whole"
    BY <2>3 DEF ItemOK
  <2>6. (c.op \in {"getClaims", "heights"} /\ c.result = "ok") =>
            \A i \in DOMAIN c.out : Key(p, i) \notin spoilt => c.out[i] = "whole"
    BY <2>3 DEF ItemOK, Key
  <2> QED BY <2>4, <2>5, <2>6
<1> QED BY <1>1, BlobInvariant, PTL
=============================================================================
