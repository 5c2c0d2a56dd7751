----------------------------- MODULE WireProofs -----------------------------
(***************************************************************************)
(* Proofs about contribution streams, for every payload, every list of     *)
(* limits a writer declares or a relay adds, and every bound on writes,    *)
(* relays and failures: a sealed contribution keeps within every           *)
(* declaration of its stream, and what is delivered is what was sent.      *)
(***************************************************************************)
EXTENDS Wire, TLAPS

Unknown == [kind |-> "unknown"]

Record == ClaimRecords \cup ContentRecords \cup Declarable \cup {Malformed, Unknown}

Errors == {"", "wire", "no header", "late constraint", "kind", "no branch", "undeclared", "integrity"}

Readers == [cons : [ConstraintKinds -> SUBSET STRING], seen : SUBSET ConstraintKinds,
            pending : Nat, headed : BOOLEAN, err : Errors]

WireTypes ==
    /\ stream \in Seq(Record) /\ closed \in BOOLEAN
    /\ cons \in Declared /\ headed \in BOOLEAN /\ sent \in Seq(Payload)
    /\ pos \in 0..Len(stream) /\ read \in Readers
    /\ phase \in {"constraints", "drain", "drained", "sealed", "refused"}
    /\ delivered \in Seq(ClaimRecords \cup ContentRecords)
    /\ staged \subseteq ClaimRecords

-----------------------------------------------------------------------------
(* Records and streams *)

(* A record's kind tells what it is. *)
LEMMA KindTells ==
    ASSUME NEW r \in Record
    PROVE  /\ r.kind \in ConstraintKinds => r \in Declarable
           /\ r.kind = "claim" => r \in ClaimRecords
           /\ r.kind = "content" => r \in ContentRecords
           /\ r.kind \in ConstraintKinds \cup PayloadKinds \cup {"malformed", "unknown"}
           /\ r.kind \in PayloadKinds => r.key \in Keys
BY DEF Record, ClaimRecords, ContentRecords, Declarable, Malformed, Unknown, ConstraintKinds,
   PayloadKinds

(* What the writer puts on the stream: declarations, then the record. *)
LEMMA EmittedIs ==
    ASSUME cons \in Declared, NEW r \in Payload
    PROVE  /\ Emitted(r) \in Seq(Record) /\ Len(Emitted(r)) > 0
           /\ Emitted(r)[Len(Emitted(r))] = r
           /\ \A i \in 1..(Len(Emitted(r)) - 1) : Emitted(r)[i] \in Declarable
<1> DEFINE h == IF headed THEN <<>> ELSE Header(cons)
<1>1. r \in Record /\ Declarable \subseteq Record
  BY WireAssumption DEF Record
<1>2. h \in Seq(Declarable)
  <2>1. <<>> \in Seq(Declarable)
    OBVIOUS
  <2>2. \A k \in ConstraintKinds : Declaration(k, cons[k]) \in Declarable
    BY WireAssumption DEF Declaration, Declarable
  <2>3. {"branches", "referencable", "lifted", "creatable"} \subseteq ConstraintKinds
    BY DEF ConstraintKinds
  <2>4. \A k \in ConstraintKinds : Optional(k, cons[k]) \in Seq(Declarable)
    BY <2>2 DEF Optional
  <2>5. <<Declaration("branches", cons["branches"]), Declaration("referencable", cons["referencable"])>>
           \in Seq(Declarable)
    BY <2>2, <2>3
  <2>6. Optional("lifted", cons["lifted"]) \in Seq(Declarable)
        /\ Optional("creatable", cons["creatable"]) \in Seq(Declarable)
    BY <2>3, <2>4
  <2>7. Header(cons) \in Seq(Declarable)
    BY <2>5, <2>6 DEF Header
  <2> QED BY <2>1, <2>7
<1> HIDE DEF h
<1>3. Emitted(r) = Append(h, r)
  BY DEF Emitted, h
<1>4. h \in Seq(Record)
  BY <1>1, <1>2
<1> QED BY <1>1, <1>2, <1>3, <1>4

(* What may happen to the stream beside the reader: it grows, what is read *)
(* of it stays, and once it is closed its length does.                     *)
Grows ==
    /\ stream' \in Seq(Record) /\ Len(stream) <= Len(stream')
    /\ \A i \in 1..pos : stream'[i] = stream[i]
    /\ closed => closed' /\ Len(stream') = Len(stream)
    /\ closed' \in BOOLEAN /\ cons' = cons /\ headed' \in BOOLEAN
    /\ receiver' = receiver

LEMMA WriteGrows ==
    ASSUME WireTypes, NEW r \in Payload, Write(r)
    PROVE  /\ Grows /\ sent' = Append(sent, r) /\ Len(stream') > Len(stream)
           /\ stream'[Len(stream')] = r
           /\ \A i \in 1..Len(stream) : stream'[i] = stream[i]
           /\ \A i \in (Len(stream) + 1)..(Len(stream') - 1) : stream'[i].kind \notin PayloadKinds
<1> DEFINE e == Emitted(r)
<1>1. /\ e \in Seq(Record) /\ Len(e) > 0 /\ e[Len(e)] = r
      /\ \A i \in 1..(Len(e) - 1) : e[i] \in Declarable
  BY EmittedIs DEF WireTypes
<1>2. stream' = stream \o e /\ ~closed /\ closed' = closed /\ cons' = cons /\ headed' = TRUE
      /\ sent' = Append(sent, r) /\ receiver' = receiver
  BY DEF Write
<1> HIDE DEF e
<1>3. /\ stream' \in Seq(Record) /\ Len(stream') = Len(stream) + Len(e)
      /\ \A i \in 1..Len(stream) : stream'[i] = stream[i]
      /\ \A i \in (Len(stream) + 1)..Len(stream') : stream'[i] = e[i - Len(stream)]
  BY <1>1, <1>2 DEF WireTypes
<1>4. \A d \in Declarable : d.kind \notin PayloadKinds
  BY DEF Declarable, PayloadKinds, ConstraintKinds
<1>5. ASSUME NEW i \in (Len(stream) + 1)..(Len(stream') - 1) PROVE stream'[i].kind \notin PayloadKinds
  <2>1. i - Len(stream) \in 1..(Len(e) - 1) /\ i \in (Len(stream) + 1)..Len(stream')
    BY <1>1, <1>3 DEF WireTypes
  <2> QED BY <1>1, <1>3, <1>4, <2>1
<1>6. Len(stream') \in (Len(stream) + 1)..Len(stream') /\ Len(stream') - Len(stream) = Len(e)
  BY <1>1, <1>3 DEF WireTypes
<1>7. stream'[Len(stream')] = r
  BY <1>1, <1>3, <1>6
<1> QED BY <1>1, <1>2, <1>3, <1>5, <1>7 DEF Grows, WireTypes

LEMMA WriteFailsGrows ==
    ASSUME WireTypes, NEW r \in Payload, WriteFails(r)
    PROVE  /\ Grows /\ sent' = sent
           /\ \A i \in 1..Len(stream) : stream'[i] = stream[i]
           /\ \A i \in (Len(stream) + 1)..Len(stream') : stream'[i].kind \notin PayloadKinds
<1> DEFINE e == Emitted(r)
<1>1. /\ e \in Seq(Record) /\ Len(e) > 0
      /\ \A i \in 1..(Len(e) - 1) : e[i] \in Declarable
  BY EmittedIs DEF WireTypes
<1>2. /\ ~closed /\ closed' = closed /\ cons' = cons /\ headed' = TRUE /\ sent' = sent
      /\ receiver' = receiver
  BY DEF WriteFails
<1>3. PICK k \in 1..Len(e), part \in {<<>>, <<Malformed>>} :
         stream' = stream \o (SubSeq(e, 1, k - 1) \o part)
  BY DEF WriteFails
<1> HIDE DEF e
<1> DEFINE h == SubSeq(e, 1, k - 1)
           x == h \o part
<1>4. h \in Seq(Record) /\ Len(h) = k - 1 /\ \A i \in 1..(k - 1) : h[i] = e[i]
  BY <1>1
<1>5. part \in Seq(Record) /\ Len(part) \in {0, 1} /\ \A i \in 1..Len(part) : part[i] = Malformed
  <2>1. Malformed \in Record
    BY DEF Record
  <2> HIDE DEF Malformed
  <2>2. CASE part = <<>>
    BY <2>2
  <2>3. CASE part = <<Malformed>>
    BY <2>1, <2>3
  <2> QED BY <2>2, <2>3
<1>6. \A i \in 1..Len(h) : h[i] \in Declarable
  BY <1>1, <1>4
<1>7. stream' = stream \o x
  BY <1>3
<1> HIDE DEF h
<1>8. /\ x \in Seq(Record) /\ Len(x) = Len(h) + Len(part)
      /\ \A i \in 1..Len(x) : x[i] = IF i <= Len(h) THEN h[i] ELSE part[i - Len(h)]
  BY <1>4, <1>5
<1>9. \A i \in 1..Len(x) : x[i] \in Declarable \/ x[i] = Malformed
  <2>1. \A i \in 1..Len(x) : i > Len(h) => i - Len(h) \in 1..Len(part)
    BY <1>4, <1>5, <1>8
  <2> QED BY <1>4, <1>5, <1>6, <1>8, <2>1
<1> HIDE DEF x
<1>10. /\ stream' \in Seq(Record) /\ Len(stream') = Len(stream) + Len(x)
       /\ \A i \in 1..Len(stream) : stream'[i] = stream[i]
       /\ \A i \in (Len(stream) + 1)..Len(stream') : stream'[i] = x[i - Len(stream)]
  <2>1. x \in Seq(Record) /\ stream \in Seq(Record)
    BY <1>8 DEF WireTypes
  <2> QED BY <1>7, <2>1
<1>11. \A d : d \in Declarable \/ d = Malformed => d.kind \notin PayloadKinds
  BY DEF Declarable, Malformed, PayloadKinds, ConstraintKinds
<1>12. ASSUME NEW i \in (Len(stream) + 1)..Len(stream') PROVE stream'[i].kind \notin PayloadKinds
  <2>1. i - Len(stream) \in 1..Len(x)
    BY <1>8, <1>10 DEF WireTypes
  <2> QED BY <1>9, <1>10, <1>11, <2>1
<1> QED BY <1>2, <1>8, <1>10, <1>12 DEF Grows, WireTypes

LEMMA RelayGrows ==
    ASSUME WireTypes, NEW r \in Added, Relay(r)
    PROVE  /\ Grows /\ sent' = sent /\ ~closed /\ Len(stream') = Len(stream) + 1
           /\ \/ /\ stream'[Len(stream')] = r
                 /\ \A i \in 1..Len(stream) : stream'[i] = stream[i]
              \/ /\ pos = 0 /\ stream'[1] = r
                 /\ \A i \in 1..Len(stream) : stream'[i + 1] = stream[i]
<1>1. r \in Record /\ stream \in Seq(Record) /\ pos \in 0..Len(stream)
  BY WireAssumption DEF Record, WireTypes
<1>2. /\ ~closed /\ closed' = closed /\ cons' = cons /\ headed' = headed /\ sent' = sent
      /\ receiver' = receiver
  BY DEF Relay
<1>3. CASE stream' = Append(stream, r)
  <2>1. /\ stream' \in Seq(Record) /\ Len(stream') = Len(stream) + 1
        /\ stream'[Len(stream')] = r /\ \A i \in 1..Len(stream) : stream'[i] = stream[i]
    BY <1>1, <1>3
  <2> QED BY <1>1, <1>2, <2>1 DEF Grows, WireTypes
<1>4. CASE pos = 0 /\ stream' = <<r>> \o stream
  <2>1. <<r>> \in Seq(Record) /\ Len(<<r>>) = 1 /\ <<r>>[1] = r
    BY <1>1
  <2>2. /\ stream' \in Seq(Record) /\ Len(stream') = Len(stream) + 1 /\ stream'[1] = r
        /\ \A i \in 1..Len(stream) : stream'[i + 1] = stream[i]
    BY <1>1, <1>4, <2>1
  <2> QED BY <1>1, <1>2, <1>4, <2>2 DEF Grows, WireTypes
<1> QED BY <1>3, <1>4 DEF Relay

(* A record that is altered is no other record: it loses its kind, or its  *)
(* bytes are others.                                                       *)
LEMMA DamageGrows ==
    ASSUME WireTypes, NEW i \in DOMAIN stream, Damage(i)
    PROVE  /\ Grows /\ sent' = sent /\ Len(stream') = Len(stream) /\ i > pos
           /\ \A j \in 1..Len(stream) : j # i => stream'[j] = stream[j]
           /\ \/ stream'[i] = Unknown
              \/ /\ stream[i].kind \in PayloadKinds
                 /\ stream'[i].kind = stream[i].kind /\ stream'[i].key = stream[i].key
                 /\ stream[i].kind = "claim" => stream'[i].branch = stream[i].branch
<1>1. /\ closed' = closed /\ cons' = cons /\ headed' = headed /\ sent' = sent
      /\ receiver' = receiver /\ i > pos
  BY DEF Damage
<1>2. stream \in Seq(Record) /\ i \in 1..Len(stream) /\ stream[i] \in Record /\ pos \in 0..Len(stream)
  BY DEF WireTypes
<1>3. ASSUME NEW x \in Record, stream' = [stream EXCEPT ![i] = x],
             \/ x = Unknown
             \/ /\ stream[i].kind \in PayloadKinds
                /\ x.kind = stream[i].kind /\ x.key = stream[i].key
                /\ stream[i].kind = "claim" => x.branch = stream[i].branch
      PROVE  /\ Grows /\ Len(stream') = Len(stream) /\ stream'[i] = x
             /\ \A j \in 1..Len(stream) : j # i => stream'[j] = stream[j]
  <2>1. /\ stream' \in Seq(Record) /\ Len(stream') = Len(stream) /\ stream'[i] = x
        /\ \A j \in 1..Len(stream) : j # i => stream'[j] = stream[j]
    BY <1>2, <1>3
  <2> QED BY <1>1, <1>2, <2>1 DEF Grows, WireTypes
<1>4. CASE stream' = [stream EXCEPT ![i] = Unknown]
  <2>1. Unknown \in Record
    BY DEF Record
  <2> QED BY <1>1, <1>3, <1>4, <2>1
<1>5. ASSUME stream[i].kind \in PayloadKinds,
             NEW b \in {0} \cup Keys, stream' = [stream EXCEPT ![i].bytes = b]
      PROVE  /\ Grows /\ Len(stream') = Len(stream)
             /\ \A j \in 1..Len(stream) : j # i => stream'[j] = stream[j]
             /\ stream'[i].kind = stream[i].kind /\ stream'[i].key = stream[i].key
             /\ stream[i].kind = "claim" => stream'[i].branch = stream[i].branch
  <2> DEFINE x == [stream[i] EXCEPT !.bytes = b]
  <2>1. stream' = [stream EXCEPT ![i] = x]
    BY <1>5
  <2>2. stream[i] \in ClaimRecords \/ stream[i] \in ContentRecords
    BY <1>2, <1>5, KindTells DEF PayloadKinds
  <2>3. CASE stream[i] \in ClaimRecords
    <3>1. /\ x \in ClaimRecords /\ x.kind = stream[i].kind /\ x.key = stream[i].key
          /\ x.branch = stream[i].branch
      BY <1>5, <2>3 DEF ClaimRecords
    <3> HIDE DEF x
    <3>2. x \in Record
      BY <3>1 DEF Record
    <3> QED BY <1>3, <1>5, <2>1, <3>1, <3>2
  <2>4. CASE stream[i] \in ContentRecords
    <3>1. /\ x \in ContentRecords /\ x.kind = stream[i].kind /\ x.key = stream[i].key
          /\ stream[i].kind # "claim"
      BY <1>5, <2>4 DEF ContentRecords
    <3> HIDE DEF x
    <3>2. x \in Record
      BY <3>1 DEF Record
    <3> QED BY <1>3, <1>5, <2>1, <3>1, <3>2
  <2> QED BY <2>2, <2>3, <2>4
<1>6. \/ stream' = [stream EXCEPT ![i] = Unknown]
      \/ /\ stream[i].kind \in PayloadKinds
         /\ \E b \in {0} \cup Keys : stream' = [stream EXCEPT ![i].bytes = b]
  BY DEF Damage, Unknown, Keys
<1> QED BY <1>1, <1>4, <1>5, <1>6

LEMMA StreamSteps ==
    ASSUME WireTypes,
           \/ \E r \in Payload : Write(r) \/ WriteFails(r)
           \/ \E r \in Added : Relay(r)
           \/ \E i \in DOMAIN stream : Damage(i)
           \/ Close
    PROVE  Grows /\ sent' \in Seq(Payload)
<1>1. sent \in Seq(Payload)
  BY DEF WireTypes
<1>2. ASSUME NEW r \in Payload, Write(r) PROVE Grows /\ sent' \in Seq(Payload)
  BY <1>1, <1>2, WriteGrows
<1>3. CASE Close
  <2>1. /\ stream' = stream /\ closed' = TRUE /\ cons' = cons /\ headed' = headed /\ sent' = sent
        /\ receiver' = receiver
    BY <1>3 DEF Close
  <2> QED BY <1>1, <2>1 DEF Grows, WireTypes
<1> QED BY <1>1, <1>2, <1>3, WriteFailsGrows, RelayGrows, DamageGrows

-----------------------------------------------------------------------------
(* Narrowing *)

(* Two scopes narrow to one that reads no more than either. *)
LEMMA ScopesNarrow ==
    ASSUME NEW a, NEW b, NEW br
    PROVE  /\ Readable(NarrowScopes(a, b), br) \subseteq Readable(a, br)
           /\ Readable(NarrowScopes(a, b), br) \subseteq Readable(b, br)
<1>1. \A list : Readable(list, br) \subseteq BaseBranches \cup {"elsewhere"}
  BY DEF Readable
<1>2. \A list : "$universe" \notin list => Readable(list, br) \subseteq BaseBranches
  BY DEF Readable
<1>3. CASE "$universe" \in a
  BY <1>1, <1>3 DEF NarrowScopes, Readable
<1>4. CASE "$universe" \notin a /\ "$universe" \in b
  BY <1>1, <1>4 DEF NarrowScopes, Readable
<1>5. CASE "$universe" \notin a /\ "$universe" \notin b /\ "$archive" \in a
  BY <1>2, <1>5 DEF NarrowScopes, Readable
<1>6. CASE "$universe" \notin a /\ "$universe" \notin b /\ "$archive" \notin a /\ "$archive" \in b
  BY <1>2, <1>6 DEF NarrowScopes, Readable
<1>7. CASE "$universe" \notin a /\ "$universe" \notin b /\ "$archive" \notin a /\ "$archive" \notin b
  BY <1>7 DEF NarrowScopes, Readable, Intersect
<1> QED BY <1>3, <1>4, <1>5, <1>6, <1>7

(* What the reader holds of a kind keeps within a declaration of it. *)
Within(c, d) ==
    IF d.kind = "referencable"
    THEN \A br \in STRING : Readable(c["referencable"], br) \subseteq Readable(d.list, br)
    ELSE c[d.kind] \subseteq d.list

(* A declaration that is read narrows what is held: it keeps within the    *)
(* new one, and within all it kept within.                                 *)
LEMMA ReadNarrows ==
    ASSUME NEW rd \in Readers, NEW r \in Declarable
    PROVE  LET x == ReadConstraint(rd, r) IN
           /\ x \in Readers /\ x.seen = rd.seen \cup {r.kind} /\ x.pending = rd.pending
           /\ x.err = rd.err
           /\ Within(x.cons, r)
           /\ \A d \in Declarable : d.kind \in rd.seen /\ Within(rd.cons, d) => Within(x.cons, d)
           /\ \A k \in ConstraintKinds : k # r.kind => x.cons[k] = rd.cons[k]
<1> DEFINE x == ReadConstraint(rd, r)
           k == r.kind
           v == IF k \in rd.seen THEN Merge(k, rd.cons[k], r.list) ELSE r.list
<1>1. k \in ConstraintKinds /\ r.list \in SUBSET STRING
  BY DEF Declarable
<1>2. /\ rd.cons \in [ConstraintKinds -> SUBSET STRING] /\ rd.seen \in SUBSET ConstraintKinds
      /\ rd.cons[k] \in SUBSET STRING
  BY <1>1 DEF Readers
<1>3. v \in SUBSET STRING
  BY <1>1, <1>2 DEF Merge, NarrowScopes, Intersect
<1>4. x = [rd EXCEPT !.seen = rd.seen \cup {k}, !.cons = [rd.cons EXCEPT ![k] = v]]
  BY DEF ReadConstraint, Readers
<1>5. IF k = "referencable"
      THEN \A br \in STRING : /\ Readable(v, br) \subseteq Readable(r.list, br)
                              /\ k \in rd.seen => Readable(v, br) \subseteq Readable(rd.cons[k], br)
      ELSE v \subseteq r.list /\ (k \in rd.seen => v \subseteq rd.cons[k])
  <2>1. k \in rd.seen => v = Merge(k, rd.cons[k], r.list)
    OBVIOUS
  <2>2. k \notin rd.seen => v = r.list
    OBVIOUS
  <2> HIDE DEF v
  <2>3. CASE k = "referencable"
    <3>1. Merge(k, rd.cons[k], r.list) = NarrowScopes(rd.cons[k], r.list)
      BY <2>3 DEF Merge
    <3> HIDE DEF k
    <3> QED BY <2>1, <2>2, <2>3, <3>1, ScopesNarrow
  <2>4. CASE k # "referencable"
    BY <2>1, <2>2, <2>4 DEF Merge, Intersect
  <2> QED BY <2>3, <2>4
<1> HIDE DEF v
<1> DEFINE c == [rd.cons EXCEPT ![k] = v]
           s == rd.seen \cup {k}
<1>6. /\ c \in [ConstraintKinds -> SUBSET STRING] /\ c[k] = v
      /\ \A j \in ConstraintKinds : j # k => c[j] = rd.cons[j]
  BY <1>1, <1>2, <1>3
<1>7. s \in SUBSET ConstraintKinds
  BY <1>1, <1>2
<1> HIDE DEF c, s
<1>8. x = [rd EXCEPT !.seen = s, !.cons = c]
  BY <1>4 DEF c, s
<1> HIDE DEF x
<1>9. x \in Readers /\ x.seen = s /\ x.cons = c /\ x.pending = rd.pending /\ x.err = rd.err
  BY <1>6, <1>7, <1>8 DEF Readers
<1>10. Within(x.cons, r)
  BY <1>5, <1>6, <1>9 DEF Within
<1>11. ASSUME NEW d \in Declarable, d.kind \in rd.seen, Within(rd.cons, d) PROVE Within(x.cons, d)
  <2>1. d.kind \in ConstraintKinds
    BY DEF Declarable
  <2>2. CASE d.kind # k
    BY <1>6, <1>9, <1>11, <2>1, <2>2 DEF Within
  <2>3. CASE d.kind = k /\ k = "referencable"
    BY <1>5, <1>6, <1>9, <1>11, <2>3 DEF Within
  <2>4. CASE d.kind = k /\ k # "referencable"
    BY <1>5, <1>6, <1>9, <1>11, <2>4 DEF Within
  <2> QED BY <2>2, <2>3, <2>4
<1> QED BY <1>6, <1>9, <1>10, <1>11 DEF x, s

LEMMA SettledIs ==
    ASSUME NEW rd \in Readers
    PROVE  LET x == Settled(rd) IN
           /\ x \in Readers /\ x.cons = rd.cons /\ x.seen = rd.seen /\ x.pending = rd.pending
           /\ x.err = "" => \/ {"branches", "referencable"} \subseteq rd.seen
                            \/ rd.seen = {} /\ rd.pending = 0
<1> DEFINE y == [rd EXCEPT !.err = "no header"]
<1>1. /\ y \in Readers /\ y.cons = rd.cons /\ y.seen = rd.seen /\ y.pending = rd.pending
      /\ y.err = "no header"
  BY DEF Readers, Errors
<1> HIDE DEF y
<1>2. Settled(rd) = IF rd.seen = {} /\ rd.pending = 0 THEN rd
                    ELSE IF {"branches", "referencable"} \subseteq rd.seen THEN rd ELSE y
  BY DEF Settled, y
<1> QED BY <1>1, <1>2

-----------------------------------------------------------------------------
(* The block and the drain *)

Required == {"branches", "referencable"}

(* What the reader holds, and what is staged under it: every declaration   *)
(* decoded so far was read into the block and is kept within, a kind not   *)
(* seen holds nothing, the record that ended the block is the last one     *)
(* decoded, and the contribution is opened under what the block held.      *)
BlockInv ==
    /\ phase = "constraints" =>
          /\ read.pending = 0 /\ read.err = "" /\ staged = {} /\ delivered = <<>>
          /\ \A i \in 1..pos : stream[i].kind \in ConstraintKinds
    /\ phase # "refused" =>
          /\ \A k \in read.seen : \E i \in 1..pos : stream[i].kind = k
          /\ \A k \in ConstraintKinds \ read.seen : read.cons[k] = {}
          /\ \A i \in 1..pos : stream[i].kind \in ConstraintKinds =>
                stream[i].kind \in read.seen /\ Within(read.cons, stream[i])
          /\ \A r \in staged : r.branch \in read.cons["branches"] /\ AdmitType(r)
          /\ read.pending # 0 => read.pending = pos /\ stream[pos].kind \notin ConstraintKinds
    /\ phase \in {"drain", "drained", "sealed"} =>
          /\ opened = Options(read.cons)
          /\ Required \subseteq read.seen \/ (AtEnd /\ read.pending = 0 /\ staged = {})
    /\ phase \in {"drained", "sealed"} => AtEnd /\ read.pending = 0
    /\ phase = "sealed" => Sealable

(* How many records of the stream the reader is done with. *)
Taken == IF read.pending # 0 THEN pos - 1 ELSE pos

(* The record Next reads is the first one not taken. *)
LEMMA ArrivingIs ==
    ASSUME WireTypes, BlockInv, phase = "drain", CanRead
    PROVE  /\ Taken \in Nat /\ Taken + 1 \in 1..Len(stream)
           /\ Arriving = stream[Taken + 1] /\ Arriving \in Record
           /\ Advance => pos' = Taken + 1
           /\ Required \subseteq read.seen
<1>1. /\ stream \in Seq(Record) /\ Len(stream) \in Nat /\ pos \in 0..Len(stream)
      /\ read.pending \in Nat
  BY DEF WireTypes, Readers
<1>2. read.pending # 0 => read.pending = pos
  BY DEF BlockInv
<1>3. Required \subseteq read.seen
  BY <1>1 DEF BlockInv, CanRead, AtEnd, MoreToRead
<1>4. CASE read.pending # 0
  <2>1. Taken = pos - 1 /\ Arriving = stream[read.pending] /\ (Advance => pos' = pos)
    BY <1>4 DEF Taken, Arriving, Advance
  <2> QED BY <1>1, <1>2, <1>3, <1>4, <2>1
<1>5. CASE read.pending = 0
  <2>1. Taken = pos /\ Arriving = stream[pos + 1] /\ (Advance => pos' = pos + 1) /\ pos < Len(stream)
    BY <1>5 DEF Taken, Arriving, Advance, Decoded, CanRead, MoreToRead
  <2> QED BY <1>1, <1>3, <2>1
<1> QED BY <1>4, <1>5

(* What Next hands over: a claim for a declared branch, a content that     *)
(* hashes to its key.                                                      *)
LEMMA RefusalIs ==
    ASSUME NEW r \in Record
    PROVE  /\ Refusal(r) \in Errors
           /\ Refusal(r) = "" => /\ r.kind \notin ConstraintKinds /\ r # Unknown
                                 /\ r.kind = "claim" => r.branch \in read.cons["branches"]
                                 /\ r.kind = "content" => r.bytes = r.key
<1>1. Refusal(r) \in Errors
  BY DEF Refusal, Errors
<1>2. ASSUME Refusal(r) = "" PROVE r.kind \notin ConstraintKinds /\ r # Unknown
  <2>1. r.kind \notin ConstraintKinds
    BY <1>2 DEF Refusal, ConstraintKinds
  <2>2. r.kind # "unknown"
    BY <1>2, <2>1 DEF Refusal, ConstraintKinds
  <2> QED BY <2>1, <2>2 DEF Unknown
<1>3. ASSUME Refusal(r) = "", r.kind = "claim" PROVE r.branch \in read.cons["branches"]
  BY <1>2, <1>3 DEF Refusal, ConstraintKinds
<1>4. ASSUME Refusal(r) = "", r.kind = "content" PROVE r.bytes = r.key
  BY <1>2, <1>4 DEF Refusal, ConstraintKinds
<1> QED BY <1>1, <1>2, <1>3, <1>4

(* The stream moves on beside the reader. *)
LEMMA GrowsKeepsBlock ==
    ASSUME WireTypes, BlockInv, Grows, sent' \in Seq(Payload)
    PROVE  WireTypes' /\ BlockInv'
<1>1. /\ pos' = pos /\ read' = read /\ phase' = phase /\ opened' = opened /\ delivered' = delivered
      /\ staged' = staged
  BY DEF Grows, receiver
<1>2. /\ stream \in Seq(Record) /\ stream' \in Seq(Record) /\ Len(stream) <= Len(stream')
      /\ Len(stream) \in Nat /\ Len(stream') \in Nat /\ pos \in 0..Len(stream) /\ pos \in 0..Len(stream')
      /\ \A i \in 1..pos : stream'[i] = stream[i]
  BY DEF Grows, WireTypes
<1>3. WireTypes'
  BY <1>1, <1>2 DEF WireTypes, Grows
<1>4. AtEnd => AtEnd'
  BY <1>1, <1>2 DEF AtEnd, Grows
<1>5. \A r : AdmitType(r)' <=> AdmitType(r)
  BY <1>1 DEF AdmitType
<1>6. Sealable' <=> Sealable
  BY <1>1 DEF Sealable, AdmitBranch
<1>7. read.pending # 0 /\ phase # "refused" => pos \in 1..pos
  <2>1. read.pending \in Nat
    BY DEF WireTypes, Readers
  <2>2. read.pending # 0 /\ phase # "refused" => read.pending = pos
    BY DEF BlockInv
  <2> QED BY <1>2, <2>1, <2>2
<1> QED BY <1>1, <1>2, <1>3, <1>4, <1>5, <1>6, <1>7 DEF BlockInv

(* A record of the block is read. *)
LEMMA ReadKeepsBlock ==
    ASSUME WireTypes, BlockInv, ReadConstraints
    PROVE  WireTypes' /\ BlockInv'
<1> DEFINE rd == [read EXCEPT !.headed = TRUE]
           d == stream[pos + 1]
<1>1. /\ phase = "constraints" /\ pos < Len(stream) /\ pos' = pos + 1
      /\ stream' = stream /\ closed' = closed /\ cons' = cons /\ headed' = headed /\ sent' = sent
  BY DEF ReadConstraints, MoreToRead, writer
<1>2. /\ stream \in Seq(Record) /\ Len(stream) \in Nat /\ pos \in 0..Len(stream) /\ read \in Readers
      /\ pos + 1 \in 0..Len(stream) /\ pos + 1 \in 1..(pos + 1) /\ d \in Record
      /\ \A i \in 1..(pos + 1) : i = pos + 1 \/ i \in 1..pos
      /\ \A i \in 1..pos : i \in 1..(pos + 1)
  BY <1>1 DEF WireTypes
<1>3. /\ rd \in Readers /\ rd.cons = read.cons /\ rd.seen = read.seen /\ rd.pending = 0 /\ rd.err = ""
  BY <1>1, <1>2 DEF BlockInv, Readers
<1>4. /\ staged = {} /\ delivered = <<>>
      /\ \A i \in 1..pos : stream[i].kind \in ConstraintKinds
      /\ \A k \in read.seen : \E i \in 1..pos : stream[i].kind = k
      /\ \A k \in ConstraintKinds \ read.seen : read.cons[k] = {}
      /\ \A i \in 1..pos : stream[i].kind \in ConstraintKinds =>
            stream[i].kind \in read.seen /\ Within(read.cons, stream[i])
  BY <1>1 DEF BlockInv
<1> HIDE DEF rd, d
<1>5. CASE d.kind = "malformed"
  <2> DEFINE x == [rd EXCEPT !.err = "wire"]
  <2>1. Opens(x)
    BY <1>5 DEF ReadConstraints, Decoded, d, rd, ConstraintKinds
  <2>2. x \in Readers /\ x.err = "wire"
    BY <1>3 DEF Readers, Errors
  <2> HIDE DEF x
  <2>3. read' = x /\ phase' = "refused" /\ delivered' = delivered /\ staged' = staged
    BY <2>1, <2>2 DEF Opens
  <2> QED BY <1>1, <1>2, <2>2, <2>3 DEF WireTypes, BlockInv
<1>6. CASE d.kind \in ConstraintKinds
  <2> DEFINE x == ReadConstraint(rd, d)
  <2>1. d.kind # "malformed"
    BY <1>6 DEF ConstraintKinds
  <2>2. read' = x /\ phase' = phase /\ opened' = opened /\ delivered' = delivered /\ staged' = staged
    BY <1>6, <2>1 DEF ReadConstraints, Decoded, d, rd
  <2>3. d \in Declarable
    BY <1>2, <1>6, KindTells
  <2>4. /\ x \in Readers /\ x.seen = read.seen \cup {d.kind} /\ x.pending = 0 /\ x.err = ""
        /\ Within(x.cons, d)
        /\ \A e \in Declarable : e.kind \in read.seen /\ Within(read.cons, e) => Within(x.cons, e)
        /\ \A k \in ConstraintKinds : k # d.kind => x.cons[k] = read.cons[k]
    <3>1. /\ x \in Readers /\ x.seen = rd.seen \cup {d.kind} /\ x.pending = rd.pending
          /\ x.err = rd.err
          /\ Within(x.cons, d)
          /\ \A e \in Declarable : e.kind \in rd.seen /\ Within(rd.cons, e) => Within(x.cons, e)
          /\ \A k \in ConstraintKinds : k # d.kind => x.cons[k] = rd.cons[k]
      BY <1>3, <2>3, ReadNarrows
    <3> HIDE DEF x
    <3> QED BY <1>3, <3>1
  <2> HIDE DEF x
  <2>5. \A i \in 1..(pos + 1) : stream[i].kind \in x.seen /\ Within(x.cons, stream[i])
    <3>1. \A i \in 1..pos : stream[i] \in Declarable
      BY <1>2, <1>4, KindTells
    <3> QED BY <1>2, <1>4, <2>4, <3>1 DEF d
  <2>6. \A k \in x.seen : \E i \in 1..(pos + 1) : stream[i].kind = k
    BY <1>2, <1>4, <2>4 DEF d
  <2>7. \A k \in ConstraintKinds \ x.seen : x.cons[k] = {}
    BY <1>4, <2>4
  <2>8. \A i \in 1..(pos + 1) : stream[i].kind \in ConstraintKinds
    BY <1>2, <1>4, <1>6 DEF d
  <2>9. WireTypes'
    BY <1>1, <1>2, <2>2, <2>4 DEF WireTypes
  <2> QED BY <1>1, <1>4, <2>2, <2>4, <2>5, <2>6, <2>7, <2>8, <2>9, ZenonT(60) DEF BlockInv
<1>7. CASE d.kind # "malformed" /\ d.kind \notin ConstraintKinds
  <2> DEFINE y == [rd EXCEPT !.pending = pos + 1]
             x == Settled(y)
  <2>1. Opens(x)
    BY <1>7 DEF ReadConstraints, Decoded, d, rd
  <2>2. y \in Readers /\ y.cons = read.cons /\ y.seen = read.seen /\ y.pending = pos + 1
    <3>1. pos + 1 \in Nat
      BY <1>2
    <3> QED BY <1>3, <3>1 DEF Readers
  <2>3. y.pending # 0
    BY <1>2, <2>2
  <2> HIDE DEF y
  <2>4. /\ x \in Readers /\ x.cons = read.cons /\ x.seen = read.seen /\ x.pending = pos + 1
        /\ x.err = "" => Required \subseteq read.seen
    BY <2>2, <2>3, SettledIs DEF Required
  <2> HIDE DEF x
  <2>5. /\ read' = x /\ opened' = Options(x.cons) /\ delivered' = delivered /\ staged' = staged
        /\ phase' = IF x.err = "" THEN "drain" ELSE "refused"
    BY <2>1 DEF Opens
  <2>6. WireTypes'
    BY <1>1, <1>2, <2>4, <2>5 DEF WireTypes
  <2>7. CASE x.err # ""
    BY <2>5, <2>6, <2>7 DEF BlockInv
  <2>8. CASE x.err = ""
    <3>1. phase' = "drain"
      BY <2>5, <2>8
    <3>2. \A k \in read.seen : \E i \in 1..(pos + 1) : stream[i].kind = k
      BY <1>2, <1>4
    <3>3. \A i \in 1..(pos + 1) : stream[i].kind \in ConstraintKinds =>
             stream[i].kind \in read.seen /\ Within(read.cons, stream[i])
      BY <1>2, <1>4, <1>7 DEF d
    <3> QED BY <1>1, <1>4, <1>7, <2>4, <2>5, <2>6, <2>8, <3>1, <3>2, <3>3 DEF BlockInv, d
  <2> QED BY <2>7, <2>8
<1> QED BY <1>5, <1>6, <1>7

(* The stream ends within the block. *)
LEMMA ReadEndKeepsBlock ==
    ASSUME WireTypes, BlockInv, ReadConstraintsEnd
    PROVE  WireTypes' /\ BlockInv'
<1> DEFINE y == [read EXCEPT !.headed = TRUE]
           x == Settled(y)
<1>1. /\ phase = "constraints" /\ AtEnd /\ pos' = pos
      /\ stream' = stream /\ closed' = closed /\ cons' = cons /\ headed' = headed /\ sent' = sent
      /\ Opens(x)
  BY DEF ReadConstraintsEnd, EndOfBlock, writer
<1>2. y \in Readers /\ y.cons = read.cons /\ y.seen = read.seen /\ y.pending = 0
  BY <1>1 DEF Readers, WireTypes, BlockInv
<1> HIDE DEF y
<1>3. x \in Readers /\ x.cons = read.cons /\ x.seen = read.seen /\ x.pending = 0
  BY <1>2, SettledIs
<1> HIDE DEF x
<1>4. /\ read' = x /\ opened' = Options(x.cons) /\ delivered' = delivered /\ staged' = staged
      /\ phase' = IF x.err = "" THEN "drain" ELSE "refused"
  BY <1>1 DEF Opens
<1>5. WireTypes'
  BY <1>1, <1>3, <1>4 DEF WireTypes
<1>6. AtEnd'
  BY <1>1 DEF AtEnd
<1>7. CASE x.err # ""
  BY <1>4, <1>5, <1>7 DEF BlockInv
<1>8. CASE x.err = ""
  <2>1. phase' = "drain"
    BY <1>4, <1>8
  <2> QED BY <1>1, <1>3, <1>4, <1>5, <1>6, <2>1 DEF BlockInv
<1> QED BY <1>7, <1>8

(* What a step of the drain does: it is done with one more record, and     *)
(* either gives up or hands the record over.                               *)
Refuses ==
    /\ phase' = "refused" /\ read' \in Readers /\ delivered' = delivered /\ staged' = staged

HandsOver ==
    /\ Refusal(Arriving) = "" /\ phase' = "drain" /\ read' = [read EXCEPT !.pending = 0]
    /\ delivered' = Append(delivered, Arriving) /\ Arriving.kind \in PayloadKinds
    /\ \/ Arriving.kind = "content" /\ staged' = staged
       \/ Arriving.kind = "claim" /\ AdmitType(Arriving) /\ staged' = staged \cup {Arriving}

LEMMA DrainIs ==
    ASSUME WireTypes, BlockInv, DrainRefused \/ DrainContent \/ DrainContentFails \/ DrainClaim
    PROVE  /\ phase = "drain" /\ CanRead /\ Advance /\ opened' = opened /\ writer' = writer
           /\ Refuses \/ HandsOver
<1>1. phase = "drain" /\ CanRead /\ Advance /\ opened' = opened /\ writer' = writer
  BY DEF DrainRefused, DrainContent, DrainContentFails, DrainClaim
<1>2. Arriving \in Record /\ read \in Readers
  BY <1>1, ArrivingIs DEF WireTypes
<1>3. [read EXCEPT !.pending = 0] \in Readers
  BY <1>2 DEF Readers
<1>4. CASE DrainRefused
  <2> DEFINE e == Refusal(Arriving)
  <2>1. e \in Errors
    BY <1>2, RefusalIs
  <2>2. read' = [read EXCEPT !.pending = 0, !.err = e]
    BY <1>4 DEF DrainRefused
  <2> HIDE DEF e
  <2>3. read' \in Readers
    BY <1>2, <2>1, <2>2 DEF Readers
  <2> QED BY <1>1, <1>4, <2>3 DEF DrainRefused, Refuses
<1>5. CASE DrainContent
  BY <1>1, <1>5 DEF DrainContent, HandsOver, PayloadKinds
<1>6. CASE DrainContentFails
  BY <1>1, <1>3, <1>6 DEF DrainContentFails, Refuses
<1>7. CASE DrainClaim
  <2>1. CASE AdmitType(Arriving)
    BY <1>1, <1>7, <2>1 DEF DrainClaim, HandsOver, PayloadKinds
  <2>2. CASE ~AdmitType(Arriving)
    BY <1>1, <1>3, <1>7, <2>2 DEF DrainClaim, Refuses
  <2> QED BY <2>1, <2>2
<1> QED BY <1>1, <1>4, <1>5, <1>6, <1>7

LEMMA DrainKeepsBlock ==
    ASSUME WireTypes, BlockInv, DrainRefused \/ DrainContent \/ DrainContentFails \/ DrainClaim
    PROVE  WireTypes' /\ BlockInv'
<1>1. /\ phase = "drain" /\ CanRead /\ Advance /\ opened' = opened
      /\ stream' = stream /\ closed' = closed /\ cons' = cons /\ headed' = headed /\ sent' = sent
      /\ Refuses \/ HandsOver
  BY DrainIs DEF writer
<1>2. /\ Taken \in Nat /\ Taken + 1 \in 1..Len(stream) /\ pos' = Taken + 1
      /\ Arriving = stream[Taken + 1] /\ Arriving \in Record /\ Required \subseteq read.seen
  BY <1>1, ArrivingIs
<1>3. pos' \in 0..Len(stream)
  BY <1>2 DEF WireTypes
<1>4. CASE Refuses
  <2>1. WireTypes'
    BY <1>1, <1>3, <1>4 DEF WireTypes, Refuses
  <2> QED BY <1>4, <2>1 DEF BlockInv, Refuses
<1>5. CASE HandsOver
  <2>1. /\ read' \in Readers /\ read'.cons = read.cons /\ read'.seen = read.seen /\ read'.pending = 0
    BY <1>5 DEF HandsOver, WireTypes, Readers
  <2>2. /\ Arriving.kind \notin ConstraintKinds
        /\ Arriving.kind = "claim" => Arriving \in ClaimRecords /\ Arriving.branch \in read.cons["branches"]
        /\ Arriving.kind = "content" => Arriving \in ContentRecords
    BY <1>2, <1>5, RefusalIs, KindTells DEF HandsOver
  <2>3. delivered' \in Seq(ClaimRecords \cup ContentRecords) /\ staged' \subseteq ClaimRecords
    <3>1. Arriving \in ClaimRecords \cup ContentRecords
      BY <1>5, <2>2 DEF HandsOver, PayloadKinds
    <3>2. delivered \in Seq(ClaimRecords \cup ContentRecords) /\ delivered' = Append(delivered, Arriving)
      BY <1>5 DEF WireTypes, HandsOver
    <3>3. delivered' \in Seq(ClaimRecords \cup ContentRecords)
      BY <3>1, <3>2
    <3> QED BY <1>5, <2>2, <3>3 DEF WireTypes, HandsOver
  <2>4. WireTypes'
    BY <1>1, <1>3, <1>5, <2>1, <2>3 DEF WireTypes, HandsOver
  <2>5. \A i \in 1..pos' : i \in 1..pos \/ i = Taken + 1
    BY <1>2 DEF Taken, WireTypes
  <2>6. \A i \in 1..pos : i \in 1..pos'
    <3>1. pos \in Nat /\ (pos' = pos \/ pos' = pos + 1)
      BY <1>1 DEF WireTypes, Advance
    <3> QED BY <3>1
  <2>7. \A r : AdmitType(r)' <=> AdmitType(r)
    BY <1>1 DEF AdmitType
  <2>8. /\ \A k \in read.seen : \E i \in 1..pos' : stream[i].kind = k
        /\ \A k \in ConstraintKinds \ read.seen : read.cons[k] = {}
        /\ \A i \in 1..pos' : stream[i].kind \in ConstraintKinds =>
              stream[i].kind \in read.seen /\ Within(read.cons, stream[i])
        /\ opened = Options(read.cons)
    BY <1>1, <1>2, <2>2, <2>5, <2>6 DEF BlockInv
  <2>9. \A r \in staged' : r.branch \in read.cons["branches"] /\ AdmitType(r)
    BY <1>1, <1>5, <2>2 DEF BlockInv, HandsOver
  <2>10. phase' = "drain"
    BY <1>5 DEF HandsOver
  <2> QED BY <1>1, <1>2, <2>1, <2>4, <2>7, <2>8, <2>9, <2>10 DEF BlockInv
<1> QED BY <1>1, <1>4, <1>5

LEMMA EndKeepsBlock ==
    ASSUME WireTypes, BlockInv, DrainEnd \/ Seal
    PROVE  WireTypes' /\ BlockInv'
<1>1. /\ stream' = stream /\ closed' = closed /\ cons' = cons /\ headed' = headed /\ sent' = sent
      /\ pos' = pos /\ read' = read /\ opened' = opened /\ delivered' = delivered /\ staged' = staged
      /\ phase' \in {"drained", "sealed", "refused"} /\ phase \in {"drain", "drained"}
  BY DEF DrainEnd, Seal, writer
<1>2. phase' # "refused" => AtEnd /\ read.pending = 0
  BY DEF DrainEnd, Seal, BlockInv
<1>3. phase' = "sealed" => Sealable
  BY DEF DrainEnd, Seal
<1>4. WireTypes'
  BY <1>1 DEF WireTypes
<1>5. (AtEnd' <=> AtEnd) /\ (Sealable' <=> Sealable) /\ \A r : AdmitType(r)' <=> AdmitType(r)
  BY <1>1 DEF AtEnd, Sealable, AdmitBranch, AdmitType
<1> QED BY <1>1, <1>2, <1>3, <1>4, <1>5 DEF BlockInv

LEMMA BlockStarts == Init => WireTypes /\ BlockInv
<1> SUFFICES ASSUME Init PROVE WireTypes /\ BlockInv
  OBVIOUS
<1>1. NoConstraints \in [ConstraintKinds -> SUBSET STRING] /\ \A k \in ConstraintKinds : NoConstraints[k] = {}
  BY DEF NoConstraints
<1>2. /\ read \in Readers /\ read.seen = {} /\ read.cons = NoConstraints /\ read.pending = 0
      /\ read.err = ""
  BY <1>1 DEF Init, NewReader, Readers, Errors
<1>3. /\ stream = <<>> /\ pos = 0 /\ phase = "constraints" /\ staged = {} /\ delivered = <<>>
      /\ sent = <<>> /\ closed = FALSE /\ headed = FALSE /\ cons \in Declared
  BY DEF Init
<1>4. WireTypes
  <2>1. <<>> \in Seq(Record) /\ <<>> \in Seq(Payload) /\ <<>> \in Seq(ClaimRecords \cup ContentRecords)
    OBVIOUS
  <2>2. 0 \in 0..Len(<<>>)
    OBVIOUS
  <2> QED BY <1>2, <1>3, <2>1, <2>2 DEF WireTypes
<1>5. 1..pos = {}
  BY <1>3
<1> QED BY <1>1, <1>2, <1>3, <1>4, <1>5 DEF BlockInv

LEMMA BlockStep == WireTypes /\ BlockInv /\ [Next]_vars => WireTypes' /\ BlockInv'
<1> SUFFICES ASSUME WireTypes, BlockInv, [Next]_vars PROVE WireTypes' /\ BlockInv'
  OBVIOUS
<1>1. CASE UNCHANGED vars
  <2>1. Grows /\ sent' \in Seq(Payload)
    BY <1>1 DEF vars, writer, Grows, WireTypes
  <2> QED BY <2>1, GrowsKeepsBlock
<1>2. CASE \/ \E r \in Payload : Write(r) \/ WriteFails(r)
           \/ \E r \in Added : Relay(r)
           \/ \E i \in DOMAIN stream : Damage(i)
           \/ Close
  BY <1>2, StreamSteps, GrowsKeepsBlock
<1>3. CASE Read
  BY <1>3, ReadKeepsBlock, ReadEndKeepsBlock DEF Read
<1>4. CASE Drain \/ Seal
  BY <1>4, DrainKeepsBlock, EndKeepsBlock DEF Drain
<1> QED BY <1>1, <1>2, <1>3, <1>4 DEF Next

(* Holding what the block read, a sealed contribution is within every      *)
(* declaration: all of the stream is decoded.                              *)
LEMMA BlockImplies == WireTypes /\ BlockInv => WithinEveryDeclaration
<1> SUFFICES ASSUME WireTypes, BlockInv, phase = "sealed", NEW r \in staged
             PROVE  /\ {"branches", "referencable"} \subseteq {stream[i].kind : i \in Declarations}
                    /\ \A list \in DeclaredAs("branches") : r.branch \in list
                    /\ \A list \in DeclaredAs("referencable") :
                          RefsOf[r.key] \subseteq Readable(list, r.branch)
                    /\ TypeOf[r.key] \in Reserved =>
                          DeclaredAs("lifted") # {} /\ \A list \in DeclaredAs("lifted") : TypeOf[r.key] \in list
                    /\ r.branch \in Created =>
                          /\ DeclaredAs("creatable") # {}
                          /\ \A list \in DeclaredAs("creatable") : {r.branch, "$branches"} \cap list # {}
  BY DEF WithinEveryDeclaration
<1> DEFINE c == read.cons
<1>1. /\ pos = Len(stream) /\ DOMAIN stream = 1..pos /\ stream \in Seq(Record)
  BY DEF BlockInv, AtEnd, WireTypes
<1>2. /\ Required \subseteq read.seen /\ opened = Options(c)
      /\ \A k \in read.seen : \E i \in 1..pos : stream[i].kind = k
      /\ \A k \in ConstraintKinds \ read.seen : c[k] = {}
      /\ \A i \in 1..pos : stream[i].kind \in ConstraintKinds => Within(c, stream[i])
      /\ r.branch \in c["branches"] /\ AdmitType(r) /\ Sealable
  BY DEF BlockInv
<1>3. r.branch \in STRING /\ read.seen \subseteq ConstraintKinds
  BY DEF WireTypes, ClaimRecords, Readers
<1> HIDE DEF c
<1>4. /\ opened.referencable = c["referencable"] /\ opened.lifted = c["lifted"]
      /\ opened.creatable = c["creatable"]
  BY <1>2 DEF Options
<1>5. \A k \in read.seen : \E i \in Declarations : stream[i].kind = k
  BY <1>1, <1>2, <1>3 DEF Declarations
<1>6. \A k : \A list \in DeclaredAs(k) : \E i \in 1..pos :
         stream[i].kind = k /\ stream[i].list = list /\ k \in ConstraintKinds
  BY <1>1 DEF DeclaredAs, Declarations
<1>7. \A k : \A list \in DeclaredAs(k) :
         IF k = "referencable" THEN Readable(c["referencable"], r.branch) \subseteq Readable(list, r.branch)
         ELSE c[k] \subseteq list
  <2> SUFFICES ASSUME NEW k, NEW list \in DeclaredAs(k)
               PROVE  IF k = "referencable"
                      THEN Readable(c["referencable"], r.branch) \subseteq Readable(list, r.branch)
                      ELSE c[k] \subseteq list
    OBVIOUS
  <2>1. PICK i \in 1..pos : stream[i].kind = k /\ stream[i].list = list /\ k \in ConstraintKinds
    BY <1>6
  <2>2. Within(c, stream[i])
    BY <1>2, <2>1
  <2>3. CASE k = "referencable"
    BY <1>3, <2>1, <2>2, <2>3 DEF Within
  <2>4. CASE k # "referencable"
    BY <2>1, <2>2, <2>4 DEF Within
  <2> QED BY <2>3, <2>4
<1>8. \A k \in ConstraintKinds : c[k] # {} => DeclaredAs(k) # {}
  BY <1>2, <1>5, SMTT(40) DEF DeclaredAs
<1>9. {"branches", "referencable", "lifted", "creatable"} \subseteq ConstraintKinds
  BY DEF ConstraintKinds
<1>10. {"branches", "referencable"} \subseteq {stream[i].kind : i \in Declarations}
  BY <1>2, <1>5 DEF Required
<1>11. \A list \in DeclaredAs("branches") : r.branch \in list
  BY <1>2, <1>7
<1>12. \A list \in DeclaredAs("referencable") : RefsOf[r.key] \subseteq Readable(list, r.branch)
  BY <1>2, <1>4, <1>7 DEF Sealable
<1>13. ASSUME TypeOf[r.key] \in Reserved
       PROVE  DeclaredAs("lifted") # {} /\ \A list \in DeclaredAs("lifted") : TypeOf[r.key] \in list
  <2>1. TypeOf[r.key] \in c["lifted"]
    BY <1>2, <1>4, <1>13 DEF AdmitType
  <2> QED BY <1>7, <1>8, <1>9, <2>1
<1>14. ASSUME r.branch \in Created
       PROVE  /\ DeclaredAs("creatable") # {}
              /\ \A list \in DeclaredAs("creatable") : {r.branch, "$branches"} \cap list # {}
  <2>1. r.branch \in c["creatable"] \/ "$branches" \in c["creatable"]
    BY <1>2, <1>4, <1>14 DEF Created, Sealable, AdmitBranch
  <2> QED BY <1>7, <1>8, <1>9, <2>1
<1> QED BY <1>10, <1>11, <1>12, <1>13, <1>14

(***************************************************************************)
(* A sealed contribution keeps within every declaration its stream         *)
(* carried, whatever was declared, relayed, altered or lost on the way     *)
(* (readConstraint, WireReader.Next, DrainWire).                           *)
(***************************************************************************)
THEOREM SealedKeepsWithin == Spec => []WithinEveryDeclaration
<1>1. Spec => [](WireTypes /\ BlockInv)
  BY BlockStarts, BlockStep, PTL DEF Spec
<1> QED BY <1>1, BlockImplies, PTL

-----------------------------------------------------------------------------
(* What is sent and what is delivered *)

(* A record that arrives for one that was sent: its bytes may be others. *)
Same(a, b) == a.kind = b.kind /\ a.key = b.key /\ (b.kind = "claim" => a.branch = b.branch)

(* at says where on a stream w each record of s lies: in the order of s,   *)
(* altered or not, and no payload lies elsewhere.                          *)
Aligned(at, s, w) ==
    /\ at \in [1..Len(s) -> 1..Len(w)]
    /\ \A m, n \in 1..Len(s) : m < n => at[m] < at[n]
    /\ \A n \in 1..Len(s) : w[at[n]] = Unknown \/ Same(w[at[n]], s[n])
    /\ \A i \in 1..Len(w) : w[i].kind \in PayloadKinds => \E n \in 1..Len(s) : at[n] = i

(* d is what lies in the first t records of the stream. *)
Follows(at, s, w, d, t) ==
    /\ \A n \in 1..Len(s) : n <= Len(d) <=> at[n] <= t
    /\ \A n \in 1..Len(d) : d[n] = w[at[n]]
    /\ \A i \in 1..t : w[i] # Unknown

(* The records delivered are the ones taken, as they lie on the stream,    *)
(* until the drain is refused; the claims among them are staged.           *)
DeliveryInv ==
    /\ \E at \in [1..Len(sent) -> 1..Len(stream)] :
          /\ Aligned(at, sent, stream)
          /\ phase # "refused" => Follows(at, sent, stream, delivered, Taken)
    /\ Len(delivered) <= Len(sent)
    /\ \A n \in 1..Len(delivered) :
          /\ Same(delivered[n], sent[n])
          /\ delivered[n].kind = "content" => delivered[n].bytes = delivered[n].key
          /\ phase # "refused" /\ delivered[n].kind = "claim" => delivered[n] \in staged

LEMMA TakenIs ==
    ASSUME WireTypes, BlockInv, phase # "refused"
    PROVE  Taken \in 0..pos /\ (read.pending = 0 => Taken = pos) /\ (read.pending # 0 => Taken = pos - 1)
<1>1. pos \in Nat /\ read.pending \in Nat
  BY DEF WireTypes, Readers
<1>2. read.pending # 0 => read.pending = pos
  BY DEF BlockInv
<1> QED BY <1>1, <1>2 DEF Taken

(* A stream that grows beyond what is read, with the records sent in other *)
(* places beyond it, is followed as before.                                *)
LEMMA FollowsOn ==
    ASSUME NEW s, NEW w, NEW d, NEW t \in Nat, NEW at, NEW s2, NEW w2, NEW at2,
           Len(s) \in Nat, Len(s2) \in Nat, Len(d) \in Nat, Len(w) \in Nat, Len(w2) \in Nat,
           at \in [1..Len(s) -> 1..Len(w)], at2 \in [1..Len(s2) -> 1..Len(w2)],
           Len(d) <= Len(s), Len(s) <= Len(s2),
           Follows(at, s, w, d, t),
           \A i \in 1..t : w2[i] = w[i],
           \A n \in 1..Len(s) : at2[n] = at[n] \/ (at[n] > t /\ at2[n] > t),
           \A n \in 1..Len(s2) : n > Len(s) => at2[n] > t
    PROVE  Follows(at2, s2, w2, d, t)
<1>1. ASSUME NEW n \in 1..Len(s2) PROVE n <= Len(d) <=> at2[n] <= t
  <2>1. at2[n] \in Nat
    OBVIOUS
  <2>2. CASE n \in 1..Len(s)
    <3>1. at[n] \in Nat /\ (n <= Len(d) <=> at[n] <= t)
      BY <2>2 DEF Follows
    <3> QED BY <2>1, <2>2, <3>1
  <2>3. CASE n > Len(s)
    BY <2>1, <2>3
  <2> QED BY <2>2, <2>3
<1>2. ASSUME NEW n \in 1..Len(d) PROVE d[n] = w2[at2[n]]
  <2>1. n \in 1..Len(s) /\ n <= Len(d)
    OBVIOUS
  <2>2. at[n] \in 1..t /\ d[n] = w[at[n]]
    BY <2>1 DEF Follows
  <2> QED BY <2>1, <2>2
<1>3. \A i \in 1..t : w2[i] # Unknown
  BY DEF Follows
<1> QED BY <1>1, <1>2, <1>3 DEF Follows

(* The records sent move on a growing stream only where it is not read. *)
Moves(at, at2) ==
    /\ Aligned(at2, sent', stream')
    /\ \A n \in 1..Len(sent) : at2[n] = at[n] \/ (at[n] > pos /\ at2[n] > pos)
    /\ \A n \in 1..Len(sent') : n > Len(sent) => at2[n] > pos

LEMMA GrowsKeepsDelivery ==
    ASSUME WireTypes, BlockInv, DeliveryInv, Grows, sent' \in Seq(Payload),
           Len(sent) <= Len(sent'), \A n \in 1..Len(sent) : sent'[n] = sent[n],
           \A at : Aligned(at, sent, stream) => \E at2 : Moves(at, at2)
    PROVE  DeliveryInv'
<1>1. /\ pos' = pos /\ read' = read /\ phase' = phase /\ delivered' = delivered /\ staged' = staged
      /\ Taken' = Taken
  BY DEF Grows, receiver, Taken
<1>2. /\ Len(sent) \in Nat /\ Len(sent') \in Nat /\ Len(stream) \in Nat /\ Len(stream') \in Nat
      /\ Len(delivered) \in Nat /\ pos \in Nat
      /\ \A i \in 1..pos : stream'[i] = stream[i]
  BY DEF WireTypes, Grows
<1>3. PICK at : /\ Aligned(at, sent, stream)
                /\ phase # "refused" => Follows(at, sent, stream, delivered, Taken)
  BY DEF DeliveryInv
<1>4. PICK at2 : Moves(at, at2)
  BY <1>3
<1>5. at \in [1..Len(sent) -> 1..Len(stream)] /\ at2 \in [1..Len(sent') -> 1..Len(stream')]
      /\ Aligned(at2, sent', stream')
  BY <1>3, <1>4 DEF Aligned, Moves
<1>6. Len(delivered) <= Len(sent)
  BY DEF DeliveryInv
<1>7. ASSUME phase # "refused" PROVE Follows(at2, sent', stream', delivered, Taken)
  <2>1. Taken \in 0..pos
    BY <1>7, TakenIs
  <2>2. Taken \in Nat /\ \A i \in 1..Taken : stream'[i] = stream[i]
    BY <1>2, <2>1
  <2>3. \A n \in 1..Len(sent) : at2[n] = at[n] \/ (at[n] > Taken /\ at2[n] > Taken)
    <3>1. \A n \in 1..Len(sent) : at[n] \in Nat /\ at2[n] \in Nat
      BY <1>2, <1>5
    <3> QED BY <1>2, <1>4, <2>1, <3>1 DEF Moves
  <2>4. \A n \in 1..Len(sent') : n > Len(sent) => at2[n] > Taken
    <3>1. \A n \in 1..Len(sent') : at2[n] \in Nat
      <4>1. 1..Len(stream') \subseteq Nat
        BY <1>2
      <4> QED BY <1>5, <4>1
    <3> QED BY <1>2, <1>4, <2>1, <3>1 DEF Moves
  <2>5. Follows(at, sent, stream, delivered, Taken)
    BY <1>3, <1>7
  <2> QED BY <1>2, <1>5, <1>6, <2>2, <2>3, <2>4, <2>5, FollowsOn
<1>8. \A n \in 1..Len(delivered) : n \in 1..Len(sent)
  BY <1>2, <1>6
<1>9. Len(delivered) <= Len(sent')
  BY <1>2, <1>6
<1>10. \E a \in [1..Len(sent') -> 1..Len(stream')] :
          /\ Aligned(a, sent', stream')
          /\ phase # "refused" => Follows(a, sent', stream', delivered, Taken)
  BY <1>5, <1>7
<1> QED BY <1>1, <1>8, <1>9, <1>10 DEF DeliveryInv

LEMMA WriteKeepsDelivery ==
    ASSUME WireTypes, BlockInv, DeliveryInv, NEW r \in Payload, Write(r)
    PROVE  DeliveryInv'
<1>1. /\ Grows /\ sent' = Append(sent, r) /\ Len(stream') > Len(stream)
      /\ stream'[Len(stream')] = r
      /\ \A i \in 1..Len(stream) : stream'[i] = stream[i]
      /\ \A i \in (Len(stream) + 1)..(Len(stream') - 1) : stream'[i].kind \notin PayloadKinds
  BY WriteGrows
<1>2. /\ Len(sent) \in Nat /\ Len(stream) \in Nat /\ Len(stream') \in Nat /\ pos \in 0..Len(stream)
      /\ stream' \in Seq(Record)
  BY <1>1 DEF WireTypes, Grows
<1>3. /\ sent' \in Seq(Payload) /\ Len(sent') = Len(sent) + 1 /\ sent'[Len(sent) + 1] = r
      /\ \A n \in 1..Len(sent) : sent'[n] = sent[n]
  BY <1>1 DEF WireTypes
<1>4. ASSUME NEW at, Aligned(at, sent, stream) PROVE \E at2 : Moves(at, at2)
  <2> DEFINE a2 == [n \in 1..(Len(sent) + 1) |-> IF n = Len(sent) + 1 THEN Len(stream') ELSE at[n]]
  <2>1. at \in [1..Len(sent) -> 1..Len(stream)]
    BY <1>4 DEF Aligned
  <2>2. \A n \in 1..(Len(sent) + 1) : n = Len(sent) + 1 \/ n \in 1..Len(sent)
    BY <1>2
  <2>3. /\ a2 \in [1..Len(sent') -> 1..Len(stream')]
        /\ a2[Len(sent) + 1] = Len(stream')
        /\ \A n \in 1..Len(sent) : a2[n] = at[n] /\ at[n] \in 1..Len(stream)
    <3>1. \A n \in 1..Len(sent) : at[n] \in 1..Len(stream) /\ at[n] \in 1..Len(stream')
      BY <1>1, <1>2, <2>1
    <3>2. Len(stream') \in 1..Len(stream') /\ Len(sent) + 1 \in 1..(Len(sent) + 1)
          /\ \A n \in 1..Len(sent) : n \in 1..(Len(sent) + 1) /\ n # Len(sent) + 1
      BY <1>1, <1>2
    <3> QED BY <1>3, <2>2, <3>1, <3>2
  <2> HIDE DEF a2
  <2>4. \A m, n \in 1..Len(sent') : m < n => a2[m] < a2[n]
    <3> SUFFICES ASSUME NEW m \in 1..Len(sent'), NEW n \in 1..Len(sent'), m < n PROVE a2[m] < a2[n]
      OBVIOUS
    <3>1. m \in 1..Len(sent)
      BY <1>2, <1>3
    <3>2. CASE n = Len(sent) + 1
      BY <1>1, <1>2, <2>3, <3>1, <3>2
    <3>3. CASE n \in 1..Len(sent)
      BY <1>4, <2>3, <3>1, <3>3 DEF Aligned
    <3> QED BY <1>3, <2>2, <3>2, <3>3
  <2>5. \A n \in 1..Len(sent') : stream'[a2[n]] = Unknown \/ Same(stream'[a2[n]], sent'[n])
    <3>1. Same(r, r)
      BY DEF Same
    <3>2. \A n \in 1..Len(sent) : stream'[a2[n]] = stream[at[n]]
      BY <1>1, <2>3
    <3> QED BY <1>1, <1>3, <1>4, <2>2, <2>3, <3>1, <3>2 DEF Aligned
  <2>6. ASSUME NEW i \in 1..Len(stream'), stream'[i].kind \in PayloadKinds
        PROVE  \E n \in 1..Len(sent') : a2[n] = i
    <3>1. i \in 1..Len(stream) \/ i = Len(stream') \/ i \in (Len(stream) + 1)..(Len(stream') - 1)
      BY <1>2
    <3>2. CASE i \in 1..Len(stream)
      <4>1. PICK n \in 1..Len(sent) : at[n] = i
        BY <1>1, <1>4, <2>6, <3>2 DEF Aligned
      <4> QED BY <1>2, <1>3, <2>3, <4>1
    <3>3. CASE i = Len(stream')
      BY <1>2, <1>3, <2>3, <3>3
    <3> QED BY <1>1, <2>6, <3>1, <3>2, <3>3
  <2>7. \A n \in 1..Len(sent') : n > Len(sent) => a2[n] > pos
    <3>1. Len(stream') > pos
      BY <1>1, <1>2
    <3> QED BY <1>2, <1>3, <2>2, <2>3, <3>1
  <2>8. Moves(at, a2)
    BY <2>3, <2>4, <2>5, <2>6, <2>7 DEF Moves, Aligned
  <2> QED BY <2>8
<1>5. Len(sent) <= Len(sent')
  BY <1>2, <1>3
<1> QED BY <1>1, <1>3, <1>4, <1>5, GrowsKeepsDelivery

LEMMA WriteFailsKeepsDelivery ==
    ASSUME WireTypes, BlockInv, DeliveryInv, NEW r \in Payload, WriteFails(r)
    PROVE  DeliveryInv'
<1>1. /\ Grows /\ sent' = sent
      /\ \A i \in 1..Len(stream) : stream'[i] = stream[i]
      /\ \A i \in (Len(stream) + 1)..Len(stream') : stream'[i].kind \notin PayloadKinds
  BY WriteFailsGrows
<1>2. /\ Len(sent) \in Nat /\ Len(stream) \in Nat /\ Len(stream') \in Nat /\ Len(stream) <= Len(stream')
      /\ sent \in Seq(Payload)
  BY <1>1 DEF WireTypes, Grows
<1>3. ASSUME NEW at, Aligned(at, sent, stream) PROVE Moves(at, at)
  <2>1. at \in [1..Len(sent) -> 1..Len(stream)]
    BY <1>3 DEF Aligned
  <2>2. at \in [1..Len(sent) -> 1..Len(stream')] /\ \A n \in 1..Len(sent) : stream'[at[n]] = stream[at[n]]
    <3>1. 1..Len(stream) \subseteq 1..Len(stream')
      BY <1>2
    <3> QED BY <1>1, <2>1, <3>1
  <2>3. \A i \in 1..Len(stream') : stream'[i].kind \in PayloadKinds =>
           i \in 1..Len(stream) /\ stream[i].kind \in PayloadKinds
    <3>1. \A i \in 1..Len(stream') : i \in 1..Len(stream) \/ i \in (Len(stream) + 1)..Len(stream')
      BY <1>2
    <3> QED BY <1>1, <3>1
  <2>4. Aligned(at, sent, stream')
    BY <1>3, <2>2, <2>3 DEF Aligned
  <2>5. \A n \in 1..Len(sent) : ~(n > Len(sent))
    BY <1>2
  <2> QED BY <1>1, <2>4, <2>5 DEF Moves
<1>4. Len(sent) <= Len(sent') /\ \A n \in 1..Len(sent) : sent'[n] = sent[n]
  BY <1>1, <1>2
<1> QED BY <1>1, <1>2, <1>3, <1>4, GrowsKeepsDelivery

LEMMA RelayKeepsDelivery ==
    ASSUME WireTypes, BlockInv, DeliveryInv, NEW r \in Added, Relay(r)
    PROVE  DeliveryInv'
<1>1. /\ Grows /\ sent' = sent /\ Len(stream') = Len(stream) + 1
      /\ \/ /\ stream'[Len(stream')] = r
            /\ \A i \in 1..Len(stream) : stream'[i] = stream[i]
         \/ /\ pos = 0 /\ stream'[1] = r
            /\ \A i \in 1..Len(stream) : stream'[i + 1] = stream[i]
  BY RelayGrows
<1>2. Len(sent) \in Nat /\ Len(stream) \in Nat /\ sent \in Seq(Payload)
  BY DEF WireTypes
<1>3. r.kind \notin PayloadKinds
  BY WireAssumption DEF Declarable, ConstraintKinds, PayloadKinds
<1>4. \A n \in 1..Len(sent) : ~(n > Len(sent))
  BY <1>2
<1>5. ASSUME NEW at, Aligned(at, sent, stream) PROVE \E at2 : Moves(at, at2)
  <2>1. at \in [1..Len(sent) -> 1..Len(stream)]
    BY <1>5 DEF Aligned
  <2>2. CASE stream'[Len(stream')] = r /\ \A i \in 1..Len(stream) : stream'[i] = stream[i]
    <3>1. at \in [1..Len(sent) -> 1..Len(stream')] /\ \A n \in 1..Len(sent) : stream'[at[n]] = stream[at[n]]
      <4>1. 1..Len(stream) \subseteq 1..Len(stream')
        BY <1>1, <1>2
      <4> QED BY <2>1, <2>2, <4>1
    <3>2. \A i \in 1..Len(stream') : stream'[i].kind \in PayloadKinds =>
             i \in 1..Len(stream) /\ stream[i].kind \in PayloadKinds
      <4>1. \A i \in 1..Len(stream') : i \in 1..Len(stream) \/ i = Len(stream')
        BY <1>1, <1>2
      <4> QED BY <1>3, <2>2, <4>1
    <3>3. Aligned(at, sent, stream')
      BY <1>5, <3>1, <3>2 DEF Aligned
    <3>4. Moves(at, at)
      BY <1>1, <1>4, <3>3 DEF Moves
    <3> QED BY <3>4
  <2>3. CASE pos = 0 /\ stream'[1] = r /\ \A i \in 1..Len(stream) : stream'[i + 1] = stream[i]
    <3> DEFINE a2 == [n \in 1..Len(sent) |-> at[n] + 1]
    <3>1. \A n \in 1..Len(sent) : at[n] \in 1..Len(stream) /\ a2[n] = at[n] + 1 /\ a2[n] \in 1..Len(stream')
      BY <1>1, <1>2, <2>1
    <3>2. a2 \in [1..Len(sent) -> 1..Len(stream')]
      BY <3>1
    <3> HIDE DEF a2
    <3>3. \A m, n \in 1..Len(sent) : m < n => a2[m] < a2[n]
      <4>1. \A m, n \in 1..Len(sent) : m < n => at[m] < at[n]
        BY <1>5 DEF Aligned
      <4> QED BY <1>2, <3>1, <4>1, SMTT(40)
    <3>4. \A n \in 1..Len(sent) : stream'[a2[n]] = stream[at[n]]
      BY <2>3, <3>1
    <3>5. ASSUME NEW i \in 1..Len(stream'), stream'[i].kind \in PayloadKinds
          PROVE  \E n \in 1..Len(sent) : a2[n] = i
      <4>1. i # 1
        BY <1>3, <2>3, <3>5
      <4>2. i - 1 \in 1..Len(stream) /\ (i - 1) + 1 = i
        BY <1>1, <1>2, <4>1
      <4>3. stream[i - 1].kind \in PayloadKinds
        <5>1. stream'[(i - 1) + 1] = stream[i - 1]
          BY <2>3, <4>2
        <5> QED BY <3>5, <4>2, <5>1
      <4>4. PICK n \in 1..Len(sent) : at[n] = i - 1
        BY <1>5, <4>2, <4>3 DEF Aligned
      <4> QED BY <3>1, <4>2, <4>4
    <3>6. Aligned(a2, sent, stream')
      BY <1>5, <3>2, <3>3, <3>4, <3>5 DEF Aligned
    <3>7. \A n \in 1..Len(sent) : at[n] > pos /\ a2[n] > pos
      BY <1>2, <2>3, <3>1
    <3>8. Moves(at, a2)
      BY <1>1, <1>4, <3>6, <3>7 DEF Moves
    <3> QED BY <3>8
  <2> QED BY <1>1, <2>2, <2>3
<1>6. Len(sent) <= Len(sent') /\ \A n \in 1..Len(sent) : sent'[n] = sent[n]
  BY <1>1, <1>2
<1> QED BY <1>1, <1>2, <1>5, <1>6, GrowsKeepsDelivery

LEMMA DamageKeepsDelivery ==
    ASSUME WireTypes, BlockInv, DeliveryInv, NEW i \in DOMAIN stream, Damage(i)
    PROVE  DeliveryInv'
<1>1. /\ Grows /\ sent' = sent /\ Len(stream') = Len(stream) /\ i > pos
      /\ \A j \in 1..Len(stream) : j # i => stream'[j] = stream[j]
      /\ \/ stream'[i] = Unknown
         \/ /\ stream[i].kind \in PayloadKinds
            /\ stream'[i].kind = stream[i].kind /\ stream'[i].key = stream[i].key
            /\ stream[i].kind = "claim" => stream'[i].branch = stream[i].branch
  BY DamageGrows
<1>2. Len(sent) \in Nat /\ sent \in Seq(Payload) /\ Len(stream) \in Nat
  BY DEF WireTypes
<1>3. Unknown.kind \notin PayloadKinds
  BY DEF Unknown, PayloadKinds
<1>4. ASSUME NEW at, Aligned(at, sent, stream) PROVE Moves(at, at)
  <2>1. at \in [1..Len(sent) -> 1..Len(stream)]
    BY <1>4 DEF Aligned
  <2>2. ASSUME NEW n \in 1..Len(sent) PROVE stream'[at[n]] = Unknown \/ Same(stream'[at[n]], sent[n])
    <3>1. at[n] \in 1..Len(stream) /\ (stream[at[n]] = Unknown \/ Same(stream[at[n]], sent[n]))
      BY <1>4, <2>1 DEF Aligned
    <3>2. CASE at[n] # i
      BY <1>1, <3>1, <3>2
    <3>3. CASE at[n] = i /\ stream'[i] # Unknown
      <4>1. stream[i] # Unknown
        BY <1>1, <1>3, <3>3
      <4> QED BY <1>1, <3>1, <3>3, <4>1 DEF Same
    <3> QED BY <3>2, <3>3
  <2>3. \A j \in 1..Len(stream) : stream'[j].kind \in PayloadKinds => stream[j].kind \in PayloadKinds
    BY <1>1, <1>3
  <2>4. Aligned(at, sent, stream')
    BY <1>1, <1>4, <2>1, <2>2, <2>3 DEF Aligned
  <2>5. \A n \in 1..Len(sent) : ~(n > Len(sent))
    BY <1>2
  <2> QED BY <1>1, <2>4, <2>5 DEF Moves
<1>5. Len(sent) <= Len(sent') /\ \A n \in 1..Len(sent) : sent'[n] = sent[n]
  BY <1>1, <1>2
<1> QED BY <1>1, <1>2, <1>4, <1>5, GrowsKeepsDelivery

(* A step that leaves the stream and the payload alone. *)
LEMMA StreamStays ==
    ASSUME WireTypes, BlockInv, DeliveryInv, Grows, stream' = stream, sent' = sent
    PROVE  DeliveryInv'
<1>1. Len(sent) \in Nat /\ sent \in Seq(Payload)
  BY DEF WireTypes
<1>2. ASSUME NEW at, Aligned(at, sent, stream) PROVE Moves(at, at)
  <2>1. \A n \in 1..Len(sent) : ~(n > Len(sent))
    BY <1>1
  <2> QED BY <1>2, <2>1 DEF Moves
<1> QED BY <1>1, <1>2, GrowsKeepsDelivery

(* A record that is neither payload nor of a kind unknown lies where none  *)
(* was sent: a reader may pass it.                                         *)
LEMMA FollowsPast ==
    ASSUME NEW s \in Seq(Payload), NEW w \in Seq(Record), NEW d, NEW t \in Nat, NEW at,
           Len(d) \in Nat, Aligned(at, s, w), Follows(at, s, w, d, t),
           w[t + 1].kind \notin PayloadKinds, w[t + 1] # Unknown
    PROVE  Follows(at, s, w, d, t + 1)
<1>1. /\ at \in [1..Len(s) -> 1..Len(w)] /\ Len(s) \in Nat /\ Len(w) \in Nat
  BY DEF Aligned
<1>2. \A n \in 1..Len(s) : s[n].kind \in PayloadKinds
  <2>1. \A n \in 1..Len(s) : s[n] \in ClaimRecords \cup ContentRecords
    BY WireAssumption
  <2> QED BY <2>1 DEF ClaimRecords, ContentRecords, PayloadKinds
<1>3. \A n \in 1..Len(s) : at[n] # t + 1
  BY <1>2 DEF Aligned, Same
<1>4. \A n \in 1..Len(s) : at[n] \in Nat
  BY <1>1
<1>5. \A n \in 1..Len(s) : n <= Len(d) <=> at[n] <= t + 1
  BY <1>3, <1>4 DEF Follows
<1>6. \A i \in 1..(t + 1) : i \in 1..t \/ i = t + 1
  OBVIOUS
<1> QED BY <1>5, <1>6 DEF Follows

(* The payload record that lies next is the next one that was sent. *)
LEMMA FollowsNext ==
    ASSUME NEW s \in Seq(Payload), NEW w \in Seq(Record), NEW d \in Seq(ClaimRecords \cup ContentRecords),
           NEW t \in Nat, NEW at,
           Len(d) <= Len(s), Aligned(at, s, w), Follows(at, s, w, d, t),
           t + 1 \in 1..Len(w), w[t + 1].kind \in PayloadKinds
    PROVE  /\ Len(d) + 1 <= Len(s) /\ Same(w[t + 1], s[Len(d) + 1])
           /\ Follows(at, s, w, Append(d, w[t + 1]), t + 1)
<1> DEFINE q == Len(d) + 1
           x == w[t + 1]
<1>1. /\ at \in [1..Len(s) -> 1..Len(w)] /\ Len(s) \in Nat /\ Len(w) \in Nat /\ Len(d) \in Nat
  BY DEF Aligned
<1>2. x # Unknown
  BY DEF Unknown, PayloadKinds
<1>3. PICK n \in 1..Len(s) : at[n] = t + 1
  BY DEF Aligned
<1>4. \A m \in 1..Len(s) : at[m] \in Nat /\ (m <= Len(d) <=> at[m] <= t)
  BY <1>1 DEF Follows
<1>5. ~(n <= Len(d))
  BY <1>3, <1>4
<1>6. q \in 1..Len(s)
  BY <1>1, <1>3, <1>5
<1>7. n = q
  <2>1. CASE n > q
    <3>1. at[q] < at[n]
      BY <1>6, <2>1 DEF Aligned
    <3>2. at[q] <= t
      BY <1>3, <1>4, <1>6, <3>1
    <3> QED BY <1>1, <1>4, <1>6, <3>2
  <2> QED BY <1>1, <1>3, <1>5, <2>1
<1>8. Same(x, s[q])
  BY <1>2, <1>3, <1>7 DEF Aligned
<1> DEFINE e == Append(d, x)
<1>9. x \in ClaimRecords \cup ContentRecords
  BY KindTells DEF PayloadKinds
<1> HIDE DEF x
<1>10. Len(e) = q /\ e[q] = x /\ \A m \in 1..Len(d) : e[m] = d[m]
  BY <1>1, <1>9
<1> HIDE DEF e
<1>11. ASSUME NEW m \in 1..Len(s) PROVE m <= Len(e) <=> at[m] <= t + 1
  <2>1. at[m] \in Nat /\ (m <= Len(d) <=> at[m] <= t)
    BY <1>4
  <2>2. CASE m <= Len(d)
    BY <1>1, <1>10, <2>1, <2>2
  <2>3. CASE m = q
    BY <1>1, <1>3, <1>7, <1>10, <2>3
  <2>4. CASE m > q
    <3>1. at[q] < at[m] /\ at[q] = t + 1
      BY <1>3, <1>6, <1>7, <2>4 DEF Aligned
    <3> QED BY <1>1, <1>10, <2>1, <2>4, <3>1
  <2>5. m <= Len(d) \/ m = q \/ m > q
    BY <1>1
  <2> QED BY <2>2, <2>3, <2>4, <2>5
<1>12. ASSUME NEW m \in 1..Len(e) PROVE e[m] = w[at[m]]
  <2>1. m \in 1..Len(d) \/ m = q
    BY <1>1, <1>10
  <2>2. \A k \in 1..Len(d) : d[k] = w[at[k]]
    BY DEF Follows
  <2> QED BY <1>3, <1>7, <1>10, <2>1, <2>2 DEF x
<1>13. \A i \in 1..(t + 1) : w[i] # Unknown
  <2>1. \A i \in 1..(t + 1) : i \in 1..t \/ i = t + 1
    OBVIOUS
  <2> QED BY <1>2, <2>1 DEF Follows, x
<1>14. Follows(at, s, w, e, t + 1)
  BY <1>11, <1>12, <1>13 DEF Follows
<1>15. q <= Len(s)
  BY <1>1, <1>6
<1> QED BY <1>8, <1>14, <1>15 DEF e, x

(* A reader that hands nothing over: it gives up, or passes at most one    *)
(* record, no payload.                                                     *)
LEMMA PassingKeepsDelivery ==
    ASSUME WireTypes, BlockInv, DeliveryInv, stream' = stream, sent' = sent, delivered' = delivered,
           staged' = staged, phase # "refused",
           phase' # "refused" =>
              \/ Taken' = Taken
              \/ /\ Taken' = Taken + 1 /\ stream[Taken + 1].kind \notin PayloadKinds
                 /\ stream[Taken + 1] # Unknown
    PROVE  DeliveryInv'
<1>1. PICK at \in [1..Len(sent) -> 1..Len(stream)] :
         Aligned(at, sent, stream) /\ Follows(at, sent, stream, delivered, Taken)
  BY DEF DeliveryInv
<1>2. Taken \in Nat
  <2>1. Taken \in 0..pos
    BY TakenIs
  <2> QED BY <2>1 DEF WireTypes
<1>3. /\ sent \in Seq(Payload) /\ stream \in Seq(Record) /\ Len(delivered) \in Nat
  BY DEF WireTypes
<1>4. phase' # "refused" => Follows(at, sent, stream, delivered, Taken')
  BY <1>1, <1>2, <1>3, FollowsPast
<1> QED BY <1>1, <1>4 DEF DeliveryInv

LEMMA ReadKeepsDelivery ==
    ASSUME WireTypes, BlockInv, DeliveryInv, Read
    PROVE  DeliveryInv'
<1>1. /\ stream' = stream /\ sent' = sent /\ delivered' = delivered /\ staged' = staged
      /\ phase = "constraints" /\ pos \in Nat /\ read.pending = 0 /\ read \in Readers
  <2>1. /\ stream' = stream /\ sent' = sent /\ delivered' = delivered /\ staged' = staged
        /\ phase = "constraints"
    BY DEF Read, ReadConstraints, ReadConstraintsEnd, EndOfBlock, Opens, writer
  <2>2. pos \in Nat /\ read \in Readers
    BY DEF WireTypes
  <2> QED BY <2>1, <2>2 DEF BlockInv
<1>2. WireTypes' /\ BlockInv'
  BY ReadKeepsBlock, ReadEndKeepsBlock DEF Read
<1>3. Taken = pos
  BY <1>1 DEF Taken
<1>4. (read'.pending = 0 => Taken' = pos') /\ (read'.pending # 0 => Taken' = pos' - 1)
  BY DEF Taken
<1>5. CASE ReadConstraintsEnd
  <2>1. pos' = pos /\ AtEnd
    BY <1>5 DEF ReadConstraintsEnd, EndOfBlock
  <2>2. read'.pending = 0
    <3> DEFINE y == [read EXCEPT !.headed = TRUE]
    <3>1. y \in Readers /\ y.pending = 0
      BY <1>1 DEF WireTypes, Readers
    <3>2. read' = Settled(y)
      BY <1>5 DEF ReadConstraintsEnd, Opens
    <3> HIDE DEF y
    <3> QED BY <3>1, <3>2, SettledIs
  <2> QED BY <1>1, <1>3, <1>4, <2>1, <2>2, PassingKeepsDelivery
<1>6. CASE ReadConstraints
  <2> DEFINE d == stream[pos + 1]
  <2>1. pos' = pos + 1
    BY <1>6 DEF ReadConstraints
  <2>2. CASE phase' = "drain"
    <3>1. read'.pending # 0
      <4>1. d.kind \notin ConstraintKinds
        BY <1>1, <1>6, <2>2 DEF ReadConstraints, Decoded, Opens, ConstraintKinds
      <4> DEFINE rd == [read EXCEPT !.headed = TRUE]
                 y == [rd EXCEPT !.pending = pos + 1]
                 z == [rd EXCEPT !.err = "wire"]
      <4>3. rd \in Readers /\ rd.pending = 0
        BY <1>1 DEF Readers
      <4>4. pos + 1 \in Nat
        BY <1>1
      <4> HIDE DEF rd
      <4>5. y \in Readers /\ y.pending = pos + 1 /\ z.err = "wire"
        BY <4>3, <4>4 DEF Readers
      <4> HIDE DEF y, z
      <4>6. Opens(z) \/ Opens(Settled(y))
        BY <1>6, <4>1 DEF ReadConstraints, Decoded, rd, y, z
      <4>7. ~Opens(z)
        BY <2>2, <4>5 DEF Opens
      <4>8. read' = Settled(y)
        BY <4>6, <4>7 DEF Opens
      <4>9. Settled(y).pending = y.pending
        BY <4>5, SettledIs
      <4> QED BY <1>1, <4>5, <4>8, <4>9
    <3>2. Taken' = pos
      <4>1. Taken' = pos' - 1
        BY <1>4, <2>2, <3>1
      <4> QED BY <1>1, <2>1, <4>1
    <3> QED BY <1>1, <1>3, <3>2, PassingKeepsDelivery
  <2>3. CASE phase' = "constraints"
    <3>1. read'.pending = 0 /\ \A i \in 1..pos' : stream'[i].kind \in ConstraintKinds
      BY <1>2, <2>3 DEF BlockInv
    <3>2. d.kind \in ConstraintKinds
      <4>1. pos + 1 \in 1..pos'
        BY <1>1, <2>1
      <4> QED BY <1>1, <3>1, <4>1
    <3>3. d.kind \notin PayloadKinds /\ d # Unknown
      BY <3>2 DEF ConstraintKinds, PayloadKinds, Unknown
    <3>4. Taken' = Taken + 1
      BY <1>3, <1>4, <2>1, <2>3, <3>1
    <3> QED BY <1>1, <1>3, <3>3, <3>4, PassingKeepsDelivery
  <2>4. CASE phase' = "refused"
    BY <1>1, <2>4, PassingKeepsDelivery
  <2>5. phase' \in {"drain", "constraints", "refused"}
    BY <1>1, <1>6 DEF ReadConstraints, Opens
  <2> QED BY <2>2, <2>3, <2>4, <2>5
<1> QED BY <1>5, <1>6 DEF Read

LEMMA EndKeepsDelivery ==
    ASSUME WireTypes, BlockInv, DeliveryInv, DrainEnd \/ Seal
    PROVE  DeliveryInv'
<1>1. /\ stream' = stream /\ sent' = sent /\ delivered' = delivered /\ staged' = staged
      /\ pos' = pos /\ read' = read /\ phase # "refused"
  BY DEF DrainEnd, Seal, writer
<1>2. Taken' = Taken
  BY <1>1 DEF Taken
<1> QED BY <1>1, <1>2, PassingKeepsDelivery

LEMMA DrainKeepsDelivery ==
    ASSUME WireTypes, BlockInv, DeliveryInv,
           DrainRefused \/ DrainContent \/ DrainContentFails \/ DrainClaim
    PROVE  DeliveryInv'
<1>1. /\ phase = "drain" /\ CanRead /\ Advance /\ stream' = stream /\ sent' = sent
      /\ Refuses \/ HandsOver
  BY DrainIs DEF writer
<1>2. /\ Taken \in Nat /\ Taken + 1 \in 1..Len(stream) /\ pos' = Taken + 1
      /\ Arriving = stream[Taken + 1] /\ Arriving \in Record
  BY <1>1, ArrivingIs
<1>3. CASE Refuses
  BY <1>1, <1>3, PassingKeepsDelivery DEF Refuses
<1>4. CASE HandsOver
  <2> DEFINE x == stream[Taken + 1]
             d == delivered
  <2>1. /\ phase' = "drain" /\ delivered' = Append(d, x) /\ x.kind \in PayloadKinds
        /\ x.kind = "content" => x.bytes = x.key
        /\ staged \subseteq staged' /\ (x.kind = "claim" => x \in staged')
    BY <1>2, <1>4, RefusalIs DEF HandsOver
  <2>2. Taken' = Taken + 1
    <3>1. read'.pending = 0
      BY <1>4 DEF HandsOver, WireTypes, Readers
    <3> QED BY <1>2, <3>1 DEF Taken
  <2>3. /\ sent \in Seq(Payload) /\ stream \in Seq(Record) /\ d \in Seq(ClaimRecords \cup ContentRecords)
        /\ x \in ClaimRecords \cup ContentRecords
    BY <1>2, <2>1, KindTells DEF WireTypes, PayloadKinds
  <2>4. PICK at \in [1..Len(sent) -> 1..Len(stream)] :
           Aligned(at, sent, stream) /\ Follows(at, sent, stream, d, Taken)
    BY <1>1 DEF DeliveryInv
  <2>5. Len(d) <= Len(sent)
    BY DEF DeliveryInv
  <2>6. /\ Len(d) + 1 <= Len(sent) /\ Same(x, sent[Len(d) + 1])
        /\ Follows(at, sent, stream, Append(d, x), Taken + 1)
    BY <1>2, <2>1, <2>3, <2>4, <2>5, FollowsNext
  <2>7. /\ \A n \in 1..Len(d) : Same(d[n], sent[n])
        /\ \A n \in 1..Len(d) : d[n].kind = "content" => d[n].bytes = d[n].key
        /\ \A n \in 1..Len(d) : d[n].kind = "claim" => d[n] \in staged
    BY <1>1 DEF DeliveryInv
  <2> HIDE DEF x
  <2>8. /\ Len(delivered') = Len(d) + 1 /\ delivered'[Len(d) + 1] = x
        /\ \A n \in 1..Len(d) : delivered'[n] = d[n]
    BY <2>1, <2>3
  <2>9. \A n \in 1..Len(delivered') : n \in 1..Len(d) \/ n = Len(d) + 1
    BY <2>3, <2>8
  <2>10. \A n \in 1..Len(delivered') :
            /\ Same(delivered'[n], sent[n])
            /\ delivered'[n].kind = "content" => delivered'[n].bytes = delivered'[n].key
            /\ delivered'[n].kind = "claim" => delivered'[n] \in staged'
    BY <2>1, <2>6, <2>7, <2>8, <2>9
  <2>11. Follows(at, sent, stream, delivered', Taken')
    BY <2>1, <2>2, <2>6
  <2> QED BY <1>1, <2>4, <2>6, <2>8, <2>10, <2>11 DEF DeliveryInv
<1> QED BY <1>1, <1>3, <1>4

LEMMA DeliveryStarts == Init => DeliveryInv
<1> SUFFICES ASSUME Init PROVE DeliveryInv
  OBVIOUS
<1>1. stream = <<>> /\ sent = <<>> /\ delivered = <<>> /\ pos = 0 /\ read.pending = 0
  BY DEF Init, NewReader
<1>2. Len(stream) = 0 /\ Len(sent) = 0 /\ Len(delivered) = 0 /\ 1..0 = {} /\ Taken = 0
  BY <1>1 DEF Taken
<1> DEFINE at == [n \in {} |-> 0]
<1>3. at \in [1..Len(sent) -> 1..Len(stream)]
  BY <1>2
<1>4. Aligned(at, sent, stream)
  BY <1>2, <1>3 DEF Aligned
<1>5. Follows(at, sent, stream, delivered, Taken)
  BY <1>2 DEF Follows
<1>6. \E a \in [1..Len(sent) -> 1..Len(stream)] :
         /\ Aligned(a, sent, stream)
         /\ phase # "refused" => Follows(a, sent, stream, delivered, Taken)
  BY <1>3, <1>4, <1>5
<1>7. 1..Len(delivered) = {} /\ Len(delivered) <= Len(sent)
  BY <1>2
<1> QED BY <1>6, <1>7 DEF DeliveryInv

LEMMA DeliveryStep == WireTypes /\ BlockInv /\ DeliveryInv /\ [Next]_vars => DeliveryInv'
<1> SUFFICES ASSUME WireTypes, BlockInv, DeliveryInv, [Next]_vars PROVE DeliveryInv'
  OBVIOUS
<1>1. CASE UNCHANGED vars \/ Close
  <2>1. stream' = stream /\ sent' = sent
    BY <1>1 DEF vars, writer, Close
  <2>2. Grows
    <3>1. CASE Close
      BY <3>1, StreamSteps
    <3>2. CASE UNCHANGED vars
      BY <3>2 DEF vars, writer, Grows, WireTypes
    <3> QED BY <1>1, <3>1, <3>2
  <2> QED BY <2>1, <2>2, StreamStays
<1>2. CASE \E r \in Payload : Write(r) \/ WriteFails(r)
  BY <1>2, WriteKeepsDelivery, WriteFailsKeepsDelivery
<1>3. CASE \E r \in Added : Relay(r)
  BY <1>3, RelayKeepsDelivery
<1>4. CASE \E i \in DOMAIN stream : Damage(i)
  BY <1>4, DamageKeepsDelivery
<1>5. CASE Read
  BY <1>5, ReadKeepsDelivery
<1>6. CASE Drain \/ Seal
  BY <1>6, DrainKeepsDelivery, EndKeepsDelivery DEF Drain
<1> QED BY <1>1, <1>2, <1>3, <1>4, <1>5, <1>6 DEF Next

(* Two records of one kind and key, each with the bytes of its key, are    *)
(* one record.                                                             *)
LEMMA SameIsEqual ==
    ASSUME NEW a \in ClaimRecords \cup ContentRecords, NEW b \in Payload, Same(a, b), a.bytes = a.key
    PROVE  a = b
<1>1. b \in ClaimRecords \cup ContentRecords /\ b.bytes = b.key
  BY WireAssumption
<1>2. CASE b.kind = "claim"
  <2>1. a \in ClaimRecords /\ b \in ClaimRecords /\ a.branch = b.branch
    BY <1>1, <1>2 DEF Same, ClaimRecords, ContentRecords
  <2> QED BY <1>1, <2>1 DEF Same, ClaimRecords
<1>3. CASE b.kind = "content"
  <2>1. a \in ContentRecords /\ b \in ContentRecords
    BY <1>1, <1>3 DEF Same, ClaimRecords, ContentRecords
  <2> QED BY <1>1, <2>1 DEF Same, ContentRecords
<1> QED BY <1>1, <1>2, <1>3 DEF ClaimRecords, ContentRecords

LEMMA DeliveryImplies == WireTypes /\ BlockInv /\ DeliveryInv => DeliveredAsSent
<1> SUFFICES ASSUME WireTypes, BlockInv, DeliveryInv PROVE DeliveredAsSent
  OBVIOUS
<1> DEFINE keys(s) == [i \in DOMAIN s |-> <<s[i].kind, s[i].key>>]
           d == delivered
<1>1. /\ sent \in Seq(Payload) /\ d \in Seq(ClaimRecords \cup ContentRecords) /\ stream \in Seq(Record)
      /\ Len(d) \in Nat /\ Len(sent) \in Nat /\ Len(stream) \in Nat
      /\ DOMAIN d = 1..Len(d) /\ DOMAIN sent = 1..Len(sent)
  BY DEF WireTypes
<1>2. /\ Len(d) <= Len(sent)
      /\ \A n \in 1..Len(d) : Same(d[n], sent[n])
      /\ \A n \in 1..Len(d) : d[n].kind = "content" => d[n].bytes = d[n].key
      /\ phase # "refused" => \A n \in 1..Len(d) : d[n].kind = "claim" => d[n] \in staged
  BY DEF DeliveryInv
<1>3. \A n \in 1..Len(d) : n \in 1..Len(sent)
  BY <1>1, <1>2
<1>4. IsPrefix(keys(d), keys(sent))
  <2> DEFINE u == keys(d)
             v == keys(sent)
             T == {<<r.kind, r.key>> : r \in ClaimRecords \cup ContentRecords}
  <2>1. Payload \subseteq ClaimRecords \cup ContentRecords
    BY WireAssumption
  <2>2. u \in [1..Len(d) -> T] /\ v \in [1..Len(sent) -> T]
    BY <1>1, <2>1
  <2>3. \A n \in 1..Len(d) : u[n] = v[n]
    BY <1>1, <1>2, <1>3 DEF Same
  <2> HIDE DEF u, v, T
  <2>4. u \in Seq(T) /\ Len(u) = Len(d) /\ v \in Seq(T) /\ Len(v) = Len(sent)
    <3>1. \A f, n : n \in Nat /\ f \in [1..n -> T] => f \in Seq(T) /\ Len(f) = n
      OBVIOUS
    <3> QED BY <1>1, <2>2, <3>1
  <2>5. SubSeq(u, 1, Len(u)) = SubSeq(v, 1, Len(u))
    <3>1. /\ SubSeq(u, 1, Len(u)) \in Seq(T) /\ Len(SubSeq(u, 1, Len(u))) = Len(d)
          /\ \A n \in 1..Len(d) : SubSeq(u, 1, Len(u))[n] = u[n]
      BY <1>1, <2>4
    <3>2. /\ SubSeq(v, 1, Len(u)) \in Seq(T) /\ Len(SubSeq(v, 1, Len(u))) = Len(d)
          /\ \A n \in 1..Len(d) : SubSeq(v, 1, Len(u))[n] = v[n]
      BY <1>1, <1>2, <2>4
    <3> QED BY <2>3, <3>1, <3>2
  <2>6. IsPrefix(u, v)
    BY <1>2, <2>4, <2>5 DEF IsPrefix
  <2> QED BY <2>6 DEF u, v
<1>5. ASSUME phase \in {"drained", "sealed"} PROVE Len(d) = Len(sent)
  <2>1. PICK at \in [1..Len(sent) -> 1..Len(stream)] : Follows(at, sent, stream, d, Taken)
    BY <1>5 DEF DeliveryInv
  <2>2. Taken = Len(stream)
    BY <1>5 DEF BlockInv, AtEnd, Taken
  <2>3. \A n \in 1..Len(sent) : n <= Len(d)
    <3>1. \A n \in 1..Len(sent) : at[n] <= Len(stream)
      BY <1>1
    <3> QED BY <2>1, <2>2, <3>1 DEF Follows
  <2>4. Len(sent) # 0 => Len(sent) \in 1..Len(sent)
    BY <1>1
  <2>5. Len(sent) <= Len(d)
    BY <1>1, <2>3, <2>4
  <2>6. Len(d) \in Nat /\ Len(sent) \in Nat /\ Len(d) <= Len(sent)
    BY <1>1, <1>2
  <2> QED BY <2>5, <2>6
<1>6. \A n \in 1..Len(d) : d[n] \in ClaimRecords \cup ContentRecords /\ sent[n] \in Payload
  BY <1>1, <1>3
<1>7. \A n \in 1..Len(d) : d[n].kind = "content" => d[n] = sent[n]
  BY <1>2, <1>6, SameIsEqual
<1>8. ASSUME phase = "sealed" PROVE d = sent
  <2>1. Sealable
    BY <1>8 DEF BlockInv
  <2>2. \A n \in 1..Len(d) : d[n].bytes = d[n].key
    <3>1. \A n \in 1..Len(d) : d[n].kind \in {"claim", "content"}
      BY <1>6 DEF ClaimRecords, ContentRecords
    <3> QED BY <1>2, <1>8, <2>1, <3>1 DEF Sealable
  <2>3. \A n \in 1..Len(d) : d[n] = sent[n]
    BY <1>2, <1>6, <2>2, SameIsEqual
  <2>4. Len(d) = Len(sent)
    BY <1>5, <1>8
  <2>5. Payload \subseteq ClaimRecords \cup ContentRecords
    BY WireAssumption
  <2>6. sent \in Seq(ClaimRecords \cup ContentRecords)
    BY <1>1, <2>5
  <2> QED BY <1>1, <2>3, <2>4, <2>6
<1> QED BY <1>1, <1>4, <1>5, <1>7, <1>8 DEF DeliveredAsSent

(***************************************************************************)
(* What the receiver takes is what the writer reported as written, in its  *)
(* order and from the first on; a drain that ends took all of it, and what *)
(* is sealed is what was sent (WireWriter.write, WireReader.Next,          *)
(* DrainWire).                                                             *)
(***************************************************************************)
THEOREM TakenIsSent == Spec => []DeliveredAsSent
<1>1. Init => WireTypes /\ BlockInv /\ DeliveryInv
  BY BlockStarts, DeliveryStarts
<1>2. WireTypes /\ BlockInv /\ DeliveryInv /\ [Next]_vars => (WireTypes /\ BlockInv /\ DeliveryInv)'
  BY BlockStep, DeliveryStep
<1> QED BY <1>1, <1>2, DeliveryImplies, PTL DEF Spec
=============================================================================
