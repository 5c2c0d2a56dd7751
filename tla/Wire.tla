-------------------------------- MODULE Wire --------------------------------
(***************************************************************************)
(* A contribution stream: the WireWriter that heads it with what the       *)
(* contribution may do, a relay that adds limits of its own, the           *)
(* WireReader that narrows them to their overlap, and the receiver that    *)
(* opens a contribution under what it read, drains the stream into it and  *)
(* seals it.                                                               *)
(*                                                                         *)
(* A record is its kind and what the kind carries: a list (a set: order    *)
(* and repeats do not matter), or the key, the bytes and the branch of a   *)
(* payload.  Bytes are named by the key they hash to, 0 for bytes that do  *)
(* not decode.  A record the CBOR decoder or a field of it refuses is      *)
(* "malformed".  The four writes of a header are one step: a reader waits  *)
(* for the next record, so it cannot tell them apart from one.             *)
(***************************************************************************)
EXTENDS Naturals, Sequences, FiniteSets, SequencesExt

CONSTANTS
    Declared,       \* what the writers may declare: a set of WireConstraints
    Payload,        \* the records the writer is asked to write
    TypeOf,         \* TypeOf[key]: the node type of a claim
    RefsOf,         \* RefsOf[key]: where its references lie: branches, or "elsewhere"
    BaseBranches,   \* the branches of the archive the contribution is opened on
    Added,          \* the constraint records a relay may add
    MaxWrites, MaxRelayed, MaxFaults   \* bounds on calls, relayed records, failures

ConstraintKinds == {"branches", "referencable", "lifted", "creatable"}

PayloadKinds == {"claim", "content"}

Reserved == {"branches", "delete", "expiry"}

NoConstraints == [k \in ConstraintKinds |-> {}]

Keys == {r.key : r \in Payload}

(* The payload records, as they may arrive. *)
ClaimRecords == [kind : {"claim"}, key : Keys, bytes : Keys \cup {0}, branch : STRING]

ContentRecords == [kind : {"content"}, key : Keys, bytes : Keys \cup {0}]

Declarable == [kind : ConstraintKinds, list : SUBSET STRING]

ASSUME WireAssumption ==
    /\ Declared \subseteq [ConstraintKinds -> SUBSET STRING]
    /\ Payload \subseteq ClaimRecords \cup ContentRecords
    /\ \A r \in Payload : r.bytes = r.key
    /\ 0 \notin Keys
    /\ Added \subseteq Declarable
    /\ {MaxWrites, MaxRelayed, MaxFaults} \subseteq Nat

VARIABLES
    stream, closed,      \* the records on the way, and whether the writer's end is closed
    cons, headed,        \* WireWriter
    sent,                \* the payload the writer reported as written
    writes, relayed, faults,
    pos,                 \* WireReader: how many records are decoded,
    read,                \*   rcons, seen, pending (0: none), err, headed
    phase, opened,       \* the receiver, and the Constraints its contribution is opened under
    delivered,           \* the records Next handed over
    staged, contents     \* the contribution's claims, and the contents put into the Universe

writer == <<stream, closed, cons, headed, sent, writes, relayed>>

receiver == <<pos, read, phase, opened, delivered, staged, contents>>

vars == <<writer, receiver, faults>>

NewReader == [cons |-> NoConstraints, seen |-> {}, pending |-> 0, headed |-> FALSE, err |-> ""]

Init ==
    /\ stream = <<>> /\ closed = FALSE
    /\ cons \in Declared /\ headed = FALSE /\ sent = <<>>
    /\ writes = 0 /\ relayed = 0 /\ faults = 0
    /\ pos = 0 /\ read = NewReader
    /\ phase = "constraints" /\ opened = NoConstraints
    /\ delivered = <<>> /\ staged = {} /\ contents = {}

-----------------------------------------------------------------------------
(* WireWriter. *)

Declaration(kind, list) == [kind |-> kind, list |-> list]

Optional(kind, list) == IF list = {} THEN <<>> ELSE <<Declaration(kind, list)>>

(* The two required records even when empty, the two optional ones only when they ask for something. *)
Header(c) ==
    <<Declaration("branches", c["branches"]), Declaration("referencable", c["referencable"])>>
        \o Optional("lifted", c["lifted"]) \o Optional("creatable", c["creatable"])

Malformed == [kind |-> "malformed"]

(* What WriteClaim refuses before it writes anything. *)
Writable(r) == r.kind = "claim" => r.branch \in cons["branches"]

(* The records one write puts on the stream: the header is written once, with the first. *)
Emitted(r) == Append(IF headed THEN <<>> ELSE Header(cons), r)

Write(r) ==
    /\ ~closed /\ writes < MaxWrites
    /\ Writable(r)
    /\ stream' = stream \o Emitted(r)
    /\ sent' = Append(sent, r)
    /\ headed' = TRUE /\ writes' = writes + 1
    /\ UNCHANGED <<closed, cons, relayed, receiver, faults>>

(* A marshal fails: the records before it are out, it may be out in part, and headed stays set. *)
WriteFails(r) ==
    /\ ~closed /\ writes < MaxWrites /\ faults < MaxFaults
    /\ Writable(r)
    /\ \E k \in 1..Len(Emitted(r)) : \E part \in {<<>>, <<Malformed>>} :
          stream' = stream \o (SubSeq(Emitted(r), 1, k - 1) \o part)
    /\ headed' = TRUE /\ writes' = writes + 1 /\ faults' = faults + 1
    /\ UNCHANGED <<closed, cons, sent, relayed, receiver>>

Close ==
    /\ ~closed
    /\ closed' = TRUE
    /\ UNCHANGED <<stream, cons, headed, sent, writes, relayed, receiver, faults>>

(***************************************************************************)
(* The way between: a relay adds a declaration ahead of what it forwards   *)
(* or behind it, a record of a kind unknown to the reader arrives, bytes   *)
(* are altered so that they decode or do not.                              *)
(***************************************************************************)
Relay(r) ==
    /\ ~closed /\ relayed < MaxRelayed
    /\ \/ pos = 0 /\ stream' = <<r>> \o stream
       \/ stream' = Append(stream, r)
    /\ relayed' = relayed + 1
    /\ UNCHANGED <<closed, cons, headed, sent, writes, receiver, faults>>

Damage(i) ==
    /\ faults < MaxFaults
    /\ i > pos
    /\ \/ stream' = [stream EXCEPT ![i] = [kind |-> "unknown"]]
       \/ /\ stream[i].kind \in PayloadKinds
          /\ \E b \in {0} \cup ({r.key : r \in Payload} \ {stream[i].key}) :
                stream' = [stream EXCEPT ![i].bytes = b]
    /\ faults' = faults + 1
    /\ UNCHANGED <<closed, cons, headed, sent, writes, relayed, receiver>>

-----------------------------------------------------------------------------
(* WireReader. *)

Intersect(a, b) == a \cap b

(* Mutant: of two wide scopes the narrower is lost. *)
NarrowScopesWide(a, b) ==
    IF "$archive" \in a THEN b
    ELSE IF "$archive" \in b THEN a
    ELSE IF "$universe" \in a THEN b
    ELSE IF "$universe" \in b THEN a
    ELSE Intersect(a, b)

(* $universe contains $archive contains every branch. *)
NarrowScopes(a, b) ==
    IF "$universe" \in a THEN b
    ELSE IF "$universe" \in b THEN a
    ELSE IF "$archive" \in a THEN b
    ELSE IF "$archive" \in b THEN a
    ELSE Intersect(a, b)

(* slot: how a repeated declaration of a kind merges. *)
Merge(kind, a, b) == IF kind = "referencable" THEN NarrowScopes(a, b) ELSE Intersect(a, b)

(* readConstraint: a repeat narrows. *)
ReadConstraint(rd, r) ==
    [rd EXCEPT !.seen = @ \cup {r.kind},
               !.cons[r.kind] = IF r.kind \in rd.seen THEN Merge(r.kind, @, r.list) ELSE r.list]

(* The verdict where the block ends; an empty stream needs no records. *)
Settled(rd) ==
    IF rd.seen = {} /\ rd.pending = 0 THEN rd
    ELSE IF {"branches", "referencable"} \subseteq rd.seen THEN rd
    ELSE [rd EXCEPT !.err = "no header"]

Decoded == stream[pos + 1]

MoreToRead == pos < Len(stream)

(* decode's ok at a reader that waits: a record, or the end of the stream. *)
AtEnd == pos = Len(stream) /\ closed

(* Options and NewConstraints: the contribution is opened under what was declared. *)
Options(c) == [referencable |-> c["referencable"], lifted |-> c["lifted"], creatable |-> c["creatable"]]

(* Constraints returns: the receiver opens the contribution, or gives up. *)
Opens(rd) ==
    /\ read' = rd
    /\ opened' = Options(rd.cons)
    /\ phase' = IF rd.err = "" THEN "drain" ELSE "refused"
    /\ UNCHANGED <<delivered, staged, contents>>

(* One record of readConstraints. *)
ReadConstraints ==
    LET rd == [read EXCEPT !.headed = TRUE]
    IN  /\ phase = "constraints"
        /\ MoreToRead
        /\ pos' = pos + 1
        /\ \/ /\ Decoded.kind = "malformed"
              /\ Opens([rd EXCEPT !.err = "wire"])
           \/ /\ Decoded.kind \in ConstraintKinds
              /\ read' = ReadConstraint(rd, Decoded)
              /\ UNCHANGED <<phase, opened, delivered, staged, contents>>
           \/ /\ Decoded.kind \notin ConstraintKinds \cup {"malformed"}
              /\ Opens(Settled([rd EXCEPT !.pending = pos + 1]))
        /\ UNCHANGED <<writer, faults>>

(* Mutant: a stream that ends within the block is waited on. *)
EndOfBlockPending == phase = "constraints" /\ AtEnd /\ read.pending # 0

EndOfBlock == phase = "constraints" /\ AtEnd

ReadConstraintsEnd ==
    /\ EndOfBlock
    /\ Opens(Settled([read EXCEPT !.headed = TRUE]))
    /\ UNCHANGED <<pos, writer, faults>>

-----------------------------------------------------------------------------
(* DrainWire: Next, then what the record asks for. *)

(* Mutant: content is taken under the key it names. *)
RefusalUnhashed(r) ==
    CASE r.kind \in ConstraintKinds -> "late constraint"
      [] r.kind = "unknown" -> "kind"
      [] r.kind = "malformed" -> "wire"
      [] r.kind = "claim" /\ r.branch = "" -> "no branch"
      [] r.kind = "claim" /\ r.branch \notin read.cons["branches"] \cup {""} -> "undeclared"
      [] r.kind = "claim" /\ r.branch \in read.cons["branches"] \ {""} /\ r.bytes = 0 -> "wire"
      [] OTHER -> ""

(* Why Next stops at a record, "" when it hands it over. *)
Refusal(r) ==
    CASE r.kind \in ConstraintKinds -> "late constraint"
      [] r.kind = "unknown" -> "kind"
      [] r.kind = "malformed" -> "wire"
      [] r.kind = "claim" /\ r.branch = "" -> "no branch"
      [] r.kind = "claim" /\ r.branch \notin read.cons["branches"] \cup {""} -> "undeclared"
      [] r.kind = "claim" /\ r.branch \in read.cons["branches"] \ {""} /\ r.bytes = 0 -> "wire"
      [] r.kind = "content" /\ r.bytes # r.key -> "integrity"
      [] OTHER -> ""

(* AdmitType: reserved types only where lifted. *)
AdmitType(r) == TypeOf[r.key] \in Reserved => TypeOf[r.key] \in opened.lifted

(* The record Next reads: the one that closed the block, then the stream. *)
Arriving == IF read.pending # 0 THEN stream[read.pending] ELSE Decoded

Advance == pos' = IF read.pending # 0 THEN pos ELSE pos + 1

CanRead == read.pending # 0 \/ MoreToRead

(* Next refuses: the error sticks, the drain ends with it. *)
DrainRefused ==
    /\ phase = "drain" /\ CanRead
    /\ Refusal(Arriving) # ""
    /\ Advance
    /\ read' = [read EXCEPT !.pending = 0, !.err = Refusal(Arriving)]
    /\ phase' = "refused"
    /\ UNCHANGED <<opened, delivered, staged, contents, writer, faults>>

DrainContent ==
    /\ phase = "drain" /\ CanRead
    /\ Refusal(Arriving) = "" /\ Arriving.kind = "content"
    /\ Advance
    /\ read' = [read EXCEPT !.pending = 0]
    /\ delivered' = Append(delivered, Arriving)
    /\ contents' = contents \cup {Arriving.key}
    /\ UNCHANGED <<phase, opened, staged, writer, faults>>

(* PutContents fails. *)
DrainContentFails ==
    /\ phase = "drain" /\ CanRead /\ faults < MaxFaults
    /\ Refusal(Arriving) = "" /\ Arriving.kind = "content"
    /\ Advance
    /\ read' = [read EXCEPT !.pending = 0]
    /\ phase' = "refused" /\ faults' = faults + 1
    /\ UNCHANGED <<opened, delivered, staged, contents, writer>>

(* AddClaims stages the claim under its branch, or refuses its type. *)
DrainClaim ==
    /\ phase = "drain" /\ CanRead
    /\ Refusal(Arriving) = "" /\ Arriving.kind = "claim"
    /\ Advance
    /\ read' = [read EXCEPT !.pending = 0]
    /\ IF AdmitType(Arriving)
       THEN delivered' = Append(delivered, Arriving) /\ staged' = staged \cup {Arriving} /\ UNCHANGED phase
       ELSE phase' = "refused" /\ UNCHANGED <<delivered, staged>>
    /\ UNCHANGED <<opened, contents, writer, faults>>

DrainEnd ==
    /\ phase = "drain" /\ read.pending = 0 /\ AtEnd
    /\ phase' = "drained"
    /\ UNCHANGED <<pos, read, opened, delivered, staged, contents, writer, faults>>

-----------------------------------------------------------------------------
(* CompleteAndVerify, by what the constraints decide. *)

AdmitBranch(b) == b \in BaseBranches \cup opened.creatable \/ "$branches" \in opened.creatable

(* allowedHeads and unconfined: where a claim for branch b may have its references. *)
Readable(list, b) ==
    IF "$universe" \in list THEN BaseBranches \cup {"elsewhere"}
    ELSE IF "$archive" \in list THEN BaseBranches
    ELSE (list \cup {b}) \cap BaseBranches

Sealable ==
    /\ staged # {}
    /\ \A r \in staged : /\ AdmitBranch(r.branch)
                         /\ RefsOf[r.key] \subseteq Readable(opened.referencable, r.branch)
                         /\ r.bytes = r.key   \* the signature is over the bytes

Seal ==
    /\ phase = "drained"
    /\ phase' = IF Sealable THEN "sealed" ELSE "refused"
    /\ UNCHANGED <<pos, read, opened, delivered, staged, contents, writer, faults>>

-----------------------------------------------------------------------------
Read == ReadConstraints \/ ReadConstraintsEnd

Drain == DrainRefused \/ DrainContent \/ DrainContentFails \/ DrainClaim \/ DrainEnd

Next ==
    \/ \E r \in Payload : Write(r) \/ WriteFails(r)
    \/ \E r \in Added : Relay(r)
    \/ \E i \in DOMAIN stream : Damage(i)
    \/ Close
    \/ Read \/ Drain \/ Seal

(* The receiver's thread runs; nothing makes the writer write or close. *)
Spec == Init /\ [][Next]_vars /\ WF_vars(Read) /\ WF_vars(Drain) /\ WF_vars(Seal)

-----------------------------------------------------------------------------
(* Properties. *)

Declarations == {i \in DOMAIN stream : stream[i].kind \in ConstraintKinds}

DeclaredAs(kind) == {stream[i].list : i \in {j \in Declarations : stream[j].kind = kind}}

Created == {r.branch : r \in staged} \ BaseBranches

(***************************************************************************)
(* A contribution that is sealed keeps within every declaration its stream *)
(* carried, the writer's and each the relay added, wherever in the stream  *)
(* it stood: it writes to branches all of them name, has its references    *)
(* where all of them may read, and lifts or creates what all of that kind  *)
(* name, nothing where none is; no stream is sealed that lacks one of the  *)
(* two required ones (readConstraint, ErrWireLateConstraint).              *)
(***************************************************************************)
WithinEveryDeclaration ==
    phase = "sealed" => \A r \in staged :
        /\ {"branches", "referencable"} \subseteq {stream[i].kind : i \in Declarations}
        /\ \A list \in DeclaredAs("branches") : r.branch \in list
        /\ \A list \in DeclaredAs("referencable") : RefsOf[r.key] \subseteq Readable(list, r.branch)
        /\ TypeOf[r.key] \in Reserved =>
              DeclaredAs("lifted") # {} /\ \A list \in DeclaredAs("lifted") : TypeOf[r.key] \in list
        /\ r.branch \in Created =>
              /\ DeclaredAs("creatable") # {}
              /\ \A list \in DeclaredAs("creatable") : {r.branch, "$branches"} \cap list # {}

(***************************************************************************)
(* What the receiver takes is what the writer reported as written, in its  *)
(* order, each record once, from the first on; a drain that ends without   *)
(* an error took all of it.  Failed writes, a header cut short, records of *)
(* a relay and altered contents leave no other trace, and an altered claim *)
(* is never sealed.  (WireWriter.write, WireReader.Next, DrainWire)        *)
(***************************************************************************)
DeliveredAsSent ==
    LET keys(s) == [i \in DOMAIN s |-> <<s[i].kind, s[i].key>>]
    IN  /\ IsPrefix(keys(delivered), keys(sent))
        /\ phase \in {"drained", "sealed"} => Len(delivered) = Len(sent)
        /\ \A i \in DOMAIN delivered : delivered[i].kind = "content" => delivered[i] = sent[i]
        /\ phase = "sealed" => delivered = sent

(* A receiver whose stream is closed comes to an end, whatever the stream held. *)
DrainEnds == closed ~> phase \in {"refused", "sealed"}
=============================================================================
