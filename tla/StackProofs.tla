---------------------------- MODULE StackProofs ----------------------------
(***************************************************************************)
(* Proofs about the stack storage, for every stack NewStack accepts, every *)
(* set of clients and every menu of calls: what a Put answered for stays   *)
(* in the durable tier, a read of it never misses, an answer is faithful,  *)
(* a bookmark a layer serves is backed, a quiet deletion holds and the     *)
(* filler is idle only when its batch has landed.                          *)
(***************************************************************************)
EXTENDS Stack, WellFoundedInduction, TLAPS

----------------------------------------------------------------------------
(* The types of calls *)

OpenKinds == ItemKinds \cup SlotKinds \cup {"tag", "close"}
ReadKinds == {"get", "has", "raw", "stream"}

AnySubject == Items \cup Slots \cup {None}

Answered == [kind : {"done"}, of : OpenKinds \cup {"none"}, item : AnySubject,
             result : {"ok", "missing", "error"}, form : Forms \cup Records,
             verbatim : BOOLEAN, must : BOOLEAN]

Opened == [kind : OpenKinds, item : AnySubject, delta : BOOLEAN, record : Records,
           base : Nat, at : Nat, stage : {"has", "get", "fill"}, todo : SUBSET Nat,
           failed : BOOLEAN, first : {<<>>} \cup (Claims \X {"stored", "projected"}),
           form : Forms, must : BOOLEAN, alone : BOOLEAN]

(* A read that wants the record as it was stored.                          *)
Exact(c) == c.kind = "raw" \/ (c.kind # "has" /\ c.item \in Claims /\ c.delta)

(* Where a read is in its walk, and what it carries.                       *)
ReadShape(c) ==
    /\ c.item \in Items /\ c.base \in Layers
    /\ c.kind # "sync" => c.base = 1
    /\ c.kind = "sync" => c.base > 1 /\ layers[c.base - 1].tier = "eager"
    /\ c.kind = "stream" => c.item \in Blobs
    /\ c.at # 0 => c.at \in c.base..Depth /\ (Exact(c) => layers[c.at].raw)
    /\ c.stage # "has" => c.at # 0 /\ c.kind # "has"
    /\ c.stage = "fill" =>
          /\ c.kind \in {"get", "sync"}
          /\ c.form \in {"stored", "projected"}
          /\ c.item \in Claims => \A l \in c.todo : layers[l].raw => layers[c.at].raw
          /\ c.form = "projected" => c.item \in Claims /\ ~layers[c.at].raw

(* What each kind of call keeps while it is under way.                     *)
CallShape(c) ==
    /\ c \in Opened
    /\ c.todo \subseteq Layers
    /\ c.kind = "put" => c.item \in Items
    /\ c.kind = "del" => c.item \in Items /\ c.at \in Layers
    /\ Reading(c) => ReadShape(c)
    /\ c.kind \in SlotKinds => c.item \in Slots
    /\ c.kind = "bmget" =>
          /\ c.base = 1 /\ c.at \in {0} \cup Layers /\ c.stage # "get"
          /\ c.stage = "fill" => c.at # 0

(* The state is well formed: the stack was accepted by NewStack, a call is *)
(* an answer or under way, and a background write names its layer.         *)
WellFormed ==
    /\ TypeOK /\ NewStack(layers)
    /\ call \in [Clients -> Answered \cup Opened]
    /\ \A t \in Clients : ~Idle(t) => CallShape(call[t])
    /\ detached \subseteq (Layers \X Items \X {"stored"}) \cup (Layers \X Slots \X Records)
    /\ unsure \subseteq Slots

(* A projection is kept by layers without verbatim records alone, and only *)
(* content below the durable tier rots.                                    *)
FormsInv ==
    \A l \in Layers, i \in Items :
        /\ held[l][i] = "projected" => i \in Claims /\ ~layers[l].raw
        /\ held[l][i] = "corrupt" => i \in Blobs /\ l \notin Authoritative

(* What has landed of a Put that will be answered for, and who it excludes.*)
PutInv ==
    /\ \A t \in Clients : call[t].kind = "del" => call[t].item \notin acked
    /\ \A t \in Clients : call[t].kind = "put" /\ call[t].must =>
          /\ \A s \in Clients : call[s].kind = "del" => call[s].item # call[t].item
          /\ ~call[t].failed =>
                \A l \in Authoritative \ call[t].todo : held[l][call[t].item] = "stored"

(* A read that must answer has a durable layer at or below it, and stays   *)
(* with a layer that has the item; it does not answer that it has not.     *)
Walks(c) ==
    c.kind \in ReadKinds /\ c.must =>
        /\ c.item \in acked /\ c.at # 0
        /\ \E a \in Authoritative : c.at <= a
        /\ c.stage = "get" => held[c.at][c.item] # "none"

Misses(c) == c.kind = "done" /\ c.must /\ c.of \in ReadKinds /\ c.result = "missing"

WalkInv == \A t \in Clients : Walks(call[t]) /\ ~Misses(call[t])

(* Nothing on its way writes the item.                                     *)
Clear(i) ==
    /\ \A w \in detached : w[2] # i
    /\ \A j \in inbox \cup batch : j[2] # i

(* The item a sync will write.                                             *)
Subject(c) == IF c.first = <<>> THEN c.item ELSE c.first[1]

(* No call under way writes the item: a read of it has found nothing.      *)
Harmless(c, i) ==
    /\ c.kind = "put" => c.item # i
    /\ Reading(c) /\ c.item = i => c.stage = "has"
    /\ c.kind = "sync" => Subject(c) # i

Still(i) == Clear(i) /\ \A t \in Clients : ~Idle(t) => Harmless(call[t], i)

(* A deletion alone with its item: no layer it has been to holds it, and   *)
(* no other call reads or writes it.                                       *)
Lonely(t) ==
    /\ Clear(call[t].item)
    /\ \A l \in Layers : l < call[t].at => held[l][call[t].item] = "none"
    /\ \A s \in Clients \ {t} : ~Idle(s) => ~Touches(call[s], call[t].item)

QuietInv ==
    /\ \A i \in quiet : Still(i)
    /\ \A t \in Clients : call[t].kind = "del" /\ call[t].alone => Lonely(t)

(* A slot every durable bookmark layer has a record of.                    *)
Durable(s) == \A a \in Authoritative : layers[a].marks => marks[a][s] # None

(* What has landed of a bookmark Put, and what a fill was read from.       *)
Marked(c) ==
    /\ c.kind = "bmput" /\ ~c.failed =>
          \A a \in Authoritative \ c.todo : layers[a].marks => marks[a][c.item] # None
    /\ c.kind = "bmget" /\ c.stage = "fill" => marks[c.at][c.item] # None

MarksInv ==
    /\ \A w \in detached : w[2] \in Slots => Durable(w[2])
    /\ \A t \in Clients : Marked(call[t])

(* A batch that has not landed is marked.                                  *)
BatchInv == batch # {} => writing

----------------------------------------------------------------------------
(* Layers and walks *)

(* A set of natural numbers that has an element has a smallest one. *)
LEMMA MinOf ==
    ASSUME NEW S, S \subseteq Nat, S # {}
    PROVE  Min(S) \in S /\ \A y \in S : Min(S) <= y
<1>1. PICK R : IsWellFoundedOn(R, Nat) /\ \A x, y \in Nat : x < y => <<x, y>> \in R
  <2>1. IsWellFoundedOn(OpToRel(<, Nat), Nat)
    BY NatLessThanWellFounded
  <2>2. \A x, y \in Nat : x < y => <<x, y>> \in OpToRel(<, Nat)
    BY Zenon DEF OpToRel
  <2> QED BY <2>1, <2>2, Zenon
<1>2. PICK x \in S : \A y \in S : ~ (<<y, x>> \in R)
  <2>1. IsWellFoundedOn(R, Nat) /\ S \subseteq Nat /\ S # {}
    BY <1>1
  <2> QED BY <2>1, WFMin, Zenon
<1>3. \A y \in S : x \in Nat /\ y \in Nat /\ (y < x => <<y, x>> \in R)
  BY <1>1
<1>4. \A y \in S : ~ (y < x)
  BY <1>2, <1>3, Zenon
<1>5. \E z \in S : \A y \in S : z <= y
  BY <1>3, <1>4
<1> QED BY <1>5 DEF Min

(* What NewStack promises of the layers. *)
LEMMA LayerFacts ==
    ASSUME WellFormed
    PROVE  /\ Depth \in Nat /\ Depth > 0 /\ Layers = 1..Depth
           /\ \A l \in Layers : layers[l] \in LayerSet
           /\ Authoritative \subseteq Layers /\ Authoritative # {}
           /\ \A l \in Authoritative : layers[l].raw /\ layers[l].external
           /\ \A l \in Layers : layers[l].tier = "eager" => l \notin Authoritative
<1>1. layers \in Seq(LayerSet)
  BY StackAssumption DEF WellFormed, TypeOK
<1>2. Depth \in Nat /\ DOMAIN layers = 1..Depth /\ \A l \in 1..Depth : layers[l] \in LayerSet
  BY <1>1 DEF Depth
<1> QED BY <1>2 DEF WellFormed, NewStack, AllowsTier, Layers, Authoritative, Depth

(* The walk goes down, to a layer it asks, and skips none of those.        *)
LEMMA NextAskedIs ==
    ASSUME WellFormed, NEW c, c.base \in Layers, NEW l \in Nat
    PROVE  /\ NextAsked(c, l) \in Nat
           /\ NextAsked(c, l) # 0 => /\ NextAsked(c, l) \in c.base..Depth
                                     /\ NextAsked(c, l) > l /\ Asks(c, NextAsked(c, l))
           /\ \A m \in c.base..Depth : m > l /\ Asks(c, m) =>
                 NextAsked(c, l) # 0 /\ NextAsked(c, l) <= m
<1> DEFINE below == {m \in c.base..Depth : m > l /\ Asks(c, m)}
<1>1. below \subseteq Nat
  BY LayerFacts
<1>2. NextAsked(c, l) = IF below = {} THEN 0 ELSE Min(below)
  BY DEF NextAsked
<1>3. CASE below = {}
  BY <1>2, <1>3
<1>4. CASE below # {}
  <2>1. Min(below) \in below /\ \A y \in below : Min(below) <= y
    BY <1>1, <1>4, MinOf
  <2>2. NextAsked(c, l) = Min(below)
    BY <1>2, <1>4
  <2>3. NextAsked(c, l) \in below /\ \A y \in below : NextAsked(c, l) <= y
    BY <2>1, <2>2
  <2> HIDE DEF below
  <2>4. NextAsked(c, l) \in Nat /\ \A y \in below : y > l
    BY <2>3, <1>1 DEF below
  <2> QED BY <2>3, <2>4, LayerFacts DEF below, Layers
<1> QED BY <1>3, <1>4

(* A walk that wants the stored record asks verbatim layers alone, and     *)
(* every walk asks the durable ones.                                       *)
LEMMA AskedFacts ==
    ASSUME WellFormed, NEW c, Reading(c), c.item \in Items, NEW l \in Layers
    PROVE  /\ Asks(c, l) /\ Exact(c) => layers[l].raw
           /\ l \in Authoritative => Asks(c, l)
<1>1. (c.item \in Claims \/ c.item \in Blobs) /\ ~(c.item \in Claims /\ c.item \in Blobs)
  BY StackAssumption DEF Items
<1>2. l \in Authoritative => layers[l].raw /\ layers[l].external
  BY LayerFacts
<1>3. c.kind # "bmget"
  BY DEF Reading
<1> QED
  BY <1>1, <1>2, <1>3 DEF Asks, Exact, AskedAll, AskedByGetClaims, AskedByGetClaimsRaw,
     AskedByGetContents, AskedByHasContents, CouldHold

----------------------------------------------------------------------------
(* How calls change *)

(* A call under way is of one of the open kinds, an answer of none. *)
LEMMA CallKinds ==
    ASSUME WellFormed, NEW t \in Clients
    PROVE  /\ Idle(t) => call[t] \in Answered
           /\ call[t].kind # "done" => ~Idle(t)
           /\ ~Idle(t) => CallShape(call[t]) /\ call[t] \in Opened
<1>1. call[t] \in Answered \/ call[t] \in Opened
  BY DEF WellFormed
<1>2. call[t] \in Opened => ~Idle(t)
  BY DEF Idle, Opened, OpenKinds, ItemKinds, SlotKinds
<1>3. ~Idle(t) => CallShape(call[t])
  BY DEF WellFormed
<1> QED BY <1>1, <1>2, <1>3 DEF Idle, CallShape

(* One client's call is replaced. *)
LEMMA CallReplaced ==
    ASSUME WellFormed, layers' = layers, NEW t \in Clients,
           NEW x, x \in Answered \/ CallShape(x), call' = [call EXCEPT ![t] = x]
    PROVE  /\ call' \in [Clients -> Answered \cup Opened]
           /\ \A s \in Clients : ~Idle(s)' => CallShape(call[s])'
           /\ call'[t] = x /\ \A s \in Clients : s # t => call'[s] = call[s]
<1>1. call \in [Clients -> Answered \cup Opened] /\ x \in Answered \cup Opened
  BY DEF WellFormed, CallShape
<1>2. call'[t] = x /\ \A s \in Clients : s # t => call'[s] = call[s]
  BY <1>1
<1>3. call' \in [Clients -> Answered \cup Opened]
  BY <1>1
<1>4. ASSUME NEW s \in Clients, call'[s].kind # "done" PROVE CallShape(call[s])'
  <2>1. CallShape(call'[s])
    BY <1>2, <1>4 DEF WellFormed, Idle, Answered
  <2> QED
    BY <2>1 DEF CallShape, ReadShape, Layers, Depth, Exact, Reading
<1> QED BY <1>2, <1>3, <1>4 DEF Idle

(* The same call, excused by another that has begun.                       *)
Excused(c, d) ==
    /\ d \in Opened
    /\ d.kind = c.kind /\ d.item = c.item /\ d.delta = c.delta /\ d.record = c.record
    /\ d.base = c.base /\ d.at = c.at /\ d.stage = c.stage /\ d.todo = c.todo
    /\ d.failed = c.failed /\ d.first = c.first /\ d.form = c.form
    /\ d.must => c.must
    /\ d.alone => c.alone

(* One client's call begins. *)
LEMMA CallStarted ==
    ASSUME WellFormed, layers' = layers, NEW t \in Clients,
           NEW x, x \in Answered \/ CallShape(x), call' = Started(t, x)
    PROVE  /\ call' \in [Clients -> Answered \cup Opened]
           /\ \A s \in Clients : ~Idle(s)' => CallShape(call[s])'
           /\ call'[t] = x
           /\ \A s \in Clients \ {t} :
                 /\ Idle(s) => call'[s] = call[s]
                 /\ ~Idle(s) =>
                      /\ Excused(call[s], call'[s])
                      /\ Touches(x, call[s].item) \/ Touches(call[s], x.item) =>
                           /\ ~call'[s].alone
                           /\ call'[s].must => IF call[s].kind = "del" THEN ~Writes(x)
                                               ELSE x.kind # "del"
<1>1. call'[t] = x
  BY DEF Started
<1>2. ASSUME NEW s \in Clients \ {t}, Idle(s)
      PROVE  call'[s] = call[s]
  BY <1>2 DEF Started
<1>3. ASSUME NEW s \in Clients \ {t}, ~Idle(s)
      PROVE  /\ Excused(call[s], call'[s]) /\ CallShape(call'[s])
             /\ Touches(x, call[s].item) \/ Touches(call[s], x.item) =>
                  /\ ~call'[s].alone
                  /\ call'[s].must => IF call[s].kind = "del" THEN ~Writes(x)
                                      ELSE x.kind # "del"
  <2> DEFINE c == call[s]
             b == IF c.kind = "del" THEN ~Writes(x) ELSE x.kind # "del"
             d == [c EXCEPT !.must = @ /\ b, !.alone = FALSE]
             meets == Touches(x, c.item) \/ Touches(c, x.item)
  <2>1. c \in Opened /\ CallShape(c)
    BY <1>3, CallKinds
  <2>2. call'[s] = IF ~meets THEN c ELSE d
    BY <1>3 DEF Started
  <2>3. CASE ~meets
    <3>1. call'[s] = c
      BY <2>2, <2>3
    <3> QED BY <3>1, <2>1, <2>3 DEF Excused
  <2>4. CASE meets
    <3>1. call'[s] = d /\ b \in BOOLEAN
      BY <2>2, <2>4
    <3> HIDE DEF b, meets
    <3>2. d \in Opened /\ d.alone = FALSE /\ d.must = (c.must /\ b)
      BY <2>1, <3>1 DEF Opened
    <3>3. /\ d.kind = c.kind /\ d.item = c.item /\ d.delta = c.delta /\ d.record = c.record
          /\ d.base = c.base /\ d.at = c.at /\ d.stage = c.stage /\ d.todo = c.todo
          /\ d.failed = c.failed /\ d.first = c.first /\ d.form = c.form
      BY <2>1 DEF Opened
    <3> HIDE DEF d, c
    <3>4. Excused(c, d)
      BY <3>2, <3>3 DEF Excused
    <3>5. CallShape(d)
      BY <3>2, <3>3, <2>1 DEF CallShape, ReadShape, Exact, Reading
    <3> QED BY <3>1, <3>2, <3>4, <3>5 DEF c, b
  <2> QED BY <2>3, <2>4
<1>4. call' = [s \in Clients |-> call'[s]]
  BY DEF Started
<1>5. \A s \in Clients : call'[s] \in Answered \/ CallShape(call'[s])
  BY <1>1, <1>2, <1>3, CallKinds
<1>6. call' \in [Clients -> Answered \cup Opened]
  BY <1>4, <1>5 DEF CallShape
<1>7. ASSUME NEW s \in Clients, call'[s].kind # "done" PROVE CallShape(call[s])'
  <2>1. CallShape(call'[s])
    BY <1>5, <1>7 DEF Answered
  <2> QED
    BY <2>1 DEF CallShape, ReadShape, Layers, Depth, Exact, Reading
<1> QED BY <1>1, <1>2, <1>3, <1>6, <1>7 DEF Idle

(* An answer has an answer's type.                                         *)
LEMMA AnswerType ==
    ASSUME NEW c \in Opened, NEW r \in {"ok", "missing", "error"}, NEW f \in Forms \cup Records
    PROVE  /\ Answer(c, r, f) \in Answered
           /\ Answer(c, r, f).kind = "done" /\ Answer(c, r, f).of = c.kind
           /\ Answer(c, r, f).form = f
           /\ Answer(c, r, f).verbatim => c.delta \/ c.kind = "raw"
           /\ c.kind \in ReadKinds \cup {"sync"} =>
                 /\ Answer(c, r, f).item = c.item /\ Answer(c, r, f).result = r
                 /\ Answer(c, r, f).must => c.must
<1> DEFINE read == c.kind \notin {"put", "bmput", "del", "tag", "close"}
           a == [kind |-> "done", of |-> c.kind, item |-> IF read THEN c.item ELSE None,
                 result |-> IF read THEN r ELSE "ok", form |-> f,
                 verbatim |-> c.delta \/ c.kind = "raw", must |-> read /\ c.must]
<1>1. Answer(c, r, f) = a
  BY DEF Answer
<1>2. (IF read THEN c.item ELSE None) \in AnySubject
  BY DEF Opened, AnySubject
<1>3. (IF read THEN r ELSE "ok") \in {"ok", "missing", "error"}
  OBVIOUS
<1>4. c.kind \in OpenKinds /\ c.delta \in BOOLEAN /\ c.must \in BOOLEAN
  BY DEF Opened
<1>5. a \in Answered
  BY <1>2, <1>3, <1>4 DEF Answered
<1>6. c.kind \in ReadKinds \cup {"sync"} => read
  BY DEF ReadKinds
<1> QED BY <1>1, <1>4, <1>5, <1>6

(* What a client asked for is of the right kind.                           *)
LEMMA RequestFacts ==
    ASSUME NEW t \in Clients, NEW m \in Menu[t]
    PROVE  /\ m.kind \in OpenKinds
           /\ m.item \in AnySubject /\ m.delta \in BOOLEAN /\ m.record \in Records
           /\ m.kind \in ItemKinds => m.item \in Items
           /\ m.kind \in {"raw", "query"} => m.item \in Claims
           /\ m.kind = "stream" => m.item \in Blobs
           /\ m.kind \in SlotKinds => m.item \in Slots
<1>1. m \in Requests
  BY MenuAssumption
<1> QED BY <1>1, MenuAssumption DEF Requests, AnySubject, OpenKinds

(* A call as it opens: an operation sets some of its fields.               *)
LEMMA OpeningType ==
    ASSUME NEW t \in Clients, NEW m \in Menu[t]
    PROVE  LET x == Opening(m)
           IN  /\ x \in Opened
               /\ x.kind = m.kind /\ x.item = m.item /\ x.delta = m.delta
               /\ x.base = 1 /\ x.at = 0 /\ x.stage = "has" /\ x.todo = {} /\ ~x.failed
               /\ x.first = <<>> /\ x.must = (m.item \in acked) /\ ~x.alone
<1>1. m.kind \in OpenKinds /\ m.item \in AnySubject /\ m.delta \in BOOLEAN /\ m.record \in Records
  BY RequestFacts
<1>2. <<>> \in {<<>>} \cup (Claims \X {"stored", "projected"}) /\ "none" \in Forms
  BY DEF Forms
<1>3. Opening(m) \in Opened
  BY <1>1, <1>2 DEF Opened, Opening
<1> QED BY <1>3 DEF Opening

(* Where a read goes next: down, to a layer it may be served by, and never *)
(* past a durable one.                                                     *)
LEMMA WalkGoes ==
    ASSUME WellFormed, NEW c, Reading(c), c.item \in Items, c.base \in Layers, NEW l \in Nat
    PROVE  /\ NextAsked(c, l) \in Nat
           /\ NextAsked(c, l) # 0 => /\ NextAsked(c, l) \in c.base..Depth
                                     /\ NextAsked(c, l) > l
                                     /\ Exact(c) => layers[NextAsked(c, l)].raw
           /\ \A a \in Authoritative : a > l /\ a >= c.base =>
                 NextAsked(c, l) # 0 /\ NextAsked(c, l) <= a
<1>1. \A m \in c.base..Depth : m \in Layers
  BY LayerFacts
<1>2. \A m \in Authoritative : m >= c.base => m \in c.base..Depth
  BY LayerFacts
<1>3. \A m \in Layers : /\ Asks(c, m) /\ Exact(c) => layers[m].raw
                        /\ m \in Authoritative => Asks(c, m)
  BY AskedFacts
<1> QED BY <1>1, <1>2, <1>3, NextAskedIs

(* What a call that begins is, and what it changes besides.                *)
Began(t, x) ==
    \/ /\ x.kind = "put" /\ CallShape(x) /\ ~x.failed /\ Authoritative \subseteq x.todo
       /\ x.must => \A s \in Clients : call[s].kind = "del" => call[s].item # x.item
       /\ detached' = detached \cup {<<l, x.item, "stored">> : l \in Background \cap Fit(x.item)}
       /\ removed' = removed \ {x.item} /\ quiet' = quiet \ {x.item}
       /\ acked' = acked /\ unsure' = unsure
    \/ /\ x.kind = "del" /\ CallShape(x) /\ x.at = 1
       /\ x.alone => ~Disturbed(t, x.item)
       /\ acked' = acked \ {x.item}
       /\ detached' = detached /\ removed' = removed /\ quiet' = quiet /\ unsure' = unsure
    \/ /\ x.kind \in ReadKinds /\ CallShape(x) /\ x.stage = "has" /\ x.first = <<>>
       /\ x.must => x.item \in acked /\ x.at # 0 /\ \E a \in Authoritative : x.at <= a
       /\ detached' = detached /\ history' = history
    \/ /\ x \in Answered /\ x.of = "get" /\ x.item \in Claims
       /\ x.result = "missing" => ~x.must
       /\ x.result = "ok" => /\ x.form = held[1][x.item] /\ x.form # "none"
                             /\ x.verbatim => layers[1].raw
       /\ detached' = detached /\ history' = history
    \/ /\ x.kind = "sync" /\ CallShape(x) /\ x.stage = "has" /\ x.first = <<>>
       /\ removed' = removed \ {x.item} /\ quiet' = quiet \ {x.item}
       /\ detached' = detached /\ acked' = acked /\ unsure' = unsure
    \/ /\ x.kind = "bmput" /\ CallShape(x)
       /\ \A a \in Authoritative : layers[a].marks => a \in x.todo
       /\ detached' = detached /\ history' = history
    \/ /\ x.kind \in {"bmget", "tag", "close"} /\ CallShape(x) /\ x.stage = "has"
       /\ detached' = detached /\ history' = history

LEMMA PutBegins ==
    ASSUME WellFormed, NEW t \in Clients, NEW m \in Menu[t], BeginPut(t, m)
    PROVE  \E x : Began(t, x) /\ call' = Started(t, x)
<1> DEFINE dels == \E s \in Clients : call[s].kind = "del" /\ call[s].item = m.item
           T == Synchronous \cap Fit(m.item)
           c == Opening(m)
           x == [c EXCEPT !.todo = T, !.must = ~dels]
<1>1. m.kind = "put" /\ m.item \in Items
  BY RequestFacts DEF BeginPut, ItemKinds
<1>2. Authoritative \subseteq T /\ T \subseteq Layers /\ T \in SUBSET Nat
  BY LayerFacts, <1>1 DEF Authoritative, Synchronous, Fit, CouldHold
<1>3. /\ call' = Started(t, x) /\ unsure' = unsure /\ acked' = acked
      /\ detached' = detached \cup {<<l, m.item, "stored">> : l \in Background \cap Fit(m.item)}
      /\ removed' = removed \ {m.item} /\ quiet' = quiet \ {m.item}
  BY DEF BeginPut
<1>4. c \in Opened /\ c.kind = m.kind /\ c.item = m.item /\ ~c.failed
  BY OpeningType
<1> HIDE DEF c, T
<1>5. x \in Opened /\ x.kind = c.kind /\ x.item = c.item /\ x.failed = c.failed /\ x.todo = T
  BY <1>2, <1>4 DEF Opened
<1>6. x.must = ~dels
  BY <1>4 DEF Opened
<1> HIDE DEF x
<1>7. CallShape(x)
  BY <1>1, <1>2, <1>4, <1>5 DEF CallShape, Reading, SlotKinds
<1>8. x.must => \A s \in Clients : call[s].kind = "del" => call[s].item # x.item
  BY <1>4, <1>5, <1>6
<1> HIDE DEF dels
<1> QED BY <1>1, <1>2, <1>3, <1>4, <1>5, <1>7, <1>8 DEF Began

LEMMA DeleteBegins ==
    ASSUME WellFormed, NEW t \in Clients, NEW m \in Menu[t], BeginDelete(t, m)
    PROVE  \E x : Began(t, x) /\ call' = Started(t, x)
<1> DEFINE puts == \E s \in Clients : Writes(call[s]) /\ call[s].item = m.item
           busy == Disturbed(t, m.item)
           c == Opening(m)
           x == [c EXCEPT !.at = 1, !.must = ~puts, !.alone = ~busy]
<1>1. m.kind = "del" /\ m.item \in Items
  BY RequestFacts DEF BeginDelete, ItemKinds
<1>2. /\ call' = Started(t, x) /\ acked' = acked \ {m.item}
      /\ detached' = detached /\ removed' = removed /\ quiet' = quiet /\ unsure' = unsure
  BY DEF BeginDelete
<1>3. c \in Opened /\ c.kind = m.kind /\ c.item = m.item /\ c.todo = {}
  BY OpeningType
<1> HIDE DEF c, puts, busy
<1>4. x \in Opened /\ x.kind = c.kind /\ x.item = c.item /\ x.at = 1 /\ x.todo = c.todo
  BY <1>3 DEF Opened
<1>5. x.alone = ~busy
  BY <1>3 DEF Opened
<1> HIDE DEF x
<1>6. CallShape(x)
  BY <1>1, <1>3, <1>4, LayerFacts DEF CallShape, Reading, SlotKinds
<1> QED BY <1>1, <1>2, <1>3, <1>4, <1>5, <1>6 DEF Began, busy

(* A walk from the top: c is the call, x the call at its first layer.      *)
LEMMA WalkBegins ==
    ASSUME WellFormed, NEW c \in Opened, c.kind \in ReadKinds, c.item \in Items,
           c.kind = "stream" => c.item \in Blobs,
           c.base = 1, c.stage = "has", c.first = <<>>, c.todo = {},
           c.must => c.item \in acked,
           NEW x, x = [c EXCEPT !.at = NextAsked(c, 0)]
    PROVE  /\ x.kind = c.kind /\ CallShape(x) /\ x.stage = "has" /\ x.first = <<>>
           /\ x.must => x.item \in acked /\ x.at # 0 /\ \E a \in Authoritative : x.at <= a
<1> DEFINE n == NextAsked(c, 0)
<1>1. Reading(c) /\ c.base \in Layers
  BY LayerFacts DEF Reading, ReadKinds
<1>2. /\ n \in Nat
      /\ n # 0 => n \in c.base..Depth /\ (Exact(c) => layers[n].raw)
      /\ \A a \in Authoritative : a > 0 /\ a >= c.base => n # 0 /\ n <= a
  BY <1>1, WalkGoes
<1> HIDE DEF n
<1>3. x = [c EXCEPT !.at = n]
  BY DEF n
<1>4. /\ x \in Opened /\ x.at = n
      /\ x.kind = c.kind /\ x.item = c.item /\ x.delta = c.delta /\ x.base = c.base
      /\ x.stage = c.stage /\ x.first = c.first /\ x.todo = c.todo /\ x.must = c.must
  BY <1>2, <1>3 DEF Opened
<1>5. ReadShape(x)
  BY <1>1, <1>2, <1>4 DEF ReadShape, Exact, ReadKinds
<1>6. CallShape(x)
  BY <1>4, <1>5 DEF CallShape, ReadKinds, SlotKinds
<1>7. \E a \in Authoritative : a > 0 /\ a >= c.base
  BY LayerFacts
<1> QED BY <1>2, <1>4, <1>6, <1>7

LEMMA ReadBegins ==
    ASSUME WellFormed, NEW t \in Clients, NEW m \in Menu[t], BeginRead(t, m)
    PROVE  \E x : Began(t, x) /\ call' = Started(t, x)
<1> DEFINE c == Opening(m)
           x == [c EXCEPT !.at = NextAsked(c, 0)]
<1>1. /\ m.kind \in ReadKinds /\ m.item \in Items
      /\ m.kind = "stream" => m.item \in Blobs
  BY RequestFacts DEF BeginRead, ItemKinds, ReadKinds
<1>2. call' = Started(t, x) /\ detached' = detached /\ history' = history
  BY DEF BeginRead
<1>3. /\ c \in Opened /\ c.kind = m.kind /\ c.item = m.item /\ c.base = 1 /\ c.stage = "has"
      /\ c.first = <<>> /\ c.todo = {} /\ (c.must => m.item \in acked)
  BY OpeningType
<1> HIDE DEF c
<1>4. /\ x.kind = c.kind /\ CallShape(x) /\ x.stage = "has" /\ x.first = <<>>
      /\ x.must => x.item \in acked /\ x.at # 0 /\ \E a \in Authoritative : x.at <= a
  BY <1>1, <1>3, WalkBegins
<1> HIDE DEF x
<1> QED BY <1>1, <1>2, <1>3, <1>4 DEF Began

LEMMA QueryBegins ==
    ASSUME WellFormed, NEW t \in Clients, NEW m \in Menu[t], BeginQuery(t, m)
    PROVE  \E x : Began(t, x) /\ call' = Started(t, x)
<1> DEFINE c0 == Opening(m)
           c == [c0 EXCEPT !.kind = "get"]
           e == [c EXCEPT !.must = FALSE]
           top == held[1][m.item]
           needRaw == m.delta /\ ~layers[1].raw
           x == IF top = "none" THEN Answer(e, "missing", "none")
                ELSE IF ~needRaw THEN Answer(c, "ok", top)
                ELSE [c EXCEPT !.at = NextAsked(c, 0)]
<1>1. m.item \in Claims /\ m.item \in Items
  BY RequestFacts DEF BeginQuery, Items
<1>2. call' = Started(t, x) /\ detached' = detached /\ history' = history
  BY DEF BeginQuery
<1>3. /\ c0 \in Opened /\ c0.item = m.item /\ c0.base = 1 /\ c0.stage = "has"
      /\ c0.first = <<>> /\ c0.todo = {} /\ (c0.must => m.item \in acked) /\ c0.delta = m.delta
  BY OpeningType
<1> HIDE DEF c0
<1>4. "get" \in OpenKinds
  BY DEF OpenKinds, ItemKinds
<1>5. /\ c \in Opened /\ c.kind = "get" /\ c.item = m.item /\ c.base = 1 /\ c.stage = "has"
      /\ c.first = <<>> /\ c.todo = {} /\ (c.must => m.item \in acked) /\ c.delta = m.delta
  BY <1>3, <1>4 DEF Opened
<1> HIDE DEF c
<1>6. e \in Opened /\ e.kind = "get" /\ e.item = m.item /\ ~e.must
  BY <1>5 DEF Opened
<1> HIDE DEF e
<1>7. top \in Forms
  BY <1>1, LayerFacts DEF WellFormed, TypeOK
<1> HIDE DEF top
<1>8. CASE top = "none"
  <2> DEFINE y == Answer(e, "missing", "none")
  <2>1. x = y
    BY <1>8
  <2>2. "none" \in Forms
    BY DEF Forms
  <2>3. y \in Answered /\ y.of = "get" /\ y.item = m.item /\ ~y.must /\ y.result = "missing"
    BY <1>6, <2>2, AnswerType DEF ReadKinds
  <2> HIDE DEF y, x
  <2>4. Began(t, y)
    BY <1>1, <1>2, <2>3 DEF Began
  <2> QED BY <1>2, <2>1, <2>4
<1>9. CASE top # "none" /\ ~needRaw
  <2> DEFINE y == Answer(c, "ok", top)
  <2>1. x = y
    BY <1>9
  <2>2. /\ y \in Answered /\ y.of = "get" /\ y.item = m.item /\ y.result = "ok"
        /\ y.form = top /\ (y.verbatim => m.delta)
    <3> HIDE DEF x, needRaw
    <3> QED BY <1>5, <1>7, AnswerType DEF ReadKinds
  <2> HIDE DEF y, x
  <2>3. y.verbatim => layers[1].raw
    BY <1>9, <2>2
  <2>4. Began(t, y)
    BY <1>1, <1>2, <1>9, <2>2, <2>3 DEF Began, top
  <2> QED BY <1>2, <2>1, <2>4
<1>10. CASE top # "none" /\ needRaw
  <2> DEFINE y == [c EXCEPT !.at = NextAsked(c, 0)]
  <2>1. x = y
    BY <1>10
  <2>2. /\ y.kind = c.kind /\ CallShape(y) /\ y.stage = "has" /\ y.first = <<>>
        /\ y.must => y.item \in acked /\ y.at # 0 /\ \E a \in Authoritative : y.at <= a
    <3>1. c.kind \in ReadKinds /\ (c.kind = "stream" => c.item \in Blobs)
      BY <1>5 DEF ReadKinds
    <3> HIDE DEF x
    <3> QED BY <3>1, <1>1, <1>5, WalkBegins
  <2> HIDE DEF y, x
  <2>3. Began(t, y)
    BY <1>2, <1>5, <2>2 DEF Began, ReadKinds
  <2> QED BY <1>2, <2>1, <2>3
<1> QED BY <1>8, <1>9, <1>10

LEMMA SyncBegins ==
    ASSUME WellFormed, NEW t \in Clients, NEW m \in Menu[t], BeginSync(t, m)
    PROVE  \E x : Began(t, x) /\ call' = Started(t, x)
<1> DEFINE eager == {l \in Layers : layers[l].tier = "eager"}
           ei == Min(eager)
           c0 == Opening(m)
           c == [c0 EXCEPT !.base = ei + 1]
           x == [c EXCEPT !.at = NextAsked(c, ei)]
<1>1. m.kind = "sync" /\ m.item \in Items
  BY RequestFacts DEF BeginSync, ItemKinds
<1>2. /\ call' = Started(t, x) /\ eager # {} /\ ei < Depth
      /\ removed' = removed \ {m.item} /\ quiet' = quiet \ {m.item}
      /\ detached' = detached /\ acked' = acked /\ unsure' = unsure
  BY DEF BeginSync
<1>3. ei \in eager /\ ei \in Layers /\ ei \in Nat /\ layers[ei].tier = "eager"
  <2>1. eager \subseteq Nat
    BY LayerFacts
  <2>2. ei \in eager
    BY <2>1, <1>2, MinOf
  <2> QED BY <2>2, LayerFacts
<1> HIDE DEF ei, eager
<1>4. ei + 1 \in Layers /\ ei + 1 > 1 /\ (ei + 1) - 1 = ei /\ ei + 1 \in Nat
  BY <1>2, <1>3, LayerFacts
<1>5. /\ c0 \in Opened /\ c0.kind = "sync" /\ c0.item = m.item /\ c0.stage = "has"
      /\ c0.first = <<>> /\ c0.todo = {}
  BY <1>1, OpeningType
<1> HIDE DEF c0
<1>6. /\ c \in Opened /\ c.kind = "sync" /\ c.item = m.item /\ c.base = ei + 1
      /\ c.stage = "has" /\ c.first = <<>> /\ c.todo = {}
  BY <1>4, <1>5 DEF Opened
<1> HIDE DEF c
<1> DEFINE n == NextAsked(c, ei)
<1>7. /\ n \in Nat
      /\ n # 0 => n \in c.base..Depth /\ (Exact(c) => layers[n].raw)
  BY <1>1, <1>3, <1>4, <1>6, WalkGoes DEF Reading
<1>8. x = [c EXCEPT !.at = n]
  OBVIOUS
<1> HIDE DEF n, x
<1>9. /\ x \in Opened /\ x.at = n
      /\ x.kind = c.kind /\ x.item = c.item /\ x.delta = c.delta /\ x.base = c.base
      /\ x.stage = c.stage /\ x.first = c.first /\ x.todo = c.todo
  BY <1>6, <1>7, <1>8 DEF Opened
<1>10. ReadShape(x)
  BY <1>1, <1>3, <1>4, <1>6, <1>7, <1>9 DEF ReadShape, Exact
<1>11. CallShape(x)
  BY <1>6, <1>9, <1>10 DEF CallShape, SlotKinds
<1> QED BY <1>2, <1>6, <1>9, <1>11 DEF Began

LEMMA BookmarkBegins ==
    ASSUME WellFormed, NEW t \in Clients, NEW m \in Menu[t], BeginBookmark(t, m)
    PROVE  \E x : Began(t, x) /\ call' = Started(t, x)
<1> DEFINE c == Opening(m)
           T == {l \in Synchronous : layers[l].marks}
           p == [c EXCEPT !.todo = T]
           g == [c EXCEPT !.at = NextAsked(c, 0)]
<1>1. m.kind \in SlotKinds /\ m.item \in Slots
  BY RequestFacts DEF BeginBookmark, SlotKinds
<1>2. /\ call' = Started(t, IF m.kind = "bmput" THEN p ELSE g)
      /\ detached' = detached /\ history' = history
  BY DEF BeginBookmark
<1>3. /\ c \in Opened /\ c.kind = m.kind /\ c.item = m.item /\ c.base = 1 /\ c.stage = "has"
      /\ c.todo = {} /\ ~c.failed
  BY OpeningType
<1> HIDE DEF c
<1>4. CASE m.kind = "bmput"
  <2>1. T \in SUBSET Nat /\ T \subseteq Layers /\ \A a \in Authoritative : layers[a].marks => a \in T
    BY LayerFacts DEF Synchronous, Authoritative
  <2> HIDE DEF T
  <2>2. p \in Opened /\ p.kind = "bmput" /\ p.item = c.item /\ p.todo = T
    BY <1>3, <1>4, <2>1 DEF Opened
  <2>3. call' = Started(t, p)
    BY <1>2, <1>4
  <2> HIDE DEF p
  <2>4. CallShape(p)
    BY <1>1, <1>3, <2>1, <2>2 DEF CallShape, Reading
  <2> QED BY <1>2, <2>1, <2>2, <2>3, <2>4 DEF Began
<1>5. CASE m.kind = "bmget"
  <2> DEFINE n == NextAsked(c, 0)
  <2>1. n \in Nat /\ (n # 0 => n \in Layers)
    BY <1>3, LayerFacts, NextAskedIs
  <2>2. g = [c EXCEPT !.at = n]
    OBVIOUS
  <2>3. call' = Started(t, g)
    BY <1>2, <1>5
  <2> HIDE DEF n, g
  <2>4. /\ g \in Opened /\ g.kind = "bmget" /\ g.item = c.item /\ g.at = n
        /\ g.base = c.base /\ g.stage = c.stage /\ g.todo = c.todo
    BY <1>3, <1>5, <2>1, <2>2 DEF Opened
  <2>5. CallShape(g)
    BY <1>1, <1>3, <2>1, <2>4 DEF CallShape, Reading
  <2> QED BY <1>2, <1>3, <2>3, <2>4, <2>5 DEF Began
<1> QED BY <1>1, <1>4, <1>5 DEF SlotKinds

LEMMA TagBegins ==
    ASSUME WellFormed, NEW t \in Clients, NEW m \in Menu[t], BeginTag(t, m)
    PROVE  \E x : Began(t, x) /\ call' = Started(t, x)
<1> DEFINE c == Opening(m)
           T == {l \in Layers : layers[l].tags}
           x == [c EXCEPT !.todo = T]
<1>1. /\ call' = Started(t, x) /\ m.kind = "tag" /\ detached' = detached /\ history' = history
  BY DEF BeginTag
<1>2. c \in Opened /\ c.kind = m.kind /\ c.stage = "has"
  BY OpeningType
<1>3. T \in SUBSET Nat /\ T \subseteq Layers
  BY LayerFacts
<1> HIDE DEF c, T
<1>4. x \in Opened /\ x.kind = "tag" /\ x.todo = T /\ x.stage = "has"
  BY <1>1, <1>2, <1>3 DEF Opened
<1> HIDE DEF x
<1>5. CallShape(x)
  BY <1>3, <1>4 DEF CallShape, Reading, SlotKinds
<1> QED BY <1>1, <1>4, <1>5 DEF Began

LEMMA CloseBegins ==
    ASSUME WellFormed, NEW t \in Clients, NEW m \in Menu[t], BeginClose(t, m)
    PROVE  \E x : Began(t, x) /\ call' = Started(t, x)
<1> DEFINE x == Opening(m)
<1>1. /\ call' = Started(t, x) /\ m.kind = "close" /\ detached' = detached /\ history' = history
  BY DEF BeginClose
<1>2. x \in Opened /\ x.kind = m.kind /\ x.todo = {} /\ x.stage = "has"
  BY OpeningType
<1> HIDE DEF x
<1>3. CallShape(x)
  BY <1>1, <1>2 DEF CallShape, Reading, SlotKinds
<1> QED BY <1>1, <1>2, <1>3 DEF Began

(* Begin, whatever the call.                                               *)
LEMMA BeginEffect ==
    ASSUME WellFormed, NEW t \in Clients, Begin(t)
    PROVE  /\ Idle(t)
           /\ layers' = layers /\ tagged' = tagged /\ held' = held /\ marks' = marks
           /\ inbox' = inbox /\ doorbell' = doorbell /\ batch' = batch /\ writing' = writing
           /\ worker' = worker
           /\ \E x : Began(t, x) /\ call' = Started(t, x)
<1>1. PICK m \in Menu[t] :
          \/ BeginPut(t, m) \/ BeginDelete(t, m) \/ BeginRead(t, m) \/ BeginQuery(t, m)
          \/ BeginSync(t, m) \/ BeginBookmark(t, m) \/ BeginTag(t, m) \/ BeginClose(t, m)
  BY DEF Begin
<1>2. \E x : Began(t, x) /\ call' = Started(t, x)
  BY <1>1, PutBegins, DeleteBegins, ReadBegins, QueryBegins, SyncBegins, BookmarkBegins,
     TagBegins, CloseBegins
<1> QED BY <1>2 DEF Begin, filler

----------------------------------------------------------------------------
(* What each step of a call does *)

(* The call goes on: what it was asked and what it promises stay.          *)
Proceeds(c, x) ==
    /\ x \in Opened
    /\ x.kind = c.kind /\ x.delta = c.delta /\ x.base = c.base
    /\ x.must = c.must /\ x.alone = c.alone

(* The call answers.                                                       *)
Answers(c, x, r) ==
    /\ x \in Answered /\ x.of = c.kind /\ (x.verbatim => c.delta \/ c.kind = "raw")
    /\ Reading(c) => x.item = c.item /\ x.result = r /\ (x.must => c.must)

(* The other calls stay as they are. *)
OthersKept(t) == \A s \in Clients : s # t => call'[s] = call[s]

LEMMA FinishEffect ==
    ASSUME WellFormed, NEW t \in Clients, ~Idle(t), layers' = layers,
           NEW r \in {"ok", "missing", "error"}, NEW f \in Forms \cup Records, Finish(t, r, f)
    PROVE  /\ Answers(call[t], call'[t], r) /\ call'[t].form = f
           /\ OthersKept(t)
           /\ call' \in [Clients -> Answered \cup Opened]
           /\ \A s \in Clients : ~Idle(s)' => CallShape(call[s])'
<1> DEFINE x == Answer(call[t], r, f)
<1>1. call[t] \in Opened
  BY CallKinds
<1>2. /\ x \in Answered /\ x.of = call[t].kind /\ x.form = f
      /\ x.verbatim => call[t].delta \/ call[t].kind = "raw"
      /\ call[t].kind \in ReadKinds \cup {"sync"} =>
            x.item = call[t].item /\ x.result = r /\ (x.must => call[t].must)
  BY <1>1, AnswerType
<1>3. call' = [call EXCEPT ![t] = x]
  BY DEF Finish
<1> HIDE DEF x
<1>4. /\ call' \in [Clients -> Answered \cup Opened]
      /\ \A s \in Clients : ~Idle(s)' => CallShape(call[s])'
      /\ call'[t] = x /\ \A s \in Clients : s # t => call'[s] = call[s]
  BY <1>2, <1>3, CallReplaced
<1>5. Answers(call[t], x, r)
  BY <1>2 DEF Answers, Reading, ReadKinds
<1> QED BY <1>2, <1>4, <1>5 DEF OthersKept

LEMMA WriteSyncEffect ==
    ASSUME WellFormed, NEW t \in Clients, WriteSync(t)
    PROVE  \E l \in call[t].todo : \E x :
             /\ call' = [call EXCEPT ![t] = x] /\ CallShape(x) /\ Proceeds(call[t], x)
             /\ x.item = call[t].item /\ x.first = call[t].first
             /\ x.todo = call[t].todo \ {l} /\ l \in Layers
             /\ call[t].kind \in {"put", "bmput"} /\ ~Idle(t)
             /\ \/ /\ call[t].kind = "put" /\ PutIn(l, call[t].item, "stored") /\ marks' = marks
                   /\ x.failed = call[t].failed
                \/ /\ call[t].kind = "bmput" /\ held' = held
                   /\ marks' = [marks EXCEPT ![l][call[t].item] = call[t].record]
                   /\ x.failed = call[t].failed
                \/ /\ held' = held /\ marks' = marks
                   /\ ~x.failed => ~call[t].failed /\ l \notin Authoritative
<1> DEFINE c == call[t]
<1>1. c.kind \in {"put", "bmput"} /\ ~Idle(t) /\ c \in Opened /\ CallShape(c)
  BY CallKinds DEF WriteSync
<1>2. PICK l \in c.todo :
         \/ /\ IF c.kind = "put" THEN PutIn(l, c.item, "stored") /\ UNCHANGED marks
               ELSE marks' = [marks EXCEPT ![l][c.item] = c.record] /\ UNCHANGED held
            /\ call' = [call EXCEPT ![t].todo = @ \ {l}]
         \/ /\ call' = [call EXCEPT ![t].todo = @ \ {l}, ![t].failed = @ \/ FailsCall(l)]
            /\ UNCHANGED <<held, marks>>
  BY DEF WriteSync
<1>3. l \in Layers
  BY <1>1 DEF CallShape
<1>4. CASE /\ IF c.kind = "put" THEN PutIn(l, c.item, "stored") /\ UNCHANGED marks
              ELSE marks' = [marks EXCEPT ![l][c.item] = c.record] /\ UNCHANGED held
           /\ call' = [call EXCEPT ![t].todo = @ \ {l}]
  <2> DEFINE x == [c EXCEPT !.todo = c.todo \ {l}]
  <2>1. call' = [call EXCEPT ![t] = x]
    BY <1>4 DEF WellFormed
  <2>2. /\ Proceeds(c, x) /\ x.item = c.item /\ x.record = c.record /\ x.at = c.at
        /\ x.stage = c.stage /\ x.first = c.first /\ x.form = c.form /\ x.todo = c.todo \ {l}
        /\ x.failed = c.failed
    BY <1>1 DEF Opened, Proceeds
  <2> HIDE DEF x, c
  <2>3. CallShape(x)
    BY <1>1, <2>2 DEF CallShape, Proceeds, Reading
  <2> QED BY <1>1, <1>3, <1>4, <2>1, <2>2, <2>3 DEF c
<1>5. CASE /\ call' = [call EXCEPT ![t].todo = @ \ {l}, ![t].failed = @ \/ FailsCall(l)]
           /\ UNCHANGED <<held, marks>>
  <2> DEFINE b == FailsCall(l)
             x == [c EXCEPT !.todo = c.todo \ {l}, !.failed = @ \/ b]
  <2>1. call' = [call EXCEPT ![t] = x]
    BY <1>5, <1>1 DEF WellFormed
  <2>2. b = (l \in Authoritative)
    BY <1>3 DEF FailsCall, Authoritative
  <2> HIDE DEF b
  <2>3. /\ Proceeds(c, x) /\ x.item = c.item /\ x.record = c.record /\ x.at = c.at
        /\ x.stage = c.stage /\ x.first = c.first /\ x.form = c.form /\ x.todo = c.todo \ {l}
    BY <1>1 DEF Opened, Proceeds
  <2>4. x.failed = (c.failed \/ b)
    BY <1>1 DEF Opened
  <2> HIDE DEF x, c
  <2>5. CallShape(x)
    BY <1>1, <2>3 DEF CallShape, Proceeds, Reading
  <2>6. ~x.failed => ~c.failed /\ l \notin Authoritative
    BY <2>2, <2>4
  <2> QED BY <1>1, <1>3, <1>5, <2>1, <2>3, <2>5, <2>6 DEF c
<1> QED BY <1>2, <1>4, <1>5

(* A read that goes on stays in shape when its walk moves down, and when   *)
(* the layer it is at has the item.                                        *)
LEMMA ReadMovesOn ==
    ASSUME WellFormed, NEW t \in Clients, Reading(call[t]), call[t].at # 0,
           call' = [call EXCEPT ![t].stage = "has", ![t].at = NextAsked(call[t], call[t].at)]
    PROVE  \E x : /\ call' = [call EXCEPT ![t] = x] /\ CallShape(x) /\ Proceeds(call[t], x)
                  /\ x.item = call[t].item /\ x.first = call[t].first /\ x.stage = "has"
                  /\ x.at = NextAsked(call[t], call[t].at)
<1> DEFINE c == call[t]
           n == NextAsked(c, c.at)
           x == [c EXCEPT !.stage = "has", !.at = n]
<1>1. c \in Opened /\ CallShape(c) /\ ReadShape(c)
  BY CallKinds DEF Reading, Idle, CallShape
<1>2. /\ n \in Nat
      /\ n # 0 => n \in c.base..Depth /\ (Exact(c) => layers[n].raw)
  BY <1>1, WalkGoes DEF ReadShape, Opened
<1>3. call' = [call EXCEPT ![t] = x]
  BY <1>1 DEF WellFormed
<1> HIDE DEF n
<1>4. /\ Proceeds(c, x) /\ x.item = c.item /\ x.record = c.record /\ x.at = n /\ x.stage = "has"
      /\ x.first = c.first /\ x.todo = c.todo
  BY <1>1, <1>2 DEF Opened, Proceeds
<1> HIDE DEF x, c
<1>5. ReadShape(x)
  BY <1>1, <1>2, <1>4 DEF ReadShape, Exact, Proceeds
<1>6. CallShape(x)
  BY <1>1, <1>4, <1>5 DEF CallShape, Proceeds, Reading, SlotKinds, c
<1> QED BY <1>3, <1>4, <1>6 DEF c, n

LEMMA ProbeEffect ==
    ASSUME WellFormed, NEW t \in Clients, Probe(t)
    PROVE  /\ Reading(call[t]) /\ call[t].stage = "has" /\ ~Idle(t)
           /\ held' = held /\ marks' = marks
           /\ \/ call[t].at = 0 /\ Finish(t, "missing", "none")
              \/ \E x : /\ call' = [call EXCEPT ![t] = x] /\ CallShape(x) /\ Proceeds(call[t], x)
                        /\ x.item = call[t].item /\ x.first = call[t].first /\ x.stage = "has"
                        /\ x.at = NextAsked(call[t], call[t].at)
                        /\ call[t].at # 0 /\ held[call[t].at][call[t].item] = "none"
              \/ \E x : /\ call' = [call EXCEPT ![t] = x] /\ CallShape(x) /\ Proceeds(call[t], x)
                        /\ x.item = call[t].item /\ x.first = call[t].first /\ x.stage = "get"
                        /\ x.at = call[t].at
                        /\ call[t].at # 0 /\ held[call[t].at][call[t].item] # "none"
              \/ \E f \in Forms : call[t].kind = "has" /\ Finish(t, "ok", f)
              \/ Finish(t, "error", "none")
<1> DEFINE c == call[t]
<1>1. c \in Opened /\ CallShape(c) /\ ReadShape(c) /\ Reading(c) /\ c.stage = "has" /\ ~Idle(t)
  BY CallKinds DEF Reading, Idle, CallShape, Probe
<1>2. held' = held /\ marks' = marks
  BY DEF Probe
<1>3. \/ c.at = 0 /\ Finish(t, "missing", "none")
      \/ /\ c.at # 0 /\ held[c.at][c.item] = "none"
         /\ call' = [call EXCEPT ![t].at = NextAsked(c, c.at)]
      \/ /\ c.at # 0 /\ held[c.at][c.item] # "none"
         /\ IF c.kind = "has" THEN Finish(t, "ok", held[c.at][c.item])
            ELSE call' = [call EXCEPT ![t].stage = "get"]
      \/ Finish(t, "error", "none")
  BY DEF Probe
<1>4. CASE /\ c.at # 0 /\ held[c.at][c.item] = "none"
           /\ call' = [call EXCEPT ![t].at = NextAsked(c, c.at)]
  <2>1. call' = [call EXCEPT ![t].stage = "has", ![t].at = NextAsked(c, c.at)]
    <3> DEFINE n == NextAsked(c, c.at)
    <3>1. call' = [call EXCEPT ![t].at = n]
      BY <1>4
    <3> HIDE DEF n
    <3>2. [call[t] EXCEPT !.stage = "has"] = call[t]
      BY <1>1 DEF Opened
    <3>3. [call EXCEPT ![t].stage = "has"] = call
      BY <3>2 DEF WellFormed
    <3>4. call' = [call EXCEPT ![t].stage = "has", ![t].at = n]
      BY <3>1, <3>3, Zenon
    <3> QED BY <3>4 DEF n
  <2> QED BY <1>1, <1>2, <1>4, <2>1, ReadMovesOn
<1>5. CASE /\ c.at # 0 /\ held[c.at][c.item] # "none" /\ c.kind # "has"
           /\ call' = [call EXCEPT ![t].stage = "get"]
  <2> DEFINE x == [c EXCEPT !.stage = "get"]
  <2>1. call' = [call EXCEPT ![t] = x]
    BY <1>5 DEF WellFormed
  <2>2. /\ Proceeds(c, x) /\ x.item = c.item /\ x.record = c.record /\ x.at = c.at
        /\ x.stage = "get" /\ x.first = c.first /\ x.todo = c.todo
    BY <1>1 DEF Opened, Proceeds
  <2> HIDE DEF x, c
  <2>3. ReadShape(x)
    BY <1>1, <1>5, <2>2 DEF ReadShape, Exact, Proceeds
  <2>4. CallShape(x)
    BY <1>1, <2>2, <2>3 DEF CallShape, Proceeds, Reading, SlotKinds
  <2> QED BY <1>1, <1>2, <1>5, <2>1, <2>2, <2>4 DEF c
<1>6. CASE c.kind = "has" /\ c.at # 0 /\ Finish(t, "ok", held[c.at][c.item])
  <2>1. held[c.at][c.item] \in Forms
    BY <1>1, <1>6, LayerFacts DEF WellFormed, TypeOK, ReadShape
  <2> QED BY <1>1, <1>2, <1>6, <2>1
<1> QED BY <1>1, <1>2, <1>3, <1>4, <1>5, <1>6

LEMMA FetchEffect ==
    ASSUME WellFormed, NEW t \in Clients, Fetch(t)
    PROVE  LET got == held[call[t].at][call[t].item]
           IN
           /\ Reading(call[t]) /\ call[t].stage = "get" /\ ~Idle(t) /\ got \in Forms
           /\ \/ /\ got \in {"none", "corrupt"}
                 /\ got = "none" => call[t].kind = "raw"
                 /\ \E x : /\ call' = [call EXCEPT ![t] = x] /\ CallShape(x)
                           /\ Proceeds(call[t], x) /\ x.item = call[t].item
                           /\ x.first = call[t].first /\ x.stage = "has"
                           /\ x.at = NextAsked(call[t], call[t].at)
              \/ got = "none" /\ Finish(t, "missing", "none")
              \/ Finish(t, "error", "none")
              \/ /\ got \in {"stored", "projected"} /\ call[t].kind \in {"raw", "stream"}
                 /\ Finish(t, "ok", got)
              \/ /\ got \in {"stored", "projected"} /\ call[t].kind \in {"get", "sync"}
                 /\ call' = [call EXCEPT ![t].stage = "fill", ![t].todo = Above(call[t]),
                                         ![t].form = got]
<1> DEFINE c == call[t]
           got == held[c.at][c.item]
<1>1. c \in Opened /\ CallShape(c) /\ ReadShape(c) /\ Reading(c) /\ c.stage = "get" /\ ~Idle(t)
  BY CallKinds DEF Reading, Idle, CallShape, Fetch
<1>2. c.at \in Layers /\ c.at # 0 /\ c.item \in Items
  BY <1>1, LayerFacts DEF ReadShape
<1>3. got \in Forms
  BY <1>2 DEF WellFormed, TypeOK
<1>4. CASE got = "none" /\ c.kind = "raw"
  BY <1>1, <1>2, <1>3, <1>4, ReadMovesOn DEF Fetch
<1>5. CASE got = "none" /\ c.kind # "raw"
  BY <1>1, <1>3, <1>5 DEF Fetch
<1>6. CASE got = "corrupt" /\ c.kind = "stream"
  BY <1>1, <1>3, <1>6 DEF Fetch
<1>7. CASE got = "corrupt" /\ c.kind # "stream"
  BY <1>1, <1>2, <1>3, <1>7, ReadMovesOn DEF Fetch
<1>8. CASE got \notin {"none", "corrupt"}
  <2>1. c.kind \in {"get", "sync", "raw", "stream"}
    BY <1>1 DEF Reading, ReadShape
  <2> QED BY <2>1, <1>1, <1>3, <1>8 DEF Fetch, Forms
<1> QED BY <1>4, <1>5, <1>6, <1>7, <1>8

(* The layers above the one that served: a verbatim one only when that one *)
(* is verbatim too.                                                        *)
LEMMA AboveFacts ==
    ASSUME WellFormed, NEW c, c.at \in Layers, c.base \in Layers
    PROVE  /\ Above(c) \subseteq Layers /\ Above(c) \in SUBSET Nat
           /\ c.item \in Claims => \A l \in Above(c) : layers[l].raw => layers[c.at].raw
<1>1. Above(c) \subseteq Layers
  BY LayerFacts DEF Above
<1> QED BY <1>1, LayerFacts DEF Above

(* What was served: the form the layer keeps it in, and the layers above   *)
(* it may fill.                                                            *)
LEMMA ServedShape ==
    ASSUME WellFormed, FormsInv, NEW t \in Clients, call[t].kind \in {"get", "sync"}, call[t].stage = "get",
           held[call[t].at][call[t].item] \in {"stored", "projected"},
           call' = [call EXCEPT ![t].stage = "fill", ![t].todo = Above(call[t]),
                                ![t].form = held[call[t].at][call[t].item]]
    PROVE  \E x : /\ call' = [call EXCEPT ![t] = x] /\ CallShape(x) /\ Proceeds(call[t], x)
                  /\ x.item = call[t].item /\ x.first = call[t].first /\ x.stage = "fill"
                  /\ x.at = call[t].at
<1> DEFINE c == call[t]
           got == held[c.at][c.item]
           T == Above(c)
           x == [c EXCEPT !.stage = "fill", !.todo = T, !.form = got]
<1>1. c \in Opened /\ CallShape(c) /\ ReadShape(c) /\ c.kind \in {"get", "sync"}
  BY CallKinds DEF Reading, Idle, CallShape
<1>2. c.at \in Layers /\ c.at # 0 /\ c.at \in c.base..Depth /\ c.item \in Items /\ c.base \in Layers
  BY <1>1, LayerFacts DEF ReadShape
<1>3. /\ T \subseteq Layers /\ T \in SUBSET Nat
      /\ c.item \in Claims => \A l \in T : layers[l].raw => layers[c.at].raw
  BY <1>2, AboveFacts
<1>4. got \in {"stored", "projected"} /\ got \in Forms
      /\ (got = "projected" => c.item \in Claims /\ ~layers[c.at].raw)
  BY <1>2 DEF FormsInv, Forms
<1>5. call' = [call EXCEPT ![t] = x]
  BY <1>1 DEF WellFormed
<1> HIDE DEF T, got
<1>6. /\ Proceeds(c, x) /\ x.item = c.item /\ x.record = c.record /\ x.at = c.at
      /\ x.stage = "fill" /\ x.first = c.first /\ x.todo = T /\ x.form = got
  BY <1>1, <1>3, <1>4 DEF Opened, Proceeds
<1> HIDE DEF x, c
<1>7. ReadShape(x)
  BY <1>1, <1>2, <1>3, <1>4, <1>6 DEF ReadShape, Exact, Proceeds
<1>8. CallShape(x)
  BY <1>1, <1>3, <1>6, <1>7 DEF CallShape, Proceeds, Reading, SlotKinds, c
<1> QED BY <1>5, <1>6, <1>8 DEF c

LEMMA FillEffect ==
    ASSUME WellFormed, NEW t \in Clients, Fill(t)
    PROVE  /\ Reading(call[t]) /\ call[t].stage = "fill" /\ ~Idle(t) /\ CallShape(call[t])
           /\ \E l \in call[t].todo :
                /\ l \in Layers
                /\ \/ /\ call[t].item \in Claims /\ inbox' = inbox /\ doorbell' = doorbell
                      /\ PutIn(l, call[t].item, call[t].form) \/ held' = held
                   \/ /\ call[t].item \in Blobs /\ held' = held
                      /\ Queue(<<l, call[t].item>>)
           /\ \E x : /\ call' = [call EXCEPT ![t] = x] /\ CallShape(x) /\ Proceeds(call[t], x)
                     /\ x.item = call[t].item /\ x.first = call[t].first /\ x.stage = "fill"
                     /\ x.at = call[t].at
<1> DEFINE c == call[t]
           l == Min(c.todo)
           x == [c EXCEPT !.todo = c.todo \ {l}]
<1>1. c \in Opened /\ CallShape(c) /\ ReadShape(c) /\ Reading(c) /\ c.stage = "fill" /\ ~Idle(t)
  BY CallKinds DEF Reading, Idle, CallShape, Fill
<1>2. l \in c.todo
  BY <1>1, MinOf DEF Fill, Opened
<1>3. l \in Layers
  BY <1>1, <1>2 DEF CallShape
<1>4. \/ /\ c.item \in Claims /\ inbox' = inbox /\ doorbell' = doorbell
         /\ PutIn(l, c.item, c.form) \/ held' = held
      \/ c.item \in Blobs /\ held' = held /\ Queue(<<l, c.item>>)
  BY <1>1 DEF Fill, ReadShape, Items
<1>5. call' = [call EXCEPT ![t] = x]
  BY <1>1 DEF WellFormed, Fill
<1> HIDE DEF l
<1>6. /\ Proceeds(c, x) /\ x.item = c.item /\ x.record = c.record /\ x.at = c.at
      /\ x.stage = c.stage /\ x.first = c.first /\ x.todo = c.todo \ {l} /\ x.form = c.form
  BY <1>1 DEF Opened, Proceeds
<1> HIDE DEF x
<1>7. CallShape(x)
  <2> HIDE DEF c
  <2>1. ReadShape(x)
    BY <1>1, <1>6 DEF ReadShape, Exact, Proceeds
  <2> QED BY <1>1, <1>6, <2>1 DEF CallShape, Proceeds, Reading, SlotKinds
<1> QED BY <1>1, <1>2, <1>3, <1>4, <1>5, <1>6, <1>7

(* A walk for the call c, from the top of the layers it is about.          *)
LEMMA WalkAgain ==
    ASSUME WellFormed, NEW c \in Opened, c.kind \in {"get", "sync"}, c.item \in Items,
           c.base \in Layers, c.kind = "get" => c.base = 1,
           c.kind = "sync" => c.base > 1 /\ layers[c.base - 1].tier = "eager",
           c.stage = "has", c.todo = {},
           NEW x, x = [c EXCEPT !.at = NextAsked(c, c.base - 1)]
    PROVE  /\ CallShape(x) /\ x.kind = c.kind /\ x.item = c.item /\ x.stage = "has"
           /\ x.first = c.first /\ x.must = c.must /\ x.alone = c.alone
           /\ c.kind = "get" => x.at # 0 /\ \E a \in Authoritative : x.at <= a
<1> DEFINE n == NextAsked(c, c.base - 1)
<1>1. x = [c EXCEPT !.at = n]
  OBVIOUS
<1>2. c.base - 1 \in Nat /\ Reading(c)
  BY LayerFacts DEF Reading
<1>3. /\ n \in Nat
      /\ n # 0 => n \in c.base..Depth /\ (Exact(c) => layers[n].raw)
      /\ \A a \in Authoritative : a > c.base - 1 /\ a >= c.base => n # 0 /\ n <= a
  <2> HIDE <1>1
  <2> QED BY <1>2, WalkGoes
<1> HIDE DEF n
<1>4. /\ x \in Opened /\ x.at = n
      /\ x.kind = c.kind /\ x.item = c.item /\ x.delta = c.delta /\ x.base = c.base
      /\ x.stage = c.stage /\ x.first = c.first /\ x.todo = c.todo /\ x.must = c.must
      /\ x.alone = c.alone
  BY <1>1, <1>3 DEF Opened
<1>5. ReadShape(x)
  BY <1>3, <1>4 DEF ReadShape, Exact
<1>6. CallShape(x)
  BY <1>4, <1>5 DEF CallShape, SlotKinds
<1>7. c.kind = "get" => \E a \in Authoritative : a > c.base - 1 /\ a >= c.base
  BY LayerFacts
<1> QED BY <1>3, <1>4, <1>6, <1>7

(* The claim is a delta: the walk starts again for its predecessor.        *)
NextRead(c) ==
    [c EXCEPT !.item = Pred[c.item], !.stage = "has", !.form = "none",
              !.first = IF c.first = <<>> THEN <<c.item, c.form>> ELSE c.first,
              !.must = @ /\ Pred[c.item] \in acked]

LEMMA Resolves ==
    ASSUME WellFormed, NEW c \in Opened, CallShape(c), c.kind \in {"get", "sync"},
           c.stage = "fill", c.todo = {}, c.item \in Claims, Pred[c.item] # None
    PROVE  LET next == NextRead(c) IN
           /\ next \in Opened /\ next.kind = c.kind /\ next.item = Pred[c.item]
           /\ next.item \in Claims /\ next.base = c.base /\ next.stage = "has" /\ next.todo = {}
           /\ next.first # <<>> /\ next.first[1] = Subject(c) /\ next.alone = c.alone
           /\ next.must => c.must /\ next.item \in acked
<1> DEFINE p == Pred[c.item]
           b == p \in acked
           next == NextRead(c)
           first == IF c.first = <<>> THEN <<c.item, c.form>> ELSE c.first
<1>1. p \in Claims
  BY StackAssumption
<1>2. first \in {<<>>} \cup (Claims \X {"stored", "projected"}) /\ first[1] = Subject(c) /\ first # <<>>
  <2>1. c.form \in {"stored", "projected"}
    BY DEF CallShape, ReadShape, Reading
  <2>2. <<c.item, c.form>> \in Claims \X {"stored", "projected"} /\ <<c.item, c.form>> # <<>>
    BY <2>1
  <2>3. c.first \in {<<>>} \cup (Claims \X {"stored", "projected"})
    BY DEF Opened
  <2> QED BY <2>2, <2>3 DEF Subject
<1>3. b \in BOOLEAN
  OBVIOUS
<1>4. next = [c EXCEPT !.item = p, !.stage = "has", !.form = "none", !.first = first,
                       !.must = @ /\ b]
  BY DEF NextRead
<1> HIDE DEF p, b, first, next
<1>5. p \in AnySubject /\ "none" \in Forms
  BY <1>1 DEF AnySubject, Forms, Items
<1>6. /\ next \in Opened /\ next.kind = c.kind /\ next.item = p
      /\ next.base = c.base /\ next.stage = "has" /\ next.first = first /\ next.todo = c.todo
      /\ next.alone = c.alone
  BY <1>2, <1>3, <1>4, <1>5 DEF Opened
<1>7. next.must = (c.must /\ b)
  BY <1>4 DEF Opened
<1> QED BY <1>1, <1>2, <1>6, <1>7 DEF p, b, next

LEMMA ServeEffect ==
    ASSUME WellFormed, NEW t \in Clients, Serve(t)
    PROVE  /\ call[t].kind \in {"get", "sync"} /\ call[t].stage = "fill" /\ ~Idle(t)
           /\ CallShape(call[t])
           /\ \/ /\ held' = held /\ call[t].item \in Claims /\ Pred[call[t].item] # None
                 /\ \E x : /\ call' = [call EXCEPT ![t] = x] /\ CallShape(x)
                           /\ x.kind = call[t].kind /\ x.alone = call[t].alone
                           /\ x.item = Pred[call[t].item] /\ x.item \in Claims /\ x.stage = "has"
                           /\ x.first # <<>> /\ x.first[1] = Subject(call[t])
                           /\ x.must => call[t].must /\ x.item \in acked
                           /\ x.kind = "get" => x.at # 0 /\ \E a \in Authoritative : x.at <= a
              \/ call[t].kind = "get" /\ held' = held /\ Finish(t, "ok", call[t].form)
              \/ /\ call[t].kind = "sync" /\ Finish(t, "ok", call[t].form)
                 /\ \E f \in {"stored", "projected"} :
                       /\ Accepts(call[t].base - 1, Subject(call[t]), f)
                       /\ Subject(call[t]) \in Blobs => f = "stored"
                       /\ PutIn(call[t].base - 1, Subject(call[t]), f)
              \/ held' = held /\ Finish(t, "error", "none")
<1> DEFINE c == call[t]
           first == IF c.first = <<>> THEN <<c.item, c.form>> ELSE c.first
           next == NextRead(c)
           x == [next EXCEPT !.at = NextAsked(next, c.base - 1)]
<1>1. c \in Opened /\ CallShape(c) /\ ReadShape(c) /\ Reading(c) /\ c.stage = "fill" /\ ~Idle(t)
  BY CallKinds DEF Reading, Idle, CallShape, Serve
<1>2. c.kind \in {"get", "sync"} /\ c.form \in {"stored", "projected"} /\ c.todo = {}
      /\ (c.form = "projected" => c.item \in Claims)
  BY <1>1 DEF ReadShape, Serve
<1>3. \/ /\ c.item \in Claims /\ Pred[c.item] # None /\ held' = held
         /\ call' = [call EXCEPT ![t] = x]
      \/ c.kind = "get" /\ held' = held /\ Finish(t, "ok", c.form)
      \/ /\ c.kind = "sync" /\ Finish(t, "ok", c.form)
         /\ Accepts(c.base - 1, first[1], first[2]) /\ PutIn(c.base - 1, first[1], first[2])
      \/ held' = held /\ Finish(t, "error", "none")
  BY DEF Serve, NextRead
<1>4. CASE /\ c.item \in Claims /\ Pred[c.item] # None /\ held' = held
           /\ call' = [call EXCEPT ![t] = x]
  <2> HIDE DEF c
  <2>1. /\ next \in Opened /\ next.kind = c.kind /\ next.item = Pred[c.item]
        /\ next.item \in Claims /\ next.base = c.base /\ next.stage = "has" /\ next.todo = {}
        /\ next.first # <<>> /\ next.first[1] = Subject(c) /\ next.alone = c.alone
        /\ next.must => c.must /\ next.item \in acked
    BY <1>1, <1>2, <1>4, Resolves
  <2> HIDE DEF next
  <2>2. /\ c.base \in Layers /\ (c.kind = "get" => c.base = 1)
        /\ (c.kind = "sync" => c.base > 1 /\ layers[c.base - 1].tier = "eager")
    BY <1>1 DEF ReadShape
  <2>3. x = [next EXCEPT !.at = NextAsked(next, next.base - 1)]
    BY <2>1
  <2> HIDE DEF x
  <2>4. /\ CallShape(x) /\ x.kind = next.kind /\ x.item = next.item /\ x.stage = "has"
        /\ x.first = next.first /\ x.must = next.must /\ x.alone = next.alone
        /\ next.kind = "get" => x.at # 0 /\ \E a \in Authoritative : x.at <= a
    BY <1>2, <2>1, <2>2, <2>3, WalkAgain, ZenonT(60) DEF Items
  <2> QED BY <1>1, <1>2, <1>4, <2>1, <2>4 DEF c
<1>5. CASE /\ c.kind = "sync" /\ Finish(t, "ok", c.form)
           /\ Accepts(c.base - 1, first[1], first[2]) /\ PutIn(c.base - 1, first[1], first[2])
  <2>1. /\ first[1] = Subject(c) /\ first[2] \in {"stored", "projected"}
        /\ first[1] \in Blobs => first[2] = "stored"
    <3>1. CASE c.first = <<>>
      <4>1. first[1] = c.item /\ first[2] = c.form
        BY <3>1
      <4> QED BY <3>1, <4>1, <1>2, StackAssumption DEF Subject
    <3>2. CASE c.first # <<>>
      <4>1. c.first \in Claims \X {"stored", "projected"}
        BY <1>1, <3>2 DEF Opened
      <4>2. c.first[1] \in Claims /\ c.first[2] \in {"stored", "projected"}
        BY <4>1
      <4> QED BY <3>2, <4>2, StackAssumption DEF Subject
    <3> QED BY <3>1, <3>2
  <2> HIDE DEF first
  <2> QED BY <1>1, <1>2, <1>5, <2>1
<1> HIDE DEF first, x, next
<1> QED BY <1>1, <1>2, <1>3, <1>4, <1>5

LEMMA DeleteEffect ==
    ASSUME WellFormed, NEW t \in Clients, DeleteAt(t)
    PROVE  LET c == call[t] IN
           /\ c.kind = "del" /\ ~Idle(t) /\ c.at \in Layers /\ c.item \in Items
           /\ \/ /\ held' = [held EXCEPT ![c.at][c.item] = "none"] /\ history' = history
                 /\ c.at < Depth
                 /\ \E x : /\ call' = [call EXCEPT ![t] = x] /\ CallShape(x) /\ Proceeds(c, x)
                           /\ x.item = c.item /\ x.at = c.at + 1
              \/ /\ held' = [held EXCEPT ![c.at][c.item] = "none"] /\ c.at = Depth
                 /\ Finish(t, "ok", "none")
                 /\ removed' \subseteq removed \cup {c.item}
                 /\ quiet' \subseteq quiet \cup {c.item} /\ (quiet' # quiet => c.alone)
                 /\ acked' = acked /\ unsure' = unsure
              \/ held' = held /\ history' = history /\ Finish(t, "error", "none")
<1> DEFINE c == call[t]
           x == [c EXCEPT !.at = c.at + 1]
<1>1. c \in Opened /\ CallShape(c) /\ c.kind = "del" /\ ~Idle(t)
  BY CallKinds DEF Idle, DeleteAt
<1>2. c.at \in Layers /\ c.item \in Items /\ c.at \in Nat
  BY <1>1, LayerFacts DEF CallShape
<1>3. \/ /\ held' = [held EXCEPT ![c.at][c.item] = "none"] /\ history' = history
         /\ c.at + 1 \in DeletedLayers /\ call' = [call EXCEPT ![t].at = @ + 1]
      \/ /\ held' = [held EXCEPT ![c.at][c.item] = "none"] /\ c.at + 1 \notin DeletedLayers
         /\ Finish(t, "ok", "none")
         /\ removed' = IF c.must THEN removed \cup {c.item} ELSE removed
         /\ quiet' = IF c.alone THEN quiet \cup {c.item} ELSE quiet
         /\ acked' = acked /\ unsure' = unsure
      \/ held' = held /\ history' = history /\ Finish(t, "error", "none")
  BY DEF DeleteAt, history
<1>4. CASE /\ held' = [held EXCEPT ![c.at][c.item] = "none"] /\ history' = history
           /\ c.at + 1 \in DeletedLayers /\ call' = [call EXCEPT ![t].at = @ + 1]
  <2>1. call' = [call EXCEPT ![t] = x]
    BY <1>1, <1>4 DEF WellFormed
  <2>2. Proceeds(c, x) /\ x.item = c.item /\ x.at = c.at + 1 /\ x.todo = c.todo
    BY <1>1, <1>2 DEF Opened, Proceeds
  <2>3. c.at < Depth /\ c.at + 1 \in Layers
    BY <1>2, <1>4, LayerFacts DEF DeletedLayers
  <2> HIDE DEF x, c
  <2>4. CallShape(x)
    BY <1>1, <1>2, <2>2, <2>3 DEF CallShape, Proceeds, Reading, SlotKinds
  <2> QED BY <1>1, <1>2, <1>4, <2>1, <2>2, <2>3, <2>4 DEF c
<1>5. c.at + 1 \notin DeletedLayers => c.at = Depth
  BY <1>2, LayerFacts DEF DeletedLayers
<1> QED BY <1>1, <1>2, <1>3, <1>4, <1>5

LEMMA TagEffect ==
    ASSUME WellFormed, NEW t \in Clients, TagAt(t)
    PROVE  /\ call[t].kind = "tag" /\ ~Idle(t) /\ tagged' \subseteq Layers
           /\ \/ \E r \in {"ok", "error"} : Finish(t, r, "none")
              \/ \E x : /\ call' = [call EXCEPT ![t] = x] /\ CallShape(x) /\ Proceeds(call[t], x)
                        /\ x.item = call[t].item
<1> DEFINE c == call[t]
           l == Min(c.todo)
           x == [c EXCEPT !.todo = c.todo \ {l}]
<1>1. c \in Opened /\ CallShape(c) /\ c.kind = "tag" /\ ~Idle(t) /\ tagged \subseteq Layers
  BY CallKinds DEF Idle, TagAt, WellFormed, TypeOK
<1>2. \/ tagged' = tagged /\ \E r \in {"ok", "error"} : Finish(t, r, "none")
      \/ /\ c.todo # {} /\ tagged' = tagged \cup {l} /\ call' = [call EXCEPT ![t].todo = @ \ {l}]
  BY DEF TagAt
<1>3. CASE /\ c.todo # {} /\ tagged' = tagged \cup {l}
           /\ call' = [call EXCEPT ![t].todo = @ \ {l}]
  <2>1. l \in c.todo
    BY <1>1, <1>3, MinOf DEF Opened
  <2>2. l \in Layers
    BY <1>1, <2>1 DEF CallShape
  <2>3. call' = [call EXCEPT ![t] = x]
    BY <1>1, <1>3 DEF WellFormed
  <2> HIDE DEF l
  <2>4. Proceeds(c, x) /\ x.item = c.item /\ x.todo = c.todo \ {l}
    BY <1>1 DEF Opened, Proceeds
  <2> HIDE DEF x, c
  <2>5. CallShape(x)
    BY <1>1, <2>4 DEF CallShape, Proceeds, Reading, SlotKinds
  <2> QED BY <1>1, <1>3, <2>2, <2>3, <2>4, <2>5 DEF c
<1> QED BY <1>1, <1>2, <1>3

LEMMA BookmarkGetEffect ==
    ASSUME WellFormed, NEW t \in Clients, BookmarkGet(t)
    PROVE  /\ call[t].kind = "bmget" /\ ~Idle(t)
           /\ \/ \E r \in {"missing", "error"} : Finish(t, r, "none")
              \/ \E x : /\ call' = [call EXCEPT ![t] = x] /\ CallShape(x) /\ Proceeds(call[t], x)
                        /\ x.item = call[t].item
                        /\ x.stage = "fill" => marks[x.at][x.item] # None
<1> DEFINE c == call[t]
           n == NextAsked(c, c.at)
           found == marks[c.at][c.item]
<1>1. c \in Opened /\ CallShape(c) /\ c.kind = "bmget" /\ ~Idle(t) /\ c.stage = "has"
  BY CallKinds DEF Idle, BookmarkGet
<1>2. /\ c.item \in Slots /\ c.base = 1 /\ c.at \in Nat /\ (c.at # 0 => c.at \in Layers)
      /\ c.todo \subseteq Layers
  BY <1>1, LayerFacts DEF CallShape, SlotKinds
<1>3. n \in Nat /\ (n # 0 => n \in Layers)
  <2>1. c.base \in Layers
    BY <1>2, LayerFacts
  <2>2. n \in Nat /\ (n # 0 => n \in c.base..Depth)
    BY <1>2, <2>1, NextAskedIs
  <2> QED BY <1>2, <2>2, LayerFacts
<1>4. \/ \E r \in {"missing", "error"} : Finish(t, r, "none")
      \/ c.at # 0 /\ call' = [call EXCEPT ![t].at = n, ![t].todo = @ \cup {c.at}]
      \/ /\ c.at # 0 /\ found # None
         /\ call' = [call EXCEPT ![t].stage = "fill", ![t].record = found]
  <2> DEFINE f == IF c.at = 0 THEN None ELSE found
  <2>1. \/ \E r \in {"missing", "error"} : Finish(t, r, "none")
        \/ c.at # 0 /\ call' = [call EXCEPT ![t].at = n, ![t].todo = @ \cup {c.at}]
        \/ f # None /\ call' = [call EXCEPT ![t].stage = "fill", ![t].record = f]
    BY DEF BookmarkGet
  <2>2. f # None => c.at # 0 /\ f = found
    OBVIOUS
  <2> HIDE DEF f, found, n
  <2> QED BY <2>1, <2>2
<1>5. CASE c.at # 0 /\ call' = [call EXCEPT ![t].at = n, ![t].todo = @ \cup {c.at}]
  <2> HIDE DEF n
  <2> DEFINE x == [c EXCEPT !.at = n, !.todo = c.todo \cup {c.at}]
  <2>1. call' = [call EXCEPT ![t] = x]
    BY <1>1, <1>5 DEF WellFormed
  <2>2. c.todo \cup {c.at} \in SUBSET Nat /\ c.todo \cup {c.at} \subseteq Layers
    BY <1>2, <1>5, LayerFacts
  <2>3. /\ Proceeds(c, x) /\ x.item = c.item /\ x.at = n /\ x.todo = c.todo \cup {c.at}
        /\ x.stage = c.stage
    BY <1>1, <1>3, <2>2 DEF Opened, Proceeds
  <2> HIDE DEF x, c
  <2>4. CallShape(x)
    BY <1>1, <1>2, <1>3, <2>2, <2>3 DEF CallShape, Proceeds, Reading, SlotKinds
  <2> QED BY <1>1, <2>1, <2>3, <2>4 DEF c
<1>6. CASE /\ c.at # 0 /\ found # None
           /\ call' = [call EXCEPT ![t].stage = "fill", ![t].record = found]
  <2>1. found \in Records
    BY <1>2, <1>6 DEF WellFormed, TypeOK
  <2> HIDE DEF found
  <2> DEFINE x == [c EXCEPT !.stage = "fill", !.record = found]
  <2>2. call' = [call EXCEPT ![t] = x]
    BY <1>1, <1>6 DEF WellFormed
  <2>3. Proceeds(c, x) /\ x.item = c.item /\ x.at = c.at /\ x.todo = c.todo /\ x.stage = "fill"
    BY <1>1, <2>1 DEF Opened, Proceeds
  <2> HIDE DEF x, c
  <2>4. CallShape(x)
    BY <1>1, <1>2, <1>6, <2>3 DEF CallShape, Proceeds, Reading, SlotKinds
  <2>5. marks[x.at][x.item] # None
    BY <1>6, <2>3 DEF found
  <2> QED BY <1>1, <2>2, <2>3, <2>4, <2>5 DEF c
<1> QED BY <1>1, <1>4, <1>5, <1>6

LEMMA BookmarkFillEffect ==
    ASSUME WellFormed, NEW t \in Clients, BookmarkFill(t)
    PROVE  LET c == call[t] IN
           /\ c.kind = "bmget" /\ ~Idle(t) /\ c.stage = "fill" /\ c.at \in Layers /\ c.item \in Slots
           /\ c.record \in Records
           /\ \/ marks' = marks /\ Finish(t, "ok", c.record)
              \/ /\ \E x : /\ call' = [call EXCEPT ![t] = x] /\ CallShape(x) /\ Proceeds(c, x)
                           /\ x.item = c.item /\ x.at = c.at
                 /\ \/ marks' = marks
                    \/ \E l \in Layers : marks' = [marks EXCEPT ![l][c.item] = c.record]
<1> DEFINE c == call[t]
           l == Min(c.todo)
           x == [c EXCEPT !.todo = c.todo \ {l}]
<1>1. c \in Opened /\ CallShape(c) /\ c.kind = "bmget" /\ ~Idle(t) /\ c.stage = "fill"
  BY CallKinds DEF Idle, BookmarkFill
<1>2. /\ c.item \in Slots /\ c.base = 1 /\ c.at \in Layers /\ c.record \in Records
      /\ c.todo \subseteq Layers
  BY <1>1 DEF CallShape, SlotKinds, Opened
<1>3. \/ marks' = marks /\ Finish(t, "ok", c.record)
      \/ /\ c.todo # {} /\ call' = [call EXCEPT ![t].todo = @ \ {l}]
         /\ marks' = [marks EXCEPT ![l][c.item] = c.record] \/ marks' = marks
  BY DEF BookmarkFill
<1>4. CASE /\ c.todo # {} /\ call' = [call EXCEPT ![t].todo = @ \ {l}]
           /\ marks' = [marks EXCEPT ![l][c.item] = c.record] \/ marks' = marks
  <2>1. l \in Layers
    BY <1>1, <1>2, <1>4, MinOf DEF Opened
  <2>2. call' = [call EXCEPT ![t] = x]
    BY <1>1, <1>4 DEF WellFormed
  <2> HIDE DEF l
  <2>3. /\ Proceeds(c, x) /\ x.item = c.item /\ x.at = c.at /\ x.todo = c.todo \ {l}
        /\ x.stage = c.stage
    BY <1>1 DEF Opened, Proceeds
  <2> HIDE DEF x, c
  <2>4. CallShape(x)
    BY <1>1, <1>2, <2>3 DEF CallShape, Proceeds, Reading, SlotKinds
  <2> QED BY <1>1, <1>2, <1>4, <2>1, <2>2, <2>3, <2>4 DEF c
<1> QED BY <1>1, <1>2, <1>3, <1>4

----------------------------------------------------------------------------
(* What the layers hold *)

(* The stack is fixed when it is built.                                    *)
LEMMA LayersStay == ASSUME [Next]_vars PROVE layers' = layers
BY ZenonT(60) DEF Next, vars, Begin, Step, WriteSync, WriteDone, BackgroundWrite, DeleteAt, TagAt, Probe,
   Fetch, Fill, Serve, BookmarkGet, BookmarkFill, Close, Filling, Wake, Take, WriteBatch, Rot

(* What a step may do to what a layer holds: keep it well formed, take an  *)
(* item away only for its deletion, and bring one only for a write of it.  *)
HeldStep ==
    /\ held' \in [Layers -> [Items -> Forms]]
    /\ \A l \in Layers, i \in Items :
          /\ held'[l][i] = "projected" => i \in Claims /\ ~layers[l].raw
          /\ held'[l][i] = "corrupt" => i \in Blobs /\ l \notin Authoritative
          /\ held[l][i] # "none" /\ held'[l][i] = "none" =>
                \E t \in Clients : call[t].kind = "del" /\ call[t].item = i
          /\ held[l][i] = "none" /\ held'[l][i] # "none" =>
                ~Clear(i) \/ \E t \in Clients : ~Idle(t) /\ ~Harmless(call[t], i)

LEMMA HeldKept ==
    ASSUME WellFormed, FormsInv, held' = held
    PROVE  HeldStep
BY DEF HeldStep, WellFormed, FormsInv, TypeOK

(* A write of an item, by a call or on its way, in a form the layer takes. *)
LEMMA HeldPut ==
    ASSUME WellFormed, FormsInv, NEW l \in Layers, NEW i \in Items,
           NEW f \in {"stored", "projected"},
           i \in Blobs => f = "stored", i \in Claims /\ layers[l].raw => f = "stored",
           PutIn(l, i, f),
           ~Clear(i) \/ \E t \in Clients : ~Idle(t) /\ ~Harmless(call[t], i)
    PROVE  HeldStep
<1>1. held \in [Layers -> [Items -> Forms]]
  BY DEF WellFormed, TypeOK
<1> DEFINE k == KeptAs(l, i, f)
<1>2. k \in {"stored", "projected"} /\ (k = "projected" => i \in Claims /\ ~layers[l].raw)
  BY DEF KeptAs, Items
<1>3. held' = [held EXCEPT ![l][i] = k]
  BY DEF PutIn
<1> HIDE DEF k
<1>4. k \in Forms /\ k # "none" /\ k # "corrupt"
  BY <1>2 DEF Forms
<1>5. held' \in [Layers -> [Items -> Forms]]
  BY <1>1, <1>3, <1>4
<1>6. \A m \in Layers, j \in Items : held'[m][j] = IF m = l /\ j = i THEN k ELSE held[m][j]
  BY <1>1, <1>3
<1> QED BY <1>2, <1>4, <1>5, <1>6 DEF HeldStep, FormsInv

LEMMA HeldDeleted ==
    ASSUME WellFormed, FormsInv, NEW l \in Layers, NEW i \in Items,
           held' = [held EXCEPT ![l][i] = "none"],
           \E t \in Clients : call[t].kind = "del" /\ call[t].item = i
    PROVE  HeldStep
<1>1. held \in [Layers -> [Items -> Forms]] /\ "none" \in Forms
  BY DEF WellFormed, TypeOK, Forms
<1>2. held' \in [Layers -> [Items -> Forms]]
  BY <1>1
<1>3. \A m \in Layers, j \in Items : held'[m][j] = IF m = l /\ j = i THEN "none" ELSE held[m][j]
  BY <1>1
<1> QED BY <1>2, <1>3 DEF HeldStep, FormsInv

LEMMA HeldBatch ==
    ASSUME WellFormed, FormsInv, WriteBatch
    PROVE  HeldStep
<1>1. CASE held' = held
  BY <1>1, HeldKept
<1>2. CASE \E l \in {j[1] : j \in batch} :
              held' = [held EXCEPT ![l] = [i \in Items |->
                         IF i \in {j[2] : j \in {k \in batch : k[1] = l}} THEN "stored" ELSE @[i]]]
  <2>1. PICK l \in {j[1] : j \in batch} :
              held' = [held EXCEPT ![l] = [i \in Items |->
                         IF i \in {j[2] : j \in {k \in batch : k[1] = l}} THEN "stored" ELSE @[i]]]
    BY <1>2
  <2> DEFINE mine == {j[2] : j \in {k \in batch : k[1] = l}}
             row == [i \in Items |-> IF i \in mine THEN "stored" ELSE held[l][i]]
  <2>2. held \in [Layers -> [Items -> Forms]] /\ batch \subseteq Layers \X Blobs
    BY DEF WellFormed, TypeOK
  <2>3. l \in Layers
    BY <2>2
  <2>4. \A i \in mine : i \in Blobs /\ ~Clear(i)
    BY <2>2 DEF Clear
  <2>5. held' = [held EXCEPT ![l] = row]
    BY <2>1
  <2> HIDE DEF mine
  <2>6. row \in [Items -> Forms]
    BY <2>2, <2>3 DEF Forms
  <2>7. held' \in [Layers -> [Items -> Forms]]
    BY <2>2, <2>3, <2>5, <2>6
  <2>8. \A m \in Layers, j \in Items :
            held'[m][j] = IF m = l /\ j \in mine THEN "stored" ELSE held[m][j]
    BY <2>2, <2>3, <2>5
  <2> HIDE DEF row
  <2> QED BY <2>4, <2>7, <2>8 DEF HeldStep, FormsInv
<1> QED BY <1>1, <1>2 DEF WriteBatch

LEMMA HeldRot ==
    ASSUME WellFormed, FormsInv, Rot
    PROVE  HeldStep
<1>1. PICK l \in Layers \ Authoritative, b \in Blobs :
         held[l][b] = "stored" /\ held' = [held EXCEPT ![l][b] = "corrupt"]
  BY DEF Rot
<1>2. held \in [Layers -> [Items -> Forms]] /\ "corrupt" \in Forms /\ b \in Items
  BY DEF WellFormed, TypeOK, Forms, Items
<1>3. held' \in [Layers -> [Items -> Forms]]
  BY <1>1, <1>2
<1>4. \A m \in Layers, j \in Items :
          held'[m][j] = IF m = l /\ j = b THEN "corrupt" ELSE held[m][j]
  BY <1>1, <1>2
<1> QED BY <1>1, <1>3, <1>4 DEF HeldStep, FormsInv

LEMMA HeldEffect ==
    ASSUME WellFormed, FormsInv, [Next]_vars
    PROVE  HeldStep
<1>1. CASE held' = held
  BY <1>1, HeldKept
<1>2. ASSUME NEW t \in Clients, WriteSync(t) PROVE HeldStep
  <2>1. PICK l \in call[t].todo :
           l \in Layers /\ ~Idle(t)
           /\ (held' = held \/ (call[t].kind = "put" /\ PutIn(l, call[t].item, "stored")))
    BY <1>2, WriteSyncEffect
  <2>2. CASE call[t].kind = "put" /\ PutIn(l, call[t].item, "stored")
    <3>1. call[t].item \in Items
      BY <2>1, <2>2, CallKinds DEF CallShape
    <3>2. ~Harmless(call[t], call[t].item)
      BY <2>2 DEF Harmless
    <3> QED BY <2>1, <2>2, <3>1, <3>2, HeldPut
  <2> QED BY <1>1, <2>1, <2>2
<1>3. ASSUME BackgroundWrite PROVE HeldStep
  <2>1. PICK w \in detached :
           held' = held \/ (w[2] \in Items /\ PutIn(w[1], w[2], "stored"))
    BY <1>3 DEF BackgroundWrite
  <2>2. CASE w[2] \in Items /\ PutIn(w[1], w[2], "stored")
    <3>1. w[1] \in Layers
      BY DEF WellFormed
    <3>2. ~Clear(w[2])
      BY DEF Clear
    <3> QED BY <2>2, <3>1, <3>2, HeldPut
  <2> QED BY <1>1, <2>1, <2>2
<1>4. ASSUME NEW t \in Clients, DeleteAt(t) PROVE HeldStep
  <2>1. /\ call[t].kind = "del" /\ call[t].at \in Layers /\ call[t].item \in Items
        /\ held' = held \/ held' = [held EXCEPT ![call[t].at][call[t].item] = "none"]
    BY <1>4, DeleteEffect
  <2> QED BY <1>1, <2>1, HeldDeleted
<1>5. ASSUME NEW t \in Clients, Fill(t) PROVE HeldStep
  <2>1. Reading(call[t]) /\ call[t].stage = "fill" /\ ~Idle(t) /\ CallShape(call[t])
    BY <1>5, FillEffect
  <2>2. PICK l \in call[t].todo :
           /\ l \in Layers
           /\ \/ held' = held
              \/ call[t].item \in Claims /\ PutIn(l, call[t].item, call[t].form)
    BY <1>5, FillEffect
  <2>3. CASE call[t].item \in Claims /\ PutIn(l, call[t].item, call[t].form)
    <3>1. /\ call[t].form \in {"stored", "projected"} /\ call[t].item \in Items
          /\ layers[l].raw => call[t].form = "stored"
      BY <2>1, <2>2, <2>3 DEF CallShape, ReadShape
    <3>2. call[t].item \notin Blobs
      BY <2>3, StackAssumption
    <3>3. ~Harmless(call[t], call[t].item)
      BY <2>1 DEF Harmless
    <3> QED BY <2>1, <2>2, <2>3, <3>1, <3>2, <3>3, HeldPut
  <2> QED BY <1>1, <2>2, <2>3
<1>6. ASSUME NEW t \in Clients, Serve(t) PROVE HeldStep
  <2>1. /\ call[t].kind \in {"get", "sync"} /\ call[t].stage = "fill" /\ ~Idle(t)
        /\ CallShape(call[t])
        /\ \/ held' = held
           \/ /\ call[t].kind = "sync"
              /\ \E f \in {"stored", "projected"} :
                    /\ Accepts(call[t].base - 1, Subject(call[t]), f)
                    /\ Subject(call[t]) \in Blobs => f = "stored"
                    /\ PutIn(call[t].base - 1, Subject(call[t]), f)
    BY <1>6, ServeEffect
  <2>2. ASSUME call[t].kind = "sync", NEW f \in {"stored", "projected"},
               Accepts(call[t].base - 1, Subject(call[t]), f),
               Subject(call[t]) \in Blobs => f = "stored",
               PutIn(call[t].base - 1, Subject(call[t]), f)
        PROVE  HeldStep
    <3>1. call[t].base - 1 \in Layers
      BY <2>1, <2>2, LayerFacts DEF CallShape, ReadShape, Reading
    <3>2. Subject(call[t]) \in Items
      <4>1. call[t].item \in Items
        BY <2>1, <2>2 DEF CallShape, ReadShape, Reading
      <4>2. call[t].first \in {<<>>} \cup (Claims \X {"stored", "projected"})
        BY <2>1 DEF CallShape, Opened
      <4> QED BY <4>1, <4>2 DEF Subject, Items
    <3>3. ~Harmless(call[t], Subject(call[t]))
      BY <2>2 DEF Harmless
    <3>4. Subject(call[t]) \in Claims /\ layers[call[t].base - 1].raw => f = "stored"
      BY <2>2 DEF Accepts
    <3> QED BY <2>1, <2>2, <3>1, <3>2, <3>3, <3>4, HeldPut
  <2> QED BY <1>1, <2>1, <2>2
<1>7. CASE WriteBatch
  BY <1>7, HeldBatch
<1>8. CASE Rot
  BY <1>8, HeldRot
<1>9. ASSUME NEW t \in Clients,
             Begin(t) \/ TagAt(t) \/ WriteDone(t) \/ Probe(t) \/ Fetch(t) \/ BookmarkGet(t)
             \/ BookmarkFill(t) \/ Close(t)
      PROVE  held' = held
  BY <1>9 DEF Begin, TagAt, WriteDone, Probe, Fetch, BookmarkGet, BookmarkFill, Close
<1>10. ASSUME Wake \/ Take \/ UNCHANGED vars PROVE held' = held
  BY <1>10 DEF Wake, Take, vars
<1> QED BY <1>1, <1>2, <1>3, <1>4, <1>5, <1>6, <1>7, <1>8, <1>9, <1>10 DEF Next, Step, Filling

----------------------------------------------------------------------------
(* The state stays well formed *)

CallsTyped == /\ call \in [Clients -> Answered \cup Opened]
              /\ \A t \in Clients : ~Idle(t) => CallShape(call[t])

LEMMA CallsStay ==
    ASSUME WellFormed, FormsInv, [Next]_vars
    PROVE  CallsTyped'
<1>0. layers' = layers
  BY LayersStay
<1>1. CASE call' = call
  BY <1>0, <1>1 DEF WellFormed, CallsTyped, Idle, CallShape, ReadShape, Layers, Depth, Exact, Reading
<1>2. ASSUME NEW t \in Clients, NEW x, x \in Answered \/ CallShape(x),
             call' = [call EXCEPT ![t] = x]
      PROVE  CallsTyped'
  BY <1>0, <1>2, CallReplaced DEF CallsTyped
<1>3. ASSUME NEW t \in Clients, ~Idle(t), NEW r \in {"ok", "missing", "error"},
             NEW f \in Forms \cup Records, Finish(t, r, f)
      PROVE  CallsTyped'
  BY <1>0, <1>3, FinishEffect DEF CallsTyped
<1>4. "none" \in Forms
  BY DEF Forms
<1>5. ASSUME NEW t \in Clients, Begin(t) PROVE CallsTyped'
  <2>1. PICK x : Began(t, x) /\ call' = Started(t, x)
    BY <1>5, BeginEffect
  <2>2. x \in Answered \/ CallShape(x)
    BY <2>1 DEF Began
  <2> QED BY <1>0, <2>1, <2>2, CallStarted DEF CallsTyped
<1>6. ASSUME NEW t \in Clients, WriteSync(t) PROVE CallsTyped'
  BY <1>2, <1>6, WriteSyncEffect
<1>7. ASSUME NEW t \in Clients, WriteDone(t) PROVE CallsTyped'
  <2>1. Finish(t, IF call[t].failed THEN "error" ELSE "ok", "none") /\ ~Idle(t)
    BY <1>7 DEF WriteDone, Idle
  <2> QED BY <1>3, <1>4, <2>1
<1>8. ASSUME NEW t \in Clients, DeleteAt(t) PROVE CallsTyped'
  BY <1>2, <1>3, <1>4, <1>8, DeleteEffect
<1>9. ASSUME NEW t \in Clients, TagAt(t) PROVE CallsTyped'
  BY <1>2, <1>3, <1>4, <1>9, TagEffect
<1>10. ASSUME NEW t \in Clients, Probe(t) PROVE CallsTyped'
  BY <1>2, <1>3, <1>4, <1>10, ProbeEffect
<1>11. ASSUME NEW t \in Clients, Fetch(t) PROVE CallsTyped'
  <2> DEFINE got == held[call[t].at][call[t].item]
  <2>1. /\ ~Idle(t) /\ got \in Forms /\ call[t].stage = "get"
        /\ \/ \E x : CallShape(x) /\ call' = [call EXCEPT ![t] = x]
           \/ \E r \in {"ok", "missing", "error"}, f \in Forms : Finish(t, r, f)
           \/ /\ got \in {"stored", "projected"} /\ call[t].kind \in {"get", "sync"}
              /\ call' = [call EXCEPT ![t].stage = "fill", ![t].todo = Above(call[t]),
                                      ![t].form = got]
    BY <1>4, <1>11, FetchEffect
  <2>2. \/ \E x : CallShape(x) /\ call' = [call EXCEPT ![t] = x]
        \/ \E r \in {"ok", "missing", "error"}, f \in Forms : Finish(t, r, f)
    BY <2>1, ServedShape
  <2> QED BY <1>2, <1>3, <2>1, <2>2
<1>12. ASSUME NEW t \in Clients, Fill(t) PROVE CallsTyped'
  BY <1>2, <1>12, FillEffect
<1>13. ASSUME NEW t \in Clients, Serve(t) PROVE CallsTyped'
  <2>1. call[t].form \in Forms
    BY <1>13, ServeEffect DEF CallShape, Opened
  <2> QED BY <1>2, <1>3, <1>4, <1>13, <2>1, ServeEffect
<1>14. ASSUME NEW t \in Clients, BookmarkGet(t) PROVE CallsTyped'
  BY <1>2, <1>3, <1>4, <1>14, BookmarkGetEffect
<1>15. ASSUME NEW t \in Clients, BookmarkFill(t) PROVE CallsTyped'
  BY <1>2, <1>3, <1>15, BookmarkFillEffect
<1>16. ASSUME NEW t \in Clients, Close(t) PROVE CallsTyped'
  <2>1. ~Idle(t) /\ (call' = call \/ Finish(t, "ok", "none"))
    BY <1>16 DEF Close, Idle
  <2> QED BY <1>1, <1>3, <1>4, <2>1
<1>17. ASSUME BackgroundWrite \/ Filling \/ Rot \/ UNCHANGED vars PROVE call' = call
  BY <1>17 DEF BackgroundWrite, Filling, Wake, Take, WriteBatch, Rot, vars
<1> QED BY <1>1, <1>5, <1>6, <1>7, <1>8, <1>9, <1>10, <1>11, <1>12, <1>13, <1>14, <1>15, <1>16,
           <1>17 DEF Next, Step

(* What a step may do to the bookmarks: a slot that has a record keeps     *)
(* one, and it gets one from a Put, a late background write or a fill.     *)
MarksStep ==
    /\ marks' \in [Layers -> [Slots -> Records \cup {None}]]
    /\ \A l \in Layers, s \in Slots :
          /\ marks[l][s] # None => marks'[l][s] # None
          /\ marks[l][s] = None /\ marks'[l][s] # None =>
                \/ \E w \in detached : w[2] = s
                \/ \E t \in Clients : call[t].kind = "bmput" /\ call[t].item = s
                \/ \E t \in Clients : /\ call[t].kind = "bmget" /\ call[t].stage = "fill"
                                      /\ call[t].item = s

LEMMA MarksEffect ==
    ASSUME WellFormed, [Next]_vars
    PROVE  MarksStep
<1>1. marks \in [Layers -> [Slots -> Records \cup {None}]]
  BY DEF WellFormed, TypeOK
<1>2. CASE marks' = marks
  BY <1>1, <1>2 DEF MarksStep
<1>3. ASSUME NEW l \in Layers, NEW s \in Slots, NEW r \in Records,
             marks' = [marks EXCEPT ![l][s] = r],
             \/ \E w \in detached : w[2] = s
             \/ \E t \in Clients : call[t].kind = "bmput" /\ call[t].item = s
             \/ \E t \in Clients : /\ call[t].kind = "bmget" /\ call[t].stage = "fill"
                                   /\ call[t].item = s
      PROVE  MarksStep
  <2>1. r # None
    BY StackAssumption
  <2>2. marks' \in [Layers -> [Slots -> Records \cup {None}]]
    BY <1>1, <1>3
  <2>3. \A m \in Layers, u \in Slots :
            marks'[m][u] = IF m = l /\ u = s THEN r ELSE marks[m][u]
    BY <1>1, <1>3
  <2> QED BY <1>3, <2>1, <2>2, <2>3 DEF MarksStep
<1>4. ASSUME NEW t \in Clients, WriteSync(t) PROVE MarksStep
  <2>1. PICK l \in Layers :
           /\ ~Idle(t)
           /\ \/ marks' = marks
              \/ /\ call[t].kind = "bmput"
                 /\ marks' = [marks EXCEPT ![l][call[t].item] = call[t].record]
    BY <1>4, WriteSyncEffect
  <2>2. call[t].kind = "bmput" => call[t].item \in Slots /\ call[t].record \in Records
    BY <2>1, CallKinds DEF CallShape, Opened, SlotKinds
  <2> QED BY <1>2, <1>3, <2>1, <2>2
<1>5. ASSUME BackgroundWrite PROVE MarksStep
  <2>1. PICK w \in detached :
           marks' = marks \/ (w[2] \notin Items /\ marks' = [marks EXCEPT ![w[1]][w[2]] = w[3]])
    BY <1>5 DEF BackgroundWrite
  <2>2. w[2] \notin Items => w[1] \in Layers /\ w[2] \in Slots /\ w[3] \in Records
    BY DEF WellFormed
  <2> QED BY <1>2, <1>3, <2>1, <2>2
<1>6. ASSUME NEW t \in Clients, BookmarkFill(t) PROVE MarksStep
  BY <1>2, <1>3, <1>6, BookmarkFillEffect
<1>7. ASSUME NEW t \in Clients,
             Begin(t) \/ TagAt(t) \/ WriteDone(t) \/ DeleteAt(t) \/ Probe(t) \/ Fetch(t)
             \/ Fill(t) \/ Serve(t) \/ BookmarkGet(t) \/ Close(t)
      PROVE  marks' = marks
  BY <1>7 DEF Begin, TagAt, WriteDone, DeleteAt, Probe, Fetch, Fill, Serve, BookmarkGet, Close
<1>8. ASSUME Filling \/ Rot \/ UNCHANGED vars PROVE marks' = marks
  BY <1>8 DEF Filling, Wake, Take, WriteBatch, Rot, vars
<1> QED BY <1>2, <1>4, <1>5, <1>6, <1>7, <1>8 DEF Next, Step

(* The filler: its jobs name a layer and a blob, a batch that has not      *)
(* landed is marked, and a new job comes from a fill under way.            *)
FillerStep ==
    /\ inbox' \subseteq Layers \X Blobs /\ batch' \subseteq Layers \X Blobs
    /\ doorbell' \in BOOLEAN /\ writing' \in BOOLEAN
    /\ worker' \in {"wait", "woken", "put", "stopped"}
    /\ (batch # {} => writing) => (batch' # {} => writing')
    /\ \A j \in inbox' \cup batch' :
          \/ j \in inbox \cup batch
          \/ \E t \in Clients : ~Idle(t) /\ Reading(call[t]) /\ call[t].stage = "fill"
                                /\ call[t].item = j[2]

LEMMA FillerEffect ==
    ASSUME WellFormed, [Next]_vars
    PROVE  FillerStep
<1>1. /\ inbox \subseteq Layers \X Blobs /\ batch \subseteq Layers \X Blobs
      /\ doorbell \in BOOLEAN /\ writing \in BOOLEAN
      /\ worker \in {"wait", "woken", "put", "stopped"}
  BY DEF WellFormed, TypeOK
<1>2. CASE UNCHANGED filler
  BY <1>1, <1>2 DEF FillerStep, filler
<1>3. ASSUME NEW t \in Clients, Fill(t) PROVE FillerStep
  <2>1. /\ Reading(call[t]) /\ call[t].stage = "fill" /\ ~Idle(t)
        /\ batch' = batch /\ writing' = writing /\ worker' = worker
    BY <1>3, FillEffect DEF Fill
  <2>2. PICK l \in Layers : \/ inbox' = inbox /\ doorbell' = doorbell
                            \/ call[t].item \in Blobs /\ Queue(<<l, call[t].item>>)
    BY <1>3, FillEffect
  <2>3. CASE inbox' = inbox /\ doorbell' = doorbell
    BY <1>1, <2>1, <2>3 DEF FillerStep
  <2>4. CASE call[t].item \in Blobs /\ Queue(<<l, call[t].item>>)
    <3>1. \/ inbox' = inbox /\ doorbell' = doorbell
          \/ inbox' = inbox \cup {<<l, call[t].item>>} /\ doorbell' = TRUE
      BY <2>4, <1>1 DEF Queue, Ring
    <3>2. <<l, call[t].item>> \in Layers \X Blobs /\ <<l, call[t].item>>[2] = call[t].item
      BY <2>4
    <3>3. inbox' \subseteq Layers \X Blobs /\ doorbell' \in BOOLEAN
      BY <1>1, <3>1, <3>2
    <3>4. \A j \in inbox' : j \in inbox \/ j[2] = call[t].item
      BY <3>1, <3>2
    <3> QED BY <1>1, <2>1, <3>3, <3>4 DEF FillerStep
  <2> QED BY <2>2, <2>3, <2>4
<1>4. CASE Wake
  BY <1>1, <1>4 DEF Wake, FillerStep
<1>5. CASE Take
  BY <1>1, <1>5 DEF Take, FillerStep, InFlight
<1>6. CASE WriteBatch
  <2>1. /\ inbox' = inbox /\ doorbell' = doorbell
        /\ \/ batch = {} /\ batch' = batch /\ worker' = "wait" /\ writing' = FALSE
           \/ batch' \subseteq batch /\ worker' = worker /\ writing' = writing
    BY <1>6 DEF WriteBatch
  <2> QED BY <1>1, <2>1 DEF FillerStep
<1>7. ASSUME NEW t \in Clients, Close(t) PROVE FillerStep
  BY <1>1, <1>7 DEF Close, FillerStep
<1>8. ASSUME NEW t \in Clients,
             Begin(t) \/ TagAt(t) \/ WriteSync(t) \/ WriteDone(t) \/ DeleteAt(t) \/ Probe(t)
             \/ Fetch(t) \/ Serve(t) \/ BookmarkGet(t) \/ BookmarkFill(t)
      PROVE  UNCHANGED filler
  BY <1>8 DEF Begin, TagAt, WriteSync, WriteDone, DeleteAt, Probe, Fetch, Serve, BookmarkGet,
     BookmarkFill
<1>9. ASSUME BackgroundWrite \/ Rot \/ UNCHANGED vars PROVE UNCHANGED filler
  BY <1>9 DEF BackgroundWrite, Rot, vars
<1> QED BY <1>2, <1>3, <1>4, <1>5, <1>6, <1>7, <1>8, <1>9 DEF Next, Step, Filling

(* The rest of the state keeps its types.                                  *)
RestTyped ==
    /\ tagged' \subseteq Layers
    /\ detached' \subseteq (Layers \X Items \X {"stored"}) \cup (Layers \X Slots \X Records)
    /\ acked' \cup removed' \cup quiet' \subseteq Items /\ unsure' \subseteq Slots

LEMMA RestStays ==
    ASSUME WellFormed, [Next]_vars
    PROVE  RestTyped
<1> DEFINE W == (Layers \X Items \X {"stored"}) \cup (Layers \X Slots \X Records)
<1>1. /\ tagged \subseteq Layers /\ detached \subseteq W
      /\ acked \cup removed \cup quiet \subseteq Items /\ unsure \subseteq Slots
  BY DEF WellFormed, TypeOK
<1>2. CASE UNCHANGED <<tagged, detached, history>>
  BY <1>1, <1>2 DEF RestTyped, history
<1>3. ASSUME NEW t \in Clients, Begin(t) PROVE RestTyped
  <2>1. tagged' = tagged /\ \E x : Began(t, x) /\ call' = Started(t, x)
    BY <1>3, BeginEffect
  <2>2. PICK x : Began(t, x)
    BY <2>1
  <2>3. /\ acked' \subseteq acked /\ removed' \subseteq removed /\ quiet' \subseteq quiet
        /\ unsure' = unsure
    BY <2>2 DEF Began, history
  <2>4. \/ detached' = detached
        \/ /\ x.item \in Items
           /\ detached' = detached \cup {<<l, x.item, "stored">> : l \in Background \cap Fit(x.item)}
    BY <2>2 DEF Began, CallShape
  <2>5. Background \subseteq Layers
    BY DEF Background
  <2>6. detached' \subseteq W
    BY <1>1, <2>4, <2>5
  <2> QED BY <1>1, <2>1, <2>3, <2>6 DEF RestTyped
<1>4. ASSUME NEW t \in Clients, WriteDone(t) PROVE RestTyped
  <2> DEFINE c == call[t]
  <2>1. c \in Opened /\ CallShape(c) /\ c.kind \in {"put", "bmput"} /\ tagged' = tagged
        /\ removed' = removed /\ quiet' = quiet
    BY <1>4, CallKinds DEF WriteDone, Idle
  <2>2. CASE c.kind = "put"
    <3>1. c.item \in Items /\ acked' \subseteq acked \cup {c.item} /\ detached' = detached
          /\ unsure' = unsure
      BY <1>4, <2>1, <2>2 DEF WriteDone, CallShape
    <3> QED BY <1>1, <2>1, <3>1 DEF RestTyped
  <2>3. CASE c.kind = "bmput"
    <3>1. c.item \in Slots /\ c.record \in Records
      BY <2>1, <2>3 DEF CallShape, SlotKinds, Opened
    <3>2. /\ acked' = acked /\ unsure' \subseteq unsure \cup {c.item}
          /\ \/ detached' = detached
             \/ detached' = detached \cup {<<l, c.item, c.record>> :
                                           l \in {b \in Background : layers[b].marks}}
      BY <1>4, <2>3 DEF WriteDone
    <3>3. Background \subseteq Layers
      BY DEF Background
    <3>4. detached' \subseteq W
      BY <1>1, <3>1, <3>2, <3>3
    <3> QED BY <1>1, <2>1, <3>1, <3>2, <3>4 DEF RestTyped
  <2> QED BY <2>1, <2>2, <2>3
<1>5. ASSUME NEW t \in Clients, DeleteAt(t) PROVE RestTyped
  <2>1. /\ call[t].item \in Items
        /\ \/ history' = history
           \/ /\ removed' \subseteq removed \cup {call[t].item} /\ acked' = acked
              /\ quiet' \subseteq quiet \cup {call[t].item} /\ unsure' = unsure
    BY <1>5, DeleteEffect
  <2>2. tagged' = tagged /\ detached' = detached
    BY <1>5 DEF DeleteAt
  <2> QED BY <1>1, <2>1, <2>2 DEF RestTyped, history
<1>6. ASSUME NEW t \in Clients, TagAt(t) PROVE RestTyped
  <2>1. tagged' \subseteq Layers
    BY <1>6, TagEffect
  <2>2. UNCHANGED <<detached, history>>
    BY <1>6 DEF TagAt
  <2> QED BY <1>1, <2>1, <2>2 DEF RestTyped, history
<1>7. CASE BackgroundWrite
  BY <1>1, <1>7 DEF BackgroundWrite, RestTyped, history
<1>8. ASSUME NEW t \in Clients,
             WriteSync(t) \/ Probe(t) \/ Fetch(t) \/ Fill(t) \/ Serve(t) \/ BookmarkGet(t)
             \/ BookmarkFill(t) \/ Close(t)
      PROVE  UNCHANGED <<tagged, detached, history>>
  BY <1>8 DEF WriteSync, Probe, Fetch, Fill, Serve, BookmarkGet, BookmarkFill, Close
<1>9. ASSUME Filling \/ Rot \/ UNCHANGED vars PROVE UNCHANGED <<tagged, detached, history>>
  BY <1>9 DEF Filling, Wake, Take, WriteBatch, Rot, vars
<1> QED BY <1>2, <1>3, <1>4, <1>5, <1>6, <1>7, <1>8, <1>9 DEF Next, Step

(* The first half of the inductive invariant.                              *)
BaseInv == WellFormed /\ FormsInv /\ BatchInv

LEMMA BaseStep ==
    ASSUME BaseInv, [Next]_vars
    PROVE  BaseInv'
<1>1. WellFormed /\ FormsInv /\ layers' = layers
  BY LayersStay DEF BaseInv
<1>2. HeldStep /\ CallsTyped' /\ MarksStep /\ FillerStep /\ RestTyped
  BY <1>1, HeldEffect, CallsStay, MarksEffect, FillerEffect, RestStays
<1>3. Layers' = Layers /\ Authoritative' = Authoritative /\ Depth' = Depth
  BY <1>1 DEF Layers, Depth, Authoritative
<1>4. TypeOK'
  BY <1>1, <1>2, <1>3 DEF TypeOK, WellFormed, HeldStep, MarksStep, FillerStep, RestTyped
<1>5. NewStack(layers)'
  BY <1>1 DEF WellFormed, NewStack, AllowsTier
<1>6. WellFormed'
  BY <1>2, <1>3, <1>4, <1>5 DEF WellFormed, CallsTyped, RestTyped
<1>7. FormsInv'
  BY <1>1, <1>2, <1>3 DEF FormsInv, HeldStep
<1>8. BatchInv'
  BY <1>2 DEF BaseInv, BatchInv, FillerStep
<1> QED BY <1>6, <1>7, <1>8 DEF BaseInv

LEMMA BaseInit ==
    ASSUME Init
    PROVE  BaseInv
<1>1. layers \in Stacks /\ NewStack(layers) /\ layers \in Seq(LayerSet)
  BY StackAssumption DEF Init
<1>2. Layers = 1..Len(layers)
  BY DEF Layers, Depth
<1>3. TypeOK
  BY <1>1, <1>2 DEF Init, TypeOK, Forms
<1>4. \A t \in Clients : call[t] \in Answered /\ Idle(t)
  BY DEF Init, Answered, Forms, AnySubject, Idle
<1>5. WellFormed
  BY <1>1, <1>3, <1>4 DEF WellFormed, Init
<1>6. FormsInv
  BY <1>2 DEF Init, FormsInv
<1> QED BY <1>5, <1>6 DEF BaseInv, BatchInv, Init

(* A step of a call that is no Put: the other calls stay, and it answers   *)
(* or goes on with no more of a promise than it had.                       *)
LEMMA CallSteps ==
    ASSUME WellFormed, FormsInv, NEW t \in Clients, layers' = layers,
           DeleteAt(t) \/ TagAt(t) \/ Probe(t) \/ Fetch(t) \/ Fill(t) \/ Serve(t)
           \/ BookmarkGet(t) \/ BookmarkFill(t) \/ Close(t)
    PROVE  /\ OthersKept(t) /\ ~Idle(t) /\ call[t].kind \notin {"put", "bmput"}
           /\ \/ Idle(t)'
              \/ /\ call'[t] \in Opened /\ call'[t].kind = call[t].kind
                 /\ call'[t].alone = call[t].alone /\ (call'[t].must => call[t].must)
                 /\ Serve(t) \/ call'[t].item = call[t].item
<1> DEFINE P == /\ OthersKept(t)
                /\ \/ Idle(t)'
                   \/ /\ call'[t] \in Opened /\ call'[t].kind = call[t].kind
                      /\ call'[t].alone = call[t].alone /\ (call'[t].must => call[t].must)
                      /\ Serve(t) \/ call'[t].item = call[t].item
<1>1. ASSUME ~Idle(t), NEW r \in {"ok", "missing", "error"}, NEW f \in Forms \cup Records,
             Finish(t, r, f)
      PROVE  P
  <2>1. OthersKept(t) /\ call'[t] \in Answered
    BY <1>1, FinishEffect DEF Answers
  <2> QED BY <2>1 DEF Idle, Answered
<1>2. ASSUME NEW x, CallShape(x), x.kind = call[t].kind, x.alone = call[t].alone,
             x.must => call[t].must, Serve(t) \/ x.item = call[t].item,
             call' = [call EXCEPT ![t] = x]
      PROVE  P
  <2>1. call'[t] = x /\ OthersKept(t)
    BY <1>2, CallReplaced DEF OthersKept
  <2> QED BY <1>2, <2>1 DEF CallShape
<1>3. ASSUME NEW x, CallShape(x), Proceeds(call[t], x), x.item = call[t].item,
             call' = [call EXCEPT ![t] = x]
      PROVE  P
  <2>1. x.kind = call[t].kind /\ x.alone = call[t].alone /\ (x.must => call[t].must)
    BY <1>3 DEF Proceeds
  <2> HIDE DEF P
  <2> QED BY <1>2, <1>3, <2>1
<1> HIDE DEF P
<1>4. "none" \in Forms
  BY DEF Forms
<1>5. CASE DeleteAt(t)
  <2>1. P /\ call[t].kind = "del" /\ ~Idle(t)
    BY <1>1, <1>3, <1>4, <1>5, DeleteEffect
  <2> QED BY <2>1 DEF P
<1>6. CASE TagAt(t)
  <2>1. P /\ call[t].kind = "tag" /\ ~Idle(t)
    BY <1>1, <1>3, <1>4, <1>6, TagEffect
  <2> QED BY <2>1 DEF P
<1>7. CASE Probe(t)
  <2>1. P /\ Reading(call[t]) /\ ~Idle(t)
    BY <1>1, <1>3, <1>4, <1>7, ProbeEffect
  <2> QED BY <2>1 DEF P, Reading
<1>8. CASE Fetch(t)
  <2> DEFINE got == held[call[t].at][call[t].item]
  <2>1. /\ ~Idle(t) /\ got \in Forms /\ call[t].stage = "get" /\ Reading(call[t])
        /\ \/ \E x : /\ CallShape(x) /\ Proceeds(call[t], x) /\ x.item = call[t].item
                     /\ call' = [call EXCEPT ![t] = x]
           \/ \E r \in {"ok", "missing", "error"}, f \in Forms : Finish(t, r, f)
           \/ /\ got \in {"stored", "projected"} /\ call[t].kind \in {"get", "sync"}
              /\ call' = [call EXCEPT ![t].stage = "fill", ![t].todo = Above(call[t]),
                                      ![t].form = got]
    BY <1>4, <1>8, FetchEffect
  <2>2. \/ \E x : /\ CallShape(x) /\ Proceeds(call[t], x) /\ x.item = call[t].item
                  /\ call' = [call EXCEPT ![t] = x]
        \/ \E r \in {"ok", "missing", "error"}, f \in Forms : Finish(t, r, f)
    BY <2>1, ServedShape
  <2>3. P
    BY <1>1, <1>3, <2>1, <2>2
  <2> QED BY <2>1, <2>3 DEF P, Reading
<1>9. CASE Fill(t)
  <2>1. P /\ Reading(call[t]) /\ ~Idle(t)
    BY <1>3, <1>9, FillEffect
  <2> QED BY <2>1 DEF P, Reading
<1>10. CASE Serve(t)
  <2>1. call[t].form \in Forms
    BY <1>10, ServeEffect DEF CallShape, Opened
  <2>2. P /\ call[t].kind \in {"get", "sync"} /\ ~Idle(t)
    BY <1>1, <1>2, <1>4, <1>10, <2>1, ServeEffect
  <2> QED BY <2>2 DEF P
<1>11. CASE BookmarkGet(t)
  <2>1. P /\ call[t].kind = "bmget" /\ ~Idle(t)
    BY <1>1, <1>3, <1>4, <1>11, BookmarkGetEffect
  <2> QED BY <2>1 DEF P
<1>12. CASE BookmarkFill(t)
  <2>1. P /\ call[t].kind = "bmget" /\ ~Idle(t)
    BY <1>1, <1>3, <1>4, <1>12, BookmarkFillEffect
  <2> QED BY <2>1 DEF P
<1>13. CASE Close(t)
  <2>1. call[t].kind = "close" /\ ~Idle(t) /\ (call' = call \/ Finish(t, "ok", "none"))
    BY <1>13 DEF Close, Idle
  <2>2. call' = call => P
    BY <2>1, CallKinds DEF P, OthersKept
  <2>3. P
    BY <1>1, <1>4, <2>1, <2>2
  <2> QED BY <2>1, <2>3 DEF P
<1> QED BY <1>5, <1>6, <1>7, <1>8, <1>9, <1>10, <1>11, <1>12, <1>13

----------------------------------------------------------------------------
(* What a Put answered for is durable *)

DurableInv == AckedDurable /\ PutInv

(* A durable copy of an item no deletion is under way for stays.           *)
LEMMA CopyStays ==
    ASSUME WellFormed, HeldStep, NEW l \in Authoritative, NEW i \in Items,
           held[l][i] = "stored",
           \A t \in Clients : call[t].kind = "del" => call[t].item # i
    PROVE  held'[l][i] = "stored"
<1>1. l \in Layers /\ layers[l].raw
  BY LayerFacts
<1>2. held'[l][i] \in Forms /\ held'[l][i] # "none" /\ held'[l][i] # "projected"
      /\ held'[l][i] # "corrupt"
  BY <1>1 DEF HeldStep
<1> QED BY <1>2 DEF Forms

(* What is acknowledged stays durable, and so does what has landed of a    *)
(* Put, when the step neither begins nor ends a Put or a deletion.         *)
LEMMA DurableKept ==
    ASSUME BaseInv, DurableInv, [Next]_vars, acked' = acked,
           \A s \in Clients : call'[s].kind = "del" =>
               call[s].kind = "del" /\ call'[s].item = call[s].item,
           \A s \in Clients : call'[s].kind = "put" /\ call'[s].must =>
               /\ call[s].kind = "put" /\ call[s].must /\ call'[s].item = call[s].item
               /\ ~call'[s].failed =>
                     /\ ~call[s].failed
                     /\ \A l \in Authoritative \ call'[s].todo :
                           l \notin call[s].todo \/ held'[l][call[s].item] = "stored"
    PROVE  DurableInv'
<1>1. WellFormed /\ HeldStep /\ layers' = layers
  BY HeldEffect, LayersStay DEF BaseInv
<1>2. Authoritative' = Authoritative
  BY <1>1 DEF Authoritative, Layers, Depth
<1>3. acked \subseteq Items
  BY <1>1 DEF WellFormed, TypeOK
<1>4. AckedDurable'
  BY <1>1, <1>2, <1>3, CopyStays DEF DurableInv, AckedDurable, PutInv
<1>5. \A t \in Clients : call'[t].kind = "del" => call'[t].item \notin acked'
  BY DEF DurableInv, PutInv
<1>6. ASSUME NEW t \in Clients, call'[t].kind = "put", call'[t].must
      PROVE  /\ \A s \in Clients : call'[s].kind = "del" => call'[s].item # call'[t].item
             /\ ~call'[t].failed =>
                   \A l \in Authoritative \ call'[t].todo : held'[l][call'[t].item] = "stored"
  <2>1. /\ call[t].kind = "put" /\ call[t].must /\ call'[t].item = call[t].item
        /\ \A s \in Clients : call[s].kind = "del" => call[s].item # call[t].item
    BY <1>6 DEF DurableInv, PutInv
  <2>2. call[t].item \in Items
    BY <1>1, <2>1, CallKinds DEF CallShape
  <2>3. ASSUME ~call'[t].failed, NEW l \in Authoritative \ call'[t].todo
        PROVE  held'[l][call[t].item] = "stored"
    <3>1. CASE l \notin call[t].todo
      <4>1. held[l][call[t].item] = "stored"
        BY <1>6, <2>1, <2>3, <3>1 DEF DurableInv, PutInv
      <4> QED BY <1>1, <2>1, <2>2, <4>1, CopyStays
    <3> QED BY <1>6, <2>3, <3>1
  <2> QED BY <2>1, <2>3
<1>7. PutInv'
  BY <1>2, <1>5, <1>6 DEF PutInv
<1> QED BY <1>4, <1>7 DEF DurableInv

LEMMA DurableBegins ==
    ASSUME BaseInv, DurableInv, [Next]_vars, NEW t \in Clients, Begin(t)
    PROVE  DurableInv'
<1>1. WellFormed /\ layers' = layers /\ held' = held /\ Idle(t)
  BY BeginEffect DEF BaseInv
<1>2. Authoritative' = Authoritative
  BY <1>1 DEF Authoritative, Layers, Depth
<1>3. PICK x : Began(t, x) /\ call' = Started(t, x)
  BY <1>1, BeginEffect
<1>4. x \in Answered \/ CallShape(x)
  BY <1>3 DEF Began
<1>5. /\ call'[t] = x
      /\ \A s \in Clients \ {t} :
            /\ Idle(s) => call'[s] = call[s]
            /\ ~Idle(s) =>
                 /\ Excused(call[s], call'[s])
                 /\ Touches(x, call[s].item) \/ Touches(call[s], x.item) =>
                      (call'[s].must => IF call[s].kind = "del" THEN ~Writes(x)
                                        ELSE x.kind # "del")
  BY <1>1, <1>3, <1>4, CallStarted
<1>6. \A s \in Clients \ {t} :
         call'[s].kind # "done" =>
            /\ call'[s].kind = call[s].kind /\ call'[s].item = call[s].item
            /\ call'[s].failed = call[s].failed /\ call'[s].todo = call[s].todo
            /\ call'[s].must => call[s].must
            /\ x.kind = "del" /\ x.item = call[s].item /\ call[s].kind = "put" => ~call'[s].must
  BY <1>5 DEF Excused, Touches, Idle
<1>7. acked' = acked \/ (x.kind = "del" /\ acked' = acked \ {x.item})
  BY <1>3 DEF Began, history
<1>8. AckedDurable'
  BY <1>1, <1>2, <1>7 DEF DurableInv, AckedDurable
<1>9. \A s \in Clients : call'[s].kind = "del" => call'[s].item \notin acked'
  <2>1. x.kind = "del" => x.item \notin acked'
    BY <1>3 DEF Began, Answered, ReadKinds
  <2> QED BY <1>5, <1>6, <1>7, <2>1 DEF DurableInv, PutInv
<1>10. ASSUME NEW s \in Clients, call'[s].kind = "put", call'[s].must
       PROVE  /\ \A r \in Clients : call'[r].kind = "del" => call'[r].item # call'[s].item
              /\ ~call'[s].failed =>
                    \A l \in Authoritative \ call'[s].todo : held'[l][call'[s].item] = "stored"
  <2>1. CASE s = t
    <3>1. /\ Authoritative \subseteq x.todo /\ x.kind = "put"
          /\ \A r \in Clients : call[r].kind = "del" => call[r].item # x.item
      BY <1>3, <1>5, <1>10, <2>1 DEF Began, Answered, ReadKinds
    <3> QED BY <1>5, <1>6, <1>10, <2>1, <3>1
  <2>2. CASE s # t
    <3>1. /\ call[s].kind = "put" /\ call[s].must /\ call'[s].item = call[s].item
          /\ call'[s].failed = call[s].failed /\ call'[s].todo = call[s].todo
          /\ ~(x.kind = "del" /\ x.item = call[s].item)
      BY <1>6, <1>10, <2>2
    <3> QED BY <1>1, <1>5, <1>6, <1>10, <2>2, <3>1 DEF DurableInv, PutInv
  <2> QED BY <2>1, <2>2
<1>11. PutInv'
  BY <1>2, <1>9, <1>10 DEF PutInv
<1> QED BY <1>8, <1>11 DEF DurableInv

LEMMA DurableWrites ==
    ASSUME BaseInv, DurableInv, [Next]_vars, NEW t \in Clients, WriteSync(t)
    PROVE  DurableInv'
<1>1. WellFormed /\ layers' = layers /\ acked' = acked
  BY LayersStay DEF BaseInv, WriteSync, history
<1>2. PICK l, x :
         /\ l \in call[t].todo
         /\ call' = [call EXCEPT ![t] = x] /\ CallShape(x) /\ Proceeds(call[t], x)
         /\ x.item = call[t].item
         /\ x.todo = call[t].todo \ {l} /\ l \in Layers /\ ~Idle(t)
         /\ call[t].kind \in {"put", "bmput"}
         /\ \/ call[t].kind = "put" /\ PutIn(l, call[t].item, "stored") /\ x.failed = call[t].failed
            \/ call[t].kind = "bmput"
            \/ ~x.failed => ~call[t].failed /\ l \notin Authoritative
  BY <1>1, WriteSyncEffect
<1>3. call'[t] = x /\ \A s \in Clients : s # t => call'[s] = call[s]
  BY <1>1, <1>2, CallReplaced
<1>4. x.kind = call[t].kind /\ x.must = call[t].must
  BY <1>2 DEF Proceeds
<1>5. ASSUME call[t].kind = "put", ~x.failed
      PROVE  ~call[t].failed /\ (l \in Authoritative => held'[l][call[t].item] = "stored")
  <2>1. CASE PutIn(l, call[t].item, "stored") /\ x.failed = call[t].failed
    <3>1. call[t].item \in Items
      BY <1>1, <1>2, <1>5, CallKinds DEF CallShape
    <3>2. held'[l][call[t].item] = KeptAs(l, call[t].item, "stored")
      BY <1>1, <1>2, <2>1, <3>1 DEF PutIn, WellFormed, TypeOK
    <3>3. l \in Authoritative => layers[l].raw
      BY <1>1, LayerFacts
    <3> QED BY <1>5, <2>1, <3>2, <3>3 DEF KeptAs
  <2> QED BY <1>2, <1>5, <2>1
<1>6. \A s \in Clients : call'[s].kind = "del" =>
          call[s].kind = "del" /\ call'[s].item = call[s].item
  BY <1>2, <1>3, <1>4
<1>7. \A s \in Clients : call'[s].kind = "put" /\ call'[s].must =>
          /\ call[s].kind = "put" /\ call[s].must /\ call'[s].item = call[s].item
          /\ ~call'[s].failed =>
                /\ ~call[s].failed
                /\ \A m \in Authoritative \ call'[s].todo :
                      m \notin call[s].todo \/ held'[m][call[s].item] = "stored"
  <2>1. CASE call[t].kind = "put"
    BY <1>2, <1>3, <1>4, <1>5, <2>1
  <2>2. CASE call[t].kind # "put"
    BY <1>3, <1>4, <2>2
  <2> QED BY <2>1, <2>2
<1> QED BY <1>1, <1>6, <1>7, DurableKept

LEMMA DurableAnswered ==
    ASSUME BaseInv, DurableInv, [Next]_vars, NEW t \in Clients, WriteDone(t)
    PROVE  DurableInv'
<1> DEFINE c == call[t]
<1>1. /\ WellFormed /\ layers' = layers /\ held' = held
      /\ c.kind \in {"put", "bmput"} /\ c.todo = {} /\ ~Idle(t)
      /\ Finish(t, IF c.failed THEN "error" ELSE "ok", "none")
  BY LayersStay DEF BaseInv, WriteDone, Idle
<1>2. OthersKept(t) /\ call'[t].kind = "done"
  BY <1>1, FinishEffect DEF Answers, Answered, Forms
<1>3. Authoritative' = Authoritative
  BY <1>1 DEF Authoritative, Layers, Depth
<1>4. CASE acked' = acked
  BY <1>1, <1>2, <1>4, DurableKept DEF OthersKept
<1>5. CASE c.kind = "put" /\ ~c.failed /\ c.must /\ acked' = acked \cup {c.item}
  <2>1. /\ \A l \in Authoritative : held[l][c.item] = "stored"
        /\ \A s \in Clients : call[s].kind = "del" => call[s].item # c.item
    BY <1>1, <1>5 DEF DurableInv, PutInv
  <2>2. AckedDurable'
    BY <1>1, <1>3, <1>5, <2>1 DEF AckedDurable, DurableInv
  <2>3. PutInv'
    BY <1>1, <1>2, <1>3, <1>5, <2>1 DEF PutInv, DurableInv, OthersKept
  <2> QED BY <2>2, <2>3 DEF DurableInv
<1> QED BY <1>1, <1>4, <1>5 DEF WriteDone

LEMMA DurableStep ==
    ASSUME BaseInv, DurableInv, [Next]_vars
    PROVE  DurableInv'
<1>1. ASSUME NEW t \in Clients,
             DeleteAt(t) \/ TagAt(t) \/ Probe(t) \/ Fetch(t) \/ Fill(t) \/ Serve(t)
             \/ BookmarkGet(t) \/ BookmarkFill(t) \/ Close(t)
      PROVE  DurableInv'
  <2>1. acked' = acked
    BY <1>1 DEF DeleteAt, TagAt, Probe, Fetch, Fill, Serve, BookmarkGet, BookmarkFill, Close, history
  <2>2. /\ OthersKept(t) /\ call[t].kind \notin {"put", "bmput"}
        /\ \/ Idle(t)'
           \/ /\ call'[t].kind = call[t].kind
              /\ Serve(t) \/ call'[t].item = call[t].item
    BY <1>1, LayersStay, CallSteps DEF BaseInv
  <2>3. Serve(t) => call[t].kind # "del"
    BY ServeEffect DEF BaseInv
  <2> QED BY <2>1, <2>2, <2>3, DurableKept DEF OthersKept, Idle
<1>2. ASSUME BackgroundWrite \/ Filling \/ Rot \/ UNCHANGED vars PROVE DurableInv'
  <2>1. acked' = acked /\ call' = call
    BY <1>2 DEF BackgroundWrite, Filling, Wake, Take, WriteBatch, Rot, vars, history
  <2> QED BY <2>1, DurableKept
<1> QED BY <1>1, <1>2, DurableBegins, DurableWrites, DurableAnswered DEF Next, Step

LEMMA DurableInit ==
    ASSUME Init
    PROVE  DurableInv
BY DEF Init, DurableInv, AckedDurable, PutInv

(* What PutClaims and PutContents answered for is in every authoritative   *)
(* layer until a deletion of it starts: writeSync fails the call on every  *)
(* authoritative failure, and no fill, background write or rotten cache    *)
(* reaches the durable copy.                                               *)
THEOREM AckedIsDurable == Spec => []AckedDurable
<1>1. Init => BaseInv /\ DurableInv
  BY BaseInit, DurableInit
<1>2. BaseInv /\ DurableInv /\ [Next]_vars => BaseInv' /\ DurableInv'
  BY BaseStep, DurableStep
<1>3. DurableInv => AckedDurable
  BY DEF DurableInv
<1> QED BY <1>1, <1>2, <1>3, PTL DEF Spec

(* HealIdle answers true only when no taken batch is still being written:  *)
(* take marks a batch as it empties the inbox, and the mark goes with the  *)
(* last write.                                                             *)
THEOREM IdleIsLanded == Spec => []IdleMeansLanded
<1>1. BaseInv => IdleMeansLanded
  BY DEF BaseInv, BatchInv, IdleMeansLanded, HealIdle
<1>2. Init => BaseInv
  BY BaseInit
<1>3. BaseInv /\ [Next]_vars => BaseInv'
  BY BaseStep
<1> QED BY <1>1, <1>2, <1>3, PTL DEF Spec

----------------------------------------------------------------------------
(* A read never misses what was acknowledged *)

(* An item that is acknowledged loses no copy.                             *)
LEMMA NothingTaken ==
    ASSUME BaseInv, DurableInv, [Next]_vars, NEW i \in acked, NEW l \in Layers,
           held[l][i] # "none"
    PROVE  held'[l][i] # "none"
<1>1. HeldStep /\ i \in Items
  BY HeldEffect DEF BaseInv, WellFormed, TypeOK
<1>2. \A t \in Clients : ~(call[t].kind = "del" /\ call[t].item = i)
  BY DEF DurableInv, PutInv
<1> QED BY <1>1, <1>2 DEF HeldStep

(* A read no step touches stays as it is.                                  *)
LEMMA WalkKept ==
    ASSUME BaseInv, DurableInv, [Next]_vars, NEW t \in Clients, Walks(call[t]),
           call'[t].kind \in ReadKinds, call'[t].kind = call[t].kind, call'[t].item = call[t].item,
           call'[t].at = call[t].at, call'[t].stage = call[t].stage,
           call'[t].must => call[t].must /\ call[t].item \in acked'
    PROVE  Walks(call[t])'
<1>1. layers' = layers /\ WellFormed
  BY LayersStay DEF BaseInv
<1>2. Authoritative' = Authoritative
  BY <1>1 DEF Authoritative, Layers, Depth
<1>3. call[t].at # 0 => call[t].at \in Layers
  BY <1>1, CallKinds, LayerFacts DEF CallShape, ReadShape, Reading, ReadKinds
<1>4. ASSUME call'[t].must, call'[t].stage = "get" PROVE held'[call[t].at][call[t].item] # "none"
  BY <1>3, <1>4, NothingTaken DEF Walks
<1> QED BY <1>2, <1>4 DEF Walks

LEMMA OthersWalk ==
    ASSUME BaseInv, DurableInv, WalkInv, [Next]_vars, acked \subseteq acked',
           NEW s \in Clients, call'[s] = call[s]
    PROVE  Walks(call[s])' /\ ~Misses(call[s])'
<1>1. Walks(call[s]) /\ ~Misses(call[s])
  BY DEF WalkInv
<1>2. ~Misses(call[s])'
  BY <1>1 DEF Misses
<1>3. CASE call[s].kind \in ReadKinds
  <2>1. call[s].must => call[s].item \in acked'
    BY <1>1, <1>3 DEF Walks
  <2> QED BY <1>1, <1>2, <1>3, <2>1, WalkKept
<1>4. CASE call[s].kind \notin ReadKinds
  BY <1>2, <1>4 DEF Walks
<1> QED BY <1>3, <1>4

(* The walk moves past a layer that cannot have the durable copy.          *)
LEMMA WalkMoves ==
    ASSUME BaseInv, DurableInv, WalkInv, [Next]_vars, acked' = acked, NEW t \in Clients,
           call[t].kind \in ReadKinds, call[t].at # 0,
           held[call[t].at][call[t].item] \in {"none", "corrupt"},
           NEW x, Proceeds(call[t], x), x.item = call[t].item, x.stage = "has",
           x.at = NextAsked(call[t], call[t].at), call'[t] = x
    PROVE  Walks(call[t])' /\ ~Misses(call[t])'
<1> DEFINE c == call[t]
<1>1. WellFormed /\ layers' = layers /\ CallShape(c) /\ Reading(c) /\ c \in Opened
  BY LayersStay, CallKinds DEF BaseInv, Idle, ReadKinds, Reading
<1>2. Authoritative' = Authoritative
  BY <1>1 DEF Authoritative, Layers, Depth
<1>3. x.kind \in ReadKinds /\ x.must = c.must
  BY DEF Proceeds
<1>4. ~Misses(call[t])'
  BY <1>3 DEF Misses, ReadKinds
<1>5. ASSUME c.must
      PROVE  c.item \in acked /\ x.at # 0 /\ \E a \in Authoritative : x.at <= a
  <2>1. PICK a \in Authoritative : c.item \in acked /\ c.at <= a
    BY <1>5 DEF WalkInv, Walks
  <2>2. c.at # a
    BY <2>1 DEF DurableInv, AckedDurable
  <2>3. c.base = 1 /\ c.item \in Items /\ c.base \in Layers /\ c.at \in Nat
    BY <1>1 DEF CallShape, ReadShape, ReadKinds, Opened
  <2>4. a > c.at /\ a >= c.base
    BY <1>1, <2>1, <2>2, <2>3, LayerFacts
  <2>5. \A b \in Authoritative : b > c.at /\ b >= c.base =>
            NextAsked(c, c.at) # 0 /\ NextAsked(c, c.at) <= b
    BY <1>1, <2>3, WalkGoes
  <2> QED BY <2>1, <2>4, <2>5
<1>6. Walks(call[t])'
  BY <1>2, <1>3, <1>5 DEF Walks
<1> QED BY <1>4, <1>6

(* An answer that is not a miss, or that nothing was promised of.          *)
LEMMA AnswerMisses ==
    ASSUME WellFormed, NEW t \in Clients, ~Idle(t), layers' = layers,
           NEW r \in {"ok", "missing", "error"}, NEW f \in Forms \cup Records, Finish(t, r, f),
           call[t].kind \in ReadKinds /\ call[t].must => r # "missing"
    PROVE  Walks(call[t])' /\ ~Misses(call[t])' /\ OthersKept(t)
<1>1. Answers(call[t], call'[t], r) /\ OthersKept(t)
  BY FinishEffect
<1>2. call'[t].kind = "done" /\ call'[t].of = call[t].kind
  BY <1>1 DEF Answers, Answered
<1>3. Reading(call[t]) => call'[t].result = r /\ (call'[t].must => call[t].must)
  BY <1>1 DEF Answers
<1> QED BY <1>1, <1>2, <1>3 DEF Walks, Misses, Reading, ReadKinds

LEMMA WalkProbes ==
    ASSUME BaseInv, DurableInv, WalkInv, [Next]_vars, NEW t \in Clients, Probe(t)
    PROVE  WalkInv'
<1>1. WellFormed /\ layers' = layers /\ acked' = acked /\ held' = held
  BY LayersStay DEF BaseInv, Probe, history
<1>2. Reading(call[t]) /\ call[t].stage = "has" /\ ~Idle(t) /\ Walks(call[t]) /\ "none" \in Forms
  BY <1>1, ProbeEffect DEF WalkInv, Forms
<1>3. SUFFICES Walks(call[t])' /\ ~Misses(call[t])' /\ OthersKept(t)
  BY <1>1, <1>3, OthersWalk DEF WalkInv, OthersKept
<1>4. CASE call[t].at = 0 /\ Finish(t, "missing", "none")
  BY <1>1, <1>2, <1>4, AnswerMisses DEF Walks
<1>5. CASE Finish(t, "error", "none") \/ \E f \in Forms : Finish(t, "ok", f)
  BY <1>1, <1>2, <1>5, AnswerMisses
<1>6. ASSUME NEW x, call' = [call EXCEPT ![t] = x], CallShape(x), Proceeds(call[t], x),
             x.item = call[t].item, x.stage = "has",
             x.at = NextAsked(call[t], call[t].at),
             call[t].at # 0, held[call[t].at][call[t].item] = "none"
      PROVE  Walks(call[t])' /\ ~Misses(call[t])' /\ OthersKept(t)
  <2>1. call'[t] = x /\ OthersKept(t)
    BY <1>1, <1>6, CallReplaced DEF OthersKept
  <2>2. CASE call[t].kind \in ReadKinds
    BY <1>1, <1>6, <2>1, <2>2, WalkMoves
  <2>3. CASE call[t].kind \notin ReadKinds
    BY <1>2, <1>6, <2>1, <2>3 DEF Walks, Misses, Proceeds, Reading
  <2> QED BY <2>1, <2>2, <2>3
<1>7. ASSUME NEW x, call' = [call EXCEPT ![t] = x], CallShape(x), Proceeds(call[t], x),
             x.item = call[t].item, x.stage = "get", x.at = call[t].at,
             held[call[t].at][call[t].item] # "none"
      PROVE  Walks(call[t])' /\ ~Misses(call[t])' /\ OthersKept(t)
  <2>1. call'[t] = x /\ OthersKept(t)
    BY <1>1, <1>7, CallReplaced DEF OthersKept
  <2>2. x.kind = call[t].kind /\ x.must = call[t].must
    BY <1>7 DEF Proceeds
  <2>3. Authoritative' = Authoritative
    BY <1>1 DEF Authoritative, Layers, Depth
  <2> QED BY <1>1, <1>2, <1>7, <2>1, <2>2, <2>3 DEF Walks, Misses, Reading
<1> QED BY <1>1, <1>4, <1>5, <1>6, <1>7, ProbeEffect

LEMMA WalkFetches ==
    ASSUME BaseInv, DurableInv, WalkInv, [Next]_vars, NEW t \in Clients, Fetch(t)
    PROVE  WalkInv'
<1> DEFINE got == held[call[t].at][call[t].item]
<1>1. WellFormed /\ FormsInv /\ layers' = layers /\ acked' = acked
  BY LayersStay DEF BaseInv, Fetch, history
<1>2. /\ Reading(call[t]) /\ call[t].stage = "get" /\ ~Idle(t) /\ Walks(call[t])
      /\ "none" \in Forms /\ got \in Forms
  BY <1>1, FetchEffect DEF WalkInv, Forms
<1>3. call[t].at # 0
  BY <1>1, <1>2, CallKinds DEF CallShape, ReadShape
<1>4. SUFFICES Walks(call[t])' /\ ~Misses(call[t])' /\ OthersKept(t)
  BY <1>1, <1>4, OthersWalk DEF WalkInv, OthersKept
<1>5. CASE got = "none" /\ Finish(t, "missing", "none")
  BY <1>1, <1>2, <1>5, AnswerMisses DEF Walks
<1>6. CASE Finish(t, "error", "none") \/ Finish(t, "ok", got)
  BY <1>1, <1>2, <1>6, AnswerMisses
<1>7. ASSUME got \in {"none", "corrupt"},
             NEW x, call' = [call EXCEPT ![t] = x], CallShape(x), Proceeds(call[t], x),
             x.item = call[t].item, x.stage = "has", x.at = NextAsked(call[t], call[t].at)
      PROVE  Walks(call[t])' /\ ~Misses(call[t])' /\ OthersKept(t)
  <2>1. call'[t] = x /\ OthersKept(t)
    BY <1>1, <1>7, CallReplaced DEF OthersKept
  <2>2. CASE call[t].kind \in ReadKinds
    BY <1>1, <1>3, <1>7, <2>1, <2>2, WalkMoves
  <2>3. CASE call[t].kind \notin ReadKinds
    BY <1>2, <1>7, <2>1, <2>3 DEF Walks, Misses, Proceeds, Reading
  <2> QED BY <2>1, <2>2, <2>3
<1>8. CASE /\ got \in {"stored", "projected"} /\ call[t].kind \in {"get", "sync"}
           /\ call' = [call EXCEPT ![t].stage = "fill", ![t].todo = Above(call[t]),
                                   ![t].form = got]
  <2>1. PICK x : /\ call' = [call EXCEPT ![t] = x] /\ CallShape(x) /\ Proceeds(call[t], x)
                 /\ x.item = call[t].item /\ x.stage = "fill" /\ x.at = call[t].at
    BY <1>1, <1>2, <1>8, ServedShape
  <2>2. call'[t] = x /\ OthersKept(t)
    BY <1>1, <2>1, CallReplaced DEF OthersKept
  <2>3. x.kind = call[t].kind /\ x.must = call[t].must
    BY <2>1 DEF Proceeds
  <2>4. Authoritative' = Authoritative
    BY <1>1 DEF Authoritative, Layers, Depth
  <2> QED BY <1>1, <1>2, <2>1, <2>2, <2>3, <2>4 DEF Walks, Misses, Reading
<1> QED BY <1>1, <1>5, <1>6, <1>7, <1>8, FetchEffect

LEMMA WalkServes ==
    ASSUME BaseInv, DurableInv, WalkInv, [Next]_vars, NEW t \in Clients, Fill(t) \/ Serve(t)
    PROVE  WalkInv'
<1>1. WellFormed /\ layers' = layers /\ acked' = acked /\ Authoritative' = Authoritative
  BY LayersStay DEF BaseInv, Fill, Serve, history, Authoritative, Layers, Depth
<1>2. Walks(call[t]) /\ "none" \in Forms
  BY DEF WalkInv, Forms
<1>3. SUFFICES Walks(call[t])' /\ ~Misses(call[t])' /\ OthersKept(t)
  BY <1>1, <1>3, OthersWalk DEF WalkInv, OthersKept
<1>4. CASE Fill(t)
  <2>1. PICK x : /\ call' = [call EXCEPT ![t] = x] /\ CallShape(x) /\ Proceeds(call[t], x)
                 /\ x.item = call[t].item /\ x.stage = "fill" /\ x.at = call[t].at
                 /\ ~Idle(t)
    BY <1>1, <1>4, FillEffect
  <2>2. call'[t] = x /\ OthersKept(t)
    BY <1>1, <2>1, CallReplaced DEF OthersKept
  <2>3. x.kind = call[t].kind /\ x.must = call[t].must
    BY <2>1 DEF Proceeds
  <2> QED BY <1>1, <1>2, <2>1, <2>2, <2>3 DEF Walks, Misses, Idle
<1>5. CASE Serve(t)
  <2>1. ~Idle(t) /\ call[t].form \in Forms
    BY <1>1, <1>5, ServeEffect DEF CallShape, Opened
  <2>2. CASE Finish(t, "error", "none") \/ Finish(t, "ok", call[t].form)
    BY <1>1, <1>2, <2>1, <2>2, AnswerMisses
  <2>3. ASSUME NEW x, call' = [call EXCEPT ![t] = x], CallShape(x),
               x.kind = call[t].kind, x.stage = "has", call[t].kind \in {"get", "sync"},
               x.must => call[t].must /\ x.item \in acked,
               x.kind = "get" => x.at # 0 /\ \E a \in Authoritative : x.at <= a
        PROVE  Walks(call[t])' /\ ~Misses(call[t])' /\ OthersKept(t)
    <3>1. call'[t] = x /\ OthersKept(t)
      BY <1>1, <2>3, CallReplaced DEF OthersKept
    <3> QED BY <1>1, <2>3, <3>1 DEF Walks, Misses, ReadKinds
  <2> QED BY <1>1, <1>5, <2>2, <2>3, ServeEffect
<1> QED BY <1>4, <1>5

LEMMA WalkStarts ==
    ASSUME BaseInv, DurableInv, WalkInv, [Next]_vars, NEW t \in Clients, Begin(t)
    PROVE  WalkInv'
<1>1. WellFormed /\ layers' = layers /\ held' = held /\ Idle(t)
  BY BeginEffect DEF BaseInv
<1>2. Authoritative' = Authoritative
  BY <1>1 DEF Authoritative, Layers, Depth
<1>3. PICK x : Began(t, x) /\ call' = Started(t, x)
  BY <1>1, BeginEffect
<1>4. x \in Answered \/ CallShape(x)
  BY <1>3 DEF Began
<1>5. /\ call'[t] = x
      /\ \A s \in Clients \ {t} :
            /\ Idle(s) => call'[s] = call[s]
            /\ ~Idle(s) =>
                 /\ Excused(call[s], call'[s])
                 /\ Touches(x, call[s].item) \/ Touches(call[s], x.item) =>
                      (call'[s].must => IF call[s].kind = "del" THEN ~Writes(x)
                                        ELSE x.kind # "del")
  BY <1>1, <1>3, <1>4, CallStarted
<1>6. acked' = acked \/ (x.kind = "del" /\ acked' = acked \ {x.item})
  BY <1>3 DEF Began, history
<1>7. Walks(x)' /\ ~Misses(x)
  <2>1. CASE x \in Answered
    BY <1>3, <2>1 DEF Began, Answered, Walks, Misses, ReadKinds
  <2>2. CASE CallShape(x)
    <3>1. x.kind \in ReadKinds => acked' = acked
      BY <1>6 DEF ReadKinds
    <3>2. x.kind \in ReadKinds =>
            /\ x.stage = "has"
            /\ x.must => x.item \in acked /\ x.at # 0 /\ \E a \in Authoritative : x.at <= a
      BY <1>3 DEF Began, ReadKinds, Answered
    <3>3. ~Misses(x)
      BY <2>2 DEF Misses, CallShape, Opened, OpenKinds, ItemKinds, SlotKinds
    <3> QED BY <1>2, <3>1, <3>2, <3>3 DEF Walks
  <2> QED BY <1>4, <2>1, <2>2
<1>8. ASSUME NEW s \in Clients \ {t}
      PROVE  Walks(call[s])' /\ ~Misses(call[s])'
  <2>1. Walks(call[s]) /\ ~Misses(call[s])
    BY DEF WalkInv
  <2>2. CASE Idle(s)
    BY <1>5, <2>1, <2>2 DEF Idle, Walks, Misses, ReadKinds
  <2>3. CASE ~Idle(s)
    <3>1. /\ call'[s].kind = call[s].kind /\ call'[s].item = call[s].item
          /\ call'[s].at = call[s].at /\ call'[s].stage = call[s].stage
          /\ call'[s].must => call[s].must
      BY <1>5, <2>3 DEF Excused
    <3>2. ~Misses(call[s])'
      BY <2>3, <3>1 DEF Misses, Idle
    <3>3. CASE call[s].kind \in ReadKinds
      <4>1. call[s].must => call[s].item \in acked
        BY <2>1, <3>3 DEF Walks
      <4>2. x.kind = "del" /\ x.item = call[s].item => ~call'[s].must
        BY <1>5, <2>3, <3>3 DEF Touches, ReadKinds
      <4>3. call'[s].must => call[s].must /\ call[s].item \in acked'
        BY <1>6, <3>1, <4>1, <4>2
      <4> QED BY <2>1, <3>1, <3>2, <3>3, <4>3, WalkKept
    <3>4. CASE call[s].kind \notin ReadKinds
      BY <3>1, <3>2, <3>4 DEF Walks
    <3> QED BY <3>3, <3>4
  <2> QED BY <2>2, <2>3
<1>9. Walks(call[t])' /\ ~Misses(call[t])'
  BY <1>5, <1>7 DEF Walks, Misses
<1> QED BY <1>8, <1>9 DEF WalkInv

LEMMA WalkStep ==
    ASSUME BaseInv, DurableInv, WalkInv, [Next]_vars
    PROVE  WalkInv'
<1>1. WellFormed /\ FormsInv /\ layers' = layers
  BY LayersStay DEF BaseInv
<1>2. ASSUME NEW t \in Clients,
             WriteSync(t) \/ WriteDone(t) \/ DeleteAt(t) \/ TagAt(t) \/ BookmarkGet(t)
             \/ BookmarkFill(t) \/ Close(t)
      PROVE  WalkInv'
  <2>1. acked \subseteq acked'
    BY <1>2 DEF WriteSync, WriteDone, DeleteAt, TagAt, BookmarkGet, BookmarkFill, Close, history
  <2>2. CASE WriteSync(t)
    <3>1. PICK x : /\ call' = [call EXCEPT ![t] = x] /\ CallShape(x) /\ Proceeds(call[t], x)
                   /\ call[t].kind \in {"put", "bmput"}
      BY <1>1, <2>2, WriteSyncEffect
    <3>2. call'[t] = x /\ OthersKept(t)
      BY <1>1, <3>1, CallReplaced DEF OthersKept
    <3>3. Walks(call[t])' /\ ~Misses(call[t])'
      BY <3>1, <3>2 DEF Walks, Misses, Proceeds, ReadKinds
    <3> QED BY <2>1, <3>2, <3>3, OthersWalk DEF WalkInv, OthersKept
  <2>3. CASE WriteDone(t)
    <3>1. /\ ~Idle(t) /\ call[t].kind \notin ReadKinds
          /\ Finish(t, IF call[t].failed THEN "error" ELSE "ok", "none")
      BY <2>3 DEF WriteDone, Idle, ReadKinds
    <3>2. Walks(call[t])' /\ ~Misses(call[t])' /\ OthersKept(t)
      BY <1>1, <3>1, AnswerMisses DEF Forms
    <3> QED BY <2>1, <3>2, OthersWalk DEF WalkInv, OthersKept
  <2>4. CASE DeleteAt(t) \/ TagAt(t) \/ BookmarkGet(t) \/ BookmarkFill(t) \/ Close(t)
    <3>1. call[t].kind \notin ReadKinds
      BY <2>4 DEF DeleteAt, TagAt, BookmarkGet, BookmarkFill, Close, ReadKinds
    <3>2. /\ OthersKept(t) /\ ~Idle(t)
          /\ Idle(t)' \/ call'[t].kind = call[t].kind
      BY <1>1, <2>4, CallSteps
    <3>3. \/ call' = call
          \/ call'[t].kind = call[t].kind
          \/ \E r \in {"ok", "missing", "error"}, f \in Forms \cup Records : Finish(t, r, f)
      <4>1. "none" \in Forms
        BY DEF Forms
      <4>2. CASE DeleteAt(t)
        BY <1>1, <4>1, <4>2, DeleteEffect, CallReplaced DEF Proceeds
      <4>3. CASE TagAt(t)
        BY <1>1, <4>1, <4>3, TagEffect, CallReplaced DEF Proceeds
      <4>4. CASE BookmarkGet(t)
        BY <1>1, <4>1, <4>4, BookmarkGetEffect, CallReplaced DEF Proceeds
      <4>5. CASE BookmarkFill(t)
        BY <1>1, <4>1, <4>5, BookmarkFillEffect, CallReplaced DEF Proceeds
      <4>6. CASE Close(t)
        BY <4>1, <4>6 DEF Close
      <4> QED BY <2>4, <4>2, <4>3, <4>4, <4>5, <4>6
    <3>4. CASE call'[t].kind = call[t].kind
      BY <2>1, <3>1, <3>2, <3>4, OthersWalk DEF WalkInv, OthersKept, Walks, Misses, Idle
    <3>5. ASSUME NEW r \in {"ok", "missing", "error"}, NEW f \in Forms \cup Records,
                 Finish(t, r, f)
          PROVE  WalkInv'
      <4>1. Walks(call[t])' /\ ~Misses(call[t])'
        BY <1>1, <3>1, <3>2, <3>5, AnswerMisses
      <4> QED BY <2>1, <3>2, <4>1, OthersWalk DEF WalkInv, OthersKept
    <3> QED BY <3>3, <3>4, <3>5
  <2> QED BY <1>2, <2>2, <2>3, <2>4
<1>3. ASSUME BackgroundWrite \/ Filling \/ Rot \/ UNCHANGED vars PROVE WalkInv'
  <2>1. acked' = acked /\ call' = call
    BY <1>3 DEF BackgroundWrite, Filling, Wake, Take, WriteBatch, Rot, vars, history
  <2> QED BY <2>1, OthersWalk DEF WalkInv
<1> QED BY <1>2, <1>3, WalkProbes, WalkFetches, WalkServes, WalkStarts DEF Next, Step

(* A read of an item a Put answered for before it began never answers      *)
(* ErrNotFound: every walk asks the durable layers, it stops above one     *)
(* only at a layer that has the item, and no fill, write or rot takes that *)
(* copy away.                                                              *)
THEOREM ReadsFind == Spec => []NoFalseMiss
<1>1. Init => BaseInv /\ DurableInv /\ WalkInv
  <2>1. Init => WalkInv
    BY DEF Init, WalkInv, Walks, Misses, ReadKinds
  <2> QED BY <2>1, BaseInit, DurableInit
<1>2. BaseInv /\ DurableInv /\ WalkInv /\ [Next]_vars => BaseInv' /\ DurableInv' /\ WalkInv'
  BY BaseStep, DurableStep, WalkStep
<1>3. WalkInv => NoFalseMiss
  BY DEF WalkInv, Misses, NoFalseMiss, Idle, ReadKinds
<1> QED BY <1>1, <1>2, <1>3, PTL DEF Spec

----------------------------------------------------------------------------
(* Answers are faithful *)

(* An answer is what was asked for. *)
Faithful(c) ==
    c.kind = "done" /\ c.result = "ok" /\ c.of \in {"get", "raw", "stream", "sync"} =>
        /\ c.form # "corrupt"
        /\ c.verbatim \/ c.item \in Blobs => c.form = "stored"

LEMMA AnswerFaithful ==
    ASSUME WellFormed, NEW t \in Clients, ~Idle(t), layers' = layers,
           NEW r \in {"ok", "missing", "error"}, NEW f \in Forms \cup Records, Finish(t, r, f),
           Reading(call[t]) /\ call[t].kind # "has" /\ r = "ok" =>
              /\ f # "corrupt"
              /\ call[t].kind = "raw" \/ call[t].delta \/ call[t].item \in Blobs => f = "stored"
    PROVE  Faithful(call[t])' /\ OthersKept(t)
<1>1. Answers(call[t], call'[t], r) /\ OthersKept(t) /\ call'[t].form = f
  BY FinishEffect
<1>2. call'[t].of = call[t].kind /\ (call'[t].verbatim => call[t].delta \/ call[t].kind = "raw")
  BY <1>1 DEF Answers
<1>3. Reading(call[t]) => call'[t].item = call[t].item /\ call'[t].result = r
  BY <1>1 DEF Answers
<1> QED BY <1>1, <1>2, <1>3 DEF Faithful, Reading

(* A step that begins, goes on with or ends a call leaves a faithful       *)
(* answer, if it leaves one.                                               *)
LEMMA GoesOnFaithful ==
    ASSUME WellFormed, layers' = layers, NEW t \in Clients,
           NEW x, CallShape(x), call' = [call EXCEPT ![t] = x]
    PROVE  Faithful(call[t])' /\ OthersKept(t)
<1>1. call'[t] = x /\ OthersKept(t)
  BY CallReplaced DEF OthersKept
<1>2. x.kind # "done"
  BY DEF CallShape, Opened, OpenKinds, ItemKinds, SlotKinds
<1> QED BY <1>1, <1>2 DEF Faithful

LEMMA FetchFaithful ==
    ASSUME WellFormed, FormsInv, layers' = layers, NEW t \in Clients, Fetch(t)
    PROVE  Faithful(call[t])' /\ OthersKept(t)
<1> DEFINE c == call[t]
           got == held[c.at][c.item]
<1>1. /\ Reading(c) /\ c.stage = "get" /\ ~Idle(t) /\ got \in Forms /\ "none" \in Forms
  BY FetchEffect DEF Forms
<1>2. CallShape(c)
  BY <1>1, CallKinds
<1>3. /\ c.item \in Items /\ c.at # 0 /\ c.at \in c.base..Depth /\ c.base \in Layers
      /\ c.kind = "raw" => layers[c.at].raw
      /\ c.kind = "stream" => c.item \in Blobs
  BY <1>1, <1>2 DEF CallShape, ReadShape, Exact
<1>4. c.at \in Layers
  BY <1>3, LayerFacts
<1>5. CASE /\ got \in {"stored", "projected"} /\ c.kind \in {"raw", "stream"}
           /\ Finish(t, "ok", got)
  <2>1. got = "projected" => c.item \in Claims /\ ~layers[c.at].raw
    BY <1>3, <1>4 DEF FormsInv
  <2>2. got = "stored"
    BY <1>3, <1>5, <2>1, StackAssumption
  <2> QED BY <1>1, <1>5, <2>2, AnswerFaithful
<1>6. CASE Finish(t, "missing", "none") \/ Finish(t, "error", "none")
  BY <1>1, <1>6, AnswerFaithful
<1>7. CASE \E x : call' = [call EXCEPT ![t] = x] /\ CallShape(x)
  BY <1>7, GoesOnFaithful
<1>8. CASE /\ got \in {"stored", "projected"} /\ c.kind \in {"get", "sync"}
           /\ call' = [call EXCEPT ![t].stage = "fill", ![t].todo = Above(c), ![t].form = got]
  BY <1>1, <1>7, <1>8, ServedShape
<1> QED BY <1>5, <1>6, <1>7, <1>8, FetchEffect

LEMMA ServeFaithful ==
    ASSUME WellFormed, FormsInv, layers' = layers, NEW t \in Clients, Serve(t)
    PROVE  Faithful(call[t])' /\ OthersKept(t)
<1> DEFINE c == call[t]
<1>1. /\ c.kind \in {"get", "sync"} /\ c.stage = "fill" /\ ~Idle(t) /\ CallShape(c)
      /\ "none" \in Forms
  BY ServeEffect DEF Forms
<1>2. /\ c.item \in Items /\ c.at # 0 /\ c.form \in {"stored", "projected"}
      /\ c.form = "projected" => c.item \in Claims /\ ~layers[c.at].raw
      /\ c.item \in Claims /\ c.delta => layers[c.at].raw
  BY <1>1 DEF CallShape, ReadShape, Exact, Reading
<1>3. c.delta \/ c.item \in Blobs => c.form = "stored"
  BY <1>2, StackAssumption DEF Items
<1>4. CASE Finish(t, "ok", c.form)
  <2>1. c.form \in Forms
    BY <1>2 DEF Forms
  <2> QED BY <1>1, <1>2, <1>3, <1>4, <2>1, AnswerFaithful
<1>5. CASE Finish(t, "error", "none")
  BY <1>1, <1>5, AnswerFaithful
<1>6. CASE \E x : call' = [call EXCEPT ![t] = x] /\ CallShape(x)
  BY <1>6, GoesOnFaithful
<1> QED BY <1>4, <1>5, <1>6, ServeEffect

LEMMA BeginFaithful ==
    ASSUME WellFormed, FormsInv, AnswersFaithful, NEW t \in Clients, Begin(t)
    PROVE  AnswersFaithful'
<1>1. layers' = layers /\ held' = held
  BY BeginEffect
<1>2. PICK x : Began(t, x) /\ call' = Started(t, x)
  BY BeginEffect
<1>3. x \in Answered \/ CallShape(x)
  BY <1>2 DEF Began
<1>4. /\ call'[t] = x
      /\ \A s \in Clients \ {t} : /\ Idle(s) => call'[s] = call[s]
                                  /\ ~Idle(s) => Excused(call[s], call'[s])
  BY <1>1, <1>2, <1>3, CallStarted
<1>5. Faithful(x)
  <2>1. CASE CallShape(x)
    BY <2>1 DEF CallShape, Opened, OpenKinds, ItemKinds, SlotKinds, Faithful
  <2>2. CASE x \in Answered
    <3>1. /\ x.kind = "done" /\ x.item \in Claims /\ x.item \in Items
          /\ x.result = "ok" => /\ x.form = held[1][x.item] /\ x.form # "none"
                                /\ x.verbatim => layers[1].raw
      <4>1. x.kind = "done"
        BY <2>2 DEF Answered
      <4> QED BY <1>2, <4>1 DEF Began, ReadKinds, Items
    <3>2. 1 \in Layers
      BY LayerFacts
    <3>3. x.item \notin Blobs
      BY <3>1, StackAssumption
    <3>4. held[1][x.item] \in Forms
      BY <3>1, <3>2 DEF WellFormed, TypeOK
    <3>5. held[1][x.item] # "corrupt" /\ (held[1][x.item] = "projected" => ~layers[1].raw)
      BY <3>1, <3>2, <3>3 DEF FormsInv
    <3> QED BY <3>1, <3>3, <3>4, <3>5 DEF Faithful, Forms
  <2> QED BY <1>3, <2>1, <2>2
<1>6. ASSUME NEW s \in Clients \ {t} PROVE Faithful(call'[s])
  BY <1>4, <1>6 DEF Faithful, AnswersFaithful, Excused, Idle
<1> QED BY <1>4, <1>5, <1>6 DEF AnswersFaithful, Faithful, Idle

LEMMA FaithfulStep ==
    ASSUME BaseInv, AnswersFaithful, [Next]_vars
    PROVE  AnswersFaithful'
<1>1. WellFormed /\ FormsInv /\ layers' = layers /\ "none" \in Forms
  BY LayersStay DEF BaseInv, Forms
<1>2. ASSUME NEW t \in Clients, Faithful(call[t])' /\ OthersKept(t) PROVE AnswersFaithful'
  BY <1>2 DEF AnswersFaithful, Faithful, OthersKept, Idle
<1>3. ASSUME NEW t \in Clients, WriteSync(t) PROVE Faithful(call[t])' /\ OthersKept(t)
  BY <1>1, <1>3, WriteSyncEffect, GoesOnFaithful
<1>4. ASSUME NEW t \in Clients, NEW r \in {"ok", "missing", "error"}, NEW f \in Forms \cup Records,
             Finish(t, r, f), ~Idle(t), ~Reading(call[t]) \/ call[t].kind = "has" \/ r # "ok"
      PROVE  Faithful(call[t])' /\ OthersKept(t)
  BY <1>1, <1>4, AnswerFaithful
<1>5. ASSUME NEW t \in Clients, WriteDone(t) PROVE Faithful(call[t])' /\ OthersKept(t)
  <2>1. /\ ~Idle(t) /\ ~Reading(call[t])
        /\ Finish(t, IF call[t].failed THEN "error" ELSE "ok", "none")
    BY <1>5 DEF WriteDone, Idle, Reading
  <2> QED BY <1>1, <1>4, <2>1
<1>6. ASSUME NEW t \in Clients, DeleteAt(t) PROVE Faithful(call[t])' /\ OthersKept(t)
  <2>1. ~Reading(call[t])
    BY <1>6 DEF DeleteAt, Reading
  <2> QED BY <1>1, <1>4, <1>6, <2>1, DeleteEffect, GoesOnFaithful
<1>7. ASSUME NEW t \in Clients, TagAt(t) PROVE Faithful(call[t])' /\ OthersKept(t)
  <2>1. ~Reading(call[t])
    BY <1>7 DEF TagAt, Reading
  <2> QED BY <1>1, <1>4, <1>7, <2>1, TagEffect, GoesOnFaithful
<1>8. ASSUME NEW t \in Clients, Probe(t) PROVE Faithful(call[t])' /\ OthersKept(t)
  BY <1>1, <1>4, <1>8, ProbeEffect, GoesOnFaithful
<1>9. ASSUME NEW t \in Clients, Fill(t) PROVE Faithful(call[t])' /\ OthersKept(t)
  BY <1>1, <1>9, FillEffect, GoesOnFaithful
<1>10. ASSUME NEW t \in Clients, BookmarkGet(t) PROVE Faithful(call[t])' /\ OthersKept(t)
  <2>1. ~Reading(call[t])
    BY <1>10 DEF BookmarkGet, Reading
  <2> QED BY <1>1, <1>4, <1>10, <2>1, BookmarkGetEffect, GoesOnFaithful
<1>11. ASSUME NEW t \in Clients, BookmarkFill(t) PROVE Faithful(call[t])' /\ OthersKept(t)
  <2>1. ~Reading(call[t])
    BY <1>11 DEF BookmarkFill, Reading
  <2> QED BY <1>1, <1>4, <1>11, <2>1, BookmarkFillEffect, GoesOnFaithful
<1>12. ASSUME NEW t \in Clients, Close(t) PROVE AnswersFaithful'
  <2>1. ~Idle(t) /\ ~Reading(call[t]) /\ (call' = call \/ Finish(t, "ok", "none"))
    BY <1>12 DEF Close, Idle, Reading
  <2>2. CASE call' = call
    BY <2>2 DEF AnswersFaithful, Idle
  <2> QED BY <1>1, <1>2, <1>4, <2>1, <2>2
<1>13. ASSUME BackgroundWrite \/ Filling \/ Rot \/ UNCHANGED vars PROVE AnswersFaithful'
  <2>1. call' = call
    BY <1>13 DEF BackgroundWrite, Filling, Wake, Take, WriteBatch, Rot, vars
  <2> QED BY <2>1 DEF AnswersFaithful, Idle
<1> QED
  BY <1>1, <1>2, <1>3, <1>5, <1>6, <1>7, <1>8, <1>9, <1>10, <1>11, <1>12, <1>13,
     FetchFaithful, ServeFaithful, BeginFaithful DEF Next, Step

(* What GetClaims, GetClaimsRaw, StreamContent, Sync and Query hand out is *)
(* what they promised: a delta, raw or original-form read is routed past   *)
(* the layers that keep projections, GetContents past rotten copies, and   *)
(* no fill puts a projection where the stored record is asked for.         *)
THEOREM AnswersAreFaithful == Spec => []AnswersFaithful
<1>1. Init => BaseInv /\ AnswersFaithful
  <2>1. Init => AnswersFaithful
    BY DEF Init, AnswersFaithful
  <2> QED BY <2>1, BaseInit
<1>2. BaseInv /\ AnswersFaithful /\ [Next]_vars => BaseInv' /\ AnswersFaithful'
  BY BaseStep, FaithfulStep
<1> QED BY <1>1, <1>2, PTL DEF Spec

----------------------------------------------------------------------------
(* Bookmarks are backed *)

(* A record is never taken away. *)
LEMMA DurableStays ==
    ASSUME WellFormed, MarksStep, layers' = layers, NEW s \in Slots, Durable(s)
    PROVE  Durable(s)'
<1>1. Authoritative' = Authoritative /\ Authoritative \subseteq Layers
  BY LayerFacts DEF Authoritative, Layers, Depth
<1> QED BY <1>1 DEF MarksStep, Durable

LEMMA MarkedKept ==
    ASSUME WellFormed, MarksStep, layers' = layers, NEW t \in Clients, Marked(call[t]),
           call'[t].kind = call[t].kind, call'[t].item = call[t].item, call'[t].at = call[t].at,
           call'[t].stage = call[t].stage, call'[t].todo = call[t].todo,
           call'[t].failed => call[t].failed, call[t].failed => call'[t].failed
    PROVE  Marked(call[t])'
<1>1. Authoritative' = Authoritative /\ Authoritative \subseteq Layers
  BY LayerFacts DEF Authoritative, Layers, Depth
<1>2. /\ call[t].kind \in SlotKinds => call[t].item \in Slots
      /\ call[t].kind = "bmget" /\ call[t].stage = "fill" => call[t].at \in Layers
  <2>1. call[t].kind \in SlotKinds => CallShape(call[t])
    BY CallKinds DEF SlotKinds
  <2> QED BY <2>1 DEF CallShape, SlotKinds
<1> QED BY <1>1, <1>2 DEF MarksStep, Marked, SlotKinds

(* The other calls, and what is on its way, when the step sends nothing.   *)
LEMMA MarksKept ==
    ASSUME WellFormed, MarksInv, MarksStep, layers' = layers, NEW t \in Clients,
           detached' \subseteq detached, OthersKept(t), Marked(call[t])'
    PROVE  MarksInv'
<1>1. \A w \in detached' : w[2] \in Slots => Durable(w[2])'
  BY DurableStays DEF MarksInv
<1>2. ASSUME NEW s \in Clients, s # t PROVE Marked(call[s])'
  <2>1. call'[s] = call[s] /\ Marked(call[s])
    BY <1>2 DEF OthersKept, MarksInv
  <2> QED BY <2>1, MarkedKept
<1> QED BY <1>1, <1>2 DEF MarksInv

LEMMA MarksBegin ==
    ASSUME WellFormed, MarksInv, MarksStep, NEW t \in Clients, Begin(t)
    PROVE  MarksInv'
<1>1. layers' = layers /\ marks' = marks
  BY BeginEffect
<1>2. PICK x : Began(t, x) /\ call' = Started(t, x)
  BY BeginEffect
<1>3. x \in Answered \/ CallShape(x)
  BY <1>2 DEF Began
<1>4. /\ call'[t] = x
      /\ \A s \in Clients \ {t} : /\ Idle(s) => call'[s] = call[s]
                                  /\ ~Idle(s) => Excused(call[s], call'[s])
  BY <1>1, <1>2, <1>3, CallStarted
<1>5. Authoritative' = Authoritative
  BY <1>1 DEF Authoritative, Layers, Depth
<1>6. Marked(x)'
  <2>1. CASE x.kind = "bmput"
    <3>1. \A a \in Authoritative : layers[a].marks => a \in x.todo
      BY <1>2, <2>1 DEF Began, ReadKinds, Answered
    <3> QED BY <1>1, <1>5, <2>1, <3>1 DEF Marked
  <2>2. CASE x.kind = "bmget"
    BY <1>2, <2>2 DEF Began, ReadKinds, Answered, Marked
  <2> QED BY <2>1, <2>2 DEF Marked
<1>7. \A w \in detached' : w[2] \in Slots => Durable(w[2])'
  <2>1. detached' = detached
        \/ /\ x.item \in Items
           /\ detached' = detached \cup {<<l, x.item, "stored">> : l \in Background \cap Fit(x.item)}
    BY <1>2 DEF Began, CallShape
  <2>2. \A w \in detached' : w[2] \in Slots => w \in detached
    BY <2>1, StackAssumption
  <2> QED BY <1>1, <2>2, DurableStays DEF MarksInv
<1>8. ASSUME NEW s \in Clients \ {t} PROVE Marked(call[s])'
  <2>1. Marked(call[s])
    BY DEF MarksInv
  <2>2. CASE Idle(s)
    BY <1>1, <1>4, <2>1, <2>2, MarkedKept
  <2>3. CASE ~Idle(s)
    <3>1. Excused(call[s], call'[s])
      BY <1>4, <2>3
    <3> QED BY <1>1, <2>1, <3>1, MarkedKept DEF Excused
  <2> QED BY <2>2, <2>3
<1>9. Marked(call[t])'
  BY <1>4, <1>6 DEF Marked
<1> QED BY <1>7, <1>8, <1>9 DEF MarksInv

LEMMA MarksWritten ==
    ASSUME WellFormed, MarksInv, MarksStep, layers' = layers, NEW t \in Clients, WriteSync(t)
    PROVE  MarksInv'
<1> DEFINE c == call[t]
<1>1. detached' = detached
  BY DEF WriteSync
<1>2. PICK l, x :
             /\ l \in c.todo
             /\ call' = [call EXCEPT ![t] = x] /\ CallShape(x) /\ Proceeds(c, x)
             /\ x.item = c.item /\ x.todo = c.todo \ {l} /\ l \in Layers
             /\ c.kind \in {"put", "bmput"} /\ ~Idle(t)
             /\ \/ c.kind = "put"
                \/ /\ marks' = [marks EXCEPT ![l][c.item] = c.record]
                   /\ x.failed = c.failed
                \/ /\ marks' = marks
                   /\ ~x.failed => ~c.failed /\ l \notin Authoritative
  BY WriteSyncEffect
<1>3. call'[t] = x /\ OthersKept(t)
  BY <1>2, CallReplaced DEF OthersKept
<1>4. x.kind = c.kind
  BY <1>2 DEF Proceeds
<1>5. Marked(call[t])'
  <2>1. CASE c.kind = "put"
    BY <1>3, <1>4, <2>1 DEF Marked
  <2>2. CASE c.kind = "bmput"
    <3>1. c.item \in Slots /\ c.record \in Records /\ c.record # None
      BY <1>2, <2>2, CallKinds, StackAssumption DEF CallShape, Opened, SlotKinds
    <3>2. Authoritative' = Authoritative /\ Authoritative \subseteq Layers
      BY LayerFacts DEF Authoritative, Layers, Depth
    <3>3. marks \in [Layers -> [Slots -> Records \cup {None}]]
      BY DEF WellFormed, TypeOK
    <3>4. ASSUME ~x.failed, NEW a \in Authoritative \ x.todo, layers[a].marks
          PROVE  marks'[a][c.item] # None
      <4>1. CASE a = l
        BY <1>2, <2>2, <3>1, <3>2, <3>3, <3>4, <4>1
      <4>2. CASE a # l
        <5>1. a \in Authoritative \ c.todo /\ ~c.failed
          BY <1>2, <2>2, <3>4, <4>2
        <5>2. marks[a][c.item] # None
          BY <2>2, <3>4, <5>1 DEF MarksInv, Marked
        <5> QED BY <3>1, <3>2, <5>1, <5>2 DEF MarksStep
      <4> QED BY <4>1, <4>2
    <3> QED BY <1>2, <1>3, <1>4, <2>2, <3>2, <3>4 DEF Marked
  <2> QED BY <1>2, <2>1, <2>2
<1> QED BY <1>1, <1>3, <1>5, MarksKept

(* A bookmark Put that answers ok has its record in the durable tier.      *)
LEMMA MarksAnswered ==
    ASSUME WellFormed, MarksInv, NEW t \in Clients, WriteDone(t), call[t].kind = "bmput"
    PROVE  IF call[t].failed THEN call[t].item \in unsure' ELSE Durable(call[t].item)
<1>1. call[t].todo = {} /\ (call[t].failed => call[t].item \in unsure')
  BY DEF WriteDone
<1> QED BY <1>1 DEF MarksInv, Marked, Durable

LEMMA MarksDone ==
    ASSUME WellFormed, MarksInv, MarksStep, layers' = layers, NEW t \in Clients, WriteDone(t)
    PROVE  MarksInv'
<1> DEFINE c == call[t]
<1>1. /\ ~Idle(t) /\ c.kind \in {"put", "bmput"} /\ c.failed \in BOOLEAN /\ "none" \in Forms
      /\ Finish(t, IF c.failed THEN "error" ELSE "ok", "none")
  BY CallKinds DEF WriteDone, Idle, Opened, Forms
<1>2. (IF c.failed THEN "error" ELSE "ok") \in {"ok", "missing", "error"}
  OBVIOUS
<1>3. OthersKept(t) /\ call'[t] \in Answered
  BY <1>1, <1>2, FinishEffect DEF Answers
<1>4. Marked(call[t])'
  BY <1>3 DEF Marked, Answered
<1>5. ASSUME NEW w \in detached', w \notin detached PROVE Durable(w[2])
  <2>1. c.kind = "bmput" /\ ~c.failed /\ w[2] = c.item
    BY <1>5 DEF WriteDone
  <2> QED BY <2>1, MarksAnswered
<1>6. \A w \in detached' : w[2] \in Slots => Durable(w[2])'
  BY <1>5, DurableStays DEF MarksInv
<1>7. ASSUME NEW s \in Clients, s # t PROVE Marked(call[s])'
  <2>1. call'[s] = call[s] /\ Marked(call[s])
    BY <1>3, <1>7 DEF OthersKept, MarksInv
  <2> QED BY <2>1, MarkedKept
<1> QED BY <1>4, <1>6, <1>7 DEF MarksInv

LEMMA MarksReads ==
    ASSUME WellFormed, MarksInv, MarksStep, layers' = layers, NEW t \in Clients,
           BookmarkGet(t) \/ BookmarkFill(t)
    PROVE  MarksInv'
<1> DEFINE c == call[t]
<1>1. detached' = detached /\ "none" \in Forms
  BY DEF BookmarkGet, BookmarkFill, Forms
<1>2. c.kind = "bmget" /\ ~Idle(t) /\ CallShape(c)
  BY BookmarkGetEffect, BookmarkFillEffect, CallKinds
<1>3. ASSUME NEW r \in {"ok", "missing", "error"}, NEW f \in Forms \cup Records, Finish(t, r, f)
      PROVE  MarksInv'
  <2>1. OthersKept(t) /\ call'[t] \in Answered
    BY <1>2, <1>3, FinishEffect DEF Answers
  <2>2. Marked(call[t])'
    BY <2>1 DEF Marked, Answered
  <2> QED BY <1>1, <2>1, <2>2, MarksKept
<1>4. ASSUME NEW x, call' = [call EXCEPT ![t] = x], CallShape(x), Proceeds(c, x),
             x.stage = "fill" => marks[x.at][x.item] # None
      PROVE  MarksInv'
  <2>1. call'[t] = x /\ OthersKept(t)
    BY <1>4, CallReplaced DEF OthersKept
  <2>2. x.kind = "bmget" /\ x.item \in Slots /\ (x.stage = "fill" => x.at \in Layers)
    BY <1>2, <1>4 DEF Proceeds, CallShape, SlotKinds
  <2>3. Marked(call[t])'
    BY <1>4, <2>1, <2>2 DEF Marked, MarksStep
  <2> QED BY <1>1, <2>1, <2>3, MarksKept
<1>5. CASE BookmarkGet(t)
  BY <1>1, <1>3, <1>4, <1>5, BookmarkGetEffect
<1>6. CASE BookmarkFill(t)
  <2>1. c.stage = "fill" /\ marks[c.at][c.item] # None /\ c.record \in Records
    BY <1>2, <1>6, BookmarkFillEffect DEF MarksInv, Marked
  <2> QED BY <1>1, <1>3, <1>4, <1>6, <2>1, BookmarkFillEffect
<1> QED BY <1>5, <1>6

LEMMA MarksInvStep ==
    ASSUME BaseInv, MarksInv, [Next]_vars
    PROVE  MarksInv'
<1>1. WellFormed /\ FormsInv /\ layers' = layers /\ MarksStep
  BY LayersStay, MarksEffect DEF BaseInv
<1>2. ASSUME NEW t \in Clients,
             DeleteAt(t) \/ TagAt(t) \/ Probe(t) \/ Fetch(t) \/ Fill(t) \/ Serve(t) \/ Close(t)
      PROVE  MarksInv'
  <2>1. detached' = detached
    BY <1>2 DEF DeleteAt, TagAt, Probe, Fetch, Fill, Serve, Close
  <2>2. call[t].kind # "bmget"
    BY <1>2 DEF DeleteAt, TagAt, Probe, Fetch, Fill, Serve, Close, Reading
  <2>3. /\ OthersKept(t) /\ call[t].kind \notin {"put", "bmput"}
        /\ Idle(t)' \/ call'[t].kind = call[t].kind
    BY <1>1, <1>2, CallSteps
  <2>4. Marked(call[t])'
    BY <2>2, <2>3 DEF Marked, Idle
  <2> QED BY <1>1, <2>1, <2>3, <2>4, MarksKept
<1>3. ASSUME BackgroundWrite \/ Filling \/ Rot \/ UNCHANGED vars PROVE MarksInv'
  <2>1. call' = call /\ detached' \subseteq detached
    BY <1>3 DEF BackgroundWrite, Filling, Wake, Take, WriteBatch, Rot, vars
  <2>2. \A t \in Clients : Marked(call[t])'
    BY <1>1, <2>1, MarkedKept DEF MarksInv
  <2> QED BY <1>1, <2>1, <2>2, DurableStays DEF MarksInv
<1> QED BY <1>1, <1>2, <1>3, MarksBegin, MarksWritten, MarksDone, MarksReads DEF Next, Step

(* A bookmark Put under way goes on, or its slot is settled.               *)
LEMMA PutSettles ==
    ASSUME BaseInv, MarksInv, [Next]_vars, NEW t \in Clients, call[t].kind = "bmput"
    PROVE  \/ call[t].item \in unsure'
           \/ Durable(call[t].item)
           \/ call'[t].kind = "bmput" /\ call'[t].item = call[t].item
<1>1. WellFormed /\ FormsInv /\ layers' = layers /\ ~Idle(t)
  BY LayersStay, CallKinds DEF BaseInv
<1>2. CASE call'[t] = call[t]
  BY <1>2
<1>3. ASSUME NEW s \in Clients, Begin(s)
      PROVE  call'[t].kind = "bmput" /\ call'[t].item = call[t].item
  <2>1. PICK x : Began(s, x) /\ call' = Started(s, x) /\ Idle(s)
    BY <1>1, <1>3, BeginEffect
  <2>2. x \in Answered \/ CallShape(x)
    BY <2>1 DEF Began
  <2>3. Excused(call[t], call'[t])
    BY <1>1, <2>1, <2>2, CallStarted
  <2> QED BY <2>3 DEF Excused
<1>4. ASSUME NEW s \in Clients, WriteSync(s)
      PROVE  call'[t].kind = "bmput" /\ call'[t].item = call[t].item
  <2>1. PICK x : /\ call' = [call EXCEPT ![s] = x] /\ CallShape(x) /\ Proceeds(call[s], x)
                 /\ x.item = call[s].item
    BY <1>1, <1>4, WriteSyncEffect
  <2>2. call'[s] = x /\ \A u \in Clients : u # s => call'[u] = call[u]
    BY <1>1, <2>1, CallReplaced
  <2> QED BY <2>1, <2>2 DEF Proceeds
<1>5. ASSUME NEW s \in Clients, WriteDone(s), s # t PROVE call'[t] = call[t]
  BY <1>5 DEF WriteDone, Finish
<1>6. CASE WriteDone(t)
  BY <1>1, <1>6, MarksAnswered
<1>7. ASSUME NEW s \in Clients,
             DeleteAt(s) \/ TagAt(s) \/ Probe(s) \/ Fetch(s) \/ Fill(s) \/ Serve(s)
             \/ BookmarkGet(s) \/ BookmarkFill(s) \/ Close(s)
      PROVE  call'[t] = call[t]
  BY <1>1, <1>7, CallSteps DEF OthersKept
<1>8. ASSUME BackgroundWrite \/ Filling \/ Rot \/ UNCHANGED vars PROVE call' = call
  BY <1>8 DEF BackgroundWrite, Filling, Wake, Take, WriteBatch, Rot, vars
<1> QED BY <1>2, <1>3, <1>4, <1>5, <1>6, <1>7, <1>8 DEF Next, Step

LEMMA BackedStep ==
    ASSUME BaseInv, MarksInv, BookmarksBacked, [Next]_vars
    PROVE  BookmarksBacked'
<1>1. WellFormed /\ layers' = layers /\ MarksStep
  BY LayersStay, MarksEffect DEF BaseInv
<1>2. Layers' = Layers
  BY <1>1 DEF Layers, Depth
<1>3. unsure \subseteq unsure'
  <2>1. \A t \in Clients : Begin(t) => unsure' = unsure
    BY <1>1, BeginEffect DEF Began, history
  <2>2. UNCHANGED vars => unsure' = unsure
    BY DEF vars, history
  <2> QED
    BY <2>1, <2>2, ZenonT(60) DEF Next, Step, WriteSync, WriteDone, BackgroundWrite, DeleteAt, TagAt, Probe,
       Fetch, Fill, Serve, BookmarkGet, BookmarkFill, Close, Filling, Wake, Take, WriteBatch, Rot,
       history
<1>4. SUFFICES ASSUME NEW l \in Layers, NEW s \in Slots, marks'[l][s] # None,
                      s \notin unsure', ~Durable(s)
               PROVE  \E t \in Clients : call'[t].kind = "bmput" /\ call'[t].item = s
  BY <1>1, <1>2, <1>4, DurableStays DEF BookmarksBacked, Durable
<1>5. SUFFICES \E t \in Clients : call[t].kind = "bmput" /\ call[t].item = s
  BY <1>4, <1>5, PutSettles
<1>6. s \notin unsure
  BY <1>3, <1>4
<1>7. \A m \in Layers : marks[m][s] # None =>
          \E t \in Clients : call[t].kind = "bmput" /\ call[t].item = s
  BY <1>4, <1>6 DEF BookmarksBacked, Durable
<1>8. CASE marks[l][s] # None
  BY <1>7, <1>8
<1>9. CASE marks[l][s] = None
  <2>1. \/ \E w \in detached : w[2] = s
        \/ \E t \in Clients : call[t].kind = "bmput" /\ call[t].item = s
        \/ \E t \in Clients : call[t].kind = "bmget" /\ call[t].stage = "fill" /\ call[t].item = s
    BY <1>1, <1>4, <1>9 DEF MarksStep
  <2>2. \A w \in detached : w[2] # s
    BY <1>4 DEF MarksInv
  <2>3. ASSUME NEW t \in Clients, call[t].kind = "bmget", call[t].stage = "fill",
               call[t].item = s
        PROVE  \E u \in Clients : call[u].kind = "bmput" /\ call[u].item = s
    <3>1. call[t].at \in Layers
      BY <1>1, <2>3, CallKinds DEF CallShape
    <3>2. marks[call[t].at][s] # None
      BY <2>3 DEF MarksInv, Marked
    <3> QED BY <1>7, <3>1, <3>2
  <2> QED BY <2>1, <2>2, <2>3
<1> QED BY <1>8, <1>9

(* A bookmark any layer serves is in the durable tier as well, or its Put  *)
(* is under way or has failed: the background copies leave only after the  *)
(* durable writes answered, and a Get fills from a layer that has it.      *)
THEOREM BookmarksAreBacked == Spec => []BookmarksBacked
<1>1. Init => BaseInv /\ MarksInv /\ BookmarksBacked
  <2>1. ASSUME Init PROVE MarksInv
    BY <2>1 DEF Init, MarksInv, Marked
  <2>2. ASSUME Init PROVE BookmarksBacked
    BY <2>2 DEF Init, BookmarksBacked, Layers, Depth
  <2> QED BY <2>1, <2>2, BaseInit
<1>2. BaseInv /\ MarksInv /\ BookmarksBacked /\ [Next]_vars
         => BaseInv' /\ MarksInv' /\ BookmarksBacked'
  BY BaseStep, MarksInvStep, BackedStep
<1> QED BY <1>1, <1>2, PTL DEF Spec

----------------------------------------------------------------------------
(* A quiet deletion holds *)

(* How a call moves: it goes on with its item, and fetches only what a     *)
(* layer has, or it turns to the item's predecessor.                       *)
Moves(c, x) ==
    /\ x.kind = c.kind
    /\ \/ /\ x.item = c.item
          /\ Reading(c) => /\ x.first = c.first
                           /\ x.stage = "has" \/ c.stage # "has"
                              \/ (c.at # 0 /\ held[c.at][c.item] # "none")
       \/ /\ Reading(c) /\ c.item \in Claims /\ Pred[c.item] # None /\ x.item = Pred[c.item]
          /\ x.stage = "has" /\ x.first # <<>> /\ x.first[1] = Subject(c)

LEMMA CallMoves ==
    ASSUME WellFormed, FormsInv, layers' = layers, NEW t \in Clients, Step(t)
    PROVE  ~Idle(t) /\ OthersKept(t) /\ (Idle(t)' \/ Moves(call[t], call'[t]))
<1> DEFINE P == OthersKept(t) /\ (Idle(t)' \/ Moves(call[t], call'[t]))
<1>1. ASSUME ~Idle(t), NEW r \in {"ok", "missing", "error"}, NEW f \in Forms \cup Records,
             Finish(t, r, f)
      PROVE  P
  <2>1. OthersKept(t) /\ call'[t] \in Answered
    BY <1>1, FinishEffect DEF Answers
  <2> QED BY <2>1 DEF Idle, Answered
<1>2. ASSUME NEW x, CallShape(x), call' = [call EXCEPT ![t] = x], Moves(call[t], x)
      PROVE  P
  <2>1. call'[t] = x /\ OthersKept(t)
    BY <1>2, CallReplaced DEF OthersKept
  <2> QED BY <1>2, <2>1
<1>3. "none" \in Forms
  BY DEF Forms
<1>4. CASE WriteSync(t)
  <2>1. PICK x : /\ call' = [call EXCEPT ![t] = x] /\ CallShape(x) /\ Proceeds(call[t], x)
                 /\ x.item = call[t].item /\ call[t].kind \in {"put", "bmput"} /\ ~Idle(t)
    BY <1>4, WriteSyncEffect
  <2>2. Moves(call[t], x)
    BY <2>1 DEF Moves, Proceeds, Reading
  <2> QED BY <1>2, <2>1, <2>2
<1>5. CASE WriteDone(t)
  <2>1. ~Idle(t) /\ Finish(t, IF call[t].failed THEN "error" ELSE "ok", "none")
    BY <1>5 DEF WriteDone, Idle
  <2> QED BY <1>1, <1>3, <2>1
<1>6. CASE DeleteAt(t) \/ TagAt(t) \/ BookmarkGet(t) \/ BookmarkFill(t) \/ Close(t)
  <2>1. ~Reading(call[t]) /\ ~Serve(t)
    BY <1>6 DEF DeleteAt, TagAt, BookmarkGet, BookmarkFill, Close, Reading, Serve
  <2>2. /\ OthersKept(t) /\ ~Idle(t)
        /\ Idle(t)' \/ (call'[t].kind = call[t].kind /\ (Serve(t) \/ call'[t].item = call[t].item))
    BY <1>6, CallSteps
  <2> QED BY <2>1, <2>2 DEF Moves
<1>7. CASE Probe(t)
  <2>1. Reading(call[t]) /\ call[t].stage = "has" /\ ~Idle(t)
    BY <1>7, ProbeEffect
  <2>2. ASSUME NEW x, Proceeds(call[t], x), x.item = call[t].item, x.first = call[t].first,
               x.stage = "has" \/ (call[t].at # 0 /\ held[call[t].at][call[t].item] # "none")
        PROVE  Moves(call[t], x)
    BY <2>2 DEF Moves, Proceeds
  <2> HIDE DEF P
  <2>3. P
    BY <1>1, <1>2, <1>3, <1>7, <2>1, <2>2, ProbeEffect
  <2> QED BY <2>1, <2>3 DEF P
<1>8. CASE Fetch(t)
  <2> DEFINE got == held[call[t].at][call[t].item]
  <2>1. Reading(call[t]) /\ call[t].stage = "get" /\ ~Idle(t) /\ got \in Forms
    BY <1>8, FetchEffect
  <2>2. ASSUME NEW x, Proceeds(call[t], x), x.item = call[t].item, x.first = call[t].first
        PROVE  Moves(call[t], x)
    BY <2>1, <2>2 DEF Moves, Proceeds
  <2> HIDE DEF P
  <2>3. ASSUME got \in {"stored", "projected"}, call[t].kind \in {"get", "sync"},
               call' = [call EXCEPT ![t].stage = "fill", ![t].todo = Above(call[t]),
                                    ![t].form = got]
        PROVE  P
    BY <1>2, <2>1, <2>2, <2>3, ServedShape
  <2>4. P
    BY <1>1, <1>2, <1>3, <1>8, <2>1, <2>2, <2>3, FetchEffect
  <2> QED BY <2>1, <2>4 DEF P
<1>9. CASE Fill(t)
  <2>1. PICK x : /\ call' = [call EXCEPT ![t] = x] /\ CallShape(x) /\ Proceeds(call[t], x)
                 /\ x.item = call[t].item /\ x.first = call[t].first /\ ~Idle(t)
                 /\ call[t].stage = "fill"
    BY <1>9, FillEffect
  <2>2. Moves(call[t], x)
    BY <2>1 DEF Moves, Proceeds
  <2> QED BY <1>2, <2>1, <2>2
<1>10. CASE Serve(t)
  <2>1. ~Idle(t) /\ Reading(call[t]) /\ call[t].form \in Forms
    BY <1>10, ServeEffect DEF CallShape, Opened, Reading
  <2>2. ASSUME NEW x, x.kind = call[t].kind, call[t].item \in Claims, Pred[call[t].item] # None,
               x.item = Pred[call[t].item], x.stage = "has",
               x.first # <<>>, x.first[1] = Subject(call[t])
        PROVE  Moves(call[t], x)
    BY <2>1, <2>2 DEF Moves
  <2> HIDE DEF P
  <2>3. P
    BY <1>1, <1>2, <1>3, <1>10, <2>1, <2>2, ServeEffect
  <2> QED BY <2>1, <2>3 DEF P
<1> QED BY <1>4, <1>5, <1>6, <1>7, <1>8, <1>9, <1>10 DEF Step

(* A claim's predecessors are in its chain, and so is their chain.         *)
LEMMA ChainGoesOn ==
    ASSUME NEW c \in Claims, Pred[c] # None
    PROVE  Pred[c] \in Chain(c) /\ Chain(Pred[c]) \subseteq Chain(c)
<1>1. Pred[c] \in Claims
  BY StackAssumption
<1>2. ASSUME NEW S \in SUBSET Claims, c \in S, PredClosed(S) PROVE Pred[c] \in S
  BY <1>2 DEF PredClosed
<1> QED BY <1>1, <1>2, Zenon DEF Chain

(* A call that does not touch an item does not write it, and does not come *)
(* to touch it.                                                            *)
LEMMA UntouchedIsHarmless ==
    ASSUME NEW c, NEW i, ~Touches(c, i)
    PROVE  Harmless(c, i)
BY DEF Touches, Harmless, Subject

LEMMA UntouchedStays ==
    ASSUME NEW c, NEW x, NEW i, Moves(c, x), ~Touches(c, i)
    PROVE  ~Touches(x, i)
<1>1. c.item # i /\ (c.item \in Claims => i \notin Chain(c.item))
      /\ (c.kind = "sync" => Subject(c) # i /\ (c.first # <<>> => c.first[1] # i))
  BY DEF Touches, Subject
<1>2. CASE x.item = c.item /\ (Reading(c) => x.first = c.first)
  BY <1>1, <1>2 DEF Touches, Moves, Reading
<1>3. CASE /\ c.item \in Claims /\ Pred[c.item] # None /\ x.item = Pred[c.item]
           /\ x.first # <<>> /\ x.first[1] = Subject(c)
  <2>1. Pred[c.item] \in Chain(c.item) /\ Chain(Pred[c.item]) \subseteq Chain(c.item)
    BY <1>3, ChainGoesOn
  <2> QED BY <1>1, <1>3, <2>1 DEF Touches, Moves
<1> QED BY <1>2, <1>3 DEF Moves

(* A call that does not write an item no layer has does not come to.       *)
LEMMA HarmlessStays ==
    ASSUME WellFormed, NEW c, NEW x, NEW i, Moves(c, x), Harmless(c, i), CallShape(c),
           \A l \in Layers : held[l][i] = "none"
    PROVE  Harmless(x, i)
<1>1. Reading(c) /\ c.at # 0 => c.at \in Layers
  BY LayerFacts DEF CallShape, ReadShape
<1>2. x.kind = c.kind
  BY DEF Moves
<1>3. CASE x.item = c.item /\ ~Reading(c)
  BY <1>2, <1>3 DEF Harmless, Reading
<1>4. CASE /\ x.item = c.item /\ Reading(c) /\ x.first = c.first
           /\ x.stage = "has" \/ c.stage # "has" \/ (c.at # 0 /\ held[c.at][c.item] # "none")
  <2>1. x.item = i => x.stage = "has"
    BY <1>1, <1>4 DEF Harmless
  <2> QED BY <1>2, <1>4, <2>1 DEF Harmless, Subject
<1>5. CASE Reading(c) /\ x.stage = "has" /\ x.first # <<>> /\ x.first[1] = Subject(c)
  BY <1>2, <1>5 DEF Harmless, Subject, Reading
<1> QED BY <1>3, <1>4, <1>5 DEF Moves

(* Nothing comes to be written, unless a Put of it begins.                 *)
LEMMA ClearStays ==
    ASSUME BaseInv, [Next]_vars, NEW i \in Items, Still(i)
    PROVE  Clear(i)' \/ \E t \in Clients : Begin(t) /\ call'[t].kind = "put" /\ call'[t].item = i
<1>1. WellFormed /\ layers' = layers /\ FillerStep /\ Clear(i)
  BY LayersStay, FillerEffect DEF BaseInv, Still
<1>2. \A j \in inbox' \cup batch' : j[2] # i
  <2>1. \A t \in Clients : ~(~Idle(t) /\ Reading(call[t]) /\ call[t].stage = "fill" /\ call[t].item = i)
    BY DEF Still, Harmless
  <2> QED BY <1>1, <2>1 DEF FillerStep, Clear
<1>3. SUFFICES \/ \A w \in detached' : w[2] # i
               \/ \E t \in Clients : Begin(t) /\ call'[t].kind = "put" /\ call'[t].item = i
  BY <1>2, <1>3 DEF Clear
<1>4. CASE detached' \subseteq detached
  BY <1>1, <1>4 DEF Clear
<1>5. ASSUME NEW t \in Clients, Begin(t), ~(detached' \subseteq detached)
      PROVE  (\A w \in detached' : w[2] # i) \/ (call'[t].kind = "put" /\ call'[t].item = i)
  <2>1. PICK x : Began(t, x) /\ call' = Started(t, x)
    BY <1>1, <1>5, BeginEffect
  <2>2. x.kind = "put" /\ CallShape(x)
        /\ detached' = detached \cup {<<l, x.item, "stored">> : l \in Background \cap Fit(x.item)}
    BY <1>5, <2>1 DEF Began
  <2>3. call'[t] = x
    BY <1>1, <2>1, <2>2, CallStarted
  <2> QED BY <1>1, <2>2, <2>3 DEF Clear
<1>6. ASSUME NEW t \in Clients, WriteDone(t), ~(detached' \subseteq detached)
      PROVE  \A w \in detached' : w[2] # i
  <2>1. /\ call[t].kind = "bmput"
        /\ detached' = detached \cup {<<l, call[t].item, call[t].record>> :
                                          l \in {b \in Background : layers[b].marks}}
    BY <1>6 DEF WriteDone
  <2>2. call[t].item \in Slots
    BY <1>1, <2>1, CallKinds DEF CallShape, SlotKinds
  <2>3. call[t].item # i
    BY <2>2, StackAssumption
  <2> QED BY <1>1, <2>1, <2>3 DEF Clear
<1> QED
  BY <1>4, <1>5, <1>6, ZenonT(60) DEF Next, Step, WriteSync, BackgroundWrite, DeleteAt, TagAt, Probe, Fetch,
     Fill, Serve, BookmarkGet, BookmarkFill, Close, Filling, Wake, Take, WriteBatch, Rot, vars

LEMMA NothingComes ==
    ASSUME BaseInv, [Next]_vars, NEW i \in Items, Still(i), NEW l \in Layers,
           held[l][i] = "none"
    PROVE  held'[l][i] = "none"
<1>1. HeldStep
  BY HeldEffect DEF BaseInv
<1> QED BY <1>1 DEF HeldStep, Still

(* The deletion's own call writes nothing. *)
LEMMA LonelyIsStill ==
    ASSUME NEW t \in Clients, call[t].kind = "del", Lonely(t)
    PROVE  Still(call[t].item)
<1>1. Harmless(call[t], call[t].item)
  BY DEF Harmless, Reading
<1>2. \A s \in Clients \ {t} : ~Idle(s) => Harmless(call[s], call[t].item)
  BY UntouchedIsHarmless DEF Lonely
<1> QED BY <1>1, <1>2 DEF Still, Lonely

(* A step of a call under way begins no Put.                               *)
LEMMA NoPutBegins ==
    ASSUME WellFormed, FormsInv, layers' = layers, NEW t \in Clients, Step(t)
    PROVE  \A s \in Clients : ~(Begin(s) /\ call'[s].kind = "put")
<1>1. ~Idle(t) /\ OthersKept(t)
  BY CallMoves
<1>2. ASSUME NEW s \in Clients, Begin(s), call'[s].kind = "put" PROVE FALSE
  <2>1. Idle(s) /\ s # t
    BY <1>1, <1>2 DEF Begin
  <2>2. call'[s] = call[s]
    BY <1>1, <2>1 DEF OthersKept
  <2> QED BY <1>2, <2>1, <2>2 DEF Idle
<1> QED BY <1>2

(* An item no layer has and nothing writes stays so, while a deletion that *)
(* is alone with its item stays alone, when a step of a call is taken.     *)
LEMMA QuietCalls ==
    ASSUME BaseInv, QuietDeletionHolds, QuietInv, [Next]_vars, NEW t \in Clients, Step(t)
    PROVE  /\ \A i \in quiet : Still(i)'
           /\ \A s \in Clients : call'[s].kind = "del" /\ call'[s].alone /\ ~DeleteAt(s) => Lonely(s)'
<1>1. WellFormed /\ FormsInv /\ layers' = layers /\ Layers' = Layers
  BY LayersStay DEF BaseInv, Layers, Depth
<1>2. ~Idle(t) /\ OthersKept(t) /\ (Idle(t)' \/ Moves(call[t], call'[t]))
  BY <1>1, CallMoves
<1>4. \A s \in Clients : ~(Begin(s) /\ call'[s].kind = "put")
  BY <1>1, NoPutBegins
<1>5. ASSUME NEW i \in quiet PROVE Still(i)'
  <2>1. Still(i) /\ i \in Items /\ \A l \in Layers : held[l][i] = "none"
    BY <1>1 DEF QuietInv, QuietDeletionHolds, WellFormed, TypeOK
  <2>2. Clear(i)'
    BY <1>4, <2>1, ClearStays
  <2>3. ASSUME NEW s \in Clients, ~Idle(s)' PROVE Harmless(call'[s], i)
    <3>1. CASE s = t
      <4>1. CallShape(call[t]) /\ Harmless(call[t], i)
        BY <1>1, <1>2, <2>1, CallKinds DEF Still
      <4> QED BY <1>1, <1>2, <2>1, <2>3, <3>1, <4>1, HarmlessStays
    <3>2. CASE s # t
      BY <1>2, <2>1, <2>3, <3>2 DEF OthersKept, Still, Idle
    <3> QED BY <3>1, <3>2
  <2>4. \A s \in Clients : ~Idle(s)' => Harmless(call[s], i)'
    BY <2>3 DEF Harmless, Reading, Subject
  <2> QED BY <2>2, <2>4 DEF Still
<1>6. ASSUME NEW s \in Clients, call'[s].kind = "del", call'[s].alone, ~DeleteAt(s)
      PROVE  Lonely(s)'
  <2>1. call'[s] = call[s]
    <3>1. CASE s # t
      BY <1>2, <3>1 DEF OthersKept
    <3>2. CASE s = t
      <4>1. call[t].kind = "del"
        BY <1>2, <1>6, <3>2 DEF Moves, Idle
      <4> QED BY <1>6, <3>2, <4>1 DEF Step, WriteSync, WriteDone, TagAt, Probe, Fetch, Fill,
                 Serve, BookmarkGet, BookmarkFill, Close, Reading
    <3> QED BY <3>1, <3>2
  <2>0. PICK i : i = call[s].item
    OBVIOUS
  <2>2. Lonely(s) /\ call[s].kind = "del" /\ i \in Items
    <3>1. Lonely(s) /\ call[s].kind = "del"
      BY <1>6, <2>1 DEF QuietInv
    <3> QED BY <1>1, <2>0, <3>1, CallKinds DEF CallShape
  <2>3. Still(i)
    BY <2>0, <2>2, LonelyIsStill
  <2>4. Clear(i)'
    BY <1>4, <2>2, <2>3, ClearStays
  <2>5. \A l \in Layers : l < call[s].at => held'[l][i] = "none"
    BY <2>0, <2>2, <2>3, NothingComes DEF Lonely
  <2>6. ASSUME NEW u \in Clients \ {s}, ~Idle(u)' PROVE ~Touches(call'[u], i)
    <3>1. CASE u = t
      <4>1. ~Touches(call[t], i)
        BY <1>2, <2>0, <2>2, <3>1 DEF Lonely
      <4> QED BY <1>2, <2>6, <3>1, <4>1, UntouchedStays
    <3>2. CASE u # t
      BY <1>2, <2>0, <2>2, <2>6, <3>2 DEF OthersKept, Lonely, Idle
    <3> QED BY <3>1, <3>2
  <2>7. \A u \in Clients \ {s} : ~Idle(u)' => ~Touches(call[u], call[s].item)'
    BY <2>0, <2>1, <2>6
  <2> QED BY <1>1, <2>0, <2>1, <2>4, <2>5, <2>7 DEF Lonely, Clear
<1> QED BY <1>5, <1>6

LEMMA QuietDeletes ==
    ASSUME BaseInv, QuietDeletionHolds, QuietInv, [Next]_vars, NEW t \in Clients, DeleteAt(t)
    PROVE  /\ \A i \in quiet' \ quiet : Still(i)' /\ \A l \in Layers : held'[l][i] = "none"
           /\ call'[t].kind = "del" /\ call'[t].alone => Lonely(t)'
<1>1. WellFormed /\ FormsInv /\ layers' = layers /\ Layers' = Layers /\ Step(t)
  BY LayersStay DEF BaseInv, Layers, Depth, Step
<1>2. /\ call[t].kind = "del" /\ ~Idle(t) /\ call[t].at \in Layers /\ call[t].item \in Items
      /\ OthersKept(t)
  BY <1>1, DeleteEffect, CallMoves
<1>3. PICK i : i = call[t].item
  OBVIOUS
<1>4. ASSUME call[t].alone
      PROVE  /\ Lonely(t) /\ Still(i) /\ Clear(i)'
             /\ \A l \in Layers : l < call[t].at => held'[l][i] = "none"
  <2>1. Lonely(t)
    BY <1>2, <1>4 DEF QuietInv
  <2>2. Still(i)
    BY <1>2, <1>3, <2>1, LonelyIsStill
  <2>3. Clear(i)'
    BY <1>1, <1>2, <1>3, <2>2, ClearStays, NoPutBegins
  <2>4. \A l \in Layers : l < call[t].at => held'[l][i] = "none"
    BY <1>2, <1>3, <2>1, <2>2, NothingComes DEF Lonely
  <2> QED BY <2>1, <2>2, <2>3, <2>4
<1>5. held' = [held EXCEPT ![call[t].at][call[t].item] = "none"] => held'[call[t].at][i] = "none"
  BY <1>1, <1>2, <1>3 DEF WellFormed, TypeOK
<1>6. CASE /\ held' = [held EXCEPT ![call[t].at][call[t].item] = "none"] /\ history' = history
           /\ \E x : /\ call' = [call EXCEPT ![t] = x] /\ CallShape(x) /\ Proceeds(call[t], x)
                     /\ x.item = call[t].item /\ x.at = call[t].at + 1
  <2>1. PICK x : /\ call' = [call EXCEPT ![t] = x] /\ CallShape(x) /\ Proceeds(call[t], x)
                 /\ x.item = call[t].item /\ x.at = call[t].at + 1
    BY <1>6
  <2>2. call'[t] = x /\ quiet' = quiet
    BY <1>1, <1>6, <2>1, CallReplaced DEF history
  <2>3. ASSUME call'[t].alone PROVE Lonely(t)'
    <3>1. call[t].alone
      BY <2>1, <2>2, <2>3 DEF Proceeds
    <3>2. \A l \in Layers : l < call'[t].at => held'[l][i] = "none"
      <4>1. \A l \in Layers : l < call[t].at + 1 => l < call[t].at \/ l = call[t].at
        BY <1>1, <1>2, LayerFacts
      <4> QED BY <1>4, <1>5, <1>6, <2>1, <2>2, <3>1, <4>1
    <3>3. ASSUME NEW u \in Clients \ {t}, ~Idle(u)' PROVE ~Touches(call[u], call[t].item)'
      <4>1. call'[u] = call[u]
        BY <1>2, <3>3 DEF OthersKept
      <4>2. ~Touches(call[u], i)
        BY <1>3, <1>4, <3>1, <3>3, <4>1 DEF Lonely, Idle
      <4> QED BY <1>3, <2>1, <2>2, <4>1, <4>2
    <3> QED BY <1>1, <1>3, <1>4, <2>1, <2>2, <3>1, <3>2, <3>3 DEF Lonely, Clear
  <2> QED BY <2>2, <2>3
<1>7. CASE /\ held' = [held EXCEPT ![call[t].at][call[t].item] = "none"] /\ call[t].at = Depth
           /\ Finish(t, "ok", "none")
           /\ quiet' \subseteq quiet \cup {call[t].item} /\ (quiet' # quiet => call[t].alone)
  <2>1. call'[t].kind = "done"
    BY <1>1, <1>2, <1>7, FinishEffect DEF Answers, Answered, Forms
  <2>2. ASSUME NEW k \in quiet' \ quiet
        PROVE  Still(k)' /\ \A l \in Layers : held'[l][k] = "none"
    <3>1. k = i /\ call[t].alone
      BY <1>3, <1>7, <2>2
    <3>2. \A l \in Layers : held'[l][k] = "none"
      <4>1. \A l \in Layers : l < call[t].at \/ l = call[t].at
        BY <1>1, <1>7, LayerFacts
      <4> QED BY <1>4, <1>5, <1>7, <3>1, <4>1
    <3>3. ASSUME NEW u \in Clients, ~Idle(u)' PROVE Harmless(call[u], k)'
      <4>1. u # t /\ call'[u] = call[u]
        BY <1>2, <2>1, <3>3 DEF OthersKept, Idle
      <4>2. Harmless(call[u], k)
        BY <1>4, <3>1, <3>3, <4>1 DEF Still, Idle
      <4> QED BY <4>1, <4>2 DEF Harmless, Reading, Subject
    <3> QED BY <1>4, <3>1, <3>2, <3>3 DEF Still
  <2> QED BY <2>1, <2>2
<1>8. CASE history' = history /\ Finish(t, "error", "none")
  <2>1. call'[t].kind = "done" /\ quiet' = quiet
    BY <1>1, <1>2, <1>8, FinishEffect DEF Answers, Answered, Forms, history
  <2> QED BY <2>1
<1> QED BY <1>1, <1>6, <1>7, <1>8, DeleteEffect

(* A Put or a Sync of an item ends its quiet, a read finds nothing; what a *)
(* call touches is no longer alone, and a deletion alone meets no other.   *)
LEMMA QuietBegins ==
    ASSUME BaseInv, QuietDeletionHolds, QuietInv, [Next]_vars, NEW t \in Clients, Begin(t)
    PROVE  QuietInv' /\ quiet' \subseteq quiet
<1>1. /\ WellFormed /\ layers' = layers /\ held' = held /\ Idle(t) /\ inbox' = inbox
      /\ batch' = batch
  BY BeginEffect DEF BaseInv
<1>2. PICK x : Began(t, x) /\ call' = Started(t, x)
  BY <1>1, BeginEffect
<1>3. x \in Answered \/ CallShape(x)
  BY <1>2 DEF Began
<1>4. /\ call'[t] = x
      /\ \A s \in Clients \ {t} :
            /\ Idle(s) => call'[s] = call[s]
            /\ ~Idle(s) =>
                 /\ Excused(call[s], call'[s])
                 /\ Touches(x, call[s].item) => ~call'[s].alone
  BY <1>1, <1>2, <1>3, CallStarted
<1>5. /\ quiet' \subseteq quiet
      /\ x.kind \in {"put", "sync"} => quiet' = quiet \ {x.item}
      /\ x.kind \in ReadKinds \cup {"sync"} => x.stage = "has" /\ x.first = <<>>
  BY <1>2 DEF Began, history, ReadKinds, Answered
<1>6. \A s \in Clients : Begin(s) /\ call'[s].kind = "put" => s = t
  <2>1. ASSUME NEW s \in Clients, Begin(s), call'[s].kind = "put", s # t PROVE FALSE
    <3>1. Idle(s)
      BY <2>1 DEF Begin
    <3>2. call'[s] = call[s]
      BY <1>4, <2>1, <3>1
    <3> QED BY <2>1, <3>1, <3>2 DEF Idle
  <2> QED BY <2>1
<1>7. ASSUME NEW i \in quiet' PROVE Still(i)'
  <2>1. Still(i) /\ i \in Items /\ (x.kind \in {"put", "sync"} => x.item # i)
    BY <1>1, <1>5 DEF QuietInv, WellFormed, TypeOK
  <2>2. Clear(i)'
    BY <1>4, <1>6, <2>1, ClearStays
  <2>3. Harmless(x, i)
    BY <1>5, <2>1 DEF Harmless, Subject, Reading, ReadKinds
  <2>4. ASSUME NEW s \in Clients, ~Idle(s)' PROVE Harmless(call'[s], i)
    <3>1. CASE s = t
      BY <1>4, <2>3, <3>1
    <3>2. CASE s # t
      <4>1. ~Idle(s)
        BY <1>4, <2>4, <3>2 DEF Idle
      <4>2. Harmless(call[s], i)
        BY <2>1, <4>1 DEF Still
      <4>3. Excused(call[s], call'[s])
        BY <1>4, <3>2, <4>1
      <4> QED BY <4>2, <4>3 DEF Harmless, Excused, Reading, Subject
    <3> QED BY <3>1, <3>2
  <2>5. \A s \in Clients : ~Idle(s)' => Harmless(call[s], i)'
    BY <2>4 DEF Harmless, Reading, Subject
  <2> QED BY <2>2, <2>5 DEF Still
<1>8. ASSUME call'[t].kind = "del", call'[t].alone PROVE Lonely(t)'
  <2>1. /\ x.kind = "del" /\ x.at = 1 /\ ~Disturbed(t, x.item) /\ detached' = detached
    BY <1>2, <1>4, <1>8 DEF Began, ReadKinds, Answered
  <2>2. /\ \A s \in Clients \ {t} : ~Idle(s) => ~Touches(call[s], x.item)
        /\ \A w \in detached : w[2] # x.item
        /\ \A j \in inbox \cup batch : j[2] # x.item
    BY <2>1 DEF Disturbed
  <2>3. Clear(call[t].item)'
    BY <1>1, <1>4, <2>1, <2>2 DEF Clear
  <2>4. \A l \in Layers : ~(l < 1)
    BY <1>1, LayerFacts
  <2>5. ASSUME NEW s \in Clients \ {t}, ~Idle(s)' PROVE ~Touches(call[s], call[t].item)'
    <3>1. ~Idle(s)
      BY <1>4, <2>5 DEF Idle
    <3>2. Excused(call[s], call'[s]) /\ ~Touches(call[s], x.item)
      BY <1>4, <2>2, <3>1
    <3>3. ~Touches(call'[s], x.item)
      BY <3>2 DEF Touches, Excused
    <3> QED BY <1>4, <3>3
  <2>6. Layers' = Layers
    BY <1>1 DEF Layers, Depth
  <2> QED BY <1>4, <2>1, <2>3, <2>4, <2>5, <2>6 DEF Lonely
<1>9. ASSUME NEW s \in Clients \ {t}, call'[s].kind = "del", call'[s].alone PROVE Lonely(s)'
  <2>1. ~Idle(s)
    BY <1>4, <1>9 DEF Idle
  <2>2. Excused(call[s], call'[s]) /\ (Touches(x, call[s].item) => ~call'[s].alone)
    BY <1>4, <2>1
  <2>3. /\ call[s].kind = "del" /\ call[s].alone /\ call'[s].item = call[s].item
        /\ call'[s].at = call[s].at
    BY <1>9, <2>2 DEF Excused
  <2>4. PICK i : i = call[s].item
    OBVIOUS
  <2>5. Lonely(s) /\ i \in Items /\ ~Touches(x, i) /\ x.item # i
    BY <1>1, <1>9, <2>1, <2>2, <2>3, <2>4, CallKinds DEF QuietInv, CallShape, Touches
  <2>6. Still(i)
    BY <2>3, <2>4, <2>5, LonelyIsStill
  <2>7. Clear(i)'
    BY <1>4, <1>6, <2>5, <2>6, ClearStays
  <2>8. ASSUME NEW u \in Clients \ {s}, ~Idle(u)' PROVE ~Touches(call'[u], i)
    <3>1. CASE u = t
      BY <1>4, <2>5, <3>1
    <3>2. CASE u # t
      <4>1. ~Idle(u)
        BY <1>4, <2>8, <3>2 DEF Idle
      <4>2. Excused(call[u], call'[u]) /\ ~Touches(call[u], i)
        BY <1>4, <2>4, <2>5, <3>2, <4>1 DEF Lonely
      <4> QED BY <4>2 DEF Touches, Excused
    <3> QED BY <3>1, <3>2
  <2>9. \A u \in Clients \ {s} : ~Idle(u)' => ~Touches(call[u], call[s].item)'
    BY <2>3, <2>4, <2>8
  <2>10. Layers' = Layers
    BY <1>1 DEF Layers, Depth
  <2> QED BY <1>1, <2>3, <2>4, <2>5, <2>7, <2>9, <2>10 DEF Lonely, Clear
<1> QED BY <1>5, <1>7, <1>8, <1>9 DEF QuietInv

LEMMA QuietStep ==
    ASSUME BaseInv, QuietDeletionHolds, QuietInv, [Next]_vars
    PROVE  QuietDeletionHolds' /\ QuietInv'
<1>1. WellFormed /\ FormsInv /\ layers' = layers /\ Layers' = Layers
  BY LayersStay DEF BaseInv, Layers, Depth
<1>2. \A i \in quiet, l \in Layers : held'[l][i] = "none"
  BY <1>1, NothingComes DEF QuietDeletionHolds, QuietInv, WellFormed, TypeOK
<1>3. ASSUME NEW t \in Clients, Begin(t) PROVE QuietDeletionHolds' /\ QuietInv'
  BY <1>1, <1>2, <1>3, QuietBegins DEF QuietDeletionHolds
<1>4. ASSUME NEW t \in Clients, Step(t), ~DeleteAt(t) PROVE QuietDeletionHolds' /\ QuietInv'
  <2>1. quiet' = quiet
    BY <1>4 DEF Step, WriteSync, WriteDone, TagAt, Probe, Fetch, Fill, Serve, BookmarkGet,
       BookmarkFill, Close, history
  <2>2. \A s \in Clients : DeleteAt(s) => (call'[s].kind = "del" /\ call'[s].alone => Lonely(s)')
    BY QuietDeletes
  <2> QED BY <1>1, <1>2, <1>4, <2>1, <2>2, QuietCalls DEF QuietDeletionHolds, QuietInv
<1>5. ASSUME NEW t \in Clients, DeleteAt(t) PROVE QuietDeletionHolds' /\ QuietInv'
  <2>1. \A s \in Clients : DeleteAt(s) => (call'[s].kind = "del" /\ call'[s].alone => Lonely(s)')
    BY QuietDeletes
  <2>2. \A i \in quiet' \ quiet : Still(i)' /\ \A l \in Layers : held'[l][i] = "none"
    BY <1>5, QuietDeletes
  <2>3. /\ \A i \in quiet : Still(i)'
        /\ \A s \in Clients : call'[s].kind = "del" /\ call'[s].alone /\ ~DeleteAt(s) => Lonely(s)'
    BY <1>5, QuietCalls DEF Step
  <2> QED BY <1>1, <1>2, <2>1, <2>2, <2>3 DEF QuietDeletionHolds, QuietInv
<1>6. ASSUME BackgroundWrite \/ Filling \/ Rot \/ UNCHANGED vars
      PROVE  QuietDeletionHolds' /\ QuietInv'
  <2>1. call' = call /\ quiet' = quiet
    BY <1>6 DEF BackgroundWrite, Filling, Wake, Take, WriteBatch, Rot, vars, history
  <2>2. \A t \in Clients : ~(Begin(t) /\ call'[t].kind = "put")
    BY <2>1 DEF Begin, Idle
  <2>3. ASSUME NEW i \in quiet PROVE Still(i)'
    <3>1. Still(i) /\ i \in Items
      BY <1>1 DEF QuietInv, WellFormed, TypeOK
    <3>2. Clear(i)'
      BY <2>2, <3>1, ClearStays
    <3> QED BY <2>1, <3>1, <3>2 DEF Still, Idle, Harmless, Reading, Subject
  <2>4. ASSUME NEW t \in Clients, call'[t].kind = "del", call'[t].alone PROVE Lonely(t)'
    <3>1. PICK i : i = call[t].item
      OBVIOUS
    <3>2. Lonely(t) /\ call[t].kind = "del" /\ i \in Items
      BY <1>1, <2>1, <2>4, <3>1, CallKinds DEF QuietInv, CallShape
    <3>3. Still(i)
      BY <3>1, <3>2, LonelyIsStill
    <3>4. Clear(i)'
      BY <2>2, <3>2, <3>3, ClearStays
    <3>5. \A l \in Layers : l < call[t].at => held'[l][i] = "none"
      BY <3>1, <3>2, <3>3, NothingComes DEF Lonely
    <3>6. \A u \in Clients \ {t} : ~Idle(u)' => ~Touches(call[u], call[t].item)'
      BY <2>1, <3>2 DEF Lonely, Idle
    <3> QED BY <1>1, <2>1, <3>1, <3>4, <3>5, <3>6 DEF Lonely, Clear
  <2> QED BY <1>1, <1>2, <2>1, <2>3, <2>4 DEF QuietDeletionHolds, QuietInv
<1> QED BY <1>3, <1>4, <1>5, <1>6 DEF Next

(* A deletion that nothing else on the item ran beside leaves no layer     *)
(* serving it, for good: deleteEverywhere goes to every layer, and after   *)
(* it nothing on its way brings the item back, no read finds it to fill    *)
(* from, and only a Put or a Sync of it writes it again.                   *)
THEOREM QuietDeletionsHold == Spec => []QuietDeletionHolds
<1>1. Init => BaseInv /\ QuietDeletionHolds /\ QuietInv
  <2>1. ASSUME Init PROVE QuietDeletionHolds /\ QuietInv
    BY <2>1 DEF Init, QuietDeletionHolds, QuietInv
  <2> QED BY <2>1, BaseInit
<1>2. BaseInv /\ QuietDeletionHolds /\ QuietInv /\ [Next]_vars
         => BaseInv' /\ QuietDeletionHolds' /\ QuietInv'
  BY BaseStep, QuietStep
<1> QED BY <1>1, <1>2, PTL DEF Spec

----------------------------------------------------------------------------
(* The state keeps its types: every job of the filler names a layer of the *)
(* stack and a blob, and every layer holds an item in a known form.        *)
THEOREM StackTypes == Spec => []TypeOK
<1>1. BaseInv => TypeOK
  BY DEF BaseInv, WellFormed
<1>2. Init => BaseInv
  BY BaseInit
<1>3. BaseInv /\ [Next]_vars => BaseInv'
  BY BaseStep
<1> QED BY <1>1, <1>2, <1>3, PTL DEF Spec
=============================================================================
