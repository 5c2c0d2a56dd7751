------------------------------- MODULE Stack -------------------------------
(***************************************************************************)
(* The stack storage (adapter/storage/stack): layers of Universes, a tier  *)
(* each, read top down and written by tier, with read-through fills, the   *)
(* background filler for content and the bookmark store routed the same    *)
(* way.  Clients call it concurrently; what one call does in one layer is  *)
(* one step.  A layer is a Universe behind its interface: it keeps each    *)
(* item in some form, any of its calls may fail, and content at rest may   *)
(* rot.  A call handles one item.                                          *)
(***************************************************************************)
EXTENDS Naturals, Sequences, FiniteSets, FiniteSetsExt

CONSTANTS Stacks,      \* the layer sequences to build stacks of, top first
          Claims, Blobs,
          SizeOf,      \* a blob's size
          Pred,        \* a claim's contribution/diff predecessor, or None
          Slots, Records, None,
          Clients,
          Menu,        \* the calls each client makes
          FillMaxJobs, FillMaxBytes,
          MaxOps,      \* bound: calls made altogether
          MaxFaults    \* bound: layer calls that fail, and blobs that rot

Items == Claims \cup Blobs
Forms == {"none", "stored", "projected", "corrupt"}
Tiers == {"authoritative", "eager", "background", "lazy"}

(* AllowsTier: the authoritative role demands verbatim, unbounded storage. *)
AllowsTier(c) == c.tier = "authoritative" => c.raw /\ c.external

(* NewStack refuses an empty stack, a tier a layer may not have, and a     *)
(* stack with no authoritative layer.                                      *)
NewStack(s) ==
    /\ Len(s) > 0
    /\ \A l \in DOMAIN s : s[l].tier \in Tiers /\ AllowsTier(s[l])
    /\ \E l \in DOMAIN s : s[l].tier = "authoritative"

LayerSet == [tier : Tiers, raw : BOOLEAN, external : BOOLEAN, cap : Nat, delete : BOOLEAN,
             marks : BOOLEAN, tags : BOOLEAN]

ItemKinds == {"put", "del", "get", "has", "raw", "stream", "query", "sync"}
SlotKinds == {"bmput", "bmget"}
Requests == [kind : ItemKinds \cup SlotKinds \cup {"tag", "close"},
             item : Items \cup Slots \cup {None}, delta : BOOLEAN, record : Records]

ASSUME StackAssumption ==
    /\ FillMaxJobs \in Nat /\ FillMaxBytes \in Nat
    /\ SizeOf \in [Blobs -> Nat] /\ Pred \in [Claims -> Claims \cup {None}]
    /\ Stacks \subseteq Seq(LayerSet)
    /\ Claims \cap Blobs = {} /\ Items \cap Slots = {}
    /\ None \notin Items \cup Slots \cup Records

(* The item of a call is what its method takes: a claim or content, a      *)
(* bookmark slot, or nothing.                                              *)
ASSUME MenuAssumption ==
    /\ Menu \in [Clients -> SUBSET Requests]
    /\ \A t \in Clients : \A m \in Menu[t] :
          /\ m.kind \in ItemKinds => m.item \in Items
          /\ m.kind \in {"raw", "query"} => m.item \in Claims
          /\ m.kind = "stream" => m.item \in Blobs
          /\ m.kind \in SlotKinds => m.item \in Slots
          /\ m.kind \in {"tag", "close"} => m.item = None

VARIABLES
    layers,    \* the stack: a Capabilities record per layer, fixed when it is built
    held,      \* what form of each item a layer keeps
    tagged,    \* the layers whose tags follow the head
    marks,     \* the record a layer keeps in each bookmark slot
    call,      \* each client's call, or the answer of its last one
    detached,  \* background writes on their way
    inbox, doorbell, batch, writing, worker,   \* the filler
    ops, faults,
    acked,     \* history: items a Put answered for, no delete since
    removed,   \* history: items a delete answered for, no Put since
    quiet,     \* history: the removed items nothing else was under way for
    unsure     \* history: bookmark slots a Put failed for

filler == <<inbox, doorbell, batch, writing, worker>>
history == <<acked, removed, quiet, unsure>>
vars == <<layers, tagged, held, marks, call, detached, filler, ops, faults, history>>

----------------------------------------------------------------------------
(* Layers *)

MaxDepth == Max({Len(s) : s \in Stacks})
Depth == Len(layers)
Layers == 1..Depth
Authoritative == {l \in Layers : layers[l].tier = "authoritative"}
Synchronous == {l \in Layers : layers[l].tier \in {"authoritative", "eager"}}
Background == {l \in Layers : layers[l].tier = "background"}

CouldHold(l, b) == layers[l].external \/ (layers[l].cap > 0 /\ SizeOf[b] <= layers[l].cap)

(* A layer that keeps no verbatim records keeps a projection of the claim. *)
KeptAs(l, i, form) == IF i \in Claims /\ ~layers[l].raw THEN "projected" ELSE form

(* A verbatim layer stores a claim's envelope, which a projection lacks.   *)
Accepts(l, i, form) == i \in Claims /\ layers[l].raw => form = "stored"

PutIn(l, i, form) == held' = [held EXCEPT ![l][i] = KeptAs(l, i, form)]

(* Mutant: only a capped layer is thought to hold content. *)
FitCapped(i) == IF i \in Claims THEN Layers
                ELSE {l \in Layers : layers[l].cap > 0 /\ SizeOf[i] <= layers[l].cap}

(* The layers a Put of an item goes to: for content, those whose cap fits. *)
Fit(i) == IF i \in Claims THEN Layers ELSE {l \in Layers : CouldHold(l, i)}

(* The layers a read asks.  GetClaims in delta form asks the verbatim ones *)
(* alone, as GetClaimsRaw does; content is asked of the layers that could  *)
(* hold it, or that hold any where the size is not known.                  *)
AskedAll(c, l) == TRUE

AskedByGetClaims(c, l) == c.delta => layers[l].raw

AskedByGetClaimsRaw(c, l) == layers[l].raw

AskedByGetContents(c, l) == CouldHold(l, c.item)

AskedByHasContents(c, l) == layers[l].external \/ layers[l].cap > 0

AskedByBookmarkGet(c, l) == layers[l].marks

Asks(c, l) ==
    CASE c.kind = "raw"   -> AskedByGetClaimsRaw(c, l)
      [] c.kind = "bmget" -> AskedByBookmarkGet(c, l)
      [] OTHER -> IF c.item \in Claims
                  THEN IF c.kind = "has" THEN AskedAll(c, l) ELSE AskedByGetClaims(c, l)
                  ELSE IF c.kind = "has" THEN AskedByHasContents(c, l)
                       ELSE AskedByGetContents(c, l)

(* Mutant: the walk asks the same layer again. *)
NextAskedAgain(c, l) == LET below == {m \in c.base..Depth : m >= l /\ Asks(c, m)}
                        IN  IF below = {} THEN 0 ELSE Min(below)

(* The next layer down that the walk asks, 0 when there is none.           *)
NextAsked(c, l) == LET below == {m \in c.base..Depth : m > l /\ Asks(c, m)}
                   IN  IF below = {} THEN 0 ELSE Min(below)

(* The layers above that what was served fills: a verbatim layer never     *)
(* from a projection, content up to each layer's cap.                      *)
Above(c) ==
    {l \in c.base..(c.at - 1) : IF c.item \in Claims THEN layers[l].raw => layers[c.at].raw
                                ELSE CouldHold(l, c.item)}

(* Mutant: the best-effort tier decides. *)
FailsCallEager(l) == layers[l].tier = "eager"

(* Only an authoritative layer's failure fails a write.                    *)
FailsCall(l) == layers[l].tier = "authoritative"

(* Mutant: the bottom layer is left out. *)
DeletedLayersButLast == 1..(Depth - 1)

(* A delete goes to every layer, whatever its tier.                        *)
DeletedLayers == 1..Depth

(* Capabilities of the stack: deleting takes every layer, tags and raw     *)
(* claims one of them, bookmarks an authoritative one.                     *)
Capabilities ==
    [delete |-> \A l \in Layers : layers[l].delete,
     tags   |-> \E l \in Layers : layers[l].tags,
     raw    |-> \E l \in Layers : layers[l].raw,
     external |-> \E l \in Layers : layers[l].external,
     marks  |-> \E l \in Authoritative : layers[l].marks]

----------------------------------------------------------------------------
(* Calls *)

Idle(t) == call[t].kind = "done"

(* What the properties need of an answer: nothing of a write's.            *)
Answer(c, result, form) ==
    LET read == c.kind \notin {"put", "bmput", "del", "tag", "close"}
    IN  [kind |-> "done", of |-> c.kind, item |-> IF read THEN c.item ELSE None,
         result |-> IF read THEN result ELSE "ok", form |-> form,
         verbatim |-> c.delta \/ c.kind = "raw", must |-> read /\ c.must]

Finish(t, result, form) == call' = [call EXCEPT ![t] = Answer(call[t], result, form)]

MayFail == faults < MaxFaults
Fault == faults' = faults + 1

(* A claim with its predecessors, back to the last: the least set that has *)
(* the claim and, with a claim, its predecessor.                           *)
PredClosed(S) == \A x \in S : Pred[x] \in S \cup {None}
Chain(i) == {x \in Claims : \A S \in SUBSET Claims : i \in S /\ PredClosed(S) => x \in S}

(* A call reads its item's predecessors too, and a sync goes on to write   *)
(* the item it began with.                                                 *)
Touches(c, i) ==
    \/ c.item = i
    \/ c.item \in Claims /\ i \in Chain(c.item)
    \/ c.kind = "sync" /\ c.first # <<>> /\ c.first[1] = i

(* Calls, writes and fills on an item, other than client t's own call.     *)
Disturbed(t, i) ==
    \/ \E s \in Clients \ {t} : ~Idle(s) /\ Touches(call[s], i)
    \/ \E w \in detached : w[2] = i
    \/ \E j \in inbox \cup batch : j[2] = i

(* must: no call beside this one excuses it from its promise; alone:       *)
(* nothing at all is under way for the item of this deletion.              *)
Opening(m) == [kind |-> m.kind, item |-> m.item, delta |-> m.delta, record |-> m.record,
               base |-> 1, at |-> 0, stage |-> "has", todo |-> {}, failed |-> FALSE,
               first |-> <<>>, form |-> "none", must |-> m.item \in acked, alone |-> FALSE]

Writes(c) == c.kind \in {"put", "sync"}

Started(t, c) ==
    [s \in Clients |->
        IF s = t THEN c
        ELSE IF Idle(s) \/ ~(Touches(c, call[s].item) \/ Touches(call[s], c.item))
        THEN call[s]
        ELSE [call[s] EXCEPT
                !.must = @ /\ IF call[s].kind = "del" THEN ~Writes(c) ELSE c.kind # "del",
                !.alone = FALSE]]

(* PutClaims, PutContents: the background layers get detached writes, then *)
(* the synchronous ones are written in parallel.                           *)
BeginPut(t, m) ==
    LET dels == \E s \in Clients : call[s].kind = "del" /\ call[s].item = m.item
    IN  /\ m.kind = "put"
        /\ call' = Started(t, [Opening(m) EXCEPT !.todo = Synchronous \cap Fit(m.item),
                                                 !.must = ~dels])
        /\ detached' = detached \cup {<<l, m.item, "stored">> : l \in Background \cap Fit(m.item)}
        /\ removed' = removed \ {m.item} /\ quiet' = quiet \ {m.item}
        /\ UNCHANGED <<acked, unsure>>

(* deleteEverywhere refuses before it removes anything when some layer     *)
(* cannot delete.                                                          *)
BeginDelete(t, m) ==
    LET puts == \E s \in Clients : Writes(call[s]) /\ call[s].item = m.item
    IN  /\ m.kind = "del"
        /\ Capabilities.delete
        /\ call' = Started(t, [Opening(m) EXCEPT !.at = 1, !.must = ~puts,
                                                 !.alone = ~Disturbed(t, m.item)])
        /\ acked' = acked \ {m.item}
        /\ UNCHANGED <<detached, removed, quiet, unsure>>

(* The reads: a walk of the layers they ask.                               *)
BeginRead(t, m) ==
    LET c == Opening(m)
    IN  /\ m.kind \in {"get", "has", "raw", "stream"}
        /\ call' = Started(t, [c EXCEPT !.at = NextAsked(c, 0)])
        /\ UNCHANGED <<detached, history>>

(* Query: the top layer answers.  When it keeps no verbatim record and the *)
(* original form or CBOR is wanted (delta), the claims are read again in   *)
(* delta form, which routes past it.                                       *)
BeginQuery(t, m) ==
    LET c == [Opening(m) EXCEPT !.kind = "get"]
        top == held[1][m.item]
        needRaw == m.delta /\ ~layers[1].raw   \* some layer below has it: NewStack
    IN  /\ m.kind = "query"
        /\ call' = Started(t,
             IF top = "none" THEN Answer([c EXCEPT !.must = FALSE], "missing", "none")
             ELSE IF ~needRaw THEN Answer(c, "ok", top)
             ELSE [c EXCEPT !.at = NextAsked(c, 0)])
        /\ UNCHANGED <<detached, history>>

(* Sync: the topmost eager layer copies what it lacks from the stack of    *)
(* the layers below it.                                                    *)
BeginSync(t, m) ==
    LET eager == {l \in Layers : layers[l].tier = "eager"}
        ei == Min(eager)
        c == [Opening(m) EXCEPT !.base = ei + 1]
    IN  /\ m.kind = "sync"
        /\ eager # {} /\ ei < Depth
        /\ NewStack(SubSeq(layers, ei + 1, Depth))
        /\ held[ei][m.item] = "none"
        /\ call' = Started(t, [c EXCEPT !.at = NextAsked(c, ei)])
        /\ removed' = removed \ {m.item} /\ quiet' = quiet \ {m.item}
        /\ UNCHANGED <<detached, acked, unsure>>

(* Bookmark Put writes the synchronous layers that keep bookmarks; Get     *)
(* walks the layers that do.                                               *)
BeginBookmark(t, m) ==
    LET c == Opening(m)
    IN  /\ m.kind \in {"bmput", "bmget"}
        /\ call' = Started(t, IF m.kind = "bmput"
                              THEN [c EXCEPT !.todo = {l \in Synchronous : layers[l].marks}]
                              ELSE [c EXCEPT !.at = NextAsked(c, 0)])
        /\ UNCHANGED <<detached, history>>

(* Tag, SetClaimsTags: every layer that keeps tags, one after the other.   *)
BeginTag(t, m) ==
    /\ m.kind = "tag" /\ Capabilities.tags
    /\ call' = Started(t, [Opening(m) EXCEPT !.todo = {l \in Layers : layers[l].tags}])
    /\ UNCHANGED <<detached, history>>

(* Close stops the filler.                                                 *)
BeginClose(t, m) ==
    /\ m.kind = "close"
    /\ \A s \in Clients : Idle(s) /\ call[s].of # "close"
    /\ call' = Started(t, Opening(m))
    /\ UNCHANGED <<detached, history>>

Begin(t) ==
    /\ Idle(t) /\ ops < MaxOps
    /\ \A s \in Clients : call[s].kind # "close" /\ ~(Idle(s) /\ call[s].of = "close")
    /\ ops' = ops + 1
    /\ \E m \in Menu[t] :
          \/ BeginPut(t, m) \/ BeginDelete(t, m) \/ BeginRead(t, m) \/ BeginQuery(t, m)
          \/ BeginSync(t, m) \/ BeginBookmark(t, m) \/ BeginTag(t, m) \/ BeginClose(t, m)
    /\ UNCHANGED <<layers, tagged, held, marks, filler, faults>>

----------------------------------------------------------------------------
(* Writes *)

(* writeSync: one synchronous layer's write; only an authoritative failure *)
(* fails the call.                                                         *)
WriteSync(t) ==
    LET c == call[t]
    IN  /\ c.kind \in {"put", "bmput"}
        /\ \E l \in c.todo :
             \/ /\ IF c.kind = "put" THEN PutIn(l, c.item, "stored") /\ UNCHANGED marks
                   ELSE marks' = [marks EXCEPT ![l][c.item] = c.record] /\ UNCHANGED held
                /\ call' = [call EXCEPT ![t].todo = @ \ {l}]
                /\ UNCHANGED faults
             \/ /\ MayFail /\ Fault
                /\ call' = [call EXCEPT ![t].todo = @ \ {l},
                                        ![t].failed = @ \/ FailsCall(l)]
                /\ UNCHANGED <<held, marks>>
        /\ UNCHANGED <<layers, tagged, detached, filler, ops, history>>

(* Every write answered: the call answers, and a bookmark's background     *)
(* writes leave only now.                                                  *)
WriteDone(t) ==
    LET c == call[t]
    IN  /\ c.kind \in {"put", "bmput"} /\ c.todo = {}
        /\ Finish(t, IF c.failed THEN "error" ELSE "ok", "none")
        /\ IF c.kind = "put"
           THEN /\ acked' = IF c.failed \/ ~c.must THEN acked ELSE acked \cup {c.item}
                /\ UNCHANGED <<detached, unsure>>
           ELSE /\ detached' = IF c.failed THEN detached
                               ELSE detached \cup {<<l, c.item, c.record>> :
                                                   l \in {b \in Background : layers[b].marks}}
                /\ unsure' = IF c.failed THEN unsure \cup {c.item} ELSE unsure
                /\ UNCHANGED acked
        /\ UNCHANGED <<layers, tagged, held, marks, filler, ops, faults, removed, quiet>>

(* A detached background write lands or fails, unnoticed either way.       *)
BackgroundWrite ==
    \E w \in detached :
        /\ detached' = detached \ {w}
        /\ \/ /\ IF w[2] \in Items THEN PutIn(w[1], w[2], "stored") /\ UNCHANGED marks
                 ELSE marks' = [marks EXCEPT ![w[1]][w[2]] = w[3]] /\ UNCHANGED held
              /\ UNCHANGED faults
           \/ MayFail /\ Fault /\ UNCHANGED <<held, marks>>
        /\ UNCHANGED <<layers, tagged, call, filler, ops, history>>

(* deleteEverywhere: layer after layer, stopping at the first failure.     *)
DeleteAt(t) ==
    LET c == call[t]
    IN  /\ c.kind = "del"
        /\ \/ /\ held' = [held EXCEPT ![c.at][c.item] = "none"]
              /\ IF c.at + 1 \in DeletedLayers
                 THEN call' = [call EXCEPT ![t].at = @ + 1] /\ UNCHANGED history
                 ELSE /\ Finish(t, "ok", "none")
                      /\ removed' = IF c.must THEN removed \cup {c.item} ELSE removed
                      /\ quiet' = IF c.alone THEN quiet \cup {c.item} ELSE quiet
                      /\ UNCHANGED <<acked, unsure>>
              /\ UNCHANGED faults
           \/ /\ MayFail /\ Fault /\ Finish(t, "error", "none")
              /\ UNCHANGED <<held, history>>
        /\ UNCHANGED <<layers, tagged, marks, detached, filler, ops>>

(* One tag layer; a failure fails the call and leaves the rest as it was.  *)
TagAt(t) ==
    LET c == call[t]
        l == Min(c.todo)
    IN  /\ c.kind = "tag"
        /\ IF c.todo = {} THEN Finish(t, "ok", "none") /\ UNCHANGED <<tagged, faults>>
           ELSE \/ /\ tagged' = tagged \cup {l}
                   /\ call' = [call EXCEPT ![t].todo = @ \ {l}] /\ UNCHANGED faults
                \/ MayFail /\ Fault /\ Finish(t, "error", "none") /\ UNCHANGED tagged
        /\ UNCHANGED <<layers, held, marks, detached, filler, ops, history>>

----------------------------------------------------------------------------
(* Reads *)

Reading(c) == c.kind \in {"get", "has", "raw", "stream", "sync"}

(* HasClaims, HasContents of the layer the walk has come to.  With no      *)
(* layer left the answer is ErrNotFound; a layer that fails fails the call.*)
Probe(t) ==
    LET c == call[t]
    IN  /\ Reading(c) /\ c.stage = "has"
        /\ \/ /\ c.at = 0
              /\ Finish(t, "missing", "none") /\ UNCHANGED faults
           \/ /\ c.at # 0 /\ held[c.at][c.item] = "none"
              /\ call' = [call EXCEPT ![t].at = NextAsked(c, c.at)] /\ UNCHANGED faults
           \/ /\ c.at # 0 /\ held[c.at][c.item] # "none"
              /\ IF c.kind = "has" THEN Finish(t, "ok", held[c.at][c.item])
                 ELSE call' = [call EXCEPT ![t].stage = "get"]
              /\ UNCHANGED faults
           \/ /\ c.at # 0 /\ MayFail /\ Fault
              /\ Finish(t, "error", "none")
        /\ UNCHANGED <<layers, tagged, held, marks, detached, filler, ops, history>>

(* GetClaims, GetContents, GetClaimsRaw, StreamContent of that layer.      *)
(* Content that fails its hash is left to the layers below by GetContents; *)
(* a stream answers the integrity error.  What was served fills the layers *)
(* above, a verbatim layer never from a projection.                        *)
Fetch(t) ==
    LET c == call[t]
        got == held[c.at][c.item]
    IN  /\ Reading(c) /\ c.stage = "get"
        /\ CASE got = "none" /\ c.kind = "raw" ->
                    call' = [call EXCEPT ![t].stage = "has", ![t].at = NextAsked(c, c.at)]
             [] got = "none" /\ c.kind # "raw" -> Finish(t, "missing", "none")
             [] got = "corrupt" /\ c.kind = "stream" -> Finish(t, "error", "none")
             [] got = "corrupt" /\ c.kind # "stream" ->
                    call' = [call EXCEPT ![t].stage = "has", ![t].at = NextAsked(c, c.at)]
             [] OTHER -> IF c.kind \in {"raw", "stream"} THEN Finish(t, "ok", got)
                         ELSE call' = [call EXCEPT ![t].stage = "fill", ![t].todo = Above(c),
                                                   ![t].form = got]
        /\ UNCHANGED <<layers, tagged, held, marks, detached, filler, ops, faults, history>>

(* filler.queue: one offer, under the lock.  A job already queued is kept, *)
(* a full inbox drops the new one, and either an accepted or a repeated    *)
(* job rings the doorbell.                                                 *)
Bytes(jobs) == MapThenSumSet(LAMBDA j : SizeOf[j[2]], jobs)

(* Mutant: the doorbell has no buffer, so only a waiting worker hears it. *)
RingUnbuffered == worker = "wait"

(* A ring is kept for a worker that is not waiting.                        *)
Ring == TRUE

Queue(job) ==
    LET full == Cardinality(inbox) >= FillMaxJobs
                \/ Bytes(inbox) + SizeOf[job[2]] > FillMaxBytes
    IN  IF job \notin inbox /\ full THEN UNCHANGED <<inbox, doorbell>>
        ELSE inbox' = inbox \cup {job} /\ doorbell' = (doorbell \/ Ring)

(* fillClaims writes the layers above inline, top first, failures          *)
(* discarded; fillContents offers them to the filler.                      *)
Fill(t) ==
    LET c == call[t]
        l == Min(c.todo)
    IN  /\ Reading(c) /\ c.stage = "fill" /\ c.todo # {}
        /\ call' = [call EXCEPT ![t].todo = @ \ {l}]
        /\ IF c.item \in Claims
           THEN /\ \/ PutIn(l, c.item, c.form) /\ UNCHANGED faults
                   \/ MayFail /\ Fault /\ UNCHANGED held
                /\ UNCHANGED <<inbox, doorbell>>
           ELSE Queue(<<l, c.item>>) /\ UNCHANGED <<held, faults>>
        /\ UNCHANGED <<layers, tagged, marks, detached, batch, writing, worker, ops, history>>

(* Served.  A claim fetched as a delta is resolved over its predecessor,   *)
(* read through the stack; a sync writes what it read into its layer.      *)
Serve(t) ==
    LET c == call[t]
        resolve == /\ c.item \in Claims /\ layers[c.at].raw /\ ~c.delta
                   /\ Pred[c.item] # None
        first == IF c.first = <<>> THEN <<c.item, c.form>> ELSE c.first
        next == [c EXCEPT !.item = Pred[c.item], !.stage = "has", !.form = "none",
                          !.first = first, !.must = @ /\ Pred[c.item] \in acked]
    IN  /\ Reading(c) /\ c.stage = "fill" /\ c.todo = {}
        /\ \/ /\ resolve
              /\ call' = [call EXCEPT ![t] = [next EXCEPT !.at = NextAsked(next, c.base - 1)]]
              /\ UNCHANGED <<held, faults>>
           \/ /\ ~resolve /\ c.kind = "get"
              /\ Finish(t, "ok", c.form) /\ UNCHANGED <<held, faults>>
           \/ /\ ~resolve /\ c.kind = "sync" /\ Accepts(c.base - 1, first[1], first[2])
              /\ PutIn(c.base - 1, first[1], first[2])
              /\ Finish(t, "ok", c.form) /\ UNCHANGED faults
           \/ /\ ~resolve /\ c.kind = "sync" /\ UNCHANGED held
              /\ \/ ~Accepts(c.base - 1, first[1], first[2]) /\ UNCHANGED faults
                 \/ MayFail /\ Fault
              /\ Finish(t, "error", "none")
        /\ UNCHANGED <<layers, tagged, marks, detached, filler, ops, history>>

(* Bookmark Get at one layer: the record answers and fills the layers that *)
(* missed it, a miss goes on, a failure fails the call.                    *)
BookmarkGet(t) ==
    LET c == call[t]
        found == IF c.at = 0 THEN None ELSE marks[c.at][c.item]
    IN  /\ c.kind = "bmget" /\ c.stage = "has"
        /\ \/ c.at = 0 /\ Finish(t, "missing", "none") /\ UNCHANGED faults
           \/ /\ c.at # 0 /\ found = None /\ UNCHANGED faults
              /\ call' = [call EXCEPT ![t].at = NextAsked(c, c.at), ![t].todo = @ \cup {c.at}]
           \/ /\ found # None /\ UNCHANGED faults
              /\ call' = [call EXCEPT ![t].stage = "fill", ![t].record = found]
           \/ c.at # 0 /\ MayFail /\ Fault /\ Finish(t, "error", "none")
        /\ UNCHANGED <<layers, tagged, held, marks, detached, filler, ops, history>>

BookmarkFill(t) ==
    LET c == call[t]
        l == Min(c.todo)
    IN  /\ c.kind = "bmget" /\ c.stage = "fill"
        /\ IF c.todo = {} THEN Finish(t, "ok", c.record) /\ UNCHANGED <<marks, faults>>
           ELSE /\ call' = [call EXCEPT ![t].todo = @ \ {l}]
                /\ \/ marks' = [marks EXCEPT ![l][c.item] = c.record] /\ UNCHANGED faults
                   \/ MayFail /\ Fault /\ UNCHANGED marks
        /\ UNCHANGED <<layers, tagged, held, detached, filler, ops, history>>

----------------------------------------------------------------------------
(* The filler's worker *)

(* run: stop and doorbell are both awaited, and either may win.            *)
Wake ==
    /\ worker = "wait" /\ doorbell
    /\ doorbell' = FALSE /\ worker' = "woken"
    /\ UNCHANGED <<layers, tagged, held, marks, call, detached, inbox, batch, writing, ops, faults, history>>

(* Mutant: a taken batch is not marked. *)
InFlightUnmarked(jobs) == FALSE

(* A batch that is not empty is marked in flight as it is taken.           *)
InFlight(jobs) == jobs # {}

(* take: the whole inbox becomes the batch in flight.                      *)
Take ==
    /\ worker = "woken"
    /\ batch' = inbox /\ inbox' = {}
    /\ writing' = (writing \/ InFlight(inbox))
    /\ worker' = "put"
    /\ UNCHANGED <<layers, tagged, held, marks, call, detached, doorbell, ops, faults, history>>

(* writeBatch: the batch's jobs for one layer in one call, failures        *)
(* discarded; with nothing left the batch has landed.                      *)
WriteBatch ==
    /\ worker = "put"
    /\ IF batch = {}
       THEN /\ worker' = "wait" /\ writing' = FALSE
            /\ UNCHANGED <<held, batch, faults>>
       ELSE \E l \in {j[1] : j \in batch} :
              LET mine == {j[2] : j \in {k \in batch : k[1] = l}}
              IN  /\ batch' = {j \in batch : j[1] # l}
                  /\ \/ /\ held' = [held EXCEPT ![l] =
                                      [i \in Items |-> IF i \in mine THEN "stored" ELSE @[i]]]
                        /\ UNCHANGED faults
                     \/ MayFail /\ Fault /\ UNCHANGED held
                  /\ UNCHANGED <<worker, writing>>
    /\ UNCHANGED <<layers, tagged, marks, call, detached, inbox, doorbell, ops, history>>

(* HealIdle, under the same lock.                                          *)
HealIdle == inbox = {} /\ ~writing

(* Close: the worker stops between two batches, abandoning what is queued, *)
(* and only then are the layers closed.                                    *)
Close(t) ==
    /\ call[t].kind = "close"
    /\ \/ /\ worker = "wait" /\ worker' = "stopped" /\ UNCHANGED call
       \/ /\ worker = "stopped" /\ Finish(t, "ok", "none") /\ UNCHANGED worker
    /\ UNCHANGED <<layers, tagged, held, marks, detached, inbox, doorbell, batch, writing,
                   ops, faults, history>>

(* Content rots in a layer, below every call of this code.                 *)
Rot == /\ MayFail /\ Fault
       /\ \E l \in Layers \ Authoritative, b \in Blobs :
             /\ held[l][b] = "stored"
             /\ held' = [held EXCEPT ![l][b] = "corrupt"]
       /\ UNCHANGED <<layers, tagged, marks, call, detached, filler, ops, history>>

----------------------------------------------------------------------------
Init ==
    /\ layers \in {s \in Stacks : NewStack(s)}
    /\ held = [l \in 1..Len(layers) |-> [i \in Items |-> "none"]]
    /\ marks = [l \in 1..Len(layers) |-> [s \in Slots |-> None]]
    /\ call = [t \in Clients |-> [kind |-> "done", of |-> "none", item |-> None,
                 result |-> "ok", form |-> "none", verbatim |-> FALSE, must |-> FALSE]]
    /\ detached = {} /\ tagged = {}
    /\ inbox = {} /\ doorbell = FALSE /\ batch = {} /\ writing = FALSE /\ worker = "wait"
    /\ ops = 0 /\ faults = 0
    /\ acked = {} /\ removed = {} /\ quiet = {} /\ unsure = {}

Filling == Wake \/ Take \/ WriteBatch

Step(t) == \/ TagAt(t) \/ WriteSync(t) \/ WriteDone(t) \/ DeleteAt(t) \/ Probe(t) \/ Fetch(t)
           \/ Fill(t) \/ Serve(t) \/ BookmarkGet(t) \/ BookmarkFill(t) \/ Close(t)

Next == \/ \E t \in Clients : Begin(t) \/ Step(t)
        \/ BackgroundWrite \/ Filling \/ Rot

(* A goroutine that can run does: each client's call, the filler's worker. *)
Fairness == /\ \A t \in Clients : WF_vars(Step(t))
            /\ WF_vars(Filling)

Spec == Init /\ [][Next]_vars /\ Fairness

----------------------------------------------------------------------------
(* Properties *)

(* The types of the stack's own state: layers hold known forms, the        *)
(* filler's jobs name a layer and a blob, the worker is at a known step.   *)
TypeOK ==
    /\ layers \in Stacks /\ tagged \subseteq Layers
    /\ held \in [Layers -> [Items -> Forms]]
    /\ marks \in [Layers -> [Slots -> Records \cup {None}]]
    /\ inbox \subseteq Layers \X Blobs /\ batch \subseteq Layers \X Blobs
    /\ doorbell \in BOOLEAN /\ writing \in BOOLEAN
    /\ worker \in {"wait", "woken", "put", "stopped"}
    /\ acked \cup removed \cup quiet \subseteq Items

(* What PutClaims or PutContents answered for is in every authoritative    *)
(* layer until a delete of it starts: no failure of another tier, no fill  *)
(* and no late background write takes the durable copy away.               *)
AckedDurable == \A i \in acked, l \in Authoritative : held[l][i] \in {"stored"}

(* A read of an item a Put answered for before the read began, with no     *)
(* delete since, never answers ErrNotFound, whichever layers it asks,      *)
(* whatever races it and whatever rotted or failed above.                  *)
NoFalseMiss ==
    \A t \in Clients :
        Idle(t) /\ call[t].must /\ call[t].of \in {"get", "has", "raw", "stream"}
            => call[t].result # "missing"

(* What a read hands out is what it promised: a stored record where the    *)
(* delta, the raw bytes or the original form was asked for, never a        *)
(* projection, and never rotten content.                                   *)
AnswersFaithful ==
    \A t \in Clients :
        Idle(t) /\ call[t].result = "ok" /\ call[t].of \in {"get", "raw", "stream", "sync"}
            => /\ call[t].form # "corrupt"
               /\ call[t].verbatim \/ call[t].item \in Blobs => call[t].form = "stored"

(* A deletion that answered and that no call, fill or background write on  *)
(* the item ran beside leaves no layer serving it, and nothing brings it   *)
(* back short of another Put.                                              *)
QuietDeletionHolds == \A i \in quiet, l \in Layers : held[l][i] = "none"

(* The promise of deleteEverywhere: once the deletion has answered, no     *)
(* layer serves the item until it is put again.                            *)
DeletionHolds == \A i \in removed, l \in Layers : held[l][i] = "none"

(* HealIdle answers true only when no taken batch is still being written:  *)
(* there is no instant between take and the last write at which both the   *)
(* inbox and the mark are clear.                                           *)
IdleMeansLanded == HealIdle => batch = {}

(* A bookmark a layer serves is in every authoritative layer as well,      *)
(* unless a Put of that slot is under way or has failed: that alone lets   *)
(* an eager layer serve what the durable tier never took.                  *)
BookmarksBacked ==
    \A l \in Layers, s \in Slots :
        marks[l][s] # None =>
            \/ s \in unsure
            \/ \A a \in Authoritative : layers[a].marks => marks[a][s] # None
            \/ \E t \in Clients : call[t].kind = "bmput" /\ call[t].item = s

(* Every job the filler accepted is written or given up: a job queued      *)
(* between the worker's take and its next wait finds the doorbell rung.    *)
(* Only Close abandons it.                                                 *)
FillsLand == \A j \in (1..MaxDepth) \X Blobs :
                (j \in inbox) ~> (j \notin inbox \/ worker = "stopped")

(* Every call answers: no client waits for another, for the filler, or for *)
(* a lock the filler keeps, and Close returns.                             *)
CallsReturn == \A t \in Clients : ~Idle(t) ~> Idle(t)
=============================================================================
