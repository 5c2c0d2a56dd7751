-------------------------------- MODULE Blob --------------------------------
(***************************************************************************)
(* A Universe over a byte store: bulk calls that fan out over one shared   *)
(* semaphore (forEach), the Put of each kind of store, reads that verify   *)
(* what they hand over, whole or streamed, and the height cache.           *)
(*                                                                         *)
(* A key is a claim id or a content hash; its bytes are "whole" as put,    *)
(* "part" of them, altered ("rot"), "long" (grown at the end) or "none".   *)
(* Put replaces ("replace": minimal, sqlite, redis, rest), writes only     *)
(* where nothing is ("absent": s3, azure), or writes key.tmp and renames   *)
(* it ("rename": fs).  Several processes may write one fs directory; two   *)
(* writers of a key share its one temporary file.                          *)
(***************************************************************************)
EXTENDS Naturals, Sequences, FiniteSets, SequencesExt

CONSTANTS
    Clients,
    Requests,    \* Requests[p]: the calls client p may make, [op, items]
    Empty,       \* the keys of contents that have no bytes
    Stores,      \* the backends it may be, of those below
    MaxFaults    \* bound on failures, cancellations and altered bytes

Ops == {"putClaims", "getClaims", "hasAll", "deleteAll", "heights",
        "getContents", "putContents", "stream"}

ASSUME BlobAssumption ==
    /\ DOMAIN Requests = Clients
    /\ \A p \in Clients : \A r \in Requests[p] :
          /\ r.op \in Ops /\ r.items \in Seq(Range(r.items)) \ {<<>>}
          /\ r.op = "stream" => Len(r.items) = 1
          /\ r.op \in {"putClaims", "getClaims", "heights"} => Range(r.items) \cap Empty = {}
    /\ \A s \in Stores : /\ s.put \in {"replace", "absent", "rename"} /\ s.delete \in BOOLEAN
                          /\ s.slots \in Nat \ {0}   \* 1 keeps a call sequential
    /\ MaxFaults \in Nat

-----------------------------------------------------------------------------
(* The backends, each over a medium it can write: which Put, whether New   *)
(* found or was told that Delete works, and how far a bulk call fans out.  *)

Minimal == [put |-> "replace", delete |-> FALSE, slots |-> 1]

Sqlite(deletes) == [put |-> "replace", delete |-> deletes, slots |-> 1]

Rest(deletes) == [put |-> "replace", delete |-> deletes, slots |-> 1]

Redis(n) == [put |-> "replace", delete |-> TRUE, slots |-> n]

S3(deletes, n) == [put |-> "absent", delete |-> deletes, slots |-> n]

Azure(deletes, n) == [put |-> "absent", delete |-> deletes, slots |-> n]

FS(deletes) == [put |-> "rename", delete |-> deletes, slots |-> 1]

Keys == UNION {Range(r.items) : r \in UNION Range(Requests)}

VARIABLES
    store,     \* the backend
    file,      \* file[k]: the bytes under k
    temp,      \* temp[k]: the bytes of k.tmp, the writers that have it open, the last that opened it
    last,      \* last[k]: "put" or "delete", whichever was done to k last, or "never"
    holder,    \* holder[k]: the writers that still have the file under k open, as in temp
    spoilt,    \* the keys the medium altered or a failed file write left torn
    call,      \* call[p]: the call of client p
    sem,       \* how many slots are taken
    heights,   \* HeightCache: "unknown", or "true" or "false" to the claim
    faults

vars == <<store, file, temp, last, holder, spoilt, call, sem, heights, faults>>

NoWriters == [by |-> {}, newest |-> <<>>]

NoTemp == [bytes |-> "none", by |-> {}, newest |-> <<>>]

NoCall == [op |-> "idle", items |-> <<>>, next |-> 1, stage |-> <<>>, ferr |-> FALSE, done |-> FALSE,
           did |-> {}, out |-> <<>>, bytes |-> "none", read |-> 0, result |-> "open"]

Init ==
    /\ store \in Stores
    /\ file \in {[k \in Keys |-> b] : b \in {"none", "whole"}}   \* a new store, or a filled one
    /\ temp = [k \in Keys |-> NoTemp]
    /\ last = [k \in Keys |-> "never"] /\ holder = [k \in Keys |-> NoWriters] /\ spoilt = {}
    /\ call = [p \in Clients |-> NoCall]
    /\ sem = 0 /\ heights = [k \in Keys |-> "unknown"] /\ faults = 0

-----------------------------------------------------------------------------
(* Opening a call.  stage[i]: where item i is ("queued": not launched).    *)

Begin(p, r) ==
    /\ call[p] = NoCall
    /\ call' = [call EXCEPT ![p] = [NoCall EXCEPT
           !.op = r.op, !.items = r.items,
           !.stage = [i \in DOMAIN r.items |-> "queued"], !.out = [i \in DOMAIN r.items |-> "unset"],
           !.result = IF r.op = "deleteAll" /\ ~store.delete THEN "unsupported" ELSE "open"]]
    /\ UNCHANGED <<store, spoilt, file, temp, last, holder, sem, heights, faults>>

Open(p) == call[p].op # "idle" /\ call[p].result = "open"

(* PutContents loops and StreamContent reads without the semaphore. *)
FansOut(c) == store.slots > 1 /\ c.op \notin {"putContents", "stream"}

Running(c) == {i \in DOMAIN c.items : c.stage[i] \notin {"queued", "end"}}

(* The context of a call: done by its caller, or by the first item that failed. *)
Cancelled(c) == c.done \/ (FansOut(c) /\ c.ferr)

Cancel(p) ==
    /\ Open(p) /\ ~call[p].done /\ call[p].op # "stream"
    /\ faults < MaxFaults
    /\ call' = [call EXCEPT ![p].done = TRUE]
    /\ faults' = faults + 1
    /\ UNCHANGED <<store, spoilt, file, temp, last, holder, sem, heights>>

(* The select takes a slot although the context is done, when both are ready. *)
Launch(p) ==
    LET c == call[p]
    IN  /\ Open(p) /\ c.op # "stream"
        /\ c.next \in DOMAIN c.items
        /\ IF FansOut(c) THEN sem < store.slots ELSE Running(c) = {} /\ ~c.ferr
        /\ sem' = IF FansOut(c) THEN sem + 1 ELSE sem
        /\ call' = [call EXCEPT ![p].next = @ + 1,
                                ![p].stage[c.next] = IF c.op \in {"putClaims", "putContents"} /\ store.put = "rename"
                                                     THEN "create" ELSE "op"]
        /\ UNCHANGED <<store, spoilt, file, temp, last, holder, heights, faults>>

(* break launch, and what a sequential loop returns at: no further item. *)
StopsLaunching(c) ==
    \/ c.next > Len(c.items)
    \/ IF FansOut(c) THEN Cancelled(c) ELSE c.ferr

(* Mutant: only an item's own error is reported. *)
ResultOfItems(c) == IF c.ferr THEN "error" ELSE "ok"

(* The first error, else the context's own; a sequential loop never asks the context. *)
Result(c) == IF c.ferr \/ (FansOut(c) /\ c.done) THEN "error" ELSE "ok"

(* GetClaims and PutClaims note the heights of what they hold, before they return. *)
Noted(c, k) ==
    LET at == {i \in DOMAIN c.items : c.items[i] = k /\ c.out[i] \in {"whole", "rot"}}
    IN  IF c.op \notin {"getClaims", "putClaims", "heights"} \/ Result(c) # "ok" \/ at = {} THEN "unknown"
        ELSE IF \E i \in at : c.out[i] = "rot" THEN "false" ELSE "true"

(* Note: an entry is never overwritten. *)
Note(hs, c) == [k \in Keys |-> IF hs[k] # "unknown" THEN hs[k] ELSE Noted(c, k)]

(* wg.Wait. *)
Return(p) ==
    LET c == call[p]
    IN  /\ Open(p) /\ c.op # "stream"
        /\ StopsLaunching(c) /\ Running(c) = {}
        /\ call' = [call EXCEPT ![p].result = Result(c)]
        /\ heights' = Note(heights, c)
        /\ UNCHANGED <<store, spoilt, file, temp, last, holder, sem, faults>>

-----------------------------------------------------------------------------
(* One item of a call.                                                     *)

At(p, i, stage) == i \in DOMAIN call[p].items /\ call[p].stage[i] = stage

Key(p, i) == call[p].items[i]

(* The item's function is over: its slot goes back first, then wg.Done. *)
After(c) == IF FansOut(c) THEN "release" ELSE "end"

(* Mutant: the slot of an item that failed stays taken. *)
FreedUnlessFailed(p, i) == IF call[p].ferr THEN sem ELSE sem - 1

Freed(p, i) == sem - 1

Release(p, i) ==
    /\ At(p, i, "release")
    /\ sem' = Freed(p, i)
    /\ call' = [call EXCEPT ![p].stage[i] = "end"]
    /\ UNCHANGED <<store, spoilt, file, temp, last, holder, heights, faults>>

Succeeds(p, i, out) ==
    call' = [call EXCEPT ![p].stage[i] = After(call[p]), ![p].did = @ \cup {i}, ![p].out[i] = out]

Fails(p, i) ==
    call' = [call EXCEPT ![p].stage[i] = After(call[p]), ![p].ferr = TRUE]

(* The store fails, or gives up because the context is done; fs looks at no context. *)
ItemFails(p, i) ==
    /\ At(p, i, "op") \/ At(p, i, "create")
    /\ \/ faults < MaxFaults /\ faults' = faults + 1
       \/ store.put # "rename" /\ Cancelled(call[p]) /\ UNCHANGED faults
    /\ Fails(p, i)
    /\ UNCHANGED <<store, spoilt, file, temp, last, holder, sem, heights>>

(* Put that overwrites. *)
PutReplaces(p, i) ==
    /\ At(p, i, "op") /\ call[p].op \in {"putClaims", "putContents"} /\ store.put = "replace"
    /\ file' = [file EXCEPT ![Key(p, i)] = "whole"]
    /\ last' = [last EXCEPT ![Key(p, i)] = "put"]
    /\ Succeeds(p, i, "whole")
    /\ UNCHANGED <<store, spoilt, temp, holder, sem, heights, faults>>

(* The conditional Put: a key that is there counts as put. *)
PutWhenAbsent(p, i) ==
    LET k == Key(p, i)
    IN  /\ At(p, i, "op") /\ call[p].op \in {"putClaims", "putContents"} /\ store.put = "absent"
        /\ file' = [file EXCEPT ![k] = IF @ = "none" THEN "whole" ELSE @]
        /\ last' = [last EXCEPT ![k] = IF file[k] = "none" THEN "put" ELSE @]
        /\ Succeeds(p, i, "whole")
        /\ UNCHANGED <<store, spoilt, temp, holder, sem, heights, faults>>

(***************************************************************************)
(* atomicWrite.  Opening truncates the one temporary file, also under a    *)
(* writer that has it open; whoever opened it last completes it, an        *)
(* earlier writer may or may not.  A rename takes whatever is there.       *)
(***************************************************************************)
Truncated(k) == IF k \in Empty THEN "whole" ELSE "part"

FileCreate(p, i) ==
    LET k == Key(p, i)
    IN  /\ At(p, i, "create")
        /\ temp' = [temp EXCEPT ![k] = [bytes |-> Truncated(k), by |-> @.by \cup {<<p, i>>}, newest |-> <<p, i>>]]
        /\ call' = [call EXCEPT ![p].stage[i] = "write"]
        /\ UNCHANGED <<store, spoilt, file, last, holder, sem, heights, faults>>

(* What the bytes of a file may be once the writer has written all of its own. *)
Written(w, bytes, newest) == IF w = newest THEN {"whole"} ELSE {bytes, "whole"}

(* The bytes go where the open file is by now: the temporary file, the key itself, or nowhere. *)
FileWrite(p, i) ==
    LET k == Key(p, i)
        w == <<p, i>>
    IN  /\ At(p, i, "write")
        /\ IF w \in temp[k].by
           THEN \E b \in Written(w, temp[k].bytes, temp[k].newest) : temp' = [temp EXCEPT ![k].bytes = b, ![k].by = @ \ {w}]
           ELSE UNCHANGED temp
        /\ IF w \in holder[k].by
           THEN /\ \E b \in Written(w, file[k], holder[k].newest) : file' = [file EXCEPT ![k] = b]
                /\ holder' = [holder EXCEPT ![k].by = @ \ {w}]
           ELSE UNCHANGED <<file, holder>>
        /\ call' = [call EXCEPT ![p].stage[i] = "rename"]
        /\ UNCHANGED <<store, spoilt, last, sem, heights, faults>>

FileWriteFails(p, i) ==
    LET k == Key(p, i)
    IN  /\ At(p, i, "write") /\ faults < MaxFaults
        /\ temp' = [temp EXCEPT ![k].by = @ \ {<<p, i>>}]
        /\ holder' = [holder EXCEPT ![k].by = @ \ {<<p, i>>}]
        /\ spoilt' = spoilt \cup {k}
        /\ Fails(p, i)
        /\ faults' = faults + 1
        /\ UNCHANGED <<store, file, last, sem, heights>>

FileRename(p, i) ==
    LET k == Key(p, i)
    IN  /\ At(p, i, "rename") /\ temp[k].bytes # "none"
        /\ file' = [file EXCEPT ![k] = temp[k].bytes]
        /\ holder' = [holder EXCEPT ![k] = [by |-> temp[k].by, newest |-> temp[k].newest]]
        /\ temp' = [temp EXCEPT ![k] = NoTemp]
        /\ last' = [last EXCEPT ![k] = "put"]
        /\ Succeeds(p, i, "whole")
        /\ UNCHANGED <<store, spoilt, sem, heights, faults>>

(* The temporary file is gone with another writer's rename. *)
FileRenameFails(p, i) ==
    /\ At(p, i, "rename") /\ temp[Key(p, i)].bytes = "none"
    /\ call' = [call EXCEPT ![p].stage[i] = "remove"]
    /\ UNCHANGED <<store, spoilt, file, temp, last, holder, sem, heights, faults>>

(* By now the name may be another writer's temporary file again. *)
FileRemove(p, i) ==
    /\ At(p, i, "remove")
    /\ temp' = [temp EXCEPT ![Key(p, i)] = NoTemp]
    /\ Fails(p, i)
    /\ UNCHANGED <<store, spoilt, file, last, holder, sem, heights, faults>>

(* What a store's Get and Has find under a key. *)
Fetched(k) == file[k]

Delete(p, i) ==
    LET k == Key(p, i)
    IN  /\ At(p, i, "op") /\ call[p].op = "deleteAll"
        /\ file' = [file EXCEPT ![k] = "none"]
        /\ holder' = [holder EXCEPT ![k] = NoWriters]
        /\ last' = [last EXCEPT ![k] = "delete"]
        /\ Succeeds(p, i, "none")
        /\ UNCHANGED <<store, spoilt, temp, sem, heights, faults>>

HasAll(p, i) ==
    /\ At(p, i, "op") /\ call[p].op = "hasAll"
    /\ Succeeds(p, i, Fetched(Key(p, i)))
    /\ UNCHANGED <<store, spoilt, file, temp, last, holder, sem, heights, faults>>

(* Mutant: the length is checked, the hash is not. *)
VerifyContentSize(bytes) == bytes \in {"whole", "rot"}

(* Size and hash. *)
VerifyContent(bytes) == bytes = "whole"

GetContents(p, i) ==
    LET bytes == Fetched(Key(p, i))
    IN  /\ At(p, i, "op") /\ call[p].op = "getContents"
        /\ IF VerifyContent(bytes) THEN Succeeds(p, i, bytes) ELSE Fails(p, i)
        /\ UNCHANGED <<store, spoilt, file, temp, last, holder, sem, heights, faults>>

(* DecodeClaim: bytes that are cut or too long do not decode, altered ones may. *)
Decodes(bytes) == IF bytes = "rot" THEN BOOLEAN ELSE {bytes = "whole"}

GetClaims(p, i) ==
    LET bytes == Fetched(Key(p, i))
    IN  /\ At(p, i, "op") /\ call[p].op = "getClaims"
        /\ \E ok \in Decodes(bytes) : IF ok THEN Succeeds(p, i, bytes) ELSE Fails(p, i)
        /\ UNCHANGED <<store, spoilt, file, temp, last, holder, sem, heights, faults>>

(* A height that is cached needs no read, also of a claim that is gone. *)
GetClaimHeights(p, i) ==
    LET k == Key(p, i)
        known == [true |-> "whole", false |-> "rot"]
    IN  /\ At(p, i, "op") /\ call[p].op = "heights"
        /\ IF heights[k] # "unknown" THEN Succeeds(p, i, known[heights[k]])
           ELSE \E ok \in Decodes(Fetched(k)) : IF ok THEN Succeeds(p, i, Fetched(k)) ELSE Fails(p, i)
        /\ UNCHANGED <<store, spoilt, file, temp, last, holder, sem, heights, faults>>

-----------------------------------------------------------------------------
(* StreamContent: the verifying reader over what was opened.  A content is *)
(* two blocks long, or empty; the consumer asks for one or two at a time.  *)

Size == 2

Length == [whole |-> 2, rot |-> 2, part |-> 1, long |-> 3]

StreamOpen(p) ==
    LET k == Key(p, 1)
    IN  /\ Open(p) /\ call[p].op = "stream" /\ call[p].bytes = "none"
        /\ call' = [call EXCEPT ![p].bytes = file[k],
                                ![p].result = IF file[k] = "none" THEN "error" ELSE "open"]
        /\ UNCHANGED <<store, spoilt, file, temp, last, holder, sem, heights, faults>>

(* What is wrong at the end: a byte too many, or a hash that differs. *)
FinalCheck(bytes) == Length[bytes] > Size \/ bytes = "rot"

(* The last block is held back until the probe and the hash agree; of an   *)
(* empty content nothing is read, neither probe nor hash.                  *)
StreamRead(p, n) ==
    LET c == call[p]
        left == Size - c.read
        take == IF n < left THEN n ELSE left
        got == IF c.read + take <= Length[c.bytes] THEN take ELSE Length[c.bytes] - c.read
        read == c.read + got
    IN  /\ Open(p) /\ c.op = "stream" /\ c.bytes # "none"
        /\ call' = [call EXCEPT ![p] =
               IF Key(p, 1) \in Empty THEN [c EXCEPT !.result = "ok", !.did = {1}]
               ELSE IF read = Size
               THEN IF FinalCheck(c.bytes) THEN [c EXCEPT !.result = "error"]
                    ELSE [c EXCEPT !.read = read, !.result = "ok", !.did = {1}]
               ELSE [c EXCEPT !.read = read, !.result = IF got < take THEN "error" ELSE "open"]]
        /\ UNCHANGED <<store, spoilt, file, temp, last, holder, sem, heights, faults>>

(* The store fails to open the stream, or in the middle of it. *)
StreamFails(p) ==
    /\ Open(p) /\ call[p].op = "stream"
    /\ faults < MaxFaults
    /\ call' = [call EXCEPT ![p].result = "error"]
    /\ faults' = faults + 1
    /\ UNCHANGED <<store, spoilt, file, temp, last, holder, sem, heights>>

-----------------------------------------------------------------------------
(* The medium alters bytes, cuts them or lets them grow, which is all it can do to none. *)
Altered(k) == IF k \in Empty THEN {"long"} ELSE {"rot", "part", "long"}

Rot(k) ==
    /\ faults < MaxFaults
    /\ file[k] = "whole"
    /\ \E bytes \in Altered(k) : file' = [file EXCEPT ![k] = bytes]
    /\ spoilt' = spoilt \cup {k}
    /\ faults' = faults + 1
    /\ UNCHANGED <<store, temp, last, holder, call, sem, heights>>

Item(p) ==
    \E i \in DOMAIN call[p].items :
        \/ ItemFails(p, i) \/ PutReplaces(p, i) \/ PutWhenAbsent(p, i)
        \/ FileCreate(p, i) \/ FileWrite(p, i) \/ FileWriteFails(p, i)
        \/ FileRename(p, i) \/ FileRenameFails(p, i) \/ FileRemove(p, i)
        \/ Delete(p, i) \/ HasAll(p, i) \/ GetContents(p, i) \/ GetClaims(p, i)
        \/ GetClaimHeights(p, i) \/ Release(p, i)

Stream(p) == StreamOpen(p) \/ (\E n \in 1..Size : StreamRead(p, n)) \/ StreamFails(p)

Step(p) == Launch(p) \/ Item(p) \/ Return(p) \/ Stream(p)

Next ==
    \/ \E p \in Clients : (\E r \in Requests[p] : Begin(p, r)) \/ Cancel(p) \/ Step(p)
    \/ \E k \in Keys : Rot(k)

Advance == \E p \in Clients : Step(p)

(* Some goroutine that can run runs: each call has finitely many steps. *)
Spec == Init /\ [][Next]_vars /\ WF_vars(Advance)

-----------------------------------------------------------------------------
(* Properties. *)

(* No Put or Delete of the key is under way. *)
Quiet(k) ==
    \A p \in Clients : call[p].op \in {"putClaims", "putContents", "deleteAll"} =>
        \A i \in Running(call[p]) : Key(p, i) # k

(***************************************************************************)
(* A bulk call that reports success did all of it before it returned,      *)
(* whatever failed, was cancelled or raced it (forEach); and once nobody   *)
(* writes a key, what the last Put or Delete of it did is what is there,   *)
(* although writers of one key share a temporary file and take each        *)
(* other's (atomicWrite).  Left out: a file write that failed midway, and  *)
(* bytes the medium altered.                                               *)
(***************************************************************************)
NilMeansDone ==
    /\ \A p \in Clients : call[p].result = "ok" => call[p].did = DOMAIN call[p].items
    /\ \A k \in Keys \ spoilt : Quiet(k) => /\ last[k] = "put" => file[k] = "whole"
                                            /\ last[k] = "delete" => file[k] = "none"

(***************************************************************************)
(* No content is handed over that is not the content asked for: neither by *)
(* a read of several nor by a stream, whose consumer never sees all of an  *)
(* altered content, nor a clean end after it (VerifyContent,               *)
(* verifyingReader), but for an empty content, whose stream hands nothing  *)
(* out and ends without a look at what is stored.  Claims and heights are  *)
(* right wherever the medium left the claim alone, half-written files and  *)
(* deleted claims included.                                                *)
(***************************************************************************)
AnswersGenuine ==
    \A p \in Clients :
        LET c == call[p]
        IN  /\ (c.op = "getContents" /\ c.result = "ok") => \A i \in DOMAIN c.out : c.out[i] = "whole"
            /\ (c.op = "stream" /\ Key(p, 1) \notin Empty /\ (c.result = "ok" \/ c.read = Size)) => c.bytes = "whole"
            /\ (c.op \in {"getClaims", "heights"} /\ c.result = "ok") =>
                  \A i \in DOMAIN c.out : Key(p, i) \notin spoilt => c.out[i] = "whole"

(* Every call returns: no slot is lost, nobody waits for a slot that never comes free. *)
CallsReturn == []<>(\A p \in Clients : ~Open(p))
=============================================================================
