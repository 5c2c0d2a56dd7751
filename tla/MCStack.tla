------------------------------ MODULE MCStack ------------------------------
(***************************************************************************)
(* Small stacks for TLC: a capped projection over a verbatim store, and a  *)
(* verbatim cache, filled or written in the background, over one.          *)
(***************************************************************************)
EXTENDS Stack

CONSTANTS claimA, claimB, blobA, slotA, recA, t1, t2

Layer(tier, raw, cap, bm) ==
    [tier |-> tier, raw |-> raw, external |-> raw, cap |-> cap, delete |-> TRUE, marks |-> bm,
     tags |-> ~raw]

Projection(tier) == Layer(tier, FALSE, 1, FALSE)
Verbatim(tier) == Layer(tier, TRUE, 0, TRUE)

MCStacks == {<<Projection("eager"), Verbatim("lazy"), Verbatim("authoritative")>>,
             <<Verbatim("eager"), Projection("lazy"), Verbatim("authoritative")>>,
             <<Verbatim("background"), Verbatim("authoritative")>>}
TwoStacks == {<<Verbatim("eager"), Verbatim("authoritative")>>}

MCSizeOf == [b \in Blobs |-> 1]
MCPred == [c \in Claims |-> IF c = claimB THEN claimA ELSE None]

Op(kind, item, delta) == [kind |-> kind, item |-> item, delta |-> delta, record |-> recA]

Puts == {Op("put", claimA, FALSE), Op("put", claimB, FALSE), Op("put", blobA, FALSE),
         Op("bmput", slotA, FALSE)}
Deletes == {Op("del", claimA, FALSE), Op("del", blobA, FALSE)}
Reads == {Op("get", claimB, FALSE), Op("get", claimA, TRUE), Op("get", blobA, FALSE),
          Op("bmget", slotA, FALSE)}
OtherReads == {Op("has", blobA, FALSE), Op("raw", claimA, FALSE), Op("stream", blobA, FALSE),
               Op("query", claimA, TRUE), Op("sync", claimA, FALSE), Op("tag", None, FALSE), Op("close", None, FALSE)}

(* One client writes, deletes and reads content, the other reads, syncs,   *)
(* tags and closes.                                                        *)
MCMenu == [t \in Clients |-> IF t = t1 THEN Puts \cup Deletes \cup {Op("get", blobA, FALSE)}
                             ELSE Reads \cup OtherReads]
DeleteMenu == [t \in Clients |->
    {Op("put", claimA, FALSE), Op("get", claimA, FALSE), Op("del", claimA, FALSE)}]
=============================================================================
