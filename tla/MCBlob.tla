------------------------------- MODULE MCBlob -------------------------------
(***************************************************************************)
(* Two keys, and that of an empty content; bulk calls of two items,        *)
(* streams and contents of one.                                            *)
(***************************************************************************)
EXTENDS Blob

Two(op) == [op |-> op, items |-> <<1, 2>>]

One(op) == [op |-> op, items |-> <<1>>]

None(op) == [op |-> op, items |-> <<3>>]

MCRequests == <<{Two("putClaims"), One("deleteAll")},
                {Two("putClaims"), Two("getClaims"), Two("getContents"), One("hasAll"), One("stream"), None("stream")},
                {One("putContents"), One("heights")}>>

MCStores == {Minimal, Sqlite(FALSE), Rest(FALSE), Redis(2), S3(TRUE, 1), Azure(TRUE, 1), FS(TRUE)}

-----------------------------------------------------------------------------
(* What comments promise and the code does not keep. *)

(* A stream that ends cleanly ended on the content asked for: "reading to  *)
(* EOF also verifies the stream" (NewVerifyingReader).                     *)
EndIsVerified ==
    \A p \in Clients : call[p].op = "stream" /\ call[p].result = "ok" => call[p].bytes = "whole"

(* The stores that put a key only where nothing is. *)
MCConditional == {S3(TRUE, 1), Azure(TRUE, 1)}

(* An item of a Put that is done leaves its bytes under the key, whatever  *)
(* was there: "overwriting any bytes there" (BlobStore.Put).               *)
PutOverwrites ==
    [][\A p \in Clients : call[p].op \in {"putClaims", "putContents"} =>
          \A i \in call'[p].did \ call[p].did : file'[Key(p, i)] = "whole"]_vars
=============================================================================
