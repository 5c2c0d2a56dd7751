----------------------------- MODULE MCBookmarks -----------------------------
(***************************************************************************)
(* Small instances of Bookmarks for TLC: a list that starts empty and is   *)
(* written, and every list on a few indices, gaps included, at rest.       *)
(***************************************************************************)
EXTENDS Bookmarks

CONSTANTS writer, reader

NoLists == {}
AllLists == SUBSET Indices

AppendAndRead == {<<writer, "append">>, <<reader, "latest">>}
ReadOnly == {reader} \X {"latest", "len", "verify"}
=============================================================================
