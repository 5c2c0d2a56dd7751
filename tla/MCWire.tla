------------------------------- MODULE MCWire -------------------------------
(***************************************************************************)
(* An archive with branches m and n.  Claim 1 cites a claim of m, claim 2  *)
(* a claim no branch holds, claim 3 is a delete mark; key 4 is a content.  *)
(***************************************************************************)
EXTENDS Wire

Declares(b, r, l, c) == [branches |-> b, referencable |-> r, lifted |-> l, creatable |-> c]

MCDeclared == {Declares({"m", "n"}, {"$archive"}, {"delete"}, {}),
               Declares({"n", "o"}, {"$universe"}, {}, {"$branches"})}

Claim(key, branch) == [kind |-> "claim", key |-> key, bytes |-> key, branch |-> branch]

MCPayload == {Claim(1, "n"), Claim(3, "m"), Claim(2, "o"),
              [kind |-> "content", key |-> 4, bytes |-> 4]}

MCTypeOf == <<"source", "source", "delete", "">>

MCRefsOf == <<{"m"}, {"m", "elsewhere"}, {}, {}>>

MCAdded == {Declaration("branches", {"n", "o"}),
            Declaration("referencable", {"$universe"}), Declaration("referencable", {"$archive", "n"}),
            Declaration("referencable", {"n"}),
            Declaration("lifted", {}), Declaration("creatable", {"o"})}
=============================================================================
