------------------------------ MODULE ArchiveLog ------------------------------
(***************************************************************************)
(* What a Sequencer promises its callers, with no queue, no fold, no table *)
(* and no bookmark: branches hold sets of claims that only grow, a merge   *)
(* puts whole contributions in at one instant, on all their branches, and  *)
(* nothing else gets in; a receipt is given only for what is already in.   *)
(***************************************************************************)
CONSTANTS
    Claims,
    Reach(_),   \* the claims a set of claims brings along, itself included
    Writers,
    Branches,
    Operator    \* the first contributor

VARIABLES
    content,    \* content[b]: the claims branch b of the archive holds
    offer,      \* offer[w]: what writer w is merging, per branch
    receipts    \* <<branch, claim>> pairs a receipt was given for

vars == <<content, offer, receipts>>

NoOffer == [b \in Branches |-> {}]
Offers == [Branches -> SUBSET Claims]

Init ==
    /\ content = [b \in Branches |-> {}]
    /\ offer = [w \in Writers |-> NoOffer]
    /\ receipts = {}

(* Genesis happens once: the first contributor is all an archive starts with. *)
Found(b) ==
    /\ \A c \in Branches : content[c] = {}
    /\ content' = [content EXCEPT ![b] = {Operator}]
    /\ UNCHANGED <<offer, receipts>>

Submit(w) ==
    /\ offer[w] = NoOffer
    /\ offer'[w] \in Offers \ {NoOffer}
    /\ offer' = [offer EXCEPT ![w] = offer'[w]]
    /\ UNCHANGED <<content, receipts>>

(* One advance takes in the contributions of a whole group. *)
Advance(B) ==
    /\ \A w \in B : offer[w] # NoOffer
    /\ content' = [b \in Branches |->
                     content[b] \cup UNION {Reach(offer[w][b]) : w \in B}]
    /\ UNCHANGED <<offer, receipts>>

Acknowledge(B) ==
    /\ \A w \in B, b \in Branches : offer[w][b] \subseteq content[b]
    /\ receipts' = receipts \cup {p \in Branches \X Claims :
                                    \E w \in B : p[2] \in offer[w][p[1]]}
    /\ UNCHANGED <<content, offer>>

(* Merges return, or die with the process, in any number. *)
Leave(B) ==
    /\ offer' = [w \in Writers |-> IF w \in B THEN NoOffer ELSE offer[w]]
    /\ UNCHANGED <<content, receipts>>

Next ==
    \/ \E b \in Branches : Found(b)
    \/ \E w \in Writers : Submit(w)
    \/ \E B \in SUBSET Writers : Advance(B) \/ Acknowledge(B) \/ Leave(B)

Spec == Init /\ [][Next]_vars
=============================================================================
