--------------------------- MODULE ExclusiveClaim ---------------------------
(***************************************************************************)
(* What a lock promises its users, without saying how: a claim is taken    *)
(* only while nobody has one, and ends before the next is taken.           *)
(***************************************************************************)
CONSTANT Claimers
VARIABLE claim   \* the set of those with a claim

Init == claim = {}

Take(c) == claim = {} /\ claim' = {c}
End     == claim' = {}

Next == (\E c \in Claimers : Take(c)) \/ End

Spec == Init /\ [][Next]_claim
=============================================================================
