------------------------------ MODULE OnceOnly ------------------------------
(***************************************************************************)
(* What a reviewed destruction plan promises, whatever servers and shells  *)
(* share the plan store: a plan is carried out at most once, by one        *)
(* process, only after it was reviewed; a plan that expired first is never *)
(* carried out.                                                            *)
(***************************************************************************)
CONSTANTS Plans, Actors

VARIABLES stage,     \* "open", "reviewed", "running", "over" for each plan
          actor      \* the processes that ever ran each plan

TypeOK ==
    /\ stage \in [Plans -> {"open", "reviewed", "running", "over"}]
    /\ actor \in [Plans -> SUBSET Actors]

Init ==
    /\ stage = [p \in Plans |-> "open"]
    /\ actor = [p \in Plans |-> {}]

Review(p) ==
    /\ stage[p] = "open"
    /\ stage' = [stage EXCEPT ![p] = "reviewed"]
    /\ UNCHANGED actor

Start(p, a) ==
    /\ stage[p] = "reviewed"
    /\ stage' = [stage EXCEPT ![p] = "running"]
    /\ actor' = [actor EXCEPT ![p] = {a}]

\* Carried out as far as it went, or never to be carried out.
End(p) ==
    /\ stage[p] # "over"
    /\ stage' = [stage EXCEPT ![p] = "over"]
    /\ UNCHANGED actor

Next ==
    \E p \in Plans :
        \/ Review(p)
        \/ \E a \in Actors : Start(p, a)
        \/ End(p)

Spec == Init /\ [][Next]_<<stage, actor>>
=============================================================================
