--------------------------- MODULE MCDeployments ---------------------------
(***************************************************************************)
(* Objects 1 and 2 are the names the view of model "orders" had before and *)
(* after a rename, 3 is the view of another model and 4 a materialized     *)
(* view of "orders".                                                       *)
(***************************************************************************)
EXTENDS Deployments, TLC

MCModelOf == 1 :> "orders" @@ 2 :> "orders" @@ 3 :> "totals" @@ 4 :> "orders"

\* One model, which each build may know by another name.
Renamed == {{1}, {2}}

\* Two models, which are built apart.
Apart == {{1, 4}, {3}}

IdSymmetry == Permutations(DeploymentIds)
=============================================================================
