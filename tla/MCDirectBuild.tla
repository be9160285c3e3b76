--------------------------- MODULE MCDirectBuild ---------------------------
(* Source 9; model 1 reads it, 2 and 3 read 1, view 4 reads 2; 3 is in a   *)
(* pipeline of its own.                                                    *)
EXTENDS DirectBuild, TLC

Ref(down, up, part) == [down |-> down, up |-> up, ref |-> part]

WithRefs(models, views, pipelineOf, refs) ==
  [models |-> models, sources |-> {9}, pipelines |-> {10, 20}, pipelineOf |-> pipelineOf,
   declares |-> [p \in {10, 20} |-> {9}], refs |-> refs, views |-> views,
   mode |-> [p \in {10, 20} |-> "direct"], isolated |-> FALSE, allowed |-> {},
   resources |-> [k \in models \cup {9} |-> {k}]]

Chain ==
  WithRefs({1, 2, 3, 4}, {4}, 1 :> 10 @@ 2 :> 10 @@ 3 :> 20 @@ 4 :> 10,
           {Ref(1, 9, "driving_input"), Ref(2, 1, "driving_input"),
            Ref(3, 1, "driving_input"), Ref(4, 2, "reference")})

(* A dimension 1 beside the facts 2, and 3, which joins it to them.        *)
FanIn ==
  WithRefs({1, 2, 3}, {}, 1 :> 10 @@ 2 :> 10 @@ 3 :> 10,
           {Ref(1, 9, "driving_input"), Ref(2, 9, "driving_input"),
            Ref(3, 2, "driving_input"), Ref(3, 1, "reference")})

(* The first event is stamped ahead of the second.                         *)
MCStamp == [e \in Events |-> 3 - e]

Cast(builds, faults, crashes, edits, resets, selects) ==
  [builds |-> builds, faults |-> faults, crashes |-> crashes, edits |-> edits,
   resets |-> resets, selects |-> selects, starts |-> {}, lineage |-> "offsets"]

(* Two builds, the second of them of what has changed, of what model 1     *)
(* feeds or of model 2, with or without a start time.                      *)
Window(lineage, start, edits) ==
  [Cast(2, 0, 0, edits, 0, {1, 2}) EXCEPT !.starts = {start}, !.lineage = lineage]

(* A fault around an edit; a fault around a crash; three builds, one of    *)
(* them of a selection; a reset target, with and without a fault; and      *)
(* start times that leave out one event or both, in each lineage mode.     *)
MCCasts == {Cast(2, 1, 0, 1, 0, {}),
            Cast(2, 1, 1, 0, 0, {}),
            Cast(3, 0, 1, 0, 0, {2}),
            Cast(3, 0, 0, 0, 1, {}),
            Cast(2, 1, 0, 0, 1, {}),
            Window("offsets", 1, 1), Window("cursor", 3, 0), Window("timestamp", 2, 0)}

OneBuild == {Cast(1, 0, 0, 0, 0, {})}
=============================================================================
