---------------------------- MODULE MCDestruction ----------------------------
(***************************************************************************)
(* Instances of Destruction.  Pipelines are 1..6, models 11..15, the       *)
(* source 21, relations 31..40; 39 is a view of somebody else's.           *)
(***************************************************************************)
EXTENDS Destruction, TLC

MCRelations == 31..40

MCUses == [r \in MCRelations |->
             CASE r = 32 -> {31}          \* model 11 reads the source
               [] r = 33 -> {31, 32}      \* its materialized view feeds it
               [] r = 34 -> {32}          \* model 12 reads model 11
               [] r = 35 -> {31}          \* model 13 reads the source
               [] r = 36 -> {37}          \* stable view over a physical table
               [] r = 39 -> {34}          \* foreign view
               [] OTHER -> {}]

Shop(pipelines, relationOf12) ==
    LET models == {m \in {11, 12, 13} : m - 10 \in pipelines}
    IN  [name |-> "shop", target |-> "prod", production |-> TRUE,
         models |-> models, sources |-> {21}, pipelines |-> pipelines,
         pipelineOf |-> [m \in models |-> m - 10],
         declares |-> [q \in pipelines |-> IF q = 1 THEN {21} ELSE {}],
         refs |-> {r \in {[down |-> 11, up |-> 21, ref |-> "driving_input"],
                          [down |-> 12, up |-> 11, ref |-> "driving_input"],
                          [down |-> 13, up |-> 21, ref |-> "driving_input"]} :
                      {r.down, r.up} \subseteq models \cup {21}},
         views |-> {}, mode |-> [q \in pipelines |-> "direct"],
         isolated |-> FALSE, allowed |-> {},
         resources |-> [k \in models \cup {21} |->
                           CASE k = 21 -> {31} [] k = 11 -> {32, 33}
                             [] k = 12 -> {relationOf12} [] k = 13 -> {35}]]

Whole   == Shop({1, 2, 3}, 34)
Without2 == Shop({1, 3}, 34)
Without3 == Shop({1, 2}, 34)
\* A reference to a model that is gone: the project does not compile.
Broken  == [Whole EXCEPT !.refs = @ \cup {[down |-> 13, up |-> 14, ref |-> "reference"]}]

Generations(present) == [r \in MCRelations |-> IF r \in present THEN 1 ELSE 0]

World(files, present, built, mappings, bindings, requests) ==
    [project |-> files, requests |-> requests,
     warehouse |-> [catalog |-> Generations(present), large |-> {}, built |-> built,
                    mappings |-> mappings, bindings |-> bindings]]

\* Pipeline 5 is virtual, its model 14 published as 36 over 37; pipeline 6 is
\* direct.
Mixed(relationOf14, relationOf15) ==
    [name |-> "mixed", target |-> "prod", production |-> FALSE,
     models |-> {14, 15}, sources |-> {}, pipelines |-> {5, 6},
     pipelineOf |-> [m \in {14, 15} |-> m - 9],
     declares |-> [q \in {5, 6} |-> {}], refs |-> {}, views |-> {},
     mode |-> [q \in {5, 6} |-> IF q = 5 THEN "virtual" ELSE "direct"],
     isolated |-> FALSE, allowed |-> {},
     resources |-> [k \in {14, 15} |-> IF k = 14 THEN {relationOf14} ELSE {relationOf15}]]

MCMappings == {[deployment |-> 1, key |-> 36, model |-> 14, physical |-> 37]}
MCBindings == {[logical |-> 36, physical |-> 37]}

Request(op, pipelines, included, orphans) ==
    [op |-> op, pipelines |-> pipelines, included |-> included, orphans |-> orphans]

MCProjects == {Whole, Without2, Broken, Mixed(36, 38)}
MCWorlds ==
    {World(Whole, {31, 32, 33, 34, 35}, <<Whole>>, {}, {},
           {Request(DestroyPipelines, {1}, {2, 3}, FALSE)}),
     World(Whole, {31, 32, 33, 34}, <<Without3>>, {}, {},
           {Request(DestroyPipelines, {1}, {2}, FALSE),
            Request(DestroyPipelines, {2}, {}, FALSE)}),
     World(Without2, {31, 32, 33, 34, 35}, <<Without2, Whole>>, {}, {},
           {Request(DestroyPipelines, {2}, {}, FALSE)}),
     World(Without2, {31, 32, 34}, <<Without2, Whole>>, {}, {},
           {Request(ResetTarget, {}, {}, TRUE)}),
     World(Mixed(36, 38), {36, 37, 38}, <<>>, MCMappings, MCBindings,
           {Request(DestroyPipelines, {5}, {}, FALSE)})}

\* The stable name 36 of model 14 now belongs to model 15 of pipeline 6.
ReuseProjects == {Mixed(40, 36)}
ReuseWorlds ==
    {World(Mixed(40, 36), {36, 37, 40}, <<Mixed(40, 36)>>, MCMappings, MCBindings,
           {Request(DestroyPipelines, {5}, {}, FALSE)})}

MCMetadata == {}
=============================================================================
