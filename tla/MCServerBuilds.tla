-------------------------- MODULE MCServerBuilds ---------------------------
(* Two models; an edit moves the second one to the other pipeline, another *)
(* gives the role more, the policy of a third one does not compile.        *)
EXTENDS ServerBuilds, TLC

Grant(scope, pipelines, permissions) ==
  [scope |-> scope, pipelines |-> pipelines, permissions |-> permissions]

Operator == {Grant("pipelines", {10}, {"build.direct.run", "build.cancel",
                                   "quality.audit.run", "pipeline.destroy"}),
             Grant("target", {}, {"automation.manage", "target.reset"})}
Wider == {Grant("pipelines", {10, 20}, {"build.direct.run"}),
          Grant("project", {}, {"project.reload", "quality.audit.run"}),
          Grant("target", {}, {"build.kill"})}

Project(second, roles) ==
  [owner |-> 1 :> 10 @@ 2 :> second, upstream |-> 1 :> {} @@ 2 :> {1},
   roles |-> "operator" :> roles, graph |-> TRUE]

MCFirstProject == Project(10, Operator)
MCProjects == {MCFirstProject, Project(20, Operator), Project(20, Wider),
               Project(10, {Grant("target", {}, {"project.reload"})})}

Member(target) == [user |-> "operator", role |-> "operator", target |-> target]
MCMemberships == {Member("prod"), Member(None)}
MCFirstMemberships == {Member("prod")}

Cast(by, ss, n, stopped, faults) ==
  [by |-> by, selectors |-> ss, changes |-> n, stops |-> stopped,
   ages |-> "age" \in faults, losses |-> "loss" \in faults]

(* The project changes under a build; a build of two statements is         *)
(* stopped; one is stopped and another follows; a build meets one that a   *)
(* shell runs.                                                             *)
MCCasts == {Cast(<<{"operator", "admin"}>>, {2}, 2, {}, {}),
            Cast(<<{"operator"}>>, {10}, 0, {1}, {"loss"}),
            Cast(<<{"operator"}, {"operator"}>>, {1}, 0, {1}, {}),
            Cast(<<{"shell"}, {"admin"}>>, {1}, 0, {}, {"age"})}
=============================================================================
