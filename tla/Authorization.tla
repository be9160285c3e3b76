--------------------------- MODULE Authorization ---------------------------
(***************************************************************************)
(* The project access policy and its evaluation: what access.yml may       *)
(* declare (compiler/access), the decision a mutation route asks for       *)
(* (authorization/classes/project_authorizer.py: decide), the summary the  *)
(* browser is shown (capabilities), and the permission and scope each      *)
(* route of the dev server enforces (authorization_enforcement.py).        *)
(*                                                                         *)
(* A policy is a function from role names to sets of grants; a grant is    *)
(* [scope, pipelines, permissions], its scope "pipelines" when access.yml  *)
(* lists pipelines.  A membership is [user, role, target], target None for *)
(* every target.  Seven of the thirteen operational permissions stand for  *)
(* the classes the code tells apart by the sets that hold them.            *)
(***************************************************************************)
CONSTANTS Pipelines, None

PipelinePermissions ==
  {"quality.audit.run", "build.direct.run", "build.cancel", "pipeline.destroy"}
ProjectPermissions == {"project.reload", "quality.audit.run", "automation.manage"}
TargetPermissions == {"build.kill", "automation.manage", "target.reset"}
DestructivePermissions == {"pipeline.destroy", "target.reset"}
ScopedPermissions == ProjectPermissions \cup TargetPermissions
AllPermissions == PipelinePermissions \cup ScopedPermissions

(* _build_grant: exactly one of pipelines and scope, known pipelines, and  *)
(* only the permissions the scope may carry.                               *)
BuildGrant(g) ==
  /\ g.permissions # {}
  /\ \/ /\ g.scope = "pipelines" /\ g.pipelines # {} /\ g.pipelines \subseteq Pipelines
        /\ g.permissions \subseteq PipelinePermissions
     \/ g.scope = "project" /\ g.permissions \subseteq ProjectPermissions
     \/ g.scope = "target" /\ g.permissions \subseteq TargetPermissions

\* Mutant: a scoped grant may carry any scoped permission.
BuildRolesAnyScope(policy) ==
  \A r \in DOMAIN policy :
    /\ policy[r] # {}
    /\ \A g \in policy[r] : g.scope = "pipelines" => BuildGrant(g)

(* build_compiled_roles: every role has a grant and every grant compiles.  *)
BuildCompiledRoles(policy) ==
  \A r \in DOMAIN policy : policy[r] # {} /\ \A g \in policy[r] : BuildGrant(g)

(* list_project_role_assignments, narrowed to the requested target.        *)
Assignments(memberships, user, target) ==
  {m \in memberships : m.user = user /\ m.target \in {None, target}}

(* The roles of these assignments that the policy still declares.          *)
AssignedRoles(policy, assignments) == {m.role : m \in assignments} \cap DOMAIN policy

GrantsOf(policy, assignments) == UNION {policy[r] : r \in AssignedRoles(policy, assignments)}

MatchingScopedGrant(g, permission, scope) ==
  /\ permission \in g.permissions
  /\ g.scope = scope \/ (scope = "target" /\ g.scope = "project")

Covers(g, permission, affected) ==
  IF permission \notin g.permissions THEN {}
  ELSE CASE g.scope = "pipelines" -> g.pipelines \cap affected
         [] g.scope = "project" -> affected
         [] OTHER -> {}

(* ProjectAuthorizer.decide: allowed or not; admin is what the request     *)
(* carries, the memberships are read when the decision is made.  scope     *)
(* None asks for every affected pipeline.                                  *)
Decide(admin, policy, memberships, user, target, permission, scope, affected) ==
  \/ admin
  \/ /\ policy # None
     /\ LET grants == GrantsOf(policy, Assignments(memberships, user, target))
        IN  IF scope # None
            THEN \E g \in grants : MatchingScopedGrant(g, permission, scope)
            ELSE /\ affected # {}
                 /\ affected \subseteq UNION {Covers(g, permission, affected) : g \in grants}

(* ProjectAuthorizer.capabilities, as build_capabilities_payload shows it: *)
(* the destructive permissions are left out for anyone but an admin.       *)
CapabilitiesPayload(admin, policy, memberships, user, target) ==
  LET grants == IF policy = None THEN {}
                ELSE GrantsOf(policy, Assignments(memberships, user, target))
      Granted(p) == \E g \in grants : g.scope # "pipelines" /\ p \in g.permissions
      Shown(p) == admin \/ p \notin DestructivePermissions
      Covered(p) == UNION {IF p \notin g.permissions THEN {}
                           ELSE CASE g.scope = "project" -> Pipelines
                                  [] g.scope = "pipelines" -> g.pipelines
                                  [] OTHER -> {} : g \in grants}
  IN  [permissions |-> {p \in ScopedPermissions : Shown(p) /\ (admin \/ Granted(p))},
       pipelines |-> [p \in PipelinePermissions |->
                        IF ~Shown(p) THEN {} ELSE IF admin THEN Pipelines ELSE Covered(p)]]

(* require_destruction_authorization asks the store again for an active    *)
(* system administrator before the decision.                               *)
RequireDestruction(account, decision) ==
  account # None /\ account.active /\ account.admin /\ decision

(* The scope each route asks the permission for: reload_project, and       *)
(* require_check_authorization for a check of no pipeline, ask at project  *)
(* scope, the require_*_authorization of one target's operation at target  *)
(* scope.                                                                  *)
RequiredScope(permission) ==
  IF permission \in {"project.reload", "quality.audit.run"} THEN "project" ELSE "target"

RequireScoped(admin, account, policy, memberships, user, target, permission) ==
  LET decision == Decide(admin, policy, memberships, user, target, permission,
                         RequiredScope(permission), {})
  IN  IF permission \in DestructivePermissions
      THEN RequireDestruction(account, decision) ELSE decision

RequirePipelines(admin, account, policy, memberships, user, target, permission, affected) ==
  LET decision == Decide(admin, policy, memberships, user, target, permission, None, affected)
  IN  IF permission \in DestructivePermissions
      THEN RequireDestruction(account, decision) ELSE decision
=============================================================================
