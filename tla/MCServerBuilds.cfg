\* Two builds, from the browser or a shell, under two changes of the project.
CONSTANTS
  None = None
  Runs = {1, 2}
  Models = {1, 2}
  Pipelines = {10, 20}
  Users = {"operator", "admin"}
  Admins = {"admin"}
  Projects <- MCProjects
  FirstProject <- MCFirstProject
  Target = "prod"
  AllMemberships <- MCMemberships
  FirstMemberships <- MCFirstMemberships
  Casts <- MCCasts
SPECIFICATION Spec
INVARIANTS AuthorizedWrites LeftoversExplained CapabilitiesMatch
PROPERTY CancelSettles
CHECK_DEADLOCK FALSE
