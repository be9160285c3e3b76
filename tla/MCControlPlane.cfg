\* Changes that overlap each other, logins and cache fills, on both backends.
CONSTANTS
  None = None
  thread1 = thread1
  thread2 = thread2
  shell = shell
  Users = {1, 2}
  Tokens = {11}
  Threads = {thread1, thread2}
  Shells = {shell}
  ProcOf <- MCProcOf
  Casts <- MCCasts
  CacheTTL = 1
  MaxFill = 1
SPECIFICATION Spec
INVARIANTS TypeOK AdminRemains StaleExplained CredentialsRevoked ActiveAsAsked
CHECK_DEADLOCK FALSE
