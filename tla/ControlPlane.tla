---------------------------- MODULE ControlPlane ----------------------------
(***************************************************************************)
(* The account control plane: the relational store of accounts, system     *)
(* roles and sessions (auth/classes/control_store.py), the authentication  *)
(* service with its process-local cache (authentication_service.py), and   *)
(* the session, account and role routes and the admin command that call    *)
(* them.  Project roles, which no cache holds, are in ServerBuilds.        *)
(*                                                                         *)
(* A worker is a thread of a server process, or a command (Shells), which  *)
(* authenticates nobody and is a process of its own.  Each transaction of  *)
(* the store is one step where a single statement decides it; where it     *)
(* reads, decides and then writes, the read and the write are two steps:   *)
(* neither backend holds what was read, except that PostgreSQL keeps the   *)
(* row of the admin role locked from _is_last_admin to the commit          *)
(* (SELECT ... FOR UPDATE, which SQLite does not have; there the reads run *)
(* before the transaction begins at the first write).                      *)
(*                                                                         *)
(* A cache entry carries the revision it was stored under and counts only  *)
(* while that is the process's current one, so raising the revision is     *)
(* modelled by emptying the process's cache.  Time is ticks; an entry      *)
(* lives CacheTTL of them.                                                 *)
(***************************************************************************)
EXTENDS Naturals, FiniteSets

CONSTANTS
  Users, Tokens, Threads, Shells, ProcOf,
  None,
  CacheTTL,               \* _AUTHENTICATION_CACHE_TTL_SECONDS, in ticks
  Casts,                  \* bounds: the workers busy in one behaviour and the account
                          \* changes they make, [workers, changes]
  MaxFill                 \* bound: ticks a cache fill may take

Workers == Threads \cup Shells
Procs == {ProcOf[w] : w \in Workers}
Creds == Users \cup Tokens
Backends == {"sqlite", "postgresql"}
Modes == {"password", "trusted_proxy"}

Principals == [user : Users, admin : BOOLEAN]
Accounts == [active : BOOLEAN, admin : BOOLEAN, legacy : BOOLEAN, linked : BOOLEAN,
             password : {"none", "current", "superseded"}]
Sessions == [user : Users, revoked : BOOLEAN, outlived : BOOLEAN, late : BOOLEAN]
Entries == [answer : Principals, left : 1..CacheTTL, fill : 0..MaxFill, bumped : BOOLEAN]

ASSUME WorkersAssumption == /\ ProcOf \in [Workers -> Procs] /\ Threads \cap Shells = {}
                            /\ CacheTTL \in Nat \ {0} /\ MaxFill \in Nat
                            /\ Users \cap Tokens = {}
                            /\ \A c \in Casts : c.workers \subseteq Workers /\ c.changes \in Nat

\* None is no value of any field it may stand in for.
ASSUME NoneAssumption ==
  /\ None \notin Workers /\ None \notin Procs /\ None \notin BOOLEAN
  /\ None \notin Principals /\ None \notin Accounts /\ None \notin Sessions
  /\ None \notin Entries

VARIABLES
  backend, mode, cast,    \* configuration
  accounts, sessions, lock,   \* the store, and who holds the admin role's row
  cache, worker,
  changes,                \* account changes so far (bounded)
  lapsed, changedBy,      \* history: ticks since a credential's answer changed, and who changed it
  wanted, crossed,        \* history: the state last asked for, and edits an ask overtook
  raced                   \* history: a guarded change was overtaken before its commit

config == <<backend, mode, cast>>
ghosts == <<lapsed, changedBy, wanted, crossed, raced>>
vars == <<config, accounts, sessions, lock, cache, worker, changes, ghosts>>

Idle == [at |-> "idle"]

(* resolve_session and resolve_external_identity: the principal and its    *)
(* system role, None when the credential does not resolve or the account   *)
(* is disabled.                                                            *)
AnswerOf(u) == [user |-> u, admin |-> accounts[u].admin]

Answer(c) ==
  IF mode = "password"
  THEN IF /\ c \in Tokens /\ sessions[c] # None
          /\ ~sessions[c].revoked /\ accounts[sessions[c].user].active
       THEN AnswerOf(sessions[c].user) ELSE None
  ELSE IF c \in Users /\ accounts[c] # None /\ accounts[c].linked /\ accounts[c].active
       THEN AnswerOf(c) ELSE None

Admins == {u \in Users : accounts[u] # None /\ accounts[u].admin}
ActiveAdmins == {u \in Admins : accounts[u].active}

(* The password of a new account: proxy accounts have none. *)
FirstPassword == IF mode = "password" THEN "current" ELSE "none"

(* An account that administers from the start, with a hash of an earlier   *)
(* release's parameters.                                                   *)
First == CHOOSE u \in Users : TRUE

Init ==
  /\ backend \in Backends /\ mode \in Modes /\ cast \in Casts
  /\ \E found \in SUBSET Users, on \in SUBSET Users :
       /\ First \in on /\ on \subseteq found
       /\ accounts = [u \in Users |->
            IF u \in found
            THEN [active |-> u \in on, admin |-> TRUE, legacy |-> u = First /\ mode = "password",
                  linked |-> mode = "trusted_proxy", password |-> FirstPassword]
            ELSE None]
       /\ wanted = [u \in Users |-> u \in on]
  /\ sessions = [t \in Tokens |-> None] /\ lock = None
  /\ cache = [p \in Procs |-> [c \in Creds |-> None]]
  /\ worker = [w \in Workers |-> Idle]
  /\ changes = 0
  /\ lapsed = [c \in Creds |-> 0] /\ changedBy = [c \in Creds |-> None]
  /\ crossed = {} /\ raced = FALSE

-----------------------------------------------------------------------------
(* Authentication of a request *)

At(w, stage) == worker[w].at = stage
Goes(w, state) == worker' = [worker EXCEPT ![w] = state]

(* History: which of the answers somebody holds this step changed. *)
Held(c, caches, ws) ==
  \/ \E p \in Procs : caches[p][c] # None
  \/ \E w \in Workers : ws[w].at = "remember" /\ ws[w].cred = c

Noted(p) ==
  LET moved == {c \in Creds : Held(c, cache, worker) /\ Answer(c)' # Answer(c)}
  IN  /\ lapsed' = [c \in Creds |-> IF c \in moved THEN 0 ELSE lapsed[c]]
      /\ changedBy' = [c \in Creds |-> IF c \in moved THEN p ELSE changedBy[c]]

(* _cached answers. *)
CachedRequest(w, c) ==
  /\ w \in Threads /\ At(w, "idle") /\ cache[ProcOf[w]][c] # None
  /\ Goes(w, [at |-> "admitted", cred |-> c, answer |-> cache[ProcOf[w]][c].answer])
  /\ UNCHANGED <<config, accounts, sessions, lock, cache, changes, ghosts>>

(* The cache misses and the store resolves the credential. *)
ResolveRequest(w, c) ==
  /\ w \in Threads /\ At(w, "idle") /\ cache[ProcOf[w]][c] = None /\ Answer(c) # None
  /\ Goes(w, [at |-> "remember", cred |-> c, answer |-> Answer(c), fill |-> 0, bumped |-> FALSE])
  /\ UNCHANGED <<config, accounts, sessions, lock, cache, changes, ghosts>>

\* Mutant: an entry lives a tick longer than the time to live.
RememberLong(w) ==
  /\ At(w, "remember")
  /\ cache' = [cache EXCEPT ![ProcOf[w]][worker[w].cred] =
                 [answer |-> worker[w].answer, left |-> CacheTTL + 1,
                  fill |-> worker[w].fill, bumped |-> worker[w].bumped]]
  /\ Goes(w, [at |-> "admitted", cred |-> worker[w].cred, answer |-> worker[w].answer])
  /\ UNCHANGED <<config, accounts, sessions, lock, changes, ghosts>>

(* _remember: the entry starts its life, and takes the revision, now and   *)
(* not when the store was read.                                            *)
Remember(w) ==
  /\ At(w, "remember")
  /\ cache' = [cache EXCEPT ![ProcOf[w]][worker[w].cred] =
                 [answer |-> worker[w].answer, left |-> CacheTTL,
                  fill |-> worker[w].fill, bumped |-> worker[w].bumped]]
  /\ Goes(w, [at |-> "admitted", cred |-> worker[w].cred, answer |-> worker[w].answer])
  /\ UNCHANGED <<config, accounts, sessions, lock, changes, ghosts>>

(* provision_proxy_user for an unknown name: the account and its identity  *)
(* in one transaction; a competing writer's is found by the next request.  *)
ProvisionProxyUser(w, u) ==
  /\ w \in Threads /\ At(w, "idle") /\ mode = "trusted_proxy"
  /\ accounts[u] = None /\ (backend = "sqlite" \/ lock = None)
  /\ changes < cast.changes /\ changes' = changes + 1
  /\ accounts' = [accounts EXCEPT ![u] = [active |-> TRUE, admin |-> FALSE, legacy |-> FALSE,
                                           linked |-> TRUE, password |-> "none"]]
  /\ wanted' = [wanted EXCEPT ![u] = TRUE]
  /\ Goes(w, [at |-> "bump"])
  /\ UNCHANGED <<config, sessions, lock, cache, crossed, raced>>
  /\ Noted(ProcOf[w])

(* A request that changes no account ends. *)
Serve(w) ==
  /\ At(w, "admitted") /\ Goes(w, Idle)
  /\ UNCHANGED <<config, accounts, sessions, lock, cache, changes, ghosts>>

\* Mutant: nothing is invalidated.
InvalidateNothing(w) ==
  /\ At(w, "bump") /\ Goes(w, Idle)
  /\ UNCHANGED <<config, accounts, sessions, lock, cache, changes, ghosts>>

(* _invalidate_authentication, after the commit: the entries of this       *)
(* process are void, a fill in flight is not.                              *)
InvalidateAuthentication(w) ==
  LET p == ProcOf[w]
  IN  /\ At(w, "bump")
      /\ cache' = [cache EXCEPT ![p] = [c \in Creds |-> None]]
      /\ worker' = [x \in Workers |->
                      IF x = w THEN Idle
                      ELSE IF ProcOf[x] = p /\ At(x, "remember")
                           THEN [worker[x] EXCEPT !.bumped = TRUE] ELSE worker[x]]
      /\ lapsed' = [c \in Creds |-> IF Held(c, cache', worker') THEN lapsed[c] ELSE 0]
      /\ changedBy' = [c \in Creds |-> IF Held(c, cache', worker') THEN changedBy[c] ELSE None]
      /\ UNCHANGED <<config, accounts, sessions, lock, changes, wanted, crossed, raced>>

-----------------------------------------------------------------------------
(* Sessions *)

(* authenticate_password, to the end of the verification. *)
VerifyPassword(w, u) ==
  /\ w \in Threads /\ At(w, "idle") /\ mode = "password"
  /\ accounts[u] # None /\ accounts[u].password # "none" /\ accounts[u].active
  /\ Goes(w, [at |-> "verified", user |-> u, password |-> accounts[u].password,
              rehash |-> accounts[u].legacy, late |-> FALSE])
  /\ UNCHANGED <<config, accounts, sessions, lock, cache, changes, ghosts>>

(* Its writes: the hash again with current parameters when it had others,  *)
(* and the session.                                                        *)
CreateSession(w, t) ==
  LET v == worker[w]
  IN  /\ At(w, "verified") /\ sessions[t] = None
      /\ \A s \in Tokens : s < t => sessions[s] # None
      /\ accounts' = [accounts EXCEPT ![v.user] =
                        IF v.rehash THEN [@ EXCEPT !.password = v.password, !.legacy = FALSE] ELSE @]
      /\ sessions' = [sessions EXCEPT ![t] = [user |-> v.user, revoked |-> FALSE,
                                               outlived |-> v.late, late |-> v.late]]
      /\ Goes(w, Idle)
      /\ UNCHANGED <<config, lock, cache, changes, wanted, crossed, raced>>
      /\ Noted(ProcOf[w])

(* The store's revoke_session, called by the logout route. *)
RevokeSession(w) ==
  LET t == worker[w].cred
  IN  /\ At(w, "admitted") /\ t \in Tokens
      /\ sessions' = [sessions EXCEPT ![t].revoked = TRUE]
      /\ Goes(w, [at |-> "bump"])
      /\ UNCHANGED <<config, accounts, lock, cache, changes, wanted, crossed, raced>>
      /\ Noted(ProcOf[w])

(* The session's lifetime ends: it resolves no more, like a revoked one.   *)
SessionExpires(t) ==
  /\ sessions[t] # None /\ ~sessions[t].revoked
  /\ sessions' = [sessions EXCEPT ![t].revoked = TRUE]
  /\ UNCHANGED <<config, accounts, lock, cache, worker, changes, wanted, crossed, raced>>
  /\ Noted(None)

\* Mutant: the sessions of the account stay open.
KeptFor(u) == sessions

RevokedFor(u) ==
  [t \in Tokens |-> IF sessions[t] # None /\ sessions[t].user = u
                    THEN [sessions[t] EXCEPT !.revoked = TRUE] ELSE sessions[t]]

(* History: a session of u that is open in what a reset or a disabling of  *)
(* the account leaves has outlived it, however it came to be.              *)
Outlived(u, left) ==
  [t \in Tokens |-> IF left[t] # None /\ left[t].user = u /\ ~left[t].revoked
                    THEN [left[t] EXCEPT !.outlived = TRUE, !.late = FALSE] ELSE left[t]]

(* History: a login of u that is past its verification now is late, and    *)
(* after a reset the password it verified is superseded.                   *)
Late(u, reset, ws) ==
  [x \in Workers |->
     IF ws[x].at = "verified" /\ ws[x].user = u
     THEN [ws[x] EXCEPT !.late = TRUE, !.password = IF reset THEN "superseded" ELSE @] ELSE ws[x]]

-----------------------------------------------------------------------------
(* Account changes *)

(* require_admin reads the roles the request was admitted with; the admin  *)
(* command asks nobody.                                                    *)
MayAdminister(w) == IF w \in Shells THEN At(w, "idle")
                    ELSE At(w, "admitted") /\ worker[w].answer.admin

Change(w) == MayAdminister(w) /\ changes < cast.changes /\ changes' = changes + 1

(* A writer of the admin role's rows waits for the lock. *)
LockFree == backend = "sqlite" \/ lock = None

(* History: the checks this commit overtakes, and the edits in flight an   *)
(* explicit request for u overtakes.                                       *)
Overtaken(w, next) ==
  [x \in Workers |->
     IF x = w THEN next
     ELSE IF At(x, "checked") THEN [worker[x] EXCEPT !.overtaken = TRUE] ELSE worker[x]]

Crossing(w, u) ==
  IF \E x \in Workers \ {w} : worker[x].at \in {"loaded", "checked"} /\ worker[x].user = u
  THEN crossed \cup {u} ELSE crossed

CreateUser(w, u) ==
  /\ Change(w) /\ accounts[u] = None /\ LockFree
  /\ \E admin \in BOOLEAN :
       accounts' = [accounts EXCEPT ![u] =
         [active |-> TRUE, admin |-> admin, legacy |-> FALSE, linked |-> mode = "trusted_proxy",
          password |-> FirstPassword]]
  /\ wanted' = [wanted EXCEPT ![u] = TRUE]
  /\ worker' = Overtaken(w, [at |-> "bump"])
  /\ UNCHANGED <<config, sessions, lock, cache, crossed, raced>>
  /\ Noted(ProcOf[w])

GrantRole(w, u) ==
  /\ Change(w) /\ accounts[u] # None /\ ~accounts[u].admin /\ LockFree
  /\ accounts' = [accounts EXCEPT ![u].admin = TRUE]
  /\ worker' = Overtaken(w, [at |-> "bump"])
  /\ UNCHANGED <<config, sessions, lock, cache, wanted, crossed, raced>>
  /\ Noted(ProcOf[w])

ResetPassword(w, u) ==
  /\ Change(w) /\ accounts[u] # None
  /\ accounts' = [accounts EXCEPT ![u].password = "current", ![u].legacy = FALSE]
  /\ sessions' = Outlived(u, RevokedFor(u))
  /\ worker' = Late(u, TRUE, [worker EXCEPT ![w] = [at |-> "bump"]])
  /\ UNCHANGED <<config, lock, cache, wanted, crossed, raced>>
  /\ Noted(ProcOf[w])

(* set_user_active(is_active=True), the enable-user command. *)
EnableUser(w, u) ==
  /\ w \in Shells /\ Change(w) /\ accounts[u] # None
  /\ accounts' = [accounts EXCEPT ![u].active = TRUE]
  /\ wanted' = [wanted EXCEPT ![u] = TRUE] /\ crossed' = Crossing(w, u)
  /\ worker' = Overtaken(w, [at |-> "bump"])
  /\ UNCHANGED <<config, sessions, lock, cache, raced>>
  /\ Noted(ProcOf[w])

\* Mutant: an edit that does not say leaves the account enabled.
LoadAccountEnabled(w, u, ask) ==
  /\ w \in Threads /\ Change(w) /\ accounts[u] # None
  /\ Goes(w, [at |-> "loaded", user |-> u, ask |-> ask,
              active |-> IF ask = None THEN TRUE ELSE ask])
  /\ UNCHANGED <<config, accounts, sessions, lock, cache, ghosts>>

(* The update_user route: an edit that says nothing of the account's state *)
(* writes back the one it loads here.                                      *)
LoadAccount(w, u, ask) ==
  /\ w \in Threads /\ Change(w) /\ accounts[u] # None
  /\ Goes(w, [at |-> "loaded", user |-> u, ask |-> ask,
              active |-> IF ask = None THEN accounts[u].active ELSE ask])
  /\ UNCHANGED <<config, accounts, sessions, lock, cache, ghosts>>

\* Mutant: disabled administrators count as well.
IsLastAdminAny(u) == u \in Admins /\ Cardinality(Admins) <= 1

(* _is_last_admin *)
IsLastAdmin(u) == u \in Admins /\ Cardinality(ActiveAdmins) <= 1

(* The check of a guarded change passes and, on PostgreSQL, keeps the row  *)
(* of the admin role locked.                                               *)
Guarded(w, change) ==
  /\ LockFree /\ ~IsLastAdmin(change.user)
  /\ lock' = IF backend = "postgresql" THEN w ELSE lock
  /\ Goes(w, change)

(* update_account reads the account; only one that is enabled now is       *)
(* checked before it is disabled.                                          *)
CheckUpdate(w) ==
  LET o == worker[w]
      idle == ~accounts[o.user].active
      change == [at |-> "checked", kind |-> "update", user |-> o.user, ask |-> o.ask,
                 active |-> o.active, unguarded |-> ~o.active /\ idle, overtaken |-> FALSE]
  IN  /\ At(w, "loaded")
      /\ \/ (o.active \/ idle) /\ Goes(w, change) /\ UNCHANGED lock
         \/ ~o.active /\ ~idle /\ Guarded(w, change)
      /\ UNCHANGED <<config, accounts, sessions, cache, changes, ghosts>>

(* The check refuses: the request ends with a conflict. *)
RefuseUpdate(w) ==
  /\ At(w, "loaded") /\ ~worker[w].active /\ accounts[worker[w].user].active
  /\ LockFree /\ IsLastAdmin(worker[w].user)
  /\ Goes(w, Idle)
  /\ UNCHANGED <<config, accounts, sessions, lock, cache, changes, ghosts>>

(* set_user_active(is_active=False), the disable-user command. *)
CheckDisable(w, u) ==
  /\ w \in Shells /\ Change(w) /\ accounts[u] # None
  /\ Guarded(w, [at |-> "checked", kind |-> "disable", user |-> u, ask |-> FALSE, active |-> FALSE,
                 unguarded |-> FALSE, overtaken |-> FALSE])
  /\ UNCHANGED <<config, accounts, sessions, cache, ghosts>>

CheckRevoke(w, u) ==
  /\ Change(w) /\ accounts[u] # None
  /\ Guarded(w, [at |-> "checked", kind |-> "revoke", user |-> u, ask |-> None, active |-> FALSE,
                 unguarded |-> FALSE, overtaken |-> FALSE])
  /\ UNCHANGED <<config, accounts, sessions, cache, ghosts>>

(* The write and the commit of a change that was checked.  A role that is  *)
(* no longer assigned rolls the transaction back.                          *)
CommitChange(w) ==
  LET o == worker[w]
      u == o.user
      acts == o.kind = "revoke" => accounts[u].admin
      disables == o.kind # "revoke" /\ ~o.active
  IN  /\ At(w, "checked")
      /\ accounts' = IF o.kind = "revoke" THEN [accounts EXCEPT ![u].admin = FALSE]
                     ELSE [accounts EXCEPT ![u].active = o.active]
      /\ sessions' = IF disables THEN Outlived(u, RevokedFor(u)) ELSE sessions
      /\ lock' = IF lock = w THEN None ELSE lock
      /\ wanted' = [wanted EXCEPT ![u] = IF o.ask # None THEN o.ask ELSE @]
      /\ crossed' = IF o.ask # None THEN Crossing(w, u) ELSE crossed
      /\ raced' = (raced \/ (acts /\ o.overtaken /\ (backend = "sqlite" \/ o.unguarded)))
      /\ worker' = LET ws == Overtaken(w, IF acts THEN [at |-> "bump"] ELSE Idle)
                   IN  IF disables THEN Late(u, FALSE, ws) ELSE ws
      /\ UNCHANGED <<config, cache, changes>>
      /\ Noted(ProcOf[w])

(* External: time passes. *)
Tick ==
  /\ \E c \in Creds : Held(c, cache, worker)
  /\ \A w \in Workers : At(w, "remember") => worker[w].fill < MaxFill
  /\ worker' = [w \in Workers |-> IF At(w, "remember")
                                  THEN [worker[w] EXCEPT !.fill = @ + 1] ELSE worker[w]]
  /\ cache' = [p \in Procs |-> [c \in Creds |->
                 IF cache[p][c] = None \/ cache[p][c].left = 1 THEN None
                 ELSE [cache[p][c] EXCEPT !.left = @ - 1]]]
  /\ lapsed' = [c \in Creds |-> IF ~Held(c, cache', worker') THEN 0
                              ELSE IF lapsed[c] > CacheTTL + MaxFill THEN lapsed[c] ELSE lapsed[c] + 1]
  /\ changedBy' = [c \in Creds |-> IF Held(c, cache', worker') THEN changedBy[c] ELSE None]
  /\ UNCHANGED <<config, accounts, sessions, lock, changes, wanted, crossed, raced>>

RequestStep(w) ==
  \/ \E c \in Creds : CachedRequest(w, c) \/ ResolveRequest(w, c)
  \/ \E u \in Users : ProvisionProxyUser(w, u) \/ VerifyPassword(w, u)
  \/ \E t \in Tokens : CreateSession(w, t)
  \/ Remember(w) \/ Serve(w) \/ InvalidateAuthentication(w) \/ RevokeSession(w)

ChangeStep(w) ==
  \/ \E u \in Users : \/ CreateUser(w, u) \/ GrantRole(w, u) \/ ResetPassword(w, u)
                      \/ EnableUser(w, u) \/ CheckDisable(w, u) \/ CheckRevoke(w, u)
                      \/ \E ask \in {None, TRUE, FALSE} : LoadAccount(w, u, ask)
  \/ CheckUpdate(w) \/ RefuseUpdate(w) \/ CommitChange(w)

Next ==
  \/ \E w \in cast.workers : RequestStep(w) \/ ChangeStep(w)
  \/ \E t \in Tokens : SessionExpires(t)
  \/ Tick

Spec == Init /\ [][Next]_vars
-----------------------------------------------------------------------------
(* Properties *)

Plain == [at : {"idle", "bump"}]
Admitted == [at : {"admitted"}, cred : Creds, answer : Principals]
Filling == [at : {"remember"}, cred : Creds, answer : Principals, fill : 0..MaxFill,
            bumped : BOOLEAN]
Verified == [at : {"verified"}, user : Users, password : {"current", "superseded"},
             rehash : BOOLEAN, late : BOOLEAN]
Loaded == [at : {"loaded"}, user : Users, ask : BOOLEAN \cup {None}, active : BOOLEAN]
Checked == [at : {"checked"}, kind : {"update", "disable", "revoke"}, user : Users,
            ask : BOOLEAN \cup {None}, active : BOOLEAN, unguarded : BOOLEAN, overtaken : BOOLEAN]

WorkerStates == Plain \cup Admitted \cup Filling \cup Verified \cup Loaded \cup Checked

(* Type correctness; on PostgreSQL the lock is held exactly by the worker  *)
(* between a passed check of the last administrator and its commit, on     *)
(* SQLite by nobody.                                                       *)
TypeOK ==
  /\ backend \in Backends /\ mode \in Modes /\ cast \in Casts
  /\ accounts \in [Users -> Accounts \cup {None}]
  /\ sessions \in [Tokens -> Sessions \cup {None}]
  /\ cache \in [Procs -> [Creds -> Entries \cup {None}]]
  /\ worker \in [Workers -> WorkerStates]
  /\ lock \in Workers \cup {None}
  /\ lock # None => backend = "postgresql" /\ At(lock, "checked")
  /\ changes \in 0..cast.changes
  /\ lapsed \in [Creds -> Nat] /\ changedBy \in [Creds -> Procs \cup {None}]
  /\ wanted \in [Users -> BOOLEAN] /\ crossed \subseteq Users /\ raced \in BOOLEAN

(* "Cannot disable the last active administrator": some account can always *)
(* administer.  _is_last_admin promises it for changes that do not         *)
(* overlap.  Of overlapping ones, PostgreSQL lets through only an edit     *)
(* that found its account disabled, and so did not check, and wrote that   *)
(* back after others had relied on the account being enabled; SQLite, which*)
(* ignores FOR UPDATE, any change overtaken between its check and commit.  *)
AdminRemains == ActiveAdmins = {} => raced

(* A request is admitted on an answer the store no longer gives only while *)
(* the cached entry lives: no longer after the change than the time to     *)
(* live and the time its own fill took between reading the store and       *)
(* remembering.  In the process that made the change, and has invalidated  *)
(* its cache since, only a fill that was in flight then leaves such an     *)
(* entry behind.                                                           *)
StaleExplained ==
  \A p \in Procs, c \in Creds :
    LET e == cache[p][c]
    IN  e # None /\ e.answer # Answer(c) =>
          /\ lapsed[c] + e.left <= CacheTTL + e.fill
          /\ changedBy[c] = p /\ (\A w \in Workers : ProcOf[w] = p => ~At(w, "bump")) => e.bumped

(* Disabling an account and resetting its password end its sessions, and   *)
(* the password set last is the one that counts.  No session that was open *)
(* when such a change committed is still open; one that rests on what was  *)
(* verified before the change, or an older password that is back, comes    *)
(* from a login that was past its verification when the change committed,  *)
(* and wrote its session (and its new hash of the old password) afterwards.*)
CredentialsRevoked ==
  /\ \A t \in Tokens :
       sessions[t] # None /\ ~sessions[t].revoked /\ sessions[t].outlived => sessions[t].late
  /\ \A u \in Users :
       accounts[u] # None /\ accounts[u].password = "superseded"
         => \E t \in Tokens : sessions[t] # None /\ sessions[t].user = u /\ sessions[t].late

(* An account is enabled or disabled as somebody last asked, whatever else *)
(* was edited, unless an edit of it was under way when that was asked: the *)
(* update_user route writes back the state it loaded.                      *)
ActiveAsAsked ==
  \A u \in Users : accounts[u] # None /\ accounts[u].active # wanted[u] => u \in crossed
=============================================================================
