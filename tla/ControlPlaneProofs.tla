------------------------- MODULE ControlPlaneProofs -------------------------
(***************************************************************************)
(* Proofs about ControlPlane, for any accounts, tokens, threads, commands  *)
(* and processes, and any time to live of the cache.                       *)
(*                                                                         *)
(* None of the properties is inductive.  What is missing is what a worker  *)
(* between two of its steps may rely on: that a guarded change which was   *)
(* not overtaken, or holds the lock, still leaves another administrator;   *)
(* that an edit holds the state its account has, unless something that was *)
(* asked for crossed it; that a verified login with a superseded password  *)
(* is late; and that an answer on its way into the cache is stale only for *)
(* as long as its fill has taken.  The steps fall into three kinds, each   *)
(* with a lemma of its own: those that change only the worker's own state  *)
(* (LocalStep, UncheckedStep, CheckedStep), those that write the store and *)
(* note whose answer changed (StoreStep, EditedAccount, NewAccount), and   *)
(* those of the cache.                                                     *)
(***************************************************************************)
EXTENDS ControlPlane, FiniteSetTheorems, TLAPS

(* Whom a worker's state names is there. *)
Known(s) ==
  /\ s.at \in {"verified", "loaded", "checked"} => accounts[s.user] # None
  /\ s.at \in {"admitted", "remember"} /\ s.cred \in Tokens => sessions[s.cred] # None

\* Accounts and sessions are never deleted, so whoever is named is there.
PresentInv ==
  /\ \A t \in Tokens : sessions[t] # None => accounts[sessions[t].user] # None
  /\ \A p \in Procs, t \in Tokens : cache[p][t] # None => sessions[t] # None
  /\ \A w \in Workers : Known(worker[w])

\* A change that was checked because it may take the last administrator away.
Guards(s) == s.at = "checked" /\ ~s.unguarded /\ (s.kind = "revoke" \/ ~s.active)

\* An edit that was not checked because it found its account disabled.
Unguarded(s) == s.at = "checked" /\ s.unguarded

\* On PostgreSQL a guarded change holds the lock; what is unguarded disables.
LockInv ==
  /\ backend = "postgresql" => \A w \in Workers : Guards(worker[w]) => lock = w
  /\ \A w \in Workers : Unguarded(worker[w]) => worker[w].kind = "update" /\ ~worker[w].active

\* Until something raced: somebody administers, a guarded change leaves
\* somebody else, and what an unguarded edit disables is disabled already.
AdminInv ==
  ~raced =>
    /\ ActiveAdmins # {}
    /\ \A w \in Workers : Guards(worker[w]) /\ (~worker[w].overtaken \/ lock = w)
         => ActiveAdmins \ {worker[w].user} # {}
    /\ \A w \in Workers : Unguarded(worker[w]) /\ ~worker[w].overtaken
         => ~accounts[worker[w].user].active

\* An edit holds what was asked for or what the account has, unless crossed.
Asking(s) ==
  /\ s.at = "loaded" \/ (s.at = "checked" /\ s.kind # "revoke") =>
       IF s.ask = None THEN s.active = accounts[s.user].active \/ s.user \in crossed
                       ELSE s.active = s.ask
  /\ s.at = "checked" /\ s.kind = "revoke" => s.ask = None

\* Accounts and the edits in flight are as asked for.
AskInv == ActiveAsAsked /\ \A w \in Workers : Asking(worker[w])

\* A login of the user outlasted a change of its account.
LateLogin(u) == \E t \in Tokens : sessions[t] # None /\ sessions[t].user = u /\ sessions[t].late

\* A verified login knows a superseded password only if it is late, or one was.
Entering(s) == s.at = "verified" /\ s.password = "superseded" => s.late \/ LateLogin(s.user)

\* Sessions, passwords and logins in flight.
CredInv ==
  /\ \A t \in Tokens : sessions[t] # None => sessions[t].outlived = sessions[t].late
  /\ \A u \in Users : accounts[u] # None /\ accounts[u].password = "superseded" => LateLogin(u)
  /\ \A w \in Workers : Entering(worker[w])

\* A worker of the process has yet to invalidate its cache.
Bumping(p) == \E w \in Workers : ProcOf[w] = p /\ At(w, "bump")

\* A fill in flight: its answer is outdated no longer than the fill has taken.
Fresh(p, s) ==
  s.at = "remember" /\ s.answer # Answer(s.cred) =>
    /\ lapsed[s.cred] <= s.fill
    /\ changedBy[s.cred] = p /\ ~Bumping(p) => s.bumped

\* Entries and fills.
StaleInv == StaleExplained /\ \A w \in Workers : Fresh(ProcOf[w], worker[w])

\* The parts that make the properties inductive.
IInv == PresentInv /\ LockInv /\ AdminInv /\ AskInv /\ CredInv /\ StaleInv

\* The inductive invariant.
Inv == TypeOK /\ IInv

-----------------------------------------------------------------------------
(* What a commit leaves of another worker's state. *)
Kept(s, t) ==
  /\ t.at = s.at
  /\ s.at \notin {"verified", "checked"} => t = s
  /\ s.at = "verified" => /\ t.user = s.user /\ t.rehash = s.rehash
                          /\ t.password = s.password \/ t.late
                          /\ s.late => t.late
  /\ s.at = "checked" => /\ t.user = s.user /\ t.kind = s.kind /\ t.ask = s.ask
                         /\ t.active = s.active /\ t.unguarded = s.unguarded
                         /\ s.overtaken => t.overtaken

\* Every worker is kept, or it ended and was not in one of the given states.
Carried(ats) ==
  \A x \in Workers : \/ worker'[x] \in Plain /\ worker[x].at \notin ats
                     \/ Kept(worker[x], worker'[x])

\* The stage of a worker tells which fields its state has.
LEMMA StateKinds ==
  ASSUME NEW s \in WorkerStates
  PROVE  /\ s.at \in {"idle", "bump"} => s \in Plain
         /\ s.at = "admitted" => s \in Admitted
         /\ s.at = "remember" => s \in Filling
         /\ s.at = "verified" => s \in Verified
         /\ s.at = "loaded" => s \in Loaded
         /\ s.at = "checked" => s \in Checked
         /\ s.at \in {"idle", "bump", "admitted", "remember", "verified", "loaded", "checked"}
BY DEF WorkerStates, Plain, Admitted, Filling, Verified, Loaded, Checked

\* Idle and about to invalidate are states of a worker.
LEMMA PlainStates == Idle \in Plain /\ [at |-> "bump"] \in Plain /\ Plain \subseteq WorkerStates
BY DEF Idle, Plain, WorkerStates

\* A state that does not change is kept.
LEMMA KeptItself == ASSUME NEW s PROVE Kept(s, s)
BY DEF Kept

\* A commit marks the checked changes of others and keeps all else.
LEMMA OvertakenKeeps ==
  ASSUME worker \in [Workers -> WorkerStates], NEW w \in Workers, NEW next \in Plain
  PROVE  /\ Overtaken(w, next) \in [Workers -> WorkerStates]
         /\ Overtaken(w, next)[w] = next
         /\ \A x \in Workers \ {w} : /\ Kept(worker[x], Overtaken(w, next)[x])
                                     /\ worker[x].at = "checked" => Overtaken(w, next)[x].overtaken
<1> DEFINE o(x) == [worker[x] EXCEPT !.overtaken = TRUE]
<1>1. ASSUME NEW x \in Workers, At(x, "checked")
      PROVE  o(x) \in Checked /\ Kept(worker[x], o(x)) /\ o(x).overtaken
  <2>1. worker[x] \in Checked
    BY <1>1, StateKinds DEF At
  <2>2. o(x) \in Checked
    BY <2>1 DEF Checked
  <2>3. /\ o(x).at = worker[x].at /\ o(x).user = worker[x].user /\ o(x).kind = worker[x].kind
        /\ o(x).ask = worker[x].ask /\ o(x).active = worker[x].active
        /\ o(x).unguarded = worker[x].unguarded /\ o(x).overtaken
    BY <2>1 DEF Checked
  <2> QED  BY <1>1, <2>2, <2>3 DEF Kept, At
<1>2. Checked \subseteq WorkerStates /\ next \in WorkerStates
  BY PlainStates DEF WorkerStates
<1> HIDE DEF o
<1>3. Overtaken(w, next) =
        [x \in Workers |-> IF x = w THEN next ELSE IF At(x, "checked") THEN o(x) ELSE worker[x]]
  BY DEF Overtaken, o
<1>4. ASSUME NEW x \in Workers \ {w}
      PROVE  /\ Kept(worker[x], Overtaken(w, next)[x])
             /\ worker[x].at = "checked" => Overtaken(w, next)[x].overtaken
  <2>1. CASE At(x, "checked")
    BY <1>1, <1>3, <2>1
  <2>2. CASE ~At(x, "checked")
    BY <1>3, <2>2, KeptItself DEF At
  <2> QED  BY <2>1, <2>2
<1> QED  BY <1>1, <1>2, <1>3, <1>4

\* A disabled or reset account marks its logins in flight and keeps all else.
LEMMA LateKeeps ==
  ASSUME NEW ws \in [Workers -> WorkerStates], NEW u \in Users, NEW reset \in BOOLEAN
  PROVE  /\ Late(u, reset, ws) \in [Workers -> WorkerStates]
         /\ \A x \in Workers : /\ Kept(ws[x], Late(u, reset, ws)[x])
                               /\ ws[x].at # "verified" => Late(u, reset, ws)[x] = ws[x]
<1> DEFINE l(x) == [ws[x] EXCEPT !.late = TRUE, !.password = IF reset THEN "superseded" ELSE @]
           hit(x) == ws[x].at = "verified" /\ ws[x].user = u
<1>1. ASSUME NEW x \in Workers, ws[x].at = "verified"
      PROVE  l(x) \in Verified /\ Kept(ws[x], l(x))
  <2>1. ws[x] \in Verified
    BY <1>1, StateKinds
  <2>2. l(x) \in Verified
    BY <2>1 DEF Verified
  <2>3. /\ l(x).at = ws[x].at /\ l(x).user = ws[x].user /\ l(x).rehash = ws[x].rehash
        /\ l(x).late
    BY <2>1 DEF Verified
  <2> QED  BY <1>1, <2>2, <2>3 DEF Kept
<1>2. Verified \subseteq WorkerStates
  BY DEF WorkerStates
<1>3. Late(u, reset, ws) = [x \in Workers |-> IF hit(x) THEN l(x) ELSE ws[x]]
  BY DEF Late
<1> HIDE DEF l
<1>4. ASSUME NEW x \in Workers
      PROVE  /\ Kept(ws[x], Late(u, reset, ws)[x])
             /\ ws[x].at # "verified" => Late(u, reset, ws)[x] = ws[x]
  <2>1. CASE hit(x)
    BY <1>1, <1>3, <2>1
  <2>2. CASE ~hit(x)
    <3> HIDE DEF hit
    <3> QED  BY <1>3, <2>2, KeptItself
  <2> QED  BY <2>1, <2>2
<1>5. ASSUME NEW x \in Workers, hit(x) PROVE l(x) \in WorkerStates
  BY <1>1, <1>2, <1>5
<1> HIDE DEF hit
<1> QED  BY <1>3, <1>4, <1>5

\* What is kept twice is kept.
LEMMA KeptTwice ==
  ASSUME NEW r, NEW s, NEW t, Kept(r, s), Kept(s, t)
  PROVE  Kept(r, t)
BY DEF Kept

\* A kept state guards what it guarded, for the same user.
LEMMA KeptKind ==
  ASSUME NEW s \in WorkerStates, NEW t \in WorkerStates, Kept(s, t)
  PROVE  /\ Guards(t) <=> Guards(s)
         /\ Unguarded(t) <=> Unguarded(s)
         /\ s.at \in {"verified", "loaded", "checked"} => t.user = s.user
BY DEF Kept, Guards, Unguarded

-----------------------------------------------------------------------------
\* PresentInv survives a step that deletes nothing.
LEMMA PresentCarried ==
  ASSUME TypeOK, TypeOK', PresentInv, Carried({}),
         \A u \in Users : accounts[u] # None => accounts'[u] # None,
         \A t \in Tokens : sessions[t] # None => sessions'[t] # None,
         \A t \in Tokens : sessions'[t] # None => accounts'[sessions'[t].user] # None,
         \A p \in Procs, c \in Creds : cache'[p][c] # None => cache[p][c] # None
  PROVE  PresentInv'
<1>1. \A p \in Procs, t \in Tokens : cache'[p][t] # None => sessions'[t] # None
  BY DEF PresentInv, Creds
<1>2. ASSUME NEW x \in Workers PROVE Known(worker[x])'
  <2>0. worker[x] \in WorkerStates /\ worker'[x] \in WorkerStates /\ Known(worker[x])
    BY DEF TypeOK, PresentInv
  <2>1. CASE worker'[x] \in Plain
    BY <2>1 DEF Known, Plain
  <2>2. CASE Kept(worker[x], worker'[x])
    <3>1. ASSUME worker[x].at \in {"verified", "loaded", "checked"}
          PROVE  worker'[x].user = worker[x].user /\ worker[x].user \in Users
      BY <2>0, <2>2, <3>1, KeptKind, StateKinds DEF Verified, Loaded, Checked
    <3>2. ASSUME worker[x].at \in {"admitted", "remember"} PROVE worker'[x] = worker[x]
      BY <2>2, <3>2 DEF Kept
    <3>3. worker'[x].at = worker[x].at
      BY <2>2 DEF Kept
    <3> QED  BY <2>0, <3>1, <3>2, <3>3 DEF Known
  <2> QED  BY <2>1, <2>2 DEF Carried
<1> QED  BY <1>1, <1>2 DEF PresentInv

\* LockInv survives a step that takes no lock from a guarded change.
LEMMA LockCarried ==
  ASSUME TypeOK, TypeOK', LockInv, Carried({}), UNCHANGED backend,
         \A x \in Workers : Guards(worker'[x]) /\ lock = x => lock' = x
  PROVE  LockInv'
<1> SUFFICES ASSUME NEW x \in Workers
             PROVE  /\ backend = "postgresql" /\ Guards(worker'[x]) => lock' = x
                    /\ Unguarded(worker'[x]) => worker'[x].kind = "update" /\ ~worker'[x].active
  BY DEF LockInv
<1>0. worker[x] \in WorkerStates /\ worker'[x] \in WorkerStates
  BY DEF TypeOK
<1>1. CASE worker'[x] \in Plain
  BY <1>1 DEF Plain, Guards, Unguarded
<1>2. CASE Kept(worker[x], worker'[x])
  BY <1>0, <1>2, KeptKind DEF LockInv, Kept, Unguarded, Guards
<1> QED  BY <1>1, <1>2 DEF Carried

\* AdminInv survives a step that takes no administrator away.
LEMMA AdminCarried ==
  ASSUME TypeOK, TypeOK', AdminInv, Carried({}), UNCHANGED <<lock, raced>>,
         ActiveAdmins \subseteq ActiveAdmins',
         \A x \in Workers : Unguarded(worker'[x]) =>
           worker'[x].overtaken \/ ~accounts'[worker[x].user].active \/ accounts[worker[x].user].active
  PROVE  AdminInv'
<1> SUFFICES ASSUME ~raced PROVE AdminInv'
  BY DEF AdminInv
<1>1. ActiveAdmins' # {}
  BY DEF AdminInv
<1>2. ASSUME NEW x \in Workers, Guards(worker'[x]), ~worker'[x].overtaken \/ lock' = x
      PROVE  ActiveAdmins' \ {worker'[x].user} # {}
  <2>1. Kept(worker[x], worker'[x])
    BY <1>2 DEF Carried, Guards, Plain
  <2>2. /\ Guards(worker[x]) /\ worker'[x].user = worker[x].user
        /\ ~worker[x].overtaken \/ lock = x
    BY <1>2, <2>1, KeptKind DEF TypeOK, Kept, Guards
  <2>3. ActiveAdmins \ {worker[x].user} # {}
    BY <2>2 DEF AdminInv
  <2> QED  BY <2>2, <2>3
<1>3. ASSUME NEW x \in Workers, Unguarded(worker'[x]), ~worker'[x].overtaken
      PROVE  ~accounts'[worker'[x].user].active
  <2>1. Kept(worker[x], worker'[x])
    BY <1>3 DEF Carried, Unguarded, Plain
  <2>2. /\ Unguarded(worker[x]) /\ worker'[x].user = worker[x].user /\ ~worker[x].overtaken
    BY <1>3, <2>1, KeptKind DEF TypeOK, Kept, Unguarded
  <2>3. ~accounts[worker[x].user].active
    BY <2>2 DEF AdminInv
  <2> QED  BY <1>3, <2>2, <2>3
<1> QED  BY <1>1, <1>2, <1>3 DEF AdminInv

\* Edits in flight survive a change of other accounts, or are crossed by it.
LEMMA AskCarried ==
  ASSUME TypeOK, TypeOK', \A w \in Workers : Asking(worker[w]), Carried({}), crossed \subseteq crossed',
         \A x \in Workers : Kept(worker[x], worker'[x]) /\ worker[x].at \in {"loaded", "checked"} =>
           \/ accounts'[worker[x].user].active = accounts[worker[x].user].active
           \/ worker[x].user \in crossed'
  PROVE  \A w \in Workers : Asking(worker[w])'
<1> SUFFICES ASSUME NEW x \in Workers PROVE Asking(worker[x])'
  OBVIOUS
<1>0. worker[x] \in WorkerStates /\ worker'[x] \in WorkerStates /\ Asking(worker[x])
  BY DEF TypeOK
<1>1. CASE worker'[x] \in Plain
  BY <1>1 DEF Plain, Asking
<1>2. CASE Kept(worker[x], worker'[x])
  <2>1. CASE worker[x].at = "loaded"
    BY <1>0, <1>2, <2>1 DEF Kept, Asking
  <2>2. CASE worker[x].at = "checked"
    BY <1>0, <1>2, <2>2 DEF Kept, Asking
  <2>3. CASE worker[x].at \notin {"loaded", "checked"}
    BY <1>2, <2>3 DEF Kept, Asking
  <2> QED  BY <2>1, <2>2, <2>3
<1> QED  BY <1>1, <1>2 DEF Carried

\* Logins in flight survive a step that forgets no late login.
LEMMA CredCarried ==
  ASSUME TypeOK, TypeOK', CredInv, Carried({}),
         \A u \in Users : LateLogin(u) => LateLogin(u)'
  PROVE  \A w \in Workers : Entering(worker[w])'
<1> SUFFICES ASSUME NEW x \in Workers PROVE Entering(worker[x])'
  OBVIOUS
<1>0. worker[x] \in WorkerStates /\ Entering(worker[x])
  BY DEF TypeOK, CredInv
<1>1. CASE worker'[x] \in Plain
  BY <1>1 DEF Plain, Entering
<1>2. CASE Kept(worker[x], worker'[x])
  <2>1. CASE worker[x].at = "verified"
    <3>1. worker[x].user \in Users
      BY <1>0, <2>1, StateKinds DEF Verified
    <3>2. worker'[x].password = "superseded" => worker'[x].late \/ LateLogin(worker[x].user)'
      BY <1>0, <1>2, <2>1, <3>1 DEF Kept, Entering
    <3> QED  BY <1>2, <2>1, <3>2 DEF Kept, Entering
  <2>2. CASE worker[x].at # "verified"
    BY <1>2, <2>2 DEF Kept, Entering
  <2> QED  BY <2>1, <2>2
<1> QED  BY <1>1, <1>2 DEF Carried

\* StaleExplained for one entry.
EntryFresh(p, c) ==
  cache[p][c] # None /\ cache[p][c].answer # Answer(c) =>
    /\ lapsed[c] + cache[p][c].left <= CacheTTL + cache[p][c].fill
    /\ changedBy[c] = p /\ ~Bumping(p) => cache[p][c].bumped

\* StaleExplained, entry by entry.
LEMMA EntriesFresh == StaleExplained <=> \A p \in Procs, c \in Creds : EntryFresh(p, c)
BY DEF StaleExplained, EntryFresh, Bumping

\* A change of the store dates the answers it outdates, in the process that
\* is about to invalidate its cache (StaleInv across Noted).
LEMMA StaleNoted ==
  ASSUME TypeOK, TypeOK', StaleInv, Carried({"bump"}), UNCHANGED cache,
         NEW p \in Procs \cup {None}, Noted(p),
         \A c \in Creds : Held(c, cache, worker) /\ Answer(c)' # Answer(c) => p = None \/ Bumping(p)'
  PROVE  StaleInv'
<1>1. \A q \in Procs : Bumping(q) => Bumping(q)'
  <2> SUFFICES ASSUME NEW q \in Procs, NEW w \in Workers, ProcOf[w] = q, worker[w].at = "bump"
               PROVE  Bumping(q)'
    BY DEF Bumping, At
  <2>1. worker'[w].at = "bump"
    BY DEF Carried, Kept
  <2> QED  BY <2>1 DEF Bumping, At
<1>2. ASSUME NEW c \in Creds, Held(c, cache, worker)
      PROVE  \/ lapsed'[c] = 0 /\ changedBy'[c] = p /\ (p = None \/ Bumping(p)')
             \/ lapsed'[c] = lapsed[c] /\ changedBy'[c] = changedBy[c] /\ Answer(c)' = Answer(c)
  BY <1>2 DEF Noted
<1>3. ASSUME NEW q \in Procs, NEW c \in Creds PROVE EntryFresh(q, c)'
  <2> DEFINE e == cache[q][c]
  <2>0. /\ e \in Entries \cup {None} /\ e' = e /\ lapsed[c] \in Nat
        /\ lapsed'[c] \in Nat /\ EntryFresh(q, c)
    BY EntriesFresh DEF StaleInv, TypeOK
  <2>1. CASE e = None
    BY <2>0, <2>1 DEF EntryFresh
  <2>2. CASE e # None
    <3>1. Held(c, cache, worker) /\ e.left \in 1..CacheTTL /\ e.fill \in 0..MaxFill
      BY <2>0, <2>2 DEF Held, Entries
    <3>2. CASE lapsed'[c] = 0 /\ changedBy'[c] = p /\ (p = None \/ Bumping(p)')
      <4>1. 0 + e.left <= CacheTTL + e.fill
        BY <3>1, WorkersAssumption
      <4> HIDE DEF e
      <4>2. changedBy'[c] = q => Bumping(q)'
        BY <3>2, NoneAssumption
      <4> QED  BY <2>0, <3>2, <4>1, <4>2 DEF EntryFresh, e
    <3>3. CASE lapsed'[c] = lapsed[c] /\ changedBy'[c] = changedBy[c] /\ Answer(c)' = Answer(c)
      BY <1>1, <2>0, <3>3 DEF EntryFresh
    <3> QED  BY <1>2, <3>1, <3>2, <3>3
  <2> QED  BY <2>1, <2>2
<1>4. ASSUME NEW x \in Workers PROVE Fresh(ProcOf[x], worker[x])'
  <2> SUFFICES ASSUME worker'[x].at = "remember" PROVE Fresh(ProcOf[x], worker[x])'
    BY DEF Fresh
  <2>1. worker'[x] = worker[x] /\ worker[x] \in Filling
    BY StateKinds DEF Carried, Kept, Plain, TypeOK
  <2> DEFINE c == worker[x].cred
  <2>2. c \in Creds /\ Held(c, cache, worker) /\ worker[x].fill \in Nat /\ ProcOf[x] \in Procs
    BY <2>1, WorkersAssumption DEF Filling, Held
  <2>3. Fresh(ProcOf[x], worker[x])
    BY DEF StaleInv
  <2>4. PICK d \in Creds : d = c
    BY <2>2
  <2> HIDE DEF c
  <2>5. Held(d, cache, worker)
    BY <2>2, <2>4
  <2>6. CASE lapsed'[d] = 0 /\ changedBy'[d] = p /\ (p = None \/ Bumping(p)')
    <3>1. 0 <= worker[x].fill
      BY <2>2
    <3>2. changedBy'[d] = ProcOf[x] => Bumping(ProcOf[x])'
      BY <2>2, <2>6, NoneAssumption
    <3> QED  BY <2>1, <2>4, <2>6, <3>1, <3>2 DEF Fresh, c
  <2>7. CASE lapsed'[d] = lapsed[d] /\ changedBy'[d] = changedBy[d] /\ Answer(d)' = Answer(d)
    <3>1. Answer(worker[x].cred)' = Answer(worker[x].cred)
      BY <2>1, <2>4, <2>7 DEF c
    <3> QED  BY <1>1, <2>1, <2>2, <2>3, <2>4, <2>7, <3>1 DEF Fresh, c
  <2> QED  BY <1>2, <2>5, <2>6, <2>7
<1> QED  BY <1>3, <1>4, EntriesFresh DEF StaleInv, StaleExplained, EntryFresh, Bumping

-----------------------------------------------------------------------------
\* A step that changes its worker's own state needs to account for that only.
LEMMA LocalStep ==
  ASSUME TypeOK, PresentInv, AskInv, CredInv, StaleInv,
         NEW w \in Workers, NEW s \in WorkerStates, Goes(w, s),
         UNCHANGED <<config, accounts, sessions, cache, ghosts>>,
         worker[w].at # "bump", Known(s), Asking(s), Entering(s),
         s.at = "remember" => s.answer = Answer(s.cred)
  PROVE  PresentInv' /\ AskInv' /\ CredInv' /\ StaleInv'
<1>1. worker'[w] = s /\ \A x \in Workers \ {w} : worker'[x] = worker[x]
  BY DEF Goes, TypeOK
<1>2. \A c : Answer(c)' = Answer(c)
  BY DEF Answer, AnswerOf, config
<1>3. \A u : LateLogin(u)' <=> LateLogin(u)
  BY DEF LateLogin
<1>4. PresentInv'
  BY <1>1 DEF PresentInv, Known
<1>5. AskInv'
  <2>1. ActiveAsAsked'
    BY DEF AskInv, ActiveAsAsked, ghosts
  <2>2. ASSUME NEW x \in Workers PROVE Asking(worker[x])'
    BY <1>1 DEF AskInv, Asking, ghosts
  <2> QED  BY <2>1, <2>2 DEF AskInv
<1>6. CredInv'
  <2>2. ASSUME NEW x \in Workers PROVE Entering(worker[x])'
    BY <1>1, <1>3 DEF CredInv, Entering
  <2> QED  BY <1>3, <2>2 DEF CredInv
<1>7. StaleInv'
  <2>1. \A q \in Procs : Bumping(q) => Bumping(q)'
    BY <1>1 DEF Bumping, At
  <2>2. ASSUME NEW q \in Procs, NEW c \in Creds PROVE EntryFresh(q, c)'
    <3>1. EntryFresh(q, c)
      BY EntriesFresh DEF StaleInv
    <3> QED  BY <1>2, <2>1, <3>1 DEF EntryFresh, ghosts
  <2>3. ASSUME NEW x \in Workers PROVE Fresh(ProcOf[x], worker[x])'
    <3>0. ProcOf[x] \in Procs
      BY WorkersAssumption
    <3>1. CASE x = w
      <4>1. Answer(worker[x].cred)' = Answer(s.cred)
        BY <1>1, <1>2, <3>1
      <4> QED  BY <1>1, <3>1, <4>1 DEF Fresh
    <3>2. CASE x # w
      <4>1. Answer(worker[x].cred)' = Answer(worker[x].cred)
        BY <1>1, <1>2, <3>2
      <4> QED  BY <1>1, <2>1, <3>0, <3>2, <4>1 DEF Fresh, StaleInv, ghosts
    <3> QED  BY <3>1, <3>2
  <2> QED  BY <2>2, <2>3, EntriesFresh DEF StaleInv, StaleExplained, EntryFresh, Bumping
<1> QED  BY <1>4, <1>5, <1>6, <1>7

\* Lock and administrators across a step without a checked change.
LEMMA UncheckedStep ==
  ASSUME TypeOK, LockInv, AdminInv, NEW w \in Workers, NEW s \in WorkerStates, Goes(w, s),
         UNCHANGED <<config, accounts, lock, ghosts>>,
         worker[w].at # "checked", s.at # "checked"
  PROVE  LockInv' /\ AdminInv'
<1>1. worker'[w] = s /\ \A x \in Workers \ {w} : worker'[x] = worker[x]
  BY DEF Goes, TypeOK
<1>2. ActiveAdmins' = ActiveAdmins
  BY DEF ActiveAdmins, Admins
<1>3. \A x \in Workers : x # w \/ (~Guards(worker'[x]) /\ ~Unguarded(worker'[x]))
  BY <1>1 DEF Guards, Unguarded
<1>4. LockInv'
  BY <1>1, <1>3 DEF LockInv, config
<1>5. AdminInv'
  BY <1>1, <1>2, <1>3 DEF AdminInv, ghosts
<1> QED  BY <1>4, <1>5

\* Types across a step that changes its worker's own state and the lock.
LEMMA GoesType ==
  ASSUME TypeOK, NEW w \in Workers, NEW s \in WorkerStates, Goes(w, s),
         UNCHANGED <<config, accounts, sessions, cache, ghosts>>,
         lock = w => lock' = None \/ s.at = "checked", changes' \in 0..cast.changes,
         \/ lock' = lock
         \/ backend = "postgresql" /\ lock' = w /\ s.at = "checked"
  PROVE  TypeOK'
<1>1. worker' \in [Workers -> WorkerStates] /\ worker'[w] = s
      /\ \A x \in Workers \ {w} : worker'[x] = worker[x]
  BY DEF Goes, TypeOK
<1>2. lock' \in Workers \cup {None}
  BY DEF TypeOK
<1>3. lock' # None => backend = "postgresql" /\ worker'[lock'].at = "checked"
  BY <1>1, <1>2 DEF TypeOK, At
<1> QED  BY <1>1, <1>2, <1>3 DEF TypeOK, config, ghosts, At

\* An answer of the store names an account or a session that is there.
LEMMA AnswerKnown ==
  ASSUME TypeOK, PresentInv, NEW c \in Creds, Answer(c) # None
  PROVE  Answer(c) \in Principals /\ (c \in Tokens => sessions[c] # None)
<1>1. ASSUME NEW u \in Users, accounts[u] # None PROVE AnswerOf(u) \in Principals
  BY <1>1 DEF AnswerOf, Principals, TypeOK, Accounts
<1>2. CASE mode = "password"
  <2>1. c \in Tokens /\ sessions[c] # None /\ Answer(c) = AnswerOf(sessions[c].user)
    BY <1>2 DEF Answer
  <2>2. sessions[c].user \in Users /\ accounts[sessions[c].user] # None
    BY <2>1 DEF TypeOK, Sessions, PresentInv
  <2> QED  BY <1>1, <2>1, <2>2
<1>3. CASE mode # "password"
  <2>1. c \in Users /\ accounts[c] # None /\ Answer(c) = AnswerOf(c)
    BY <1>3 DEF Answer
  <2> QED  BY <1>1, <2>1, WorkersAssumption
<1> QED  BY <1>2, <1>3

\* _cached answers a request.
LEMMA CachedRequestInv ==
  ASSUME Inv, NEW w \in Workers, NEW c \in Creds, CachedRequest(w, c)
  PROVE  Inv'
<1> USE DEF Inv, IInv
<1> DEFINE e == cache[ProcOf[w]][c]
           s == [at |-> "admitted", cred |-> c, answer |-> e.answer]
<1>1. ProcOf[w] \in Procs /\ e \in Entries
  BY WorkersAssumption DEF CachedRequest, TypeOK
<1>2. s \in Admitted
  BY <1>1 DEF Entries, Admitted
<1>3. s \in WorkerStates
  BY <1>2 DEF WorkerStates
<1>4. /\ Goes(w, s) /\ At(w, "idle")
      /\ UNCHANGED <<config, accounts, sessions, lock, cache, changes, ghosts>>
  BY DEF CachedRequest
<1>5. Known(s)
  <2>1. c \in Tokens => sessions[c] # None
    BY <1>1 DEF PresentInv, CachedRequest
  <2> QED  BY <2>1 DEF Known
<1>6. Asking(s) /\ Entering(s) /\ s.at = "admitted"
  BY DEF Asking, Entering
<1> HIDE DEF s, e
<1>7. TypeOK'
  BY <1>3, <1>4, <1>6, GoesType DEF TypeOK, At
<1>8. PresentInv' /\ AskInv' /\ CredInv' /\ StaleInv'
  BY <1>3, <1>4, <1>5, <1>6, LocalStep DEF At
<1>9. LockInv' /\ AdminInv'
  BY <1>3, <1>4, <1>6, UncheckedStep DEF At
<1> QED  BY <1>7, <1>8, <1>9

\* The store answers a request.
LEMMA ResolveRequestInv ==
  ASSUME Inv, NEW w \in Workers, NEW c \in Creds, ResolveRequest(w, c)
  PROVE  Inv'
<1> USE DEF Inv, IInv
<1>1. Answer(c) \in Principals /\ (c \in Tokens => sessions[c] # None)
  BY AnswerKnown DEF ResolveRequest
<1>2. PICK a \in Principals : a = Answer(c)
  BY <1>1
<1> DEFINE s == [at |-> "remember", cred |-> c, answer |-> a, fill |-> 0, bumped |-> FALSE]
<1>3. s \in WorkerStates
  <2>1. s \in Filling
    BY WorkersAssumption DEF Filling
  <2> QED  BY <2>1 DEF WorkerStates
<1>4. /\ Goes(w, s) /\ At(w, "idle")
      /\ UNCHANGED <<config, accounts, sessions, lock, cache, changes, ghosts>>
  BY <1>2 DEF ResolveRequest
<1>5. Known(s) /\ Asking(s) /\ Entering(s) /\ s.at = "remember" /\ s.answer = Answer(s.cred)
  BY <1>1, <1>2 DEF Known, Asking, Entering
<1> HIDE DEF s
<1>7. TypeOK'
  BY <1>3, <1>4, <1>5, GoesType DEF TypeOK, At
<1>8. PresentInv' /\ AskInv' /\ CredInv' /\ StaleInv'
  BY <1>3, <1>4, <1>5, LocalStep DEF At
<1>9. LockInv' /\ AdminInv'
  BY <1>3, <1>4, <1>5, UncheckedStep DEF At
<1> QED  BY <1>7, <1>8, <1>9

\* A request ends, served or refused.
LEMMA EndRequestInv ==
  ASSUME Inv, NEW w \in Workers, Serve(w) \/ RefuseUpdate(w)
  PROVE  Inv'
<1> USE DEF Inv, IInv
<1>3. Idle \in WorkerStates /\ Idle.at = "idle"
  BY PlainStates DEF Idle
<1>4. /\ Goes(w, Idle) /\ worker[w].at \in {"admitted", "loaded"}
      /\ UNCHANGED <<config, accounts, sessions, lock, cache, changes, ghosts>>
  BY DEF Serve, RefuseUpdate, At
<1>5. Known(Idle) /\ Asking(Idle) /\ Entering(Idle)
  BY <1>3 DEF Known, Asking, Entering
<1>7. TypeOK'
  BY <1>3, <1>4, GoesType DEF TypeOK, At
<1>8. PresentInv' /\ AskInv' /\ CredInv' /\ StaleInv'
  BY <1>3, <1>4, <1>5, LocalStep
<1>9. LockInv' /\ AdminInv'
  BY <1>3, <1>4, UncheckedStep
<1> QED  BY <1>7, <1>8, <1>9

\* authenticate_password verifies.
LEMMA VerifyPasswordInv ==
  ASSUME Inv, NEW w \in Workers, NEW u \in Users, VerifyPassword(w, u)
  PROVE  Inv'
<1> USE DEF Inv, IInv
<1> DEFINE s == [at |-> "verified", user |-> u, password |-> accounts[u].password,
                 rehash |-> accounts[u].legacy, late |-> FALSE]
<1>3. s \in WorkerStates
  <2>1. accounts[u] \in Accounts /\ accounts[u].password # "none"
    BY DEF VerifyPassword, TypeOK
  <2>2. s \in Verified
    BY <2>1 DEF Verified, Accounts
  <2> QED  BY <2>2 DEF WorkerStates
<1>4. /\ Goes(w, s) /\ At(w, "idle") /\ accounts[u] # None
      /\ UNCHANGED <<config, accounts, sessions, lock, cache, changes, ghosts>>
  BY DEF VerifyPassword
<1>5. s.at = "verified" /\ Known(s) /\ Asking(s) /\ Entering(s)
  BY <1>4 DEF Known, Asking, Entering, CredInv
<1> HIDE DEF s
<1>7. TypeOK'
  BY <1>3, <1>4, <1>5, GoesType DEF TypeOK, At
<1>8. PresentInv' /\ AskInv' /\ CredInv' /\ StaleInv'
  BY <1>3, <1>4, <1>5, LocalStep DEF At
<1>9. LockInv' /\ AdminInv'
  BY <1>3, <1>4, <1>5, UncheckedStep DEF At
<1> QED  BY <1>7, <1>8, <1>9

\* Who may change an account holds no check, and the bound allows it.
LEMMA Changing ==
  ASSUME TypeOK, NEW w \in Workers, Change(w)
  PROVE  worker[w].at \in {"idle", "admitted"} /\ changes' \in 0..cast.changes
<1>1. cast.changes \in Nat
  BY WorkersAssumption DEF TypeOK
<1> QED  BY <1>1 DEF Change, MayAdminister, At, TypeOK

\* update_user loads the account.
LEMMA LoadAccountInv ==
  ASSUME Inv, NEW w \in Workers, NEW u \in Users, NEW ask \in {None, TRUE, FALSE},
         LoadAccount(w, u, ask)
  PROVE  Inv'
<1> USE DEF Inv, IInv
<1>1. PICK active \in BOOLEAN : active = IF ask = None THEN accounts[u].active ELSE ask
  BY DEF TypeOK, Accounts, LoadAccount
<1> DEFINE s == [at |-> "loaded", user |-> u, ask |-> ask, active |-> active]
<1>3. s \in WorkerStates
  <2>2. s \in Loaded
    BY DEF Loaded
  <2> QED  BY <2>2 DEF WorkerStates
<1>4. /\ Goes(w, s) /\ worker[w].at \in {"idle", "admitted"} /\ accounts[u] # None
      /\ UNCHANGED <<config, accounts, sessions, lock, cache, ghosts>>
      /\ changes' \in 0..cast.changes
  BY <1>1, Changing DEF LoadAccount
<1>5. s.at = "loaded" /\ Known(s) /\ Asking(s) /\ Entering(s)
  BY <1>1, <1>4 DEF Known, Asking, Entering
<1> HIDE DEF s
<1>7. TypeOK'
  BY <1>3, <1>4, <1>5, GoesType DEF TypeOK, At
<1>8. PresentInv' /\ AskInv' /\ CredInv' /\ StaleInv'
  BY <1>3, <1>4, <1>5, LocalStep DEF At
<1>9. LockInv' /\ AdminInv'
  BY <1>3, <1>4, <1>5, UncheckedStep DEF At
<1> QED  BY <1>7, <1>8, <1>9

\* _is_last_admin says no: another administrator is active.
LEMMA AnotherAdmin ==
  ASSUME NEW u \in Users, ActiveAdmins # {}, ~IsLastAdmin(u)
  PROVE  ActiveAdmins \ {u} # {}
<1> SUFFICES ASSUME ActiveAdmins \ {u} = {} PROVE FALSE
  OBVIOUS
<1>1. ActiveAdmins = {u}
  OBVIOUS
<1>2. Cardinality(ActiveAdmins) = 1
  BY <1>1, FS_Singleton
<1>3. u \in Admins
  BY <1>1 DEF ActiveAdmins
<1> QED  BY <1>2, <1>3 DEF IsLastAdmin

\* Lock and administrators across a check that passes, or is not needed.
LEMMA CheckedStep ==
  ASSUME TypeOK, LockInv, AdminInv, NEW w \in Workers, NEW s \in Checked, Goes(w, s),
         UNCHANGED <<config, accounts, ghosts>>, worker[w].at # "checked", ~s.overtaken,
         s.unguarded => s.kind = "update" /\ ~s.active /\ ~accounts[s.user].active,
         \/ ~Guards(s) /\ lock' = lock
         \/ /\ Guards(s) /\ LockFree /\ ~IsLastAdmin(s.user)
            /\ lock' = IF backend = "postgresql" THEN w ELSE lock
  PROVE  LockInv' /\ AdminInv'
<1>1. worker'[w] = s /\ \A x \in Workers \ {w} : worker'[x] = worker[x]
  BY DEF Goes, TypeOK
<1>2. ActiveAdmins' = ActiveAdmins
  BY DEF ActiveAdmins, Admins
<1>3. s.user \in Users /\ s.at = "checked"
  BY DEF Checked
<1>4. Unguarded(s) <=> s.unguarded
  BY <1>3 DEF Unguarded
<1>5. LockInv'
  <2>1. ASSUME NEW x \in Workers, backend = "postgresql", Guards(worker'[x]) PROVE lock' = x
    <3>1. CASE x = w
      BY <1>1, <2>1, <3>1
    <3>2. CASE x # w
      <4>1. lock = x
        BY <1>1, <2>1, <3>2 DEF LockInv
      <4>2. ~LockFree
        BY <2>1, <4>1, NoneAssumption DEF LockFree
      <4> QED  BY <4>1, <4>2
    <3> QED  BY <3>1, <3>2
  <2>2. ASSUME NEW x \in Workers, Unguarded(worker'[x])
        PROVE  worker'[x].kind = "update" /\ ~worker'[x].active
    BY <1>1, <1>4, <2>2 DEF LockInv
  <2> QED  BY <2>1, <2>2 DEF LockInv, config
<1>6. AdminInv'
  <2> SUFFICES ASSUME ~raced PROVE AdminInv'
    BY DEF AdminInv, ghosts
  <2>1. ActiveAdmins # {}
    BY DEF AdminInv
  <2>2. ASSUME NEW x \in Workers, Guards(worker'[x]), ~worker'[x].overtaken \/ lock' = x
        PROVE  ActiveAdmins \ {worker'[x].user} # {}
    <3>1. CASE x = w
      BY <1>1, <1>3, <2>1, <2>2, <3>1, AnotherAdmin
    <3>2. CASE x # w
      BY <1>1, <2>2, <3>2 DEF AdminInv
    <3> QED  BY <3>1, <3>2
  <2>3. ASSUME NEW x \in Workers, Unguarded(worker'[x]), ~worker'[x].overtaken
        PROVE  ~accounts[worker'[x].user].active
    BY <1>1, <1>4, <2>3 DEF AdminInv
  <2> QED  BY <1>2, <2>1, <2>2, <2>3 DEF AdminInv
<1> QED  BY <1>5, <1>6

\* The checks of disable-user and of a revocation.
LEMMA CheckCommandInv ==
  ASSUME Inv, NEW w \in Workers, NEW u \in Users, CheckDisable(w, u) \/ CheckRevoke(w, u)
  PROVE  Inv'
<1> USE DEF Inv, IInv
<1>1. PICK kind \in {"disable", "revoke"}, ask \in {FALSE, None} :
        /\ kind = "revoke" <=> ask = None
        /\ Guarded(w, [at |-> "checked", kind |-> kind, user |-> u, ask |-> ask, active |-> FALSE,
                       unguarded |-> FALSE, overtaken |-> FALSE])
  BY NoneAssumption DEF CheckDisable, CheckRevoke
<1> DEFINE s == [at |-> "checked", kind |-> kind, user |-> u, ask |-> ask, active |-> FALSE,
                 unguarded |-> FALSE, overtaken |-> FALSE]
<1>2. s \in Checked
  BY DEF Checked
<1>3. s \in WorkerStates
  BY <1>2 DEF WorkerStates
<1>4. /\ accounts[u] # None /\ worker[w].at \in {"idle", "admitted"}
      /\ UNCHANGED <<config, accounts, sessions, cache, ghosts>>
      /\ changes' \in 0..cast.changes
  BY Changing DEF CheckDisable, CheckRevoke
<1>5. /\ LockFree /\ ~IsLastAdmin(u) /\ Goes(w, s)
      /\ lock' = IF backend = "postgresql" THEN w ELSE lock
  BY <1>1 DEF Guarded
<1>6. /\ s.at = "checked" /\ Guards(s) /\ Known(s) /\ Asking(s) /\ Entering(s)
      /\ ~s.overtaken /\ ~s.unguarded /\ s.user = u
  BY <1>1, <1>4, NoneAssumption DEF Known, Asking, Entering, Guards
<1> HIDE DEF s
<1>7. TypeOK'
  BY <1>3, <1>4, <1>5, <1>6, GoesType DEF TypeOK, At
<1>8. PresentInv' /\ AskInv' /\ CredInv' /\ StaleInv'
  BY <1>3, <1>4, <1>5, <1>6, LocalStep
<1>9. LockInv' /\ AdminInv'
  BY <1>2, <1>4, <1>5, <1>6, CheckedStep
<1> QED  BY <1>7, <1>8, <1>9

\* The check of update_account.
LEMMA CheckUpdateInv ==
  ASSUME Inv, NEW w \in Workers, CheckUpdate(w)
  PROVE  Inv'
<1> USE DEF Inv, IInv
<1> DEFINE o == worker[w]
           idle == ~accounts[o.user].active
           s == [at |-> "checked", kind |-> "update", user |-> o.user, ask |-> o.ask,
                 active |-> o.active, unguarded |-> ~o.active /\ idle, overtaken |-> FALSE]
<1>1. o.at = "loaded" /\ o \in Loaded
  BY StateKinds DEF CheckUpdate, At, TypeOK
<1>2. accounts[o.user] # None /\ Asking(o)
  BY <1>1 DEF PresentInv, Known, AskInv
<1>3. s \in Checked
  BY <1>1 DEF Loaded, Checked
<1>4. s \in WorkerStates
  BY <1>3 DEF WorkerStates
<1>5. /\ s.at = "checked" /\ s.kind = "update" /\ s.user = o.user /\ s.ask = o.ask
      /\ s.active = o.active /\ ~s.overtaken
      /\ s.unguarded <=> ~o.active /\ idle
  OBVIOUS
<1>6. Goes(w, s) /\ UNCHANGED <<config, accounts, sessions, cache, changes, ghosts>>
  BY DEF CheckUpdate, Guarded
<1>7. \/ (o.active \/ idle) /\ lock' = lock
      \/ /\ ~o.active /\ ~idle /\ LockFree /\ ~IsLastAdmin(o.user)
         /\ lock' = IF backend = "postgresql" THEN w ELSE lock
  BY DEF CheckUpdate, Guarded
<1> HIDE DEF s
<1>8. Known(s) /\ Asking(s) /\ Entering(s)
  BY <1>1, <1>2, <1>5 DEF Known, Asking, Entering
<1>9. Guards(s) <=> ~o.active /\ ~idle
  BY <1>5 DEF Guards
<1>10. lock # w
  BY <1>1, NoneAssumption DEF TypeOK, At
<1>11. lock' = lock \/ (backend = "postgresql" /\ lock' = w)
  BY <1>7
<1>12. TypeOK'
  <2>1. changes' \in 0..cast.changes
    BY <1>6 DEF TypeOK
  <2> QED  BY <1>4, <1>5, <1>6, <1>10, <1>11, <2>1, GoesType
<1>13. PresentInv' /\ AskInv' /\ CredInv' /\ StaleInv'
  BY <1>1, <1>4, <1>5, <1>6, <1>8, LocalStep
<1>14. LockInv' /\ AdminInv'
  BY <1>1, <1>3, <1>5, <1>6, <1>7, <1>9, CheckedStep
<1> QED  BY <1>12, <1>13, <1>14

-----------------------------------------------------------------------------
\* What depends on the store and the changes in flight alone.
LEMMA StoreKept ==
  ASSUME TypeOK, AskInv, CredInv, LockInv, AdminInv,
         UNCHANGED <<config, accounts, sessions, lock, wanted, crossed, raced>>,
         \A x \in Workers : worker'[x] = worker[x] \/ worker'[x].at \in {"idle", "admitted", "remember"}
  PROVE  AskInv' /\ CredInv' /\ LockInv' /\ AdminInv'
<1>1. AskInv'
  <2>1. ActiveAsAsked'
    BY DEF AskInv, ActiveAsAsked
  <2>2. ASSUME NEW x \in Workers PROVE Asking(worker[x])'
    BY DEF AskInv, Asking
  <2> QED  BY <2>1, <2>2 DEF AskInv
<1>2. CredInv'
  <2>1. \A u : LateLogin(u)' <=> LateLogin(u)
    BY DEF LateLogin
  <2>2. ASSUME NEW x \in Workers PROVE Entering(worker[x])'
    BY <2>1 DEF CredInv, Entering
  <2> QED  BY <2>1, <2>2 DEF CredInv
<1>3. \A x \in Workers :
        worker'[x] = worker[x] \/ (~Guards(worker'[x]) /\ ~Unguarded(worker'[x]))
  BY DEF Guards, Unguarded
<1>4. LockInv'
  BY <1>3 DEF LockInv, config
<1>5. AdminInv'
  <2>1. ActiveAdmins' = ActiveAdmins
    BY DEF ActiveAdmins, Admins
  <2> QED  BY <1>3, <2>1 DEF AdminInv
<1> QED  BY <1>1, <1>2, <1>4, <1>5

\* _remember stores an entry.
LEMMA RememberInv ==
  ASSUME Inv, NEW w \in Workers, Remember(w)
  PROVE  Inv'
<1> USE DEF Inv, IInv
<1>1. PICK p \in Procs : p = ProcOf[w]
  BY WorkersAssumption
<1>2. worker[w].at = "remember" /\ worker[w] \in Filling
  BY StateKinds DEF Remember, At, TypeOK
<1>3. PICK c \in Creds, a \in Principals, fill \in 0..MaxFill, bumped \in BOOLEAN :
        /\ c = worker[w].cred /\ a = worker[w].answer
        /\ fill = worker[w].fill /\ bumped = worker[w].bumped
  BY <1>2 DEF Filling
<1> DEFINE e == [answer |-> a, left |-> CacheTTL, fill |-> fill, bumped |-> bumped]
           s == [at |-> "admitted", cred |-> c, answer |-> a]
<1>4. e \in Entries /\ s \in WorkerStates
  <2>1. e \in Entries
    BY WorkersAssumption DEF Entries
  <2>2. s \in Admitted
    BY DEF Admitted
  <2> QED  BY <2>1, <2>2 DEF WorkerStates
<1>5. e.answer = a /\ e.left = CacheTTL /\ e.fill = fill /\ e.bumped = bumped
      /\ s.at = "admitted" /\ s.cred = c
  OBVIOUS
<1>6. /\ cache' = [cache EXCEPT ![p][c] = e] /\ worker' = [worker EXCEPT ![w] = s]
      /\ UNCHANGED <<config, accounts, sessions, lock, changes, ghosts>>
  BY <1>1, <1>3 DEF Remember, Goes
<1> HIDE DEF e, s
<1>7. /\ worker' \in [Workers -> WorkerStates] /\ worker'[w] = s
      /\ \A x \in Workers \ {w} : worker'[x] = worker[x]
  BY <1>4, <1>6 DEF TypeOK
<1>8. /\ cache' \in [Procs -> [Creds -> Entries \cup {None}]] /\ cache'[p][c] = e
      /\ \A q \in Procs, d \in Creds : q # p \/ d # c => cache'[q][d] = cache[q][d]
  BY <1>4, <1>6 DEF TypeOK
<1>9. TypeOK'
  <2>1. lock # None => backend = "postgresql" /\ worker'[lock].at = "checked"
    BY <1>2, <1>7 DEF TypeOK, At
  <2> QED  BY <1>6, <1>7, <1>8, <2>1 DEF TypeOK, At, config, ghosts
<1>10. PresentInv'
  <2>1. c \in Tokens => sessions[c] # None
    BY <1>2, <1>3 DEF PresentInv, Known
  <2>2. ASSUME NEW q \in Procs, NEW t \in Tokens, cache'[q][t] # None PROVE sessions[t] # None
    BY <1>8, <2>1, <2>2 DEF PresentInv, Creds
  <2>3. ASSUME NEW x \in Workers PROVE Known(worker[x])'
    BY <1>5, <1>6, <1>7, <2>1 DEF PresentInv, Known
  <2> QED  BY <1>6, <2>2, <2>3 DEF PresentInv
<1>11. AskInv' /\ CredInv' /\ LockInv' /\ AdminInv'
  BY <1>5, <1>6, <1>7, StoreKept DEF ghosts
<1>12. StaleInv'
  <2>1. \A q \in Procs : Bumping(q) => Bumping(q)'
    BY <1>2, <1>7 DEF Bumping, At
  <2>2. \A d : Answer(d)' = Answer(d)
    BY <1>6 DEF Answer, AnswerOf, config
  <2>3. ASSUME NEW q \in Procs, NEW d \in Creds PROVE EntryFresh(q, d)'
    <3>1. CASE q = p /\ d = c
      <4>1. Fresh(p, worker[w])
        BY <1>1 DEF StaleInv
      <4>2. a # Answer(c) => lapsed[c] <= fill /\ (changedBy[c] = p /\ ~Bumping(p) => bumped)
        BY <1>2, <1>3, <4>1 DEF Fresh
      <4>3. lapsed[c] \in Nat
        BY DEF TypeOK
      <4>4. lapsed[c] <= fill => lapsed[c] + CacheTTL <= CacheTTL + fill
        BY <4>3, WorkersAssumption
      <4> QED  BY <1>5, <1>6, <1>8, <2>1, <2>2, <3>1, <4>2, <4>4 DEF EntryFresh, ghosts
    <3>2. CASE q # p \/ d # c
      <4>1. EntryFresh(q, d)
        BY EntriesFresh DEF StaleInv
      <4> QED  BY <1>6, <1>8, <2>1, <2>2, <3>2, <4>1 DEF EntryFresh, ghosts
    <3> QED  BY <3>1, <3>2
  <2>4. ASSUME NEW x \in Workers PROVE Fresh(ProcOf[x], worker[x])'
    <3>1. CASE x = w
      BY <1>5, <1>7, <3>1 DEF Fresh
    <3>2. CASE x # w
      <4>1. Answer(worker[x].cred)' = Answer(worker[x].cred)
        BY <1>7, <2>2, <3>2
      <4>2. ProcOf[x] \in Procs
        BY WorkersAssumption
      <4> QED  BY <1>6, <1>7, <2>1, <3>2, <4>1, <4>2 DEF Fresh, StaleInv, ghosts
    <3> QED  BY <3>1, <3>2
  <2> QED  BY <2>3, <2>4, EntriesFresh DEF StaleInv, StaleExplained, EntryFresh, Bumping
<1> QED  BY <1>9, <1>10, <1>11, <1>12

\* _invalidate_authentication voids the entries of its process.
LEMMA InvalidateInv ==
  ASSUME Inv, NEW w \in Workers, InvalidateAuthentication(w)
  PROVE  Inv'
<1> USE DEF Inv, IInv
<1>1. PICK p \in Procs : p = ProcOf[w]
  BY WorkersAssumption
<1>2. /\ worker[w].at = "bump"
      /\ UNCHANGED <<config, accounts, sessions, lock, changes, wanted, crossed, raced>>
  BY DEF InvalidateAuthentication, At
<1>3. /\ cache' \in [Procs -> [Creds -> Entries \cup {None}]]
      /\ \A q \in Procs, c \in Creds : cache'[q][c] = IF q = p THEN None ELSE cache[q][c]
  BY <1>1 DEF InvalidateAuthentication, TypeOK
<1>4. ASSUME NEW x \in Workers
      PROVE  /\ worker'[x] \in WorkerStates
             /\ \/ x = w /\ worker'[x] = Idle
                \/ x # w /\ worker'[x] = worker[x] /\ (ProcOf[x] # p \/ worker[x].at # "remember")
                \/ /\ x # w /\ ProcOf[x] = p /\ worker[x].at = "remember" /\ worker'[x].at = "remember"
                   /\ worker'[x].cred = worker[x].cred /\ worker'[x].answer = worker[x].answer
                   /\ worker'[x].fill = worker[x].fill /\ worker'[x].bumped
  <2>1. worker'[x] = IF x = w THEN Idle
                     ELSE IF ProcOf[x] = p /\ At(x, "remember")
                          THEN [worker[x] EXCEPT !.bumped = TRUE] ELSE worker[x]
    BY <1>1 DEF InvalidateAuthentication
  <2>2. CASE x # w /\ ProcOf[x] = p /\ At(x, "remember")
    <3>1. worker[x] \in Filling
      BY <2>2, StateKinds DEF At, TypeOK
    <3>2. worker'[x] = [worker[x] EXCEPT !.bumped = TRUE]
      BY <2>1, <2>2
    <3>3. worker'[x] \in Filling
      BY <3>1, <3>2 DEF Filling
    <3>4. /\ worker'[x].at = "remember" /\ worker'[x].cred = worker[x].cred
          /\ worker'[x].answer = worker[x].answer
          /\ worker'[x].fill = worker[x].fill /\ worker'[x].bumped
      BY <3>1, <3>2 DEF Filling
    <3> QED  BY <2>2, <3>3, <3>4 DEF WorkerStates, At
  <2>3. CASE ~(x # w /\ ProcOf[x] = p /\ At(x, "remember"))
    BY <2>1, <2>3, PlainStates DEF TypeOK, At
  <2> QED  BY <2>2, <2>3
<1>5. worker' \in [Workers -> WorkerStates]
  <2>1. worker' = [x \in Workers |-> worker'[x]]
    BY DEF InvalidateAuthentication
  <2> QED  BY <1>4, <2>1
<1>6. \A c \in Creds : /\ lapsed'[c] = IF Held(c, cache', worker') THEN lapsed[c] ELSE 0
                       /\ changedBy'[c] = IF Held(c, cache', worker') THEN changedBy[c] ELSE None
  BY DEF InvalidateAuthentication
<1>7. TypeOK'
  <2>1. lock # None => backend = "postgresql" /\ worker'[lock].at = "checked"
    BY <1>2, <1>4 DEF TypeOK, At
  <2>2. lapsed' \in [Creds -> Nat] /\ changedBy' \in [Creds -> Procs \cup {None}]
    <3>1. lapsed' = [c \in Creds |-> lapsed'[c]] /\ changedBy' = [c \in Creds |-> changedBy'[c]]
      BY DEF InvalidateAuthentication
    <3> QED  BY <1>6, <3>1 DEF TypeOK
  <2> QED  BY <1>2, <1>3, <1>5, <2>1, <2>2 DEF TypeOK, At, config
<1>8. PresentInv'
  <2>1. ASSUME NEW q \in Procs, NEW t \in Tokens, cache'[q][t] # None PROVE sessions[t] # None
    BY <1>3, <2>1 DEF PresentInv, Creds
  <2>2. ASSUME NEW x \in Workers PROVE Known(worker[x])'
    BY <1>2, <1>4 DEF PresentInv, Known, Idle
  <2> QED  BY <1>2, <2>1, <2>2 DEF PresentInv
<1>9. AskInv' /\ CredInv' /\ LockInv' /\ AdminInv'
  <2>1. ASSUME NEW x \in Workers
        PROVE  worker'[x] = worker[x] \/ worker'[x].at \in {"idle", "admitted", "remember"}
    BY <1>4 DEF Idle
  <2> QED  BY <1>2, <2>1, StoreKept
<1>10. StaleInv'
  <2>1. \A q \in Procs \ {p} : Bumping(q) => Bumping(q)'
    <3> SUFFICES ASSUME NEW q \in Procs \ {p}, NEW x \in Workers, ProcOf[x] = q, worker[x].at = "bump"
                 PROVE  worker'[x].at = "bump"
      BY DEF Bumping, At
    <3> QED  BY <1>1, <1>4
  <2>2. \A d : Answer(d)' = Answer(d)
    BY <1>2 DEF Answer, AnswerOf, config
  <2>3. ASSUME NEW q \in Procs, NEW d \in Creds PROVE EntryFresh(q, d)'
    <3>1. CASE cache'[q][d] = None
      BY <3>1 DEF EntryFresh
    <3>2. CASE cache'[q][d] # None
      <4>1. q # p /\ cache'[q][d] = cache[q][d] /\ Held(d, cache', worker')
        BY <1>3, <3>2 DEF Held
      <4>2. lapsed'[d] = lapsed[d] /\ changedBy'[d] = changedBy[d]
        BY <1>6, <4>1
      <4>3. EntryFresh(q, d)
        BY EntriesFresh DEF StaleInv
      <4> QED  BY <2>1, <2>2, <4>1, <4>2, <4>3 DEF EntryFresh
    <3> QED  BY <3>1, <3>2
  <2>4. ASSUME NEW x \in Workers PROVE Fresh(ProcOf[x], worker[x])'
    <3> SUFFICES ASSUME worker'[x].at = "remember" PROVE Fresh(ProcOf[x], worker[x])'
      BY DEF Fresh
    <3>1. /\ worker[x].at = "remember" /\ worker'[x].cred = worker[x].cred
          /\ worker'[x].answer = worker[x].answer /\ worker'[x].fill = worker[x].fill
          /\ \/ ProcOf[x] = p /\ worker'[x].bumped
             \/ ProcOf[x] # p /\ worker'[x] = worker[x]
      BY <1>4 DEF Idle
    <3>2. worker[x].cred \in Creds /\ ProcOf[x] \in Procs
      BY <3>1, StateKinds, WorkersAssumption DEF Filling, TypeOK
    <3>3. PICK c \in Creds : c = worker[x].cred
      BY <3>2
    <3>4. Held(c, cache', worker')
      BY <3>1, <3>3 DEF Held
    <3>5. lapsed'[c] = lapsed[c] /\ changedBy'[c] = changedBy[c]
      BY <1>6, <3>4
    <3>6. Answer(worker[x].cred)' = Answer(worker[x].cred)
      BY <2>2, <3>1
    <3>7. Fresh(ProcOf[x], worker[x])
      BY DEF StaleInv
    <3> QED  BY <2>1, <3>1, <3>2, <3>3, <3>5, <3>6, <3>7 DEF Fresh
  <2> QED  BY <2>3, <2>4, EntriesFresh DEF StaleInv, StaleExplained, EntryFresh, Bumping
<1> QED  BY <1>7, <1>8, <1>9, <1>10

\* Time passes.
LEMMA TickInv ==
  ASSUME Inv, Tick
  PROVE  Inv'
<1> USE DEF Inv, IInv
<1>1. UNCHANGED <<config, accounts, sessions, lock, changes, wanted, crossed, raced>>
  BY DEF Tick
<1>2. ASSUME NEW q \in Procs, NEW c \in Creds
      PROVE  /\ cache'[q][c] \in Entries \cup {None}
             /\ cache'[q][c] # None =>
                  /\ cache[q][c] # None /\ cache'[q][c].answer = cache[q][c].answer
                  /\ cache'[q][c].left = cache[q][c].left - 1
                  /\ cache'[q][c].fill = cache[q][c].fill
                  /\ cache'[q][c].bumped = cache[q][c].bumped
  <2> DEFINE e == cache[q][c]
             f == [e EXCEPT !.left = @ - 1]
  <2>1. cache'[q][c] = IF e = None \/ e.left = 1 THEN None ELSE f
    BY DEF Tick
  <2>2. CASE e = None \/ e.left = 1
    BY <2>1, <2>2
  <2>3. CASE ~(e = None \/ e.left = 1)
    <3>1. e \in Entries /\ e.left # 1
      BY <2>3 DEF TypeOK
    <3>2. PICK n \in 1..CacheTTL : n = e.left /\ n # 1
      BY <3>1 DEF Entries
    <3>3. PICK m \in 1..CacheTTL : m = n - 1
      BY <3>2, WorkersAssumption
    <3>4. f = [e EXCEPT !.left = m]
      BY <3>2, <3>3
    <3>5. f \in Entries
      BY <3>1, <3>4 DEF Entries
    <3>6. f.answer = e.answer /\ f.left = m /\ f.fill = e.fill /\ f.bumped = e.bumped
      BY <3>1, <3>4 DEF Entries
    <3> HIDE DEF f
    <3> QED  BY <2>1, <2>3, <3>2, <3>3, <3>5, <3>6
  <2> QED  BY <2>2, <2>3
<1>3. cache' \in [Procs -> [Creds -> Entries \cup {None}]]
  <2>1. cache' = [q \in Procs |-> cache'[q]] /\ \A q \in Procs : cache'[q] = [c \in Creds |-> cache'[q][c]]
    BY DEF Tick
  <2>2. \A q \in Procs, c \in Creds : cache'[q][c] \in Entries \cup {None}
    BY <1>2
  <2> QED  BY <2>1, <2>2
<1>4. ASSUME NEW x \in Workers
      PROVE  /\ worker'[x] \in WorkerStates
             /\ \/ worker'[x] = worker[x] /\ worker[x].at # "remember"
                \/ /\ worker[x].at = "remember" /\ worker'[x].at = "remember"
                   /\ worker'[x].cred = worker[x].cred /\ worker'[x].answer = worker[x].answer
                   /\ worker'[x].fill = worker[x].fill + 1
                   /\ worker'[x].bumped = worker[x].bumped
  <2>1. worker'[x] = IF At(x, "remember") THEN [worker[x] EXCEPT !.fill = @ + 1] ELSE worker[x]
    BY DEF Tick
  <2>2. CASE At(x, "remember")
    <3>1. worker[x] \in Filling /\ worker[x].fill < MaxFill
      BY <2>2, StateKinds DEF At, TypeOK, Tick
    <3>2. PICK n \in 0..MaxFill : n = worker[x].fill + 1
      BY <3>1, WorkersAssumption DEF Filling
    <3>3. worker'[x] = [worker[x] EXCEPT !.fill = n]
      BY <2>1, <2>2, <3>2
    <3>4. worker'[x] \in Filling
      BY <3>1, <3>3 DEF Filling
    <3>5. /\ worker'[x].at = "remember" /\ worker'[x].cred = worker[x].cred
          /\ worker'[x].answer = worker[x].answer
          /\ worker'[x].fill = n /\ worker'[x].bumped = worker[x].bumped
      BY <3>1, <3>3 DEF Filling
    <3> QED  BY <2>2, <3>2, <3>4, <3>5 DEF WorkerStates, At
  <2>3. CASE ~At(x, "remember")
    BY <2>1, <2>3 DEF At, TypeOK
  <2> QED  BY <2>2, <2>3
<1>5. worker' \in [Workers -> WorkerStates]
  <2>1. worker' = [x \in Workers |-> worker'[x]]
    BY DEF Tick
  <2> QED  BY <1>4, <2>1
<1>6. ASSUME NEW c \in Creds
      PROVE  /\ Held(c, cache', worker') =>
                  /\ changedBy'[c] = changedBy[c]
                  /\ lapsed'[c] = lapsed[c] \/ lapsed'[c] = lapsed[c] + 1
             /\ lapsed'[c] \in Nat /\ changedBy'[c] \in Procs \cup {None}
  <2>1. lapsed[c] \in Nat /\ lapsed[c] + 1 \in Nat /\ changedBy[c] \in Procs \cup {None}
    BY DEF TypeOK
  <2>2. lapsed'[c] = IF ~Held(c, cache', worker') THEN 0
                     ELSE IF lapsed[c] > CacheTTL + MaxFill THEN lapsed[c] ELSE lapsed[c] + 1
    BY DEF Tick
  <2>3. changedBy'[c] = IF Held(c, cache', worker') THEN changedBy[c] ELSE None
    BY DEF Tick
  <2> QED  BY <2>1, <2>2, <2>3
<1>7. TypeOK'
  <2>1. lock # None => backend = "postgresql" /\ worker'[lock].at = "checked"
    BY <1>1, <1>4 DEF TypeOK, At
  <2>2. lapsed' \in [Creds -> Nat] /\ changedBy' \in [Creds -> Procs \cup {None}]
    <3>1. lapsed' = [c \in Creds |-> lapsed'[c]] /\ changedBy' = [c \in Creds |-> changedBy'[c]]
      BY DEF Tick
    <3> QED  BY <1>6, <3>1
  <2> QED  BY <1>1, <1>3, <1>5, <2>1, <2>2 DEF TypeOK, At, config
<1>8. PresentInv'
  <2>1. ASSUME NEW q \in Procs, NEW t \in Tokens, cache'[q][t] # None PROVE sessions[t] # None
    BY <1>2, <2>1 DEF PresentInv, Creds
  <2>2. ASSUME NEW x \in Workers PROVE Known(worker[x])'
    BY <1>1, <1>4 DEF PresentInv, Known
  <2> QED  BY <1>1, <2>1, <2>2 DEF PresentInv
<1>9. AskInv' /\ CredInv' /\ LockInv' /\ AdminInv'
  <2>1. ASSUME NEW x \in Workers
        PROVE  worker'[x] = worker[x] \/ worker'[x].at \in {"idle", "admitted", "remember"}
    BY <1>4
  <2> QED  BY <1>1, <2>1, StoreKept
<1>10. StaleInv'
  <2>1. \A q \in Procs : Bumping(q) => Bumping(q)'
    <3> SUFFICES ASSUME NEW q \in Procs, NEW x \in Workers, ProcOf[x] = q, worker[x].at = "bump"
                 PROVE  worker'[x].at = "bump"
      BY DEF Bumping, At
    <3> QED  BY <1>4
  <2>2. \A d : Answer(d)' = Answer(d)
    BY <1>1 DEF Answer, AnswerOf, config
  <2>3. ASSUME NEW q \in Procs, NEW d \in Creds PROVE EntryFresh(q, d)'
    <3>1. CASE cache'[q][d] = None
      BY <3>1 DEF EntryFresh
    <3>2. CASE cache'[q][d] # None
      <4>1. Held(d, cache', worker') /\ cache[q][d] \in Entries
        BY <1>2, <3>2 DEF Held, TypeOK
      <4>2. EntryFresh(q, d)
        BY EntriesFresh DEF StaleInv
      <4>3. PICK n \in 1..CacheTTL, m \in 0..MaxFill :
              n = cache[q][d].left /\ m = cache[q][d].fill
        BY <4>1 DEF Entries
      <4>4. PICK l \in Nat, k \in Nat : l = lapsed[d] /\ k = lapsed'[d] /\ (k = l \/ k = l + 1)
        BY <1>6, <4>1 DEF TypeOK
      <4>5. l + n <= CacheTTL + m => k + (n - 1) <= CacheTTL + m
        BY <4>3, <4>4, WorkersAssumption
      <4>6. changedBy'[d] = changedBy[d]
        BY <1>6, <4>1
      <4>7. cache[q][d].answer # Answer(d) => k + (n - 1) <= CacheTTL + m
        BY <1>2, <3>2, <4>2, <4>3, <4>4, <4>5 DEF EntryFresh
      <4>8. cache'[q][d].left = n - 1 /\ cache'[q][d].fill = m
        BY <1>2, <3>2, <4>3
      <4> QED  BY <1>2, <2>1, <2>2, <3>2, <4>2, <4>4, <4>6, <4>7, <4>8 DEF EntryFresh
    <3> QED  BY <3>1, <3>2
  <2>4. ASSUME NEW x \in Workers PROVE Fresh(ProcOf[x], worker[x])'
    <3> SUFFICES ASSUME worker'[x].at = "remember" PROVE Fresh(ProcOf[x], worker[x])'
      BY DEF Fresh
    <3>1. /\ worker[x].at = "remember" /\ worker'[x].cred = worker[x].cred
          /\ worker'[x].answer = worker[x].answer /\ worker'[x].fill = worker[x].fill + 1
          /\ worker'[x].bumped = worker[x].bumped
      BY <1>4
    <3>2. worker[x] \in Filling /\ ProcOf[x] \in Procs
      BY <3>1, StateKinds, WorkersAssumption DEF TypeOK
    <3>3. PICK c \in Creds, m \in 0..MaxFill : c = worker[x].cred /\ m = worker[x].fill
      BY <3>2 DEF Filling
    <3>4. Held(c, cache', worker')
      BY <3>1, <3>3 DEF Held
    <3>5. PICK l \in Nat, k \in Nat : l = lapsed[c] /\ k = lapsed'[c] /\ (k = l \/ k = l + 1)
      BY <1>6, <3>4 DEF TypeOK
    <3>6. changedBy'[c] = changedBy[c]
      BY <1>6, <3>4
    <3>7. l <= m => k <= m + 1
      BY <3>3, <3>5, WorkersAssumption
    <3>8. Answer(worker[x].cred)' = Answer(worker[x].cred)
      BY <2>2, <3>1
    <3>9. Fresh(ProcOf[x], worker[x])
      BY DEF StaleInv
    <3> QED  BY <2>1, <3>1, <3>2, <3>3, <3>5, <3>6, <3>7, <3>8, <3>9 DEF Fresh
  <2> QED  BY <2>3, <2>4, EntriesFresh DEF StaleInv, StaleExplained, EntryFresh, Bumping
<1> QED  BY <1>7, <1>8, <1>9, <1>10

-----------------------------------------------------------------------------
\* The history variables keep their types.
LEMMA NotedType ==
  ASSUME TypeOK, NEW p \in Procs \cup {None}, Noted(p)
  PROVE  lapsed' \in [Creds -> Nat] /\ changedBy' \in [Creds -> Procs \cup {None}]
BY DEF TypeOK, Noted

\* A step that writes accounts or sessions, takes no administrator away and
\* is followed by an invalidation where it outdates an answer.
LEMMA StoreStep ==
  ASSUME Inv, NEW p \in Procs \cup {None}, Noted(p), Carried({"bump", "checked"}),
         worker' \in [Workers -> WorkerStates], UNCHANGED <<config, lock, cache, raced>>,
         changes' \in 0..cast.changes,
         accounts' \in [Users -> Accounts \cup {None}], sessions' \in [Tokens -> Sessions \cup {None}],
         wanted' \in [Users -> BOOLEAN], crossed' \subseteq Users, crossed \subseteq crossed',
         \A u \in Users : accounts[u] # None => accounts'[u] # None,
         \A t \in Tokens : sessions[t] # None => sessions'[t] # None,
         \A t \in Tokens : sessions'[t] # None => /\ accounts'[sessions'[t].user] # None
                                                  /\ sessions'[t].outlived = sessions'[t].late,
         ActiveAdmins \subseteq ActiveAdmins',
         \A x \in Workers : Unguarded(worker'[x]) =>
           worker'[x].overtaken \/ ~accounts'[worker[x].user].active \/ accounts[worker[x].user].active,
         \A x \in Workers : Kept(worker[x], worker'[x]) /\ worker[x].at \in {"loaded", "checked"} =>
           \/ accounts'[worker[x].user].active = accounts[worker[x].user].active
           \/ worker[x].user \in crossed',
         ActiveAsAsked',
         \A u \in Users : LateLogin(u) => LateLogin(u)',
         \A u \in Users : accounts'[u] # None /\ accounts'[u].password = "superseded" => LateLogin(u)',
         \A c \in Creds : Held(c, cache, worker) /\ Answer(c)' # Answer(c) => p = None \/ Bumping(p)'
  PROVE  Inv'
<1> USE DEF Inv, IInv
<1>1. Carried({}) /\ Carried({"bump"})
  BY DEF Carried
<1>2. TypeOK'
  <2>1. lapsed' \in [Creds -> Nat] /\ changedBy' \in [Creds -> Procs \cup {None}]
    BY NotedType
  <2>2. lock # None => backend = "postgresql" /\ worker'[lock].at = "checked"
    <3> SUFFICES ASSUME lock # None PROVE backend = "postgresql" /\ worker'[lock].at = "checked"
      OBVIOUS
    <3>1. lock \in Workers /\ backend = "postgresql" /\ worker[lock].at = "checked"
      BY DEF TypeOK, At
    <3> QED  BY <3>1 DEF Carried, Kept
  <2> QED  BY <2>1, <2>2 DEF TypeOK, At, config
<1>3. PresentInv'
  BY <1>1, <1>2, PresentCarried
<1>4. LockInv'
  BY <1>1, <1>2, LockCarried DEF config
<1>5. AdminInv'
  BY <1>1, <1>2, AdminCarried
<1>6. AskInv'
  <2>1. \A x \in Workers : Asking(worker[x])'
    BY <1>1, <1>2, AskCarried DEF AskInv
  <2> QED  BY <2>1 DEF AskInv
<1>7. CredInv'
  <2>1. \A x \in Workers : Entering(worker[x])'
    BY <1>1, <1>2, CredCarried
  <2> QED  BY <2>1 DEF CredInv
<1>8. StaleInv'
  BY <1>1, <1>2, StaleNoted
<1> QED  BY <1>2, <1>3, <1>4, <1>5, <1>6, <1>7, <1>8

\* A worker that ends keeps the others.
LEMMA GoesCarried ==
  ASSUME TypeOK, NEW w \in Workers, NEW s \in Plain, Goes(w, s), NEW ats, worker[w].at \notin ats
  PROVE  /\ worker' \in [Workers -> WorkerStates] /\ worker'[w] = s /\ Carried(ats)
         /\ \A x \in Workers \ {w} : worker'[x] = worker[x]
<1>1. /\ worker' \in [Workers -> WorkerStates] /\ worker'[w] = s
      /\ \A x \in Workers \ {w} : worker'[x] = worker[x]
  BY PlainStates DEF TypeOK, Goes
<1>2. Carried(ats)
  BY <1>1, KeptItself DEF Carried
<1> QED  BY <1>1, <1>2

\* A commit keeps or marks the others.
LEMMA OvertakenCarried ==
  ASSUME TypeOK, NEW w \in Workers, NEW s \in Plain, worker' = Overtaken(w, s), NEW ats,
         worker[w].at \notin ats
  PROVE  /\ worker' \in [Workers -> WorkerStates] /\ worker'[w] = s /\ Carried(ats)
         /\ \A x \in Workers \ {w} : worker[x].at = "checked" => worker'[x].overtaken
<1>1. /\ worker' \in [Workers -> WorkerStates] /\ worker'[w] = s
      /\ \A x \in Workers \ {w} : /\ Kept(worker[x], worker'[x])
                                  /\ worker[x].at = "checked" => worker'[x].overtaken
  BY OvertakenKeeps DEF TypeOK
<1>2. Carried(ats)
  BY <1>1 DEF Carried
<1> QED  BY <1>1, <1>2

\* Who goes on to invalidate has not done so yet.
LEMMA BumpingNext ==
  ASSUME NEW w \in Workers, worker'[w] = [at |-> "bump"]
  PROVE  Bumping(ProcOf[w])'
BY DEF Bumping, At

(* Whoever is checked or loaded has an account. *)
LEMMA ActingAccount ==
  ASSUME TypeOK, PresentInv, NEW x \in Workers, worker[x].at \in {"verified", "loaded", "checked"}
  PROVE  worker[x].user \in Users /\ accounts[worker[x].user] # None
BY StateKinds DEF TypeOK, PresentInv, Known, Verified, Loaded, Checked

\* An account is created that was not there.
LEMMA NewAccount ==
  ASSUME Inv, NEW w \in Workers, NEW u \in Users, NEW a \in Accounts,
         accounts[u] = None, accounts' = [accounts EXCEPT ![u] = a], a.active, a.password # "superseded",
         wanted' = [wanted EXCEPT ![u] = TRUE], worker[w].at \in {"idle", "admitted"},
         worker' \in [Workers -> WorkerStates], worker'[w] = [at |-> "bump"],
         Carried({"bump", "checked"}), Noted(ProcOf[w]), changes' \in 0..cast.changes,
         UNCHANGED <<config, sessions, lock, cache, crossed, raced>>
  PROVE  Inv'
<1> USE DEF Inv, IInv
<1>1. /\ accounts' \in [Users -> Accounts \cup {None}] /\ accounts'[u] = a /\ a # None
      /\ \A v \in Users \ {u} : accounts'[v] = accounts[v]
  BY NoneAssumption DEF TypeOK
<1>2. ProcOf[w] \in Procs /\ Bumping(ProcOf[w])'
  BY WorkersAssumption, BumpingNext
<1>3. \A x \in Workers : worker[x].at \in {"loaded", "checked"} =>
        accounts'[worker[x].user] = accounts[worker[x].user]
  BY <1>1, ActingAccount
<1>4. \A x \in Workers : Unguarded(worker'[x]) => worker[x].at = "checked"
  BY DEF Carried, Kept, Unguarded, Plain
<1>5. ActiveAdmins \subseteq ActiveAdmins'
  BY <1>1 DEF ActiveAdmins, Admins
<1>6. ActiveAsAsked' /\ wanted' \in [Users -> BOOLEAN]
  <2>1. /\ wanted' \in [Users -> BOOLEAN] /\ wanted'[u]
        /\ \A v \in Users \ {u} : wanted'[v] = wanted[v]
    BY DEF TypeOK
  <2>2. a.active \in BOOLEAN
    BY DEF Accounts
  <2> QED  BY <1>1, <2>1, <2>2 DEF ActiveAsAsked, AskInv
<1>7. \A v : LateLogin(v)' <=> LateLogin(v)
  BY DEF LateLogin
<1>8. \A v \in Users : accounts'[v] # None /\ accounts'[v].password = "superseded" => LateLogin(v)'
  BY <1>1, <1>7 DEF CredInv
<1>9. \A t \in Tokens : sessions'[t] # None => /\ accounts'[sessions'[t].user] # None
                                               /\ sessions'[t].outlived = sessions'[t].late
  BY <1>1 DEF PresentInv, CredInv, TypeOK, Sessions
<1>10. sessions' \in [Tokens -> Sessions \cup {None}] /\ crossed' \subseteq Users
  BY DEF TypeOK
<1> QED  BY <1>1, <1>2, <1>3, <1>4, <1>5, <1>6, <1>7, <1>8, <1>9, <1>10, StoreStep

\* provision_proxy_user and create_user.
LEMMA CreateAccountInv ==
  ASSUME Inv, NEW w \in Workers, NEW u \in Users, ProvisionProxyUser(w, u) \/ CreateUser(w, u)
  PROVE  Inv'
<1> USE DEF Inv, IInv
<1>1. PICK a \in Accounts :
        accounts' = [accounts EXCEPT ![u] = a] /\ a.active /\ a.password # "superseded"
  <2>1. CASE ProvisionProxyUser(w, u)
    <3> DEFINE b == [active |-> TRUE, admin |-> FALSE, legacy |-> FALSE, linked |-> TRUE,
                     password |-> "none"]
    <3>1. b \in Accounts /\ b.active /\ b.password # "superseded"
      BY DEF Accounts
    <3> QED  BY <2>1, <3>1 DEF ProvisionProxyUser
  <2>2. CASE CreateUser(w, u)
    <3>1. PICK admin \in BOOLEAN : accounts' = [accounts EXCEPT ![u] =
             [active |-> TRUE, admin |-> admin, legacy |-> FALSE, linked |-> mode = "trusted_proxy",
              password |-> FirstPassword]]
      BY <2>2 DEF CreateUser
    <3> DEFINE b == [active |-> TRUE, admin |-> admin, legacy |-> FALSE,
                     linked |-> mode = "trusted_proxy", password |-> FirstPassword]
    <3>2. b \in Accounts /\ b.active /\ b.password # "superseded"
      BY DEF Accounts, FirstPassword
    <3> QED  BY <3>1, <3>2
  <2> QED  BY <2>1, <2>2
<1>2. /\ accounts[u] = None /\ wanted' = [wanted EXCEPT ![u] = TRUE] /\ Noted(ProcOf[w])
      /\ UNCHANGED <<config, sessions, lock, cache, crossed, raced>>
  BY DEF ProvisionProxyUser, CreateUser
<1>3. worker[w].at \in {"idle", "admitted"} /\ changes' \in 0..cast.changes
  <2>1. cast.changes \in Nat
    BY WorkersAssumption DEF TypeOK
  <2> QED  BY <2>1, Changing DEF ProvisionProxyUser, CreateUser, At, TypeOK
<1>4. /\ worker' \in [Workers -> WorkerStates] /\ worker'[w] = [at |-> "bump"]
      /\ Carried({"bump", "checked"})
  <2>1. worker[w].at \notin {"bump", "checked"} /\ [at |-> "bump"] \in Plain
    BY <1>3, PlainStates
  <2> QED  BY <2>1, GoesCarried, OvertakenCarried DEF ProvisionProxyUser, CreateUser
<1> QED  BY <1>1, <1>2, <1>3, <1>4, NewAccount

(* The sessions a step leaves keep whom they are for and how they came to be. *)
SessionsKept ==
  /\ sessions' \in [Tokens -> Sessions \cup {None}]
  /\ \A t \in Tokens : sessions[t] # None => /\ sessions'[t] # None
                                             /\ sessions'[t].user = sessions[t].user
                                             /\ sessions'[t].late = sessions[t].late
  /\ \A t \in Tokens : sessions'[t] # None => /\ sessions'[t].outlived = sessions'[t].late
                                              /\ accounts[sessions'[t].user] # None

\* Late logins stay known.
LEMMA LateLoginKept ==
  ASSUME SessionsKept, NEW u, LateLogin(u)
  PROVE  LateLogin(u)'
BY DEF SessionsKept, LateLogin

\* An account is edited that stays enabled, and an administrator, if it was.
LEMMA EditedAccount ==
  ASSUME Inv, NEW p \in Procs \cup {None}, NEW u \in Users, NEW a \in Accounts, accounts[u] # None,
         accounts' = [accounts EXCEPT ![u] = a],
         accounts[u].admin => a.admin, accounts[u].active => a.active,
         a.password = "superseded" => LateLogin(u)',
         SessionsKept, worker' \in [Workers -> WorkerStates], Carried({"bump", "checked"}), Noted(p),
         changes' \in 0..cast.changes, UNCHANGED <<config, lock, cache, raced>>,
         wanted' \in [Users -> BOOLEAN], crossed' \subseteq Users, crossed \subseteq crossed',
         ActiveAsAsked',
         \A x \in Workers : Unguarded(worker'[x]) =>
           worker'[x].overtaken \/ a.active = accounts[u].active,
         \A x \in Workers :
           (/\ Kept(worker[x], worker'[x]) /\ worker[x].user = u
            /\ worker[x].at \in {"loaded", "checked"})
             => a.active = accounts[u].active \/ u \in crossed',
         \A c \in Creds : Held(c, cache, worker) /\ Answer(c)' # Answer(c) => p = None \/ Bumping(p)'
  PROVE  Inv'
<1> USE DEF Inv, IInv
<1>1. /\ accounts' \in [Users -> Accounts \cup {None}] /\ accounts'[u] = a /\ a # None
      /\ \A v \in Users \ {u} : accounts'[v] = accounts[v]
  BY NoneAssumption DEF TypeOK
<1>2. \A x \in Workers : worker[x].at \in {"loaded", "checked"} => worker[x].user \in Users
  BY ActingAccount
<1>3. \A x \in Workers : Unguarded(worker'[x]) =>
        worker'[x].overtaken \/ ~accounts'[worker[x].user].active \/ accounts[worker[x].user].active
  <2>1. \A x \in Workers : Unguarded(worker'[x]) => worker[x].at = "checked"
    BY DEF Carried, Kept, Unguarded, Plain
  <2> QED  BY <1>1, <1>2, <2>1
<1>4. \A x \in Workers : Kept(worker[x], worker'[x]) /\ worker[x].at \in {"loaded", "checked"} =>
           \/ accounts'[worker[x].user].active = accounts[worker[x].user].active
           \/ worker[x].user \in crossed'
  BY <1>1, <1>2
<1>5. ActiveAdmins \subseteq ActiveAdmins'
  BY <1>1 DEF ActiveAdmins, Admins
<1>6. \A v \in Users : LateLogin(v) => LateLogin(v)'
  BY LateLoginKept
<1>7. \A v \in Users : accounts'[v] # None /\ accounts'[v].password = "superseded" => LateLogin(v)'
  BY <1>1, <1>6 DEF CredInv
<1>8. \A t \in Tokens : sessions'[t] # None => /\ accounts'[sessions'[t].user] # None
                                               /\ sessions'[t].outlived = sessions'[t].late
  BY <1>1 DEF SessionsKept, Sessions
<1>9. /\ sessions' \in [Tokens -> Sessions \cup {None}]
      /\ \A t \in Tokens : sessions[t] # None => sessions'[t] # None
  BY DEF SessionsKept
<1>10. \A v \in Users : accounts[v] # None => accounts'[v] # None
  BY <1>1
<1> QED  BY <1>1, <1>3, <1>4, <1>5, <1>6, <1>7, <1>8, <1>9, <1>10, StoreStep

\* Sessions that do not change are kept.
LEMMA SameSessions ==
  ASSUME Inv, UNCHANGED sessions
  PROVE  SessionsKept
BY DEF Inv, IInv, SessionsKept, TypeOK, PresentInv, CredInv

\* The sessions of a user are revoked.
LEMMA RevokedSessions ==
  ASSUME Inv, NEW u \in Users, sessions' = RevokedFor(u)
  PROVE  SessionsKept
<1> USE DEF Inv, IInv
<1>1. ASSUME NEW t \in Tokens
      PROVE  /\ sessions'[t] \in Sessions \cup {None}
             /\ sessions[t] # None => /\ sessions'[t] # None
                                      /\ sessions'[t].user = sessions[t].user
                                      /\ sessions'[t].late = sessions[t].late
                                      /\ sessions'[t].outlived = sessions[t].outlived
             /\ sessions[t] = None => sessions'[t] = None
  <2> DEFINE r == [sessions[t] EXCEPT !.revoked = TRUE]
  <2>1. sessions'[t] = IF sessions[t] # None /\ sessions[t].user = u THEN r ELSE sessions[t]
    BY DEF RevokedFor
  <2>2. ASSUME sessions[t] # None
        PROVE  /\ r \in Sessions /\ r.user = sessions[t].user /\ r.late = sessions[t].late
               /\ r.outlived = sessions[t].outlived /\ r # None
    <3>1. sessions[t] \in Sessions
      BY <2>2 DEF TypeOK
    <3>2. r \in Sessions /\ r.user = sessions[t].user /\ r.late = sessions[t].late
          /\ r.outlived = sessions[t].outlived
      BY <3>1 DEF Sessions
    <3> QED  BY <3>2, NoneAssumption
  <2> HIDE DEF r
  <2> QED  BY <2>1, <2>2 DEF TypeOK
<1>2. sessions' = [t \in Tokens |-> sessions'[t]]
  BY DEF RevokedFor
<1>3. sessions' \in [Tokens -> Sessions \cup {None}]
  BY <1>1, <1>2
<1> QED  BY <1>1, <1>3 DEF SessionsKept, PresentInv, CredInv

\* The revocation leaves no session of the user that could outlive the change.
LEMMA NoneOutlived ==
  ASSUME Inv, NEW u \in Users
  PROVE  Outlived(u, RevokedFor(u)) = RevokedFor(u)
<1> USE DEF Inv, IInv
<1> DEFINE left == RevokedFor(u)
<1>1. ASSUME NEW t \in Tokens, left[t] # None, left[t].user = u PROVE left[t].revoked
  <2> DEFINE r == [sessions[t] EXCEPT !.revoked = TRUE]
  <2>1. left[t] = IF sessions[t] # None /\ sessions[t].user = u THEN r ELSE sessions[t]
    BY DEF RevokedFor
  <2>2. sessions[t] # None /\ sessions[t].user = u
    <3>1. CASE ~(sessions[t] # None /\ sessions[t].user = u)
      BY <1>1, <2>1, <3>1
    <3> QED  BY <3>1
  <2>3. sessions[t] \in Sessions
    BY <2>2 DEF TypeOK
  <2>4. r.revoked = TRUE
    BY <2>3 DEF Sessions
  <2> HIDE DEF r, left
  <2> QED  BY <2>1, <2>2, <2>4
<1>2. left = [t \in Tokens |-> left[t]]
  BY DEF RevokedFor
<1> HIDE DEF left
<1>3. Outlived(u, left) = left
  BY <1>1, <1>2 DEF Outlived
<1> QED  BY <1>3 DEF left

\* One session is revoked.
LEMMA OneRevoked ==
  ASSUME Inv, NEW t \in Tokens, sessions[t] # None, sessions' = [sessions EXCEPT ![t].revoked = TRUE]
  PROVE  SessionsKept
<1> USE DEF Inv, IInv
<1> DEFINE r == [sessions[t] EXCEPT !.revoked = TRUE]
<1>1. sessions[t] \in Sessions
  BY DEF TypeOK
<1>2. r \in Sessions /\ r.user = sessions[t].user /\ r.late = sessions[t].late
      /\ r.outlived = sessions[t].outlived
  BY <1>1 DEF Sessions
<1>3. sessions' = [sessions EXCEPT ![t] = r]
  OBVIOUS
<1> HIDE DEF r
<1>4. /\ sessions' \in [Tokens -> Sessions \cup {None}] /\ sessions'[t] = r
      /\ \A s \in Tokens \ {t} : sessions'[s] = sessions[s]
  BY <1>2, <1>3 DEF TypeOK
<1> QED  BY <1>2, <1>4, NoneAssumption DEF SessionsKept, PresentInv, CredInv

\* An edit that leaves the flag of the account alone.
LEMMA SameActive ==
  ASSUME TypeOK, AskInv, NEW u \in Users, NEW a, accounts[u] # None, accounts' = [accounts EXCEPT ![u] = a],
         a.active = accounts[u].active, UNCHANGED <<wanted, crossed>>
  PROVE  ActiveAsAsked' /\ wanted' \in [Users -> BOOLEAN] /\ crossed' \subseteq Users
BY DEF TypeOK, AskInv, ActiveAsAsked

\* A grant of the admin role.
LEMMA GrantRoleInv ==
  ASSUME Inv, NEW w \in Workers, NEW u \in Users, GrantRole(w, u)
  PROVE  Inv'
<1> USE DEF Inv, IInv
<1> DEFINE a == [accounts[u] EXCEPT !.admin = TRUE]
<1>1. accounts[u] \in Accounts /\ accounts[u] # None
  BY DEF GrantRole, TypeOK
<1>2. /\ a \in Accounts /\ a.active = accounts[u].active /\ a.admin
      /\ a.password = accounts[u].password
  BY <1>1 DEF Accounts
<1>3. accounts' = [accounts EXCEPT ![u] = a] /\ Noted(ProcOf[w])
      /\ UNCHANGED <<config, sessions, lock, cache, wanted, crossed, raced>>
  BY DEF GrantRole
<1> HIDE DEF a
<1>4. worker[w].at \in {"idle", "admitted"} /\ changes' \in 0..cast.changes
  BY Changing DEF GrantRole
<1>5. /\ worker' \in [Workers -> WorkerStates] /\ worker'[w] = [at |-> "bump"]
      /\ Carried({"bump", "checked"})
  <2>1. worker[w].at \notin {"bump", "checked"} /\ [at |-> "bump"] \in Plain
    BY <1>4, PlainStates
  <2> QED  BY <2>1, OvertakenCarried DEF GrantRole
<1>6. ProcOf[w] \in Procs /\ Bumping(ProcOf[w])'
  BY <1>5, WorkersAssumption, BumpingNext
<1>7. SessionsKept
  BY <1>3, SameSessions
<1>8. a.password = "superseded" => LateLogin(u)'
  BY <1>1, <1>2, <1>7, LateLoginKept DEF CredInv
<1>9. ActiveAsAsked' /\ wanted' \in [Users -> BOOLEAN] /\ crossed' \subseteq Users
  BY <1>1, <1>2, <1>3, SameActive
<1>10. (accounts[u].admin => a.admin) /\ (accounts[u].active => a.active)
  BY <1>2
<1>11. /\ a \in Accounts /\ accounts' = [accounts EXCEPT ![u] = a] /\ Noted(ProcOf[w])
       /\ UNCHANGED <<config, lock, cache, raced>> /\ crossed \subseteq crossed'
       /\ a.active = accounts[u].active
  BY <1>2, <1>3
<1>12. /\ worker' \in [Workers -> WorkerStates] /\ Carried({"bump", "checked"})
       /\ changes' \in 0..cast.changes
  BY <1>4, <1>5
<1> QED  BY <1>1, <1>6, <1>7, <1>8, <1>9, <1>10, <1>11, <1>12, EditedAccount

\* reset_password.
LEMMA ResetPasswordInv ==
  ASSUME Inv, NEW w \in Workers, NEW u \in Users, ResetPassword(w, u)
  PROVE  Inv'
<1> USE DEF Inv, IInv
<1> DEFINE a == [accounts[u] EXCEPT !.password = "current", !.legacy = FALSE]
<1>1. accounts[u] \in Accounts /\ accounts[u] # None
  BY DEF ResetPassword, TypeOK
<1>2. /\ a \in Accounts /\ a.active = accounts[u].active /\ a.admin = accounts[u].admin
      /\ a.password = "current"
  BY <1>1 DEF Accounts
<1>3. accounts' = [accounts EXCEPT ![u] = a] /\ Noted(ProcOf[w]) /\ sessions' = RevokedFor(u)
      /\ UNCHANGED <<config, lock, cache, wanted, crossed, raced>>
  BY <1>1, NoneOutlived DEF ResetPassword, Accounts, TypeOK
<1> HIDE DEF a
<1>4. worker[w].at \in {"idle", "admitted"} /\ changes' \in 0..cast.changes
  BY Changing DEF ResetPassword
<1>5. /\ worker' \in [Workers -> WorkerStates] /\ worker'[w] = [at |-> "bump"]
      /\ Carried({"bump", "checked"})
  <2> DEFINE ws == [worker EXCEPT ![w] = [at |-> "bump"]]
  <2>1. worker[w].at \notin {"bump", "checked"} /\ [at |-> "bump"] \in Plain
    BY <1>4, PlainStates
  <2>2. ws \in [Workers -> WorkerStates] /\ ws[w] = [at |-> "bump"]
        /\ \A x \in Workers \ {w} : ws[x] = worker[x]
    BY PlainStates DEF TypeOK
  <2>3. worker' = Late(u, TRUE, ws)
    BY DEF ResetPassword
  <2> HIDE DEF ws
  <2>4. /\ worker' \in [Workers -> WorkerStates]
        /\ \A x \in Workers : /\ Kept(ws[x], worker'[x])
                              /\ ws[x].at # "verified" => worker'[x] = ws[x]
    BY <2>2, <2>3, LateKeeps
  <2>5. worker'[w] = [at |-> "bump"]
    BY <2>2, <2>4
  <2> QED  BY <2>1, <2>2, <2>4, <2>5 DEF Carried
<1>6. ProcOf[w] \in Procs /\ Bumping(ProcOf[w])'
  BY <1>5, WorkersAssumption, BumpingNext
<1>7. SessionsKept
  BY <1>3, RevokedSessions
<1>8. a.password # "superseded"
  BY <1>2
<1>9. ActiveAsAsked' /\ wanted' \in [Users -> BOOLEAN] /\ crossed' \subseteq Users
  BY <1>1, <1>2, <1>3, SameActive
<1>10. (accounts[u].admin => a.admin) /\ (accounts[u].active => a.active)
  BY <1>2
<1>11. /\ a \in Accounts /\ accounts' = [accounts EXCEPT ![u] = a] /\ Noted(ProcOf[w])
       /\ UNCHANGED <<config, lock, cache, raced>> /\ crossed \subseteq crossed'
       /\ a.active = accounts[u].active
  BY <1>2, <1>3
<1>12. /\ worker' \in [Workers -> WorkerStates] /\ Carried({"bump", "checked"})
       /\ changes' \in 0..cast.changes
  BY <1>4, <1>5
<1> QED  BY <1>1, <1>6, <1>7, <1>8, <1>9, <1>10, <1>11, <1>12, EditedAccount

\* set_user_active(is_active=True).
LEMMA EnableUserInv ==
  ASSUME Inv, NEW w \in Workers, NEW u \in Users, EnableUser(w, u)
  PROVE  Inv'
<1> USE DEF Inv, IInv
<1> DEFINE a == [accounts[u] EXCEPT !.active = TRUE]
<1>1. accounts[u] \in Accounts /\ accounts[u] # None
  BY DEF EnableUser, TypeOK
<1>2. /\ a \in Accounts /\ a.active = TRUE /\ a.admin = accounts[u].admin
      /\ a.password = accounts[u].password
  BY <1>1 DEF Accounts
<1>3. /\ accounts' = [accounts EXCEPT ![u] = a] /\ Noted(ProcOf[w])
      /\ wanted' = [wanted EXCEPT ![u] = TRUE] /\ crossed' = Crossing(w, u)
      /\ UNCHANGED <<config, sessions, lock, cache, raced>>
  BY DEF EnableUser
<1> HIDE DEF a
<1>4. worker[w].at \in {"idle", "admitted"} /\ changes' \in 0..cast.changes
  BY Changing DEF EnableUser
<1>5. /\ worker' \in [Workers -> WorkerStates] /\ worker'[w] = [at |-> "bump"]
      /\ Carried({"bump", "checked"})
      /\ \A x \in Workers \ {w} : worker[x].at = "checked" => worker'[x].overtaken
  <2>1. worker[w].at \notin {"bump", "checked"} /\ [at |-> "bump"] \in Plain
    BY <1>4, PlainStates
  <2> QED  BY <2>1, OvertakenCarried DEF EnableUser
<1>6. ProcOf[w] \in Procs /\ Bumping(ProcOf[w])'
  BY <1>5, WorkersAssumption, BumpingNext
<1>7. SessionsKept
  BY <1>3, SameSessions
<1>8. a.password = "superseded" => LateLogin(u)'
  BY <1>1, <1>2, <1>7, LateLoginKept DEF CredInv
<1>9. crossed' \subseteq Users /\ crossed \subseteq crossed'
  BY <1>3 DEF Crossing, TypeOK
<1>10. ActiveAsAsked' /\ wanted' \in [Users -> BOOLEAN]
  <2>1. /\ wanted' \in [Users -> BOOLEAN] /\ wanted'[u] = TRUE
        /\ \A v \in Users \ {u} : wanted'[v] = wanted[v]
    BY <1>3 DEF TypeOK
  <2>2. accounts'[u] = a /\ \A v \in Users \ {u} : accounts'[v] = accounts[v]
    BY <1>3 DEF TypeOK
  <2> QED  BY <1>2, <1>9, <2>1, <2>2 DEF ActiveAsAsked, AskInv
<1>11. \A x \in Workers : Unguarded(worker'[x]) => worker'[x].overtaken
  <2>1. \A x \in Workers : Unguarded(worker'[x]) => worker[x].at = "checked"
    BY <1>5 DEF Carried, Kept, Unguarded, Plain
  <2> QED  BY <1>4, <1>5, <2>1
<1>12. \A x \in Workers : worker[x].at \in {"loaded", "checked"} /\ worker[x].user = u => u \in crossed'
  BY <1>3, <1>4 DEF Crossing
<1>13. (accounts[u].admin => a.admin) /\ a.active
  BY <1>2
<1>14. /\ a \in Accounts /\ accounts' = [accounts EXCEPT ![u] = a] /\ Noted(ProcOf[w])
       /\ UNCHANGED <<config, lock, cache, raced>>
  BY <1>2, <1>3
<1>15. /\ worker' \in [Workers -> WorkerStates] /\ Carried({"bump", "checked"})
       /\ changes' \in 0..cast.changes
  BY <1>4, <1>5
<1> QED  BY <1>1, <1>6, <1>7, <1>8, <1>9, <1>10, <1>11, <1>12, <1>13, <1>14, <1>15, EditedAccount

\* The writes of a login.
LEMMA CreateSessionInv ==
  ASSUME Inv, NEW w \in Workers, NEW t \in Tokens, CreateSession(w, t)
  PROVE  Inv'
<1> USE DEF Inv, IInv
<1>1. worker[w].at = "verified" /\ worker[w] \in Verified
  BY StateKinds DEF CreateSession, At, TypeOK
<1>2. PICK u \in Users : u = worker[w].user
  BY <1>1 DEF Verified
<1>3. PICK late \in BOOLEAN : late = worker[w].late
  BY <1>1 DEF Verified
<1>4. accounts[u] \in Accounts /\ accounts[u] # None
  BY <1>1, <1>2, ActingAccount DEF TypeOK
<1> DEFINE n == [user |-> u, revoked |-> FALSE, outlived |-> late, late |-> late]
<1>5. n \in Sessions /\ n.user = u /\ n.late = late /\ n.outlived = late
  BY DEF Sessions
<1>6. /\ sessions[t] = None /\ sessions' = [sessions EXCEPT ![t] = n] /\ Goes(w, Idle)
      /\ UNCHANGED <<config, lock, cache, changes, wanted, crossed, raced>> /\ Noted(ProcOf[w])
  BY <1>2, <1>3 DEF CreateSession
<1> HIDE DEF n
<1>7. /\ sessions' \in [Tokens -> Sessions \cup {None}] /\ sessions'[t] = n /\ n # None
      /\ \A s \in Tokens \ {t} : sessions'[s] = sessions[s]
  BY <1>5, <1>6, NoneAssumption DEF TypeOK
<1>8. SessionsKept
  BY <1>2, <1>4, <1>5, <1>6, <1>7 DEF SessionsKept, PresentInv, CredInv
<1>9. late => LateLogin(u)'
  BY <1>5, <1>7 DEF LateLogin
<1>10. PICK a \in Accounts : /\ accounts' = [accounts EXCEPT ![u] = a]
                             /\ a.active = accounts[u].active /\ a.admin = accounts[u].admin
                             /\ a.linked = accounts[u].linked
                             /\ a.password = accounts[u].password \/ a.password = worker[w].password
  <2> DEFINE b == [accounts[u] EXCEPT !.password = worker[w].password, !.legacy = FALSE]
  <2>1. /\ b \in Accounts /\ b.active = accounts[u].active /\ b.admin = accounts[u].admin
        /\ b.linked = accounts[u].linked /\ b.password = worker[w].password
    BY <1>1, <1>4 DEF Accounts, Verified
  <2>2. accounts' = [accounts EXCEPT ![u] = IF worker[w].rehash THEN b ELSE accounts[u]]
    BY <1>2 DEF CreateSession
  <2> HIDE DEF b
  <2> QED  BY <1>4, <2>1, <2>2
<1>11. a.password = "superseded" => LateLogin(u)'
  <2>1. accounts[u].password = "superseded" => LateLogin(u)
    BY <1>4 DEF CredInv
  <2>2. worker[w].password = "superseded" => late \/ LateLogin(u)
    BY <1>1, <1>2, <1>3 DEF CredInv, Entering
  <2>3. LateLogin(u) => LateLogin(u)'
    BY <1>8, LateLoginKept
  <2> QED  BY <1>9, <1>10, <2>1, <2>2, <2>3
<1>12. worker' \in [Workers -> WorkerStates] /\ Carried({"bump", "checked"})
  <2>1. worker[w].at \notin {"bump", "checked"}
    BY <1>1
  <2> QED  BY <1>6, <2>1, PlainStates, GoesCarried
<1>13. ActiveAsAsked' /\ wanted' \in [Users -> BOOLEAN] /\ crossed' \subseteq Users
  BY <1>4, <1>6, <1>10, SameActive
<1>14. ASSUME NEW c \in Creds, Held(c, cache, worker) PROVE Answer(c)' = Answer(c)
  <2>1. \A v \in Users : /\ accounts'[v] = None <=> accounts[v] = None
                         /\ accounts'[v].active = accounts[v].active
                         /\ accounts'[v].admin = accounts[v].admin
                         /\ accounts'[v].linked = accounts[v].linked
    BY <1>4, <1>10, NoneAssumption DEF TypeOK
  <2>2. CASE c \in Tokens
    <3>1. sessions[c] # None
      BY <1>14, <2>2 DEF Held, PresentInv, Known
    <3>2. sessions'[c] = sessions[c] /\ sessions[c].user \in Users /\ c \notin Users
      BY <1>6, <1>7, <2>2, <3>1, WorkersAssumption DEF TypeOK, Sessions
    <3> QED  BY <1>6, <2>1, <2>2, <3>1, <3>2 DEF Answer, AnswerOf, config
  <2>3. CASE c \in Users
    <3>1. c \notin Tokens
      BY <2>3, WorkersAssumption
    <3> QED  BY <1>6, <2>1, <2>3, <3>1 DEF Answer, AnswerOf, config
  <2> QED  BY <2>2, <2>3 DEF Creds
<1>15. ProcOf[w] \in Procs /\ changes' \in 0..cast.changes
  BY <1>6, WorkersAssumption DEF TypeOK
<1>16. (accounts[u].admin => a.admin) /\ (accounts[u].active => a.active)
  BY <1>10
<1>17. UNCHANGED <<config, lock, cache, raced>> /\ crossed \subseteq crossed'
  BY <1>6
<1>18. accounts' = [accounts EXCEPT ![u] = a] /\ a.active = accounts[u].active
  BY <1>10
<1> QED  BY <1>4, <1>6, <1>8, <1>11, <1>12, <1>13, <1>14, <1>15, <1>16, <1>17, <1>18,
            EditedAccount

\* A session ends, by logout or by its lifetime.
LEMMA SessionEndInv ==
  ASSUME Inv, NEW p \in Procs \cup {None}, NEW t \in Tokens, sessions[t] # None,
         sessions' = [sessions EXCEPT ![t].revoked = TRUE], Noted(p),
         worker' \in [Workers -> WorkerStates], Carried({"bump", "checked"}),
         UNCHANGED <<config, accounts, lock, cache, changes, wanted, crossed, raced>>,
         p = None \/ Bumping(p)'
  PROVE  Inv'
<1> USE DEF Inv, IInv
<1>1. SessionsKept
  BY OneRevoked
<1>2. PICK u \in Users : u = sessions[t].user /\ accounts[u] # None
  BY DEF TypeOK, Sessions, PresentInv
<1>3. PICK a \in Accounts : a = accounts[u]
  BY <1>2 DEF TypeOK
<1>4. accounts' = [accounts EXCEPT ![u] = a]
  BY <1>3 DEF TypeOK
<1>5. a.password = "superseded" => LateLogin(u)'
  BY <1>1, <1>2, <1>3, LateLoginKept DEF CredInv
<1>6. ActiveAsAsked' /\ wanted' \in [Users -> BOOLEAN] /\ crossed' \subseteq Users
  BY <1>2, <1>3, <1>4, SameActive
<1>7. changes' \in 0..cast.changes
  BY DEF TypeOK
<1> QED  BY <1>1, <1>2, <1>3, <1>4, <1>5, <1>6, <1>7, EditedAccount

\* revoke_session.
LEMMA RevokeSessionInv ==
  ASSUME Inv, NEW w \in Workers, RevokeSession(w)
  PROVE  Inv'
<1> USE DEF Inv, IInv
<1>1. worker[w].at = "admitted" /\ worker[w].cred \in Tokens
  BY DEF RevokeSession, At
<1>2. PICK t \in Tokens : t = worker[w].cred
  BY <1>1
<1>3. sessions[t] # None
  BY <1>1, <1>2 DEF PresentInv, Known
<1>4. /\ sessions' = [sessions EXCEPT ![t].revoked = TRUE] /\ Goes(w, [at |-> "bump"])
      /\ UNCHANGED <<config, accounts, lock, cache, changes, wanted, crossed, raced>>
      /\ Noted(ProcOf[w])
  BY <1>2 DEF RevokeSession
<1>5. /\ worker' \in [Workers -> WorkerStates] /\ worker'[w] = [at |-> "bump"]
      /\ Carried({"bump", "checked"})
  <2>1. worker[w].at \notin {"bump", "checked"} /\ [at |-> "bump"] \in Plain
    BY <1>1, PlainStates
  <2> QED  BY <1>4, <2>1, GoesCarried
<1>6. ProcOf[w] \in Procs /\ Bumping(ProcOf[w])'
  BY <1>5, WorkersAssumption, BumpingNext
<1> QED  BY <1>3, <1>4, <1>5, <1>6, SessionEndInv

\* The lifetime of a session ends.
LEMMA SessionExpiresInv ==
  ASSUME Inv, NEW t \in Tokens, SessionExpires(t)
  PROVE  Inv'
<1> USE DEF Inv, IInv
<1>1. worker' \in [Workers -> WorkerStates] /\ Carried({"bump", "checked"})
  BY KeptItself DEF SessionExpires, Carried, TypeOK
<1> QED  BY <1>1, SessionEndInv DEF SessionExpires

-----------------------------------------------------------------------------
\* The commit of a checked change: the one step that takes administrators away.
LEMMA CommitChangeInv ==
  ASSUME Inv, NEW w \in Workers, CommitChange(w)
  PROVE  Inv'
<1> USE DEF Inv, IInv
<1>1. worker[w].at = "checked" /\ worker[w] \in Checked
  BY StateKinds DEF CommitChange, At, TypeOK
<1>2. PICK o \in Checked : o = worker[w]
  BY <1>1
<1>3. PICK u \in Users : u = o.user /\ accounts[u] # None /\ accounts[u] \in Accounts
  BY <1>1, <1>2, ActingAccount DEF TypeOK
<1> DEFINE acts == o.kind = "revoke" => accounts[u].admin
           disables == o.kind # "revoke" /\ ~o.active
           next == IF acts THEN [at |-> "bump"] ELSE Idle
           ws == Overtaken(w, next)
           a == IF o.kind = "revoke" THEN [accounts[u] EXCEPT !.admin = FALSE]
                                     ELSE [accounts[u] EXCEPT !.active = o.active]
<1>4. /\ accounts' = [accounts EXCEPT ![u] = a]
      /\ sessions' = IF disables THEN RevokedFor(u) ELSE sessions
      /\ lock' = IF lock = w THEN None ELSE lock
      /\ wanted' = [wanted EXCEPT ![u] = IF o.ask # None THEN o.ask ELSE @]
      /\ crossed' = IF o.ask # None THEN Crossing(w, u) ELSE crossed
      /\ raced' = (raced \/ (acts /\ o.overtaken /\ (backend = "sqlite" \/ o.unguarded)))
      /\ worker' = IF disables THEN Late(u, FALSE, ws) ELSE ws
      /\ UNCHANGED <<config, cache, changes>>
      /\ Noted(ProcOf[w])
  BY <1>2, <1>3, NoneOutlived DEF CommitChange
<1>5. /\ a \in Accounts /\ a # None /\ a.password = accounts[u].password
      /\ o.kind = "revoke" => a.active = accounts[u].active /\ ~a.admin
      /\ o.kind # "revoke" => a.active = o.active /\ a.admin = accounts[u].admin
      /\ a.linked = accounts[u].linked
  <2>1. CASE o.kind = "revoke"
    <3>1. a = [accounts[u] EXCEPT !.admin = FALSE]
      BY <2>1
    <3>2. /\ a \in Accounts /\ a.password = accounts[u].password /\ a.active = accounts[u].active
          /\ ~a.admin /\ a.linked = accounts[u].linked
      BY <1>3, <3>1 DEF Accounts
    <3> HIDE DEF a
    <3> QED  BY <2>1, <3>2, NoneAssumption
  <2>2. CASE o.kind # "revoke"
    <3>0. o.active \in BOOLEAN
      BY DEF Checked
    <3>1. a = [accounts[u] EXCEPT !.active = o.active]
      BY <2>2
    <3>2. /\ a \in Accounts /\ a.password = accounts[u].password /\ a.active = o.active
          /\ a.admin = accounts[u].admin /\ a.linked = accounts[u].linked
      BY <1>3, <3>0, <3>1 DEF Accounts
    <3> HIDE DEF a
    <3> QED  BY <2>2, <3>2, NoneAssumption
  <2> QED  BY <2>1, <2>2
<1>6. /\ accounts' \in [Users -> Accounts \cup {None}] /\ accounts'[u] = a
      /\ \A v \in Users \ {u} : accounts'[v] = accounts[v]
  <2> HIDE DEF a
  <2> QED  BY <1>4, <1>5 DEF TypeOK
<1>7. /\ worker' \in [Workers -> WorkerStates] /\ worker'[w] = next
      /\ \A x \in Workers \ {w} : /\ Kept(worker[x], worker'[x])
                                  /\ worker[x].at = "checked" => worker'[x].overtaken
  <2>1. next \in Plain
    BY PlainStates
  <2>2. /\ ws \in [Workers -> WorkerStates] /\ ws[w] = next
        /\ \A x \in Workers \ {w} : /\ Kept(worker[x], ws[x])
                                    /\ worker[x].at = "checked" => ws[x].overtaken
    <3> HIDE DEF next
    <3> QED  BY <2>1, OvertakenKeeps DEF TypeOK
  <2>3. next.at # "verified"
    BY DEF Idle
  <2> HIDE DEF ws, next
  <2>4. CASE disables
    <3>1. /\ worker' \in [Workers -> WorkerStates]
          /\ \A x \in Workers : /\ Kept(ws[x], worker'[x])
                                /\ ws[x].at # "verified" => worker'[x] = ws[x]
      BY <1>4, <2>2, <2>4, LateKeeps
    <3>2. ASSUME NEW x \in Workers \ {w} PROVE Kept(worker[x], worker'[x])
      BY <2>2, <3>1, KeptTwice
    <3>3. ASSUME NEW x \in Workers \ {w}, worker[x].at = "checked" PROVE worker'[x].overtaken
      <4>1. ws[x].at = "checked" /\ ws[x].overtaken
        BY <2>2, <3>3 DEF Kept
      <4> QED  BY <3>1, <4>1
    <3> QED  BY <2>2, <2>3, <3>1, <3>2, <3>3
  <2>5. CASE ~disables
    BY <1>4, <2>2, <2>5
  <2> QED  BY <2>4, <2>5
<1>8. Carried({}) /\ Carried({"bump"})
  <2>1. next \in Plain /\ worker[w].at # "bump"
    BY <1>1, PlainStates
  <2> HIDE DEF next
  <2> QED  BY <1>7, <2>1 DEF Carried
<1>9. SessionsKept
  BY <1>4, SameSessions, RevokedSessions
<1>10. o.ask \in BOOLEAN \cup {None} /\ Asking(o)
  BY <1>2 DEF Checked, AskInv
<1>11. TypeOK'
  <2>1. ProcOf[w] \in Procs
    BY WorkersAssumption
  <2>2. lapsed' \in [Creds -> Nat] /\ changedBy' \in [Creds -> Procs \cup {None}]
    BY <1>4, <2>1, NotedType
  <2>3. /\ lock' \in Workers \cup {None}
        /\ lock' # None => backend = "postgresql" /\ worker'[lock'].at = "checked"
    <3>1. ASSUME lock' # None
          PROVE  /\ lock' = lock /\ lock \in Workers \ {w} /\ backend = "postgresql"
                 /\ worker[lock].at = "checked"
      BY <1>4, <3>1 DEF TypeOK, At
    <3>2. lock' # None => worker'[lock'].at = "checked"
      BY <1>7, <3>1 DEF Kept
    <3> QED  BY <3>1, <3>2
  <2>4. wanted' \in [Users -> BOOLEAN]
    BY <1>4, <1>10 DEF TypeOK
  <2>5. crossed' \subseteq Users
    BY <1>4 DEF Crossing, TypeOK
  <2>6. raced' \in BOOLEAN
    <3> HIDE DEF acts
    <3> QED  BY <1>4
  <2>7. sessions' \in [Tokens -> Sessions \cup {None}]
    BY <1>9 DEF SessionsKept
  <2>8. UNCHANGED <<backend, mode, cast, cache, changes>>
    BY <1>4 DEF config
  <2> QED  BY <1>6, <1>7, <2>2, <2>3, <2>4, <2>5, <2>6, <2>7, <2>8 DEF TypeOK, At
<1>12. PresentInv'
  <2>1. \A t \in Tokens : sessions'[t] # None => accounts'[sessions'[t].user] # None
    BY <1>5, <1>6, <1>9 DEF SessionsKept, Sessions
  <2>2. \A v \in Users : accounts[v] # None => accounts'[v] # None
    BY <1>5, <1>6
  <2>3. \A t \in Tokens : sessions[t] # None => sessions'[t] # None
    BY <1>9 DEF SessionsKept
  <2>4. \A p \in Procs, c \in Creds : cache'[p][c] # None => cache[p][c] # None
    BY <1>4
  <2> QED  BY <1>8, <1>11, <2>1, <2>2, <2>3, <2>4, PresentCarried
<1>13. worker'[w] \in Plain
  BY <1>7, PlainStates
<1>14. LockInv'
  <2>1. \A x \in Workers : Guards(worker'[x]) /\ lock = x => lock' = x
    BY <1>4, <1>13 DEF Guards, Plain
  <2>2. UNCHANGED backend
    BY <1>4 DEF config
  <2> QED  BY <1>8, <1>11, <2>1, <2>2, LockCarried
<1> HIDE DEF a, ws, next
<1>15. AdminInv'
  <2> SUFFICES ASSUME ~raced' PROVE AdminInv'
    BY DEF AdminInv
  <2>1. ~raced /\ ~(acts /\ o.overtaken /\ (backend = "sqlite" \/ o.unguarded))
    BY <1>4
  <2>2. ActiveAdmins \ {u} \subseteq ActiveAdmins'
    BY <1>6 DEF ActiveAdmins, Admins
  <2>3. u \in ActiveAdmins' <=> a.admin /\ a.active
    BY <1>5, <1>6 DEF ActiveAdmins, Admins
  <2>4. u \in ActiveAdmins => accounts[u].admin /\ accounts[u].active
    BY DEF ActiveAdmins, Admins
  <2>5. ASSUME ~Guards(o) PROVE ActiveAdmins \subseteq ActiveAdmins'
    <3>1. o.unguarded \/ (o.kind # "revoke" /\ o.active)
      BY <1>1, <1>2, <2>5 DEF Guards
    <3>2. CASE o.unguarded
      <4>1. Unguarded(o)
        BY <1>1, <1>2, <3>2 DEF Unguarded
      <4>2. o.kind = "update"
        BY <1>2, <4>1 DEF LockInv
      <4>3. ~o.overtaken
        BY <2>1, <3>2, <4>2
      <4>4. ~accounts[u].active
        BY <1>2, <1>3, <2>1, <4>1, <4>3 DEF AdminInv
      <4> QED  BY <2>2, <2>4, <4>4
    <3>3. CASE o.kind # "revoke" /\ o.active
      <4>1. a.active /\ a.admin = accounts[u].admin
        BY <1>5, <3>3
      <4> QED  BY <2>2, <2>3, <2>4, <4>1
    <3> QED  BY <3>1, <3>2, <3>3
  <2>6. ActiveAdmins' # {}
    <3>1. CASE ~Guards(o)
      BY <2>1, <2>5, <3>1 DEF AdminInv
    <3>2. CASE Guards(o) /\ acts
      <4>1. ~o.overtaken \/ lock = w
        <5>1. CASE backend = "sqlite"
          BY <2>1, <3>2, <5>1
        <5>2. CASE backend # "sqlite"
          <6>1. backend = "postgresql"
            BY <5>2 DEF TypeOK, Backends
          <6> QED  BY <1>2, <3>2, <6>1 DEF LockInv
        <5> QED  BY <5>1, <5>2
      <4>2. ActiveAdmins \ {u} # {}
        BY <1>2, <1>3, <2>1, <3>2, <4>1 DEF AdminInv
      <4> QED  BY <2>2, <4>2
    <3>3. CASE ~acts
      <4>1. u \notin ActiveAdmins
        BY <2>4, <3>3
      <4> QED  BY <2>1, <2>2, <4>1 DEF AdminInv
    <3> HIDE DEF acts
    <3> QED  BY <3>1, <3>2, <3>3
  <2>7. ASSUME NEW x \in Workers, Guards(worker'[x]), ~worker'[x].overtaken \/ lock' = x
        PROVE  ActiveAdmins' \ {worker'[x].user} # {}
    <3>1. x # w
      BY <1>13, <2>7 DEF Guards, Plain
    <3>2. Kept(worker[x], worker'[x]) /\ worker[x].at = "checked" /\ worker'[x].overtaken
      BY <1>7, <2>7, <3>1 DEF Kept, Guards
    <3>3. lock = x /\ backend = "postgresql"
      BY <1>4, <2>7, <3>1, <3>2, NoneAssumption DEF TypeOK
    <3>4. ~Guards(o)
      BY <1>2, <3>1, <3>3 DEF LockInv
    <3>5. Guards(worker[x]) /\ worker'[x].user = worker[x].user
      BY <1>7, <2>7, <3>2, KeptKind DEF TypeOK
    <3>6. ActiveAdmins \ {worker[x].user} # {}
      BY <2>1, <3>3, <3>5 DEF AdminInv
    <3> QED  BY <2>5, <3>4, <3>5, <3>6
  <2>8. ASSUME NEW x \in Workers, Unguarded(worker'[x]) PROVE worker'[x].overtaken
    <3>1. x # w
      BY <1>13, <2>8 DEF Unguarded, Plain
    <3>2. Kept(worker[x], worker'[x])
      BY <1>7, <3>1
    <3> QED  BY <1>7, <2>8, <3>1, <3>2 DEF Kept, Unguarded
  <2> QED  BY <2>6, <2>7, <2>8 DEF AdminInv
<1>16. /\ crossed \subseteq crossed'
       /\ o.ask # None => \A x \in Workers \ {w} :
            worker[x].at \in {"loaded", "checked"} /\ worker[x].user = u => u \in crossed'
  BY <1>4 DEF Crossing
<1>17. o.ask = None => a.active = accounts[u].active \/ u \in crossed
  <2>1. CASE o.kind = "revoke"
    BY <1>5, <2>1
  <2>2. CASE o.kind # "revoke"
    <3>1. o.at = "checked"
      BY <1>1, <1>2
    <3> QED  BY <1>3, <1>5, <1>10, <2>2, <3>1 DEF Asking
  <2> QED  BY <2>1, <2>2
<1>18. o.ask # None => a.active = o.ask
  <2>1. o.at = "checked"
    BY <1>1, <1>2
  <2> QED  BY <1>5, <1>10, <2>1 DEF Asking
<1>19. AskInv'
  <2>1. ActiveAsAsked'
    <3>1. /\ wanted'[u] = IF o.ask # None THEN o.ask ELSE wanted[u]
          /\ \A v \in Users \ {u} : wanted'[v] = wanted[v]
      BY <1>4 DEF TypeOK
    <3>2. accounts[u].active # wanted[u] => u \in crossed
      BY <1>3 DEF AskInv, ActiveAsAsked
    <3>3. a.active # wanted'[u] => u \in crossed'
      <4>1. CASE o.ask = None
        BY <1>16, <1>17, <3>1, <3>2, <4>1
      <4>2. CASE o.ask # None
        BY <1>18, <3>1, <4>2
      <4> QED  BY <4>1, <4>2
    <3>4. ASSUME NEW v \in Users, accounts'[v] # None, accounts'[v].active # wanted'[v]
          PROVE  v \in crossed'
      <4>1. CASE v = u
        BY <1>6, <3>3, <3>4, <4>1
      <4>2. CASE v # u
        BY <1>6, <1>16, <3>1, <3>4, <4>2 DEF AskInv, ActiveAsAsked
      <4> QED  BY <4>1, <4>2
    <3> QED  BY <3>4 DEF ActiveAsAsked
  <2>2. ASSUME NEW x \in Workers, Kept(worker[x], worker'[x]), worker[x].at \in {"loaded", "checked"}
        PROVE  \/ accounts'[worker[x].user].active = accounts[worker[x].user].active
               \/ worker[x].user \in crossed'
    <3>1. x # w /\ worker[x].user \in Users
      BY <1>1, <1>13, <2>2, ActingAccount DEF Kept, Plain
    <3>2. CASE worker[x].user = u
      BY <1>6, <1>16, <1>17, <2>2, <3>1, <3>2
    <3>3. CASE worker[x].user # u
      BY <1>6, <3>1, <3>3
    <3> QED  BY <3>2, <3>3
  <2>3. \A x \in Workers : Asking(worker[x])'
    BY <1>8, <1>11, <1>16, <2>2, AskCarried DEF AskInv
  <2> QED  BY <2>1, <2>3 DEF AskInv
<1>20. CredInv'
  <2>1. \A v \in Users : LateLogin(v) => LateLogin(v)'
    BY <1>9, LateLoginKept
  <2>2. \A x \in Workers : Entering(worker[x])'
    BY <1>8, <1>11, <2>1, CredCarried
  <2>3. \A v \in Users : accounts'[v] # None /\ accounts'[v].password = "superseded" => LateLogin(v)'
    BY <1>3, <1>5, <1>6, <2>1 DEF CredInv
  <2>4. \A t \in Tokens : sessions'[t] # None => sessions'[t].outlived = sessions'[t].late
    BY <1>9 DEF SessionsKept
  <2> QED  BY <2>2, <2>3, <2>4 DEF CredInv
<1>21. StaleInv'
  <2>1. ProcOf[w] \in Procs
    BY WorkersAssumption
  <2>2. ASSUME acts PROVE Bumping(ProcOf[w])'
    BY <1>7, <2>2, BumpingNext DEF next
  <2>3. ASSUME ~acts, NEW c \in Creds PROVE Answer(c)' = Answer(c)
    <3>1. o.kind = "revoke" /\ ~accounts[u].admin /\ UNCHANGED <<sessions, mode>>
      BY <1>4, <2>3 DEF config
    <3>2. /\ a.admin = accounts[u].admin /\ a.active = accounts[u].active
          /\ a.linked = accounts[u].linked
      <4>1. a.admin \in BOOLEAN /\ accounts[u].admin \in BOOLEAN
        BY <1>3, <1>5 DEF Accounts
      <4> QED  BY <1>5, <3>1, <4>1
    <3>3. \A v \in Users : /\ accounts'[v] = None <=> accounts[v] = None
                           /\ accounts'[v].active = accounts[v].active
                           /\ accounts'[v].admin = accounts[v].admin
                           /\ accounts'[v].linked = accounts[v].linked
      BY <1>3, <1>5, <1>6, <3>2
    <3>4. c \in Tokens /\ sessions[c] # None => sessions[c].user \in Users
      BY DEF TypeOK, Sessions
    <3> QED  BY <3>1, <3>3, <3>4 DEF Answer, AnswerOf
  <2>4. \A c \in Creds :
          Held(c, cache, worker) /\ Answer(c)' # Answer(c) => ProcOf[w] = None \/ Bumping(ProcOf[w])'
    <3> HIDE DEF acts
    <3> QED  BY <2>2, <2>3
  <2>5. UNCHANGED cache /\ Noted(ProcOf[w])
    BY <1>4
  <2> QED  BY <1>8, <1>11, <2>1, <2>4, <2>5, StaleNoted
<1> QED  BY <1>11, <1>12, <1>14, <1>15, <1>19, <1>20, <1>21

-----------------------------------------------------------------------------
\* The first states.
LEMMA InitInv == Init => Inv
<1> SUFFICES ASSUME Init PROVE Inv
  OBVIOUS
<1>1. PICK found \in SUBSET Users, on \in SUBSET Users :
       /\ First \in on /\ on \subseteq found
       /\ accounts = [u \in Users |->
            IF u \in found
            THEN [active |-> u \in on, admin |-> TRUE, legacy |-> u = First /\ mode = "password",
                  linked |-> mode = "trusted_proxy", password |-> FirstPassword]
            ELSE None]
       /\ wanted = [u \in Users |-> u \in on]
  BY DEF Init
<1>2. /\ backend \in Backends /\ mode \in Modes /\ cast \in Casts
      /\ sessions = [t \in Tokens |-> None] /\ lock = None
      /\ cache = [p \in Procs |-> [c \in Creds |-> None]]
      /\ worker = [w \in Workers |-> Idle] /\ changes = 0
      /\ lapsed = [c \in Creds |-> 0] /\ changedBy = [c \in Creds |-> None]
      /\ crossed = {} /\ raced = FALSE
  BY DEF Init
<1>3. ASSUME NEW u \in Users
      PROVE  /\ accounts[u] \in Accounts \cup {None}
             /\ accounts[u] # None <=> u \in found
             /\ u \in found => /\ accounts[u].active = (u \in on) /\ accounts[u].admin
                               /\ accounts[u].password # "superseded"
  <2> DEFINE a == [active |-> u \in on, admin |-> TRUE, legacy |-> u = First /\ mode = "password",
                   linked |-> mode = "trusted_proxy", password |-> FirstPassword]
  <2>1. a \in Accounts
    BY DEF Accounts, FirstPassword
  <2>2. a.active = (u \in on) /\ a.admin = TRUE /\ a.password # "superseded"
    BY DEF FirstPassword
  <2>3. accounts[u] = IF u \in found THEN a ELSE None
    BY <1>1
  <2> HIDE DEF a
  <2> QED  BY <2>1, <2>2, <2>3, NoneAssumption
<1>4. accounts \in [Users -> Accounts \cup {None}]
  <2>1. accounts = [u \in Users |-> accounts[u]]
    BY <1>1
  <2> QED  BY <1>3, <2>1
<1>5. \A w \in Workers : worker[w] = Idle /\ Idle.at = "idle"
  BY <1>2 DEF Idle
<1>6. TypeOK
  <2>1. cast.changes \in Nat
    BY <1>2, WorkersAssumption
  <2>2. worker \in [Workers -> WorkerStates]
    BY <1>2, PlainStates
  <2>3. wanted \in [Users -> BOOLEAN]
    BY <1>1
  <2>4. changes \in 0..cast.changes
    BY <1>2, <2>1
  <2>5. /\ sessions \in [Tokens -> Sessions \cup {None}]
        /\ cache \in [Procs -> [Creds -> Entries \cup {None}]]
        /\ lapsed \in [Creds -> Nat] /\ changedBy \in [Creds -> Procs \cup {None}]
    BY <1>2
  <2>6. crossed \subseteq Users /\ raced \in BOOLEAN /\ lock = None
    BY <1>2
  <2> QED  BY <1>2, <1>4, <2>2, <2>3, <2>4, <2>5, <2>6 DEF TypeOK
<1>7. PresentInv
  BY <1>2, <1>5 DEF PresentInv, Known, Creds
<1>8. LockInv
  BY <1>5 DEF LockInv, Guards, Unguarded
<1>9. AdminInv
  <2>1. First \in ActiveAdmins
    BY <1>1, <1>3 DEF ActiveAdmins, Admins
  <2> QED  BY <1>5, <2>1 DEF AdminInv, Guards, Unguarded
<1>10. AskInv
  <2>1. ActiveAsAsked
    BY <1>1, <1>3 DEF ActiveAsAsked
  <2> QED  BY <1>5, <2>1 DEF AskInv, Asking
<1>11. CredInv
  BY <1>2, <1>3, <1>5 DEF CredInv, Entering
<1>12. StaleInv
  BY <1>2, <1>5 DEF StaleInv, StaleExplained, Fresh
<1> QED  BY <1>6, <1>7, <1>8, <1>9, <1>10, <1>11, <1>12 DEF Inv, IInv

\* Nothing happens.
LEMMA StutterInv == ASSUME Inv, UNCHANGED vars PROVE Inv'
<1> USE DEF Inv, IInv, vars, config, ghosts
<1>1. TypeOK'
  BY DEF TypeOK, At
<1>2. PresentInv'
  BY DEF PresentInv, Known
<1>3. AskInv' /\ CredInv' /\ LockInv' /\ AdminInv'
  BY StoreKept
<1>4. StaleInv'
  BY DEF StaleInv, StaleExplained, Fresh, Answer, AnswerOf, Bumping, At
<1> QED  BY <1>1, <1>2, <1>3, <1>4

\* Every step.
LEMMA StepInv == Inv /\ [Next]_vars => Inv'
<1> SUFFICES ASSUME Inv, [Next]_vars PROVE Inv'
  OBVIOUS
<1>0. cast.workers \subseteq Workers
  BY WorkersAssumption DEF Inv, TypeOK
<1>1. ASSUME NEW w \in cast.workers, RequestStep(w) PROVE Inv'
  <2>0. w \in Workers
    BY <1>0
  <2>1. ASSUME NEW c \in Creds, CachedRequest(w, c) PROVE Inv'
    BY <2>0, <2>1, CachedRequestInv
  <2>2. ASSUME NEW c \in Creds, ResolveRequest(w, c) PROVE Inv'
    BY <2>0, <2>2, ResolveRequestInv
  <2>3. ASSUME NEW u \in Users, ProvisionProxyUser(w, u) PROVE Inv'
    BY <2>0, <2>3, CreateAccountInv
  <2>4. ASSUME NEW u \in Users, VerifyPassword(w, u) PROVE Inv'
    BY <2>0, <2>4, VerifyPasswordInv
  <2>5. ASSUME NEW t \in Tokens, CreateSession(w, t) PROVE Inv'
    BY <2>0, <2>5, CreateSessionInv
  <2>6. CASE Remember(w)
    BY <2>0, <2>6, RememberInv
  <2>7. CASE Serve(w)
    BY <2>0, <2>7, EndRequestInv
  <2>8. CASE InvalidateAuthentication(w)
    BY <2>0, <2>8, InvalidateInv
  <2>9. CASE RevokeSession(w)
    BY <2>0, <2>9, RevokeSessionInv
  <2> QED  BY <1>1, <2>1, <2>2, <2>3, <2>4, <2>5, <2>6, <2>7, <2>8, <2>9 DEF RequestStep
<1>2. ASSUME NEW w \in cast.workers, ChangeStep(w) PROVE Inv'
  <2>0. w \in Workers
    BY <1>0
  <2>1. ASSUME NEW u \in Users, CreateUser(w, u) PROVE Inv'
    BY <2>0, <2>1, CreateAccountInv
  <2>2. ASSUME NEW u \in Users, GrantRole(w, u) PROVE Inv'
    BY <2>0, <2>2, GrantRoleInv
  <2>3. ASSUME NEW u \in Users, ResetPassword(w, u) PROVE Inv'
    BY <2>0, <2>3, ResetPasswordInv
  <2>4. ASSUME NEW u \in Users, EnableUser(w, u) PROVE Inv'
    BY <2>0, <2>4, EnableUserInv
  <2>5. ASSUME NEW u \in Users, CheckDisable(w, u) \/ CheckRevoke(w, u) PROVE Inv'
    BY <2>0, <2>5, CheckCommandInv
  <2>6. ASSUME NEW u \in Users, NEW ask \in {None, TRUE, FALSE}, LoadAccount(w, u, ask) PROVE Inv'
    BY <2>0, <2>6, LoadAccountInv
  <2>7. CASE CheckUpdate(w)
    BY <2>0, <2>7, CheckUpdateInv
  <2>8. CASE RefuseUpdate(w)
    BY <2>0, <2>8, EndRequestInv
  <2>9. CASE CommitChange(w)
    BY <2>0, <2>9, CommitChangeInv
  <2> QED  BY <1>2, <2>1, <2>2, <2>3, <2>4, <2>5, <2>6, <2>7, <2>8, <2>9 DEF ChangeStep
<1>3. ASSUME NEW t \in Tokens, SessionExpires(t) PROVE Inv'
  BY <1>3, SessionExpiresInv
<1>4. CASE Tick
  BY <1>4, TickInv
<1>5. CASE UNCHANGED vars
  BY <1>5, StutterInv
<1> QED  BY <1>1, <1>2, <1>3, <1>4, <1>5 DEF Next

\* The invariant holds of every behaviour of the control plane.
THEOREM ControlInvariant == Spec => []Inv
BY InitInv, StepInv, PTL DEF Spec

\* Type correctness of store, cache and requests, and the lock held exactly
\* between a passed check and its commit (_is_last_admin, FOR UPDATE).
THEOREM ControlTypeOK == Spec => []TypeOK
<1>1. Inv => TypeOK
  BY DEF Inv
<1> QED  BY <1>1, ControlInvariant, PTL

\* Some account can always administer, unless a change was overtaken between
\* its check and its commit where the backend lets it (_is_last_admin).
THEOREM AnAdminRemains == Spec => []AdminRemains
<1>1. Inv => AdminRemains
  BY DEF Inv, IInv, AdminInv, AdminRemains
<1> QED  BY <1>1, ControlInvariant, PTL

\* An account is enabled or disabled as somebody last asked, unless an edit of
\* it was under way then (update_user).
THEOREM AsAsked == Spec => []ActiveAsAsked
<1>1. Inv => ActiveAsAsked
  BY DEF Inv, IInv, AskInv
<1> QED  BY <1>1, ControlInvariant, PTL

\* Resetting and disabling end the sessions and passwords of an account, but for
\* a login past its verification (reset_password, set_user_active).
THEOREM CredentialsEnd == Spec => []CredentialsRevoked
<1>1. Inv => CredentialsRevoked
  BY DEF Inv, IInv, CredInv, CredentialsRevoked, LateLogin
<1> QED  BY <1>1, ControlInvariant, PTL

\* An outdated answer is served no longer than the time to live and its own fill
\* (AuthenticationService._remember and _invalidate_authentication).
THEOREM StalenessBounded == Spec => []StaleExplained
<1>1. Inv => StaleExplained
  BY DEF Inv, IInv, StaleInv
<1> QED  BY <1>1, ControlInvariant, PTL
=============================================================================
