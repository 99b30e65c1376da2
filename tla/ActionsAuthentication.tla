----------------------- MODULE ActionsAuthentication ------------------------
(***************************************************************************)
(* The authentication of an upload from a GitHub Actions workflow, for one *)
(* repository: a signed token is verified with the keys GitHub publishes,  *)
(* the repository is looked up in the database, GitHub is asked for its    *)
(* present state, the row is confirmed and updated, and the token is used  *)
(* up.  Between two of these steps other uploads, the deletion of the      *)
(* project and GitHub itself go on, and so do refreshes of installations,  *)
(* which write the same row: module InstallationSync has them with all     *)
(* rows and with what starts them, here they are followed for what they    *)
(* make of the name.                                                       *)
(*                                                                         *)
(* A request takes its time once, at its start, and so does a refresh.     *)
(* The name of a repository stands for its full name and its default       *)
(* branch, and a token is that of a push to the branch it names, issued in *)
(* the past.  A listing is the repository in it, and stands for its ETag,  *)
(* because equal listings have equal ETags.  A refresh that fails or whose *)
(* process dies takes no further step.                                     *)
(*                                                                         *)
(* A name with Ignoring, As, AtCommit, FromRow or UntilExpiry is a faulty  *)
(* variant of the definition that follows it.                              *)
(***************************************************************************)
EXTENDS Naturals, FiniteSets

CONSTANTS
  Requests,  \* executions of the upload handler
  Refreshes, \* executions of a refresh: webhook worker, repair loop, setup page
  Tokens,    \* signed tokens: kid, expires, name, owner
  Bindings,  \* rows of the repository: installation, owner, project
  Names,     \* full name and default branch
  Owners,
  Keys,      \* key ids GitHub signs with
  None,
  Skew,      \* OIDC_POLICY_V2.clock_skew_seconds   60 seconds
  Lifetime,  \* OIDC_POLICY_V2.jwks_cache_seconds    1 hour
  Cooldown,  \* _UNKNOWN_KID_REFRESH_COOLDOWN        1 minute
  MaxTime,   \* bound of the clock
  MaxChanges \* bound of the steps of others, and of restarts, in a behaviour

ASSUME AuthenticationAssumption ==
  /\ Tokens \subseteq [id : Nat, kid : Keys, expires : Nat, name : Names, owner : Owners]
  /\ \A b \in Bindings : b.owner \in Owners
  /\ {Skew, MaxTime, MaxChanges} \subseteq Nat
  /\ {Lifetime, Cooldown} \subseteq Nat \ {0}
  /\ None \notin Tokens \cup Bindings \cup [name : Names, owner : Owners, usable : BOOLEAN]

VARIABLES
  clock,
  published,  \* the keys GitHub publishes
  live,       \* the repository at GitHub: name, owner, whether it is usable
  jwks,       \* GithubOidcJwksClient: the cached keys, expiry and cooldown
  scope,      \* the rows of the repository, its installation and its project
  refreshes,
  used,       \* github_oidc_replays
  requests,
  seen,       \* history: the last time GitHub had the repository by a name
  changes     \* number of steps of others, for the bound

world == <<published, live, seen, changes>>
vars == <<clock, world, jwks, scope, refreshes, used, requests>>

Repositories == [name : Names, owner : Owners, usable : BOOLEAN]

Installations == {b.installation : b \in Bindings}

NoKeys == [keys |-> {}, expires |-> 0, fetched |-> 0, cooling |-> 0]

(***************************************************************************)
(* fetched, agreed and confirmed are history: when the keys that were used *)
(* had been fetched, whether GitHub has said of the repository what the    *)
(* token says at some time since the request began, and what the row was   *)
(* bound to when it was confirmed.                                         *)
(***************************************************************************)
NoRequest ==
  [pc |-> "none", token |-> None, now |-> 0, binding |-> None, name |-> None,
   fetched |-> 0, agreed |-> FALSE, confirmed |-> None]

NoRefresh ==
  [pc |-> "none", at |-> 0, installation |-> None, etag |-> None, cached |-> None, answer |-> None]

(***************************************************************************)
(* The row can be used, or is disabled or archived, or removed, or can be  *)
(* used but for its project, which is hidden.                              *)
(***************************************************************************)
RowStates == {"active", "disabled", "removed", "hidden"}

Says(repository, token) ==
  repository.usable /\ repository.name = token.name /\ repository.owner = token.owner

-----------------------------------------------------------------------------
Init ==
  /\ clock = 0
  /\ published \in {{k} : k \in Keys}
  /\ live \in {l \in Repositories : l.usable}
  /\ jwks = NoKeys
  /\ scope \in [state : {"active"}, binding : {b \in Bindings : b.owner = live.owner},
                name : {live.name}, verified : {0},
                etag : {l \in Repositories : l.usable /\ l.owner = live.owner} \cup {None},
                reconciled : {0}, restamped : {FALSE}]
  /\ refreshes = [p \in Refreshes |-> NoRefresh]
  /\ used = {}
  /\ requests = [r \in Requests |-> NoRequest]
  /\ seen = [n \in Names |-> 0]
  /\ changes = 0

-----------------------------------------------------------------------------
Move(r, next) == requests' = [requests EXCEPT ![r] = next]

Change ==
  /\ changes < MaxChanges
  /\ changes' = changes + 1

Goto(r, pc) == [requests[r] EXCEPT !.pc = pc]

(***************************************************************************)
(* A request arrives with a bearer token, which may have been sent before. *)
(***************************************************************************)
Receive(r, token) ==
  /\ requests[r].pc = "none"
  /\ Move(r, [NoRequest EXCEPT
       !.pc = "keys", !.token = token, !.now = clock, !.agreed = Says(live, token)])
  /\ UNCHANGED <<clock, world, jwks, scope, refreshes, used>>

(***************************************************************************)
(* GithubOidcJwksClient.get, under its lock: the cached keys are used if   *)
(* they have not expired and hold the key, or were fetched for a key they  *)
(* still lacked a short time ago; otherwise they are fetched.              *)
(***************************************************************************)
CacheServesIgnoringExpiry(now, kid) == jwks.keys # {} /\ kid \in jwks.keys

CacheServes(now, kid) ==
  /\ jwks.expires > now
  /\ kid \in jwks.keys \/ jwks.cooling > now

CoolingUntilExpiry(now, kid) == IF kid \in published THEN 0 ELSE now + Lifetime

CoolingUntil(now, kid) == IF kid \in published THEN 0 ELSE now + Cooldown

(***************************************************************************)
(* authenticate_github_oidc: the signature and the times of the token.     *)
(***************************************************************************)
Authentic(r, keys) ==
  /\ requests[r].token.kid \in keys
  /\ requests[r].token.expires + Skew >= requests[r].now

Authenticated(r, keys, fetched) ==
  [requests[r] EXCEPT
     !.fetched = fetched,
     !.pc = IF requests[r].token.kid \notin keys THEN "unknown_key"
            ELSE IF Authentic(r, keys) THEN "load" ELSE "rejected"]

KeysFromCache(r) ==
  /\ requests[r].pc = "keys"
  /\ CacheServes(requests[r].now, requests[r].token.kid)
  /\ Move(r, Authenticated(r, jwks.keys, jwks.fetched))
  /\ UNCHANGED <<clock, world, jwks, scope, refreshes, used>>

KeysFromGithub(r) ==
  /\ requests[r].pc = "keys"
  /\ ~CacheServes(requests[r].now, requests[r].token.kid)
  /\ jwks' = [keys |-> published, fetched |-> clock, expires |-> requests[r].now + Lifetime,
              cooling |-> CoolingUntil(requests[r].now, requests[r].token.kid)]
  /\ Move(r, Authenticated(r, published, clock))
  /\ UNCHANGED <<clock, world, scope, refreshes, used>>

(***************************************************************************)
(* load_active: the repository is in an installation that is active, has a *)
(* project that is not hidden, and its owner is the one of the token.      *)
(***************************************************************************)
Load(r) ==
  /\ requests[r].pc = "load"
  /\ scope.state = "active"
  /\ scope.binding.owner = requests[r].token.owner
  /\ Move(r, [Goto(r, "ask") EXCEPT !.binding = scope.binding])
  /\ UNCHANGED <<clock, world, jwks, scope, refreshes, used>>

LoadNothing(r) ==
  /\ requests[r].pc = "load"
  /\ scope.state # "active" \/ scope.binding.owner # requests[r].token.owner
  /\ Move(r, Goto(r, "rejected"))
  /\ UNCHANGED <<clock, world, jwks, scope, refreshes, used>>

(***************************************************************************)
(* The repository as GitHub has it now must be what the token says.        *)
(***************************************************************************)
SnapshotNameAsWhole(answer) == answer

SnapshotName(answer) == answer.name

AnswerFromRow ==
  [name |-> scope.name, owner |-> scope.binding.owner, usable |-> scope.state = "active"]

Answer == live

Ask(r) ==
  /\ requests[r].pc = "ask"
  /\ Move(r,
       IF Says(Answer, requests[r].token)
       THEN [Goto(r, "confirm") EXCEPT !.name = SnapshotName(Answer)] ELSE Goto(r, "rejected"))
  /\ UNCHANGED <<clock, world, jwks, scope, refreshes, used>>

(***************************************************************************)
(* confirm, one write transaction: the repository must still be active and *)
(* bound as it was when it was loaded; its row and its project take the    *)
(* metadata with the time of the request.  The ETag of the installation    *)
(* stays: it is that of a listing which may have had another name.         *)
(***************************************************************************)
VerifiedAtCommit(r) == clock

VerifiedAt(r) == requests[r].now

Confirm(r) ==
  /\ requests[r].pc = "confirm"
  /\ scope.state = "active"
  /\ scope.binding = requests[r].binding
  /\ Move(r, [Goto(r, "consume") EXCEPT !.confirmed = scope.binding])
  /\ scope' = [scope EXCEPT !.name = requests[r].name, !.verified = VerifiedAt(r),
                            !.restamped = FALSE]
  /\ UNCHANGED <<clock, world, jwks, refreshes, used>>

ConfirmStale(r) ==
  /\ requests[r].pc = "confirm"
  /\ scope.state # "active" \/ scope.binding # requests[r].binding
  /\ Move(r, Goto(r, "rejected"))
  /\ UNCHANGED <<clock, world, jwks, scope, refreshes, used>>

(***************************************************************************)
(* The token is used up by the insertion of its digest, which is unique.   *)
(* Nothing removes the row: purge_expired is not called.                   *)
(***************************************************************************)
UnusedIgnoringOthers(r) == TRUE

Unused(r) == requests[r].token \notin used

Consume(r) ==
  /\ requests[r].pc = "consume"
  /\ Unused(r)
  /\ used' = used \cup {requests[r].token}
  /\ Move(r, Goto(r, "authorized"))
  /\ UNCHANGED <<clock, world, jwks, scope, refreshes>>

ConsumeReplayed(r) ==
  /\ requests[r].pc = "consume"
  /\ ~Unused(r)
  /\ Move(r, Goto(r, "rejected"))
  /\ UNCHANGED <<clock, world, jwks, scope, refreshes, used>>

(***************************************************************************)
(* GitHub does not answer, the database raises, or the client goes away.   *)
(***************************************************************************)
Abandon(r) ==
  /\ requests[r].pc \in {"keys", "load", "ask", "confirm", "consume"}
  /\ Move(r, Goto(r, "rejected"))
  /\ UNCHANGED <<clock, world, jwks, scope, refreshes, used>>

(***************************************************************************)
(* The process is started again: handlers and cached keys are gone, and    *)
(* the refreshes under way in it take no further step.                     *)
(***************************************************************************)
Restart ==
  /\ Change
  /\ jwks' = NoKeys
  /\ requests' = [r \in Requests |->
       IF requests[r].pc \in {"none", "authorized", "unknown_key"} THEN requests[r]
       ELSE Goto(r, "rejected")]
  /\ UNCHANGED <<clock, published, live, seen, scope, refreshes, used>>

-----------------------------------------------------------------------------
(***************************************************************************)
(* A refresh of the installation takes its time and reads the ETag of the  *)
(* last listing and the row, in two queries no transaction joins.          *)
(***************************************************************************)
RefreshTo(p, next) ==
  /\ refreshes' = [refreshes EXCEPT ![p] = next]
  /\ UNCHANGED <<clock, published, live, seen, jwks, used, requests>>

StartRefresh(p) ==
  /\ refreshes[p].pc = "none"
  /\ Change
  /\ RefreshTo(p, [NoRefresh EXCEPT !.pc = "etag", !.at = clock,
                                    !.installation = scope.binding.installation])
  /\ UNCHANGED scope

ReadETag(p) ==
  /\ refreshes[p].pc = "etag"
  /\ RefreshTo(p, [refreshes[p] EXCEPT !.pc = "rows", !.etag = scope.etag])
  /\ UNCHANGED <<scope, changes>>

CachedRow ==
  IF scope.state = "removed" THEN None
  ELSE [name |-> scope.name, state |-> IF scope.state = "disabled" THEN "disabled" ELSE "active"]

ReadRow(p) ==
  /\ refreshes[p].pc = "rows"
  /\ RefreshTo(p, [refreshes[p] EXCEPT
       !.pc = "list", !.cached = IF refreshes[p].etag = None THEN None ELSE CachedRow])
  /\ UNCHANGED <<scope, changes>>

(***************************************************************************)
(* GitHub lists the repositories, with an ETag if they fit one page; or it *)
(* says that the listing of the ETag still holds (304), if it does.        *)
(***************************************************************************)
ListFully(p) ==
  /\ refreshes[p].pc = "list"
  /\ \E etag \in {live, None} :
       RefreshTo(p, [refreshes[p] EXCEPT
         !.pc = "write", !.answer = live, !.etag = etag, !.cached = None])
  /\ UNCHANGED <<scope, changes>>

ListNotModified(p) ==
  /\ refreshes[p].pc = "list"
  /\ refreshes[p].etag = live
  /\ RefreshTo(p, [refreshes[p] EXCEPT !.pc = "write"])
  /\ UNCHANGED <<scope, changes>>

(***************************************************************************)
(* replace, one write transaction: what was listed, or else the row as it  *)
(* was read, is written with the time of the refresh.  A row that is not   *)
(* in it is removed, and a hidden project is shown again.                  *)
(***************************************************************************)
Superseded(p) ==
  \/ scope.reconciled > refreshes[p].at
  \/ scope.binding.installation # refreshes[p].installation

Accessible(answer) == answer.usable /\ answer.owner = scope.binding.owner

Named(p, name, state) ==
  [scope EXCEPT !.name = name, !.state = state, !.verified = refreshes[p].at,
                !.restamped = refreshes[p].answer = None /\ name # refreshes[p].etag.name]

Projected(p) ==
  LET answer == refreshes[p].answer
      cached == refreshes[p].cached
      removed == [scope EXCEPT !.state = "removed"]
  IN  IF answer = None
      THEN {IF cached = None THEN removed ELSE Named(p, cached.name, cached.state)}
      ELSE {Named(p, answer.name, IF Accessible(answer) THEN "active" ELSE "disabled")}
             \cup IF Accessible(answer) THEN {} ELSE {removed}

WriteRefresh(p) ==
  /\ refreshes[p].pc = "write"
  /\ ~Superseded(p)
  /\ \E row \in Projected(p), suspended \in BOOLEAN :
       scope' = [row EXCEPT
         !.state = IF suspended /\ @ = "active" THEN "disabled" ELSE @,
         !.etag = IF suspended THEN None ELSE refreshes[p].etag,
         !.reconciled = refreshes[p].at]
  /\ RefreshTo(p, [NoRefresh EXCEPT !.pc = "done"])
  /\ UNCHANGED changes

SkipRefresh(p) ==
  /\ refreshes[p].pc = "write"
  /\ Superseded(p)
  /\ RefreshTo(p, [NoRefresh EXCEPT !.pc = "done"])
  /\ UNCHANGED <<scope, changes>>

-----------------------------------------------------------------------------
(***************************************************************************)
(* The rest of the service: the installation is suspended or deleted,      *)
(* after which its ETag is not used; or the project is deleted.            *)
(***************************************************************************)
Deactivate ==
  /\ Change
  /\ \E state \in {"disabled", "removed"}, at \in scope.reconciled .. clock :
       scope' = [scope EXCEPT !.state = IF @ = "removed" THEN @ ELSE state,
                              !.etag = None, !.reconciled = at]
  /\ UNCHANGED <<clock, published, live, seen, jwks, refreshes, used, requests>>

DeleteProject ==
  /\ Change
  /\ scope.state = "active"
  /\ scope' = [scope EXCEPT !.state = "hidden"]
  /\ UNCHANGED <<clock, published, live, seen, jwks, refreshes, used, requests>>

(***************************************************************************)
(* "perform an audited rebind" (docs/plans/shared/identity-and-visibility  *)
(* .md): an operator binds the repository to another installation, owner   *)
(* or project, as GitHub has it then.                                      *)
(***************************************************************************)
Rebind(binding) ==
  /\ Change
  /\ binding.owner = live.owner
  /\ live.usable
  /\ scope' = [state |-> "active", binding |-> binding, name |-> live.name, verified |-> clock,
               etag |-> None, reconciled |-> clock, restamped |-> FALSE]
  /\ UNCHANGED <<clock, published, live, seen, jwks, refreshes, used, requests>>

(***************************************************************************)
(* GitHub: the repository is renamed, transferred, archived or brought     *)
(* back, and the signing key is replaced.                                  *)
(***************************************************************************)
GithubChanges(repository) ==
  /\ Change
  /\ repository # live
  /\ live' = repository
  /\ seen' = [seen EXCEPT ![repository.name] = clock]
  /\ requests' = [r \in Requests |->
       IF requests[r].token = None THEN requests[r]
       ELSE [requests[r] EXCEPT !.agreed = @ \/ Says(repository, requests[r].token)]]
  /\ UNCHANGED <<clock, published, jwks, scope, refreshes, used>>

RotateKey(k) ==
  /\ Change
  /\ k \notin published
  /\ published' = {k}
  /\ UNCHANGED <<clock, live, seen, jwks, scope, refreshes, used, requests>>

Tick ==
  /\ clock < MaxTime
  /\ clock' = clock + 1
  /\ seen' = [seen EXCEPT ![live.name] = clock + 1]
  /\ UNCHANGED <<published, live, changes, jwks, scope, refreshes, used, requests>>

Handle(r) ==
  \/ \E token \in Tokens : Receive(r, token)
  \/ KeysFromCache(r)
  \/ KeysFromGithub(r)
  \/ Load(r)
  \/ LoadNothing(r)
  \/ Ask(r)
  \/ Confirm(r)
  \/ ConfirmStale(r)
  \/ Consume(r)
  \/ ConsumeReplayed(r)
  \/ Abandon(r)

Refresh(p) ==
  \/ StartRefresh(p)
  \/ ReadETag(p)
  \/ ReadRow(p)
  \/ ListFully(p)
  \/ ListNotModified(p)
  \/ WriteRefresh(p)
  \/ SkipRefresh(p)

Environment ==
  \/ Deactivate
  \/ DeleteProject
  \/ \E binding \in Bindings : Rebind(binding)
  \/ \E repository \in Repositories : GithubChanges(repository)
  \/ \E k \in Keys : RotateKey(k)
  \/ Tick

Next ==
  \/ \E r \in Requests : Handle(r)
  \/ \E p \in Refreshes : Refresh(p)
  \/ Restart
  \/ Environment

Spec == Init /\ [][Next]_vars

-----------------------------------------------------------------------------
TypeOK ==
  /\ clock \in 0 .. MaxTime
  /\ published \in SUBSET Keys
  /\ live \in Repositories
  /\ jwks \in [keys : SUBSET Keys, expires : Nat, fetched : 0 .. MaxTime, cooling : Nat]
  /\ scope \in [state : RowStates, binding : Bindings, name : Names, verified : 0 .. MaxTime,
                etag : Repositories \cup {None}, reconciled : 0 .. MaxTime, restamped : BOOLEAN]
  /\ refreshes \in
       [Refreshes -> [pc : {"none", "etag", "rows", "list", "write", "done"}, at : 0 .. MaxTime,
                      installation : Installations \cup {None},
                      etag : Repositories \cup {None},
                      cached : [name : Names, state : {"active", "disabled"}] \cup {None},
                      answer : Repositories \cup {None}]]
  /\ used \subseteq Tokens
  /\ requests \in
       [Requests -> [pc : {"none", "keys", "load", "ask", "confirm", "consume",
                           "authorized", "rejected", "unknown_key"},
                     token : Tokens \cup {None}, now : 0 .. MaxTime,
                     binding : Bindings \cup {None}, name : Names \cup {None},
                     fetched : 0 .. MaxTime, agreed : BOOLEAN, confirmed : Bindings \cup {None}]]
  /\ seen \in [Names -> 0 .. MaxTime]
  /\ changes \in 0 .. MaxChanges

(***************************************************************************)
(* "single-use JWT replay evidence" (docs/plans/delivery/workstreams.md):  *)
(* of all requests that carry a token, at once or one after the other, one *)
(* at most is authorized, restarts included.                               *)
(***************************************************************************)
TokenAuthorizesOnce ==
  \A r, s \in Requests :
     /\ requests[r].pc = "authorized" => requests[r].token \in used
     /\ requests[r].pc = "authorized" /\ requests[s].pc = "authorized" /\ r # s =>
          requests[r].token # requests[s].token

(***************************************************************************)
(* "ref is the repository's currently verified default branch"             *)
(* (docs/plans/github/oidc-ingestion.md): an upload is authorized only if  *)
(* GitHub itself has said what the token says after the request began; a   *)
(* row written before it never stands in for the answer.  The project it   *)
(* is for was loaded for the token's owner before GitHub was asked, and    *)
(* is still the one the repository is bound to when the row is confirmed.  *)
(***************************************************************************)
AuthorizedByGithub ==
  \A r \in Requests : requests[r].pc = "authorized" =>
     /\ requests[r].agreed
     /\ requests[r].binding.owner = requests[r].token.owner
     /\ requests[r].confirmed = requests[r].binding

(***************************************************************************)
(* repository_verified_at does not promise too much: GitHub has had the    *)
(* stored name at that time or later, however long a request or a refresh  *)
(* waited between its answer and its commit, and whoever wrote in between. *)
(* It fails in one case: a refresh answered with 304 stamps the name it    *)
(* has read, and that is not the name in the listing of the ETag.          *)
(***************************************************************************)
MetadataWasTrueWhenVerified == ~scope.restamped => seen[scope.name] >= scope.verified

(***************************************************************************)
(* "Cache keys for at most one hour": no token is accepted with keys that  *)
(* were fetched longer ago than that when its request began.               *)
(***************************************************************************)
KeysAreRecent ==
  \A r \in Requests :
     requests[r].pc \in {"load", "ask", "confirm", "consume", "authorized"} =>
       requests[r].fetched + Lifetime > requests[r].now

(***************************************************************************)
(* "... and refresh once on an unknown kid": a request is turned away for  *)
(* its key only by keys fetched in its own time or shortly before, so that *)
(* a key GitHub has just begun to use is not unknown for an hour.          *)
(***************************************************************************)
UnknownKeyWasLookedUp ==
  \A r \in Requests : requests[r].pc = "unknown_key" =>
     requests[r].fetched + Cooldown > requests[r].now
=============================================================================
