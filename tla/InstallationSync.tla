-------------------------- MODULE InstallationSync --------------------------
(***************************************************************************)
(* How the server follows one GitHub App installation: webhooks that are   *)
(* queued and worked off under a lease, the repair loop, the browser       *)
(* return from GitHub's setup page, and the refresh of a user's project    *)
(* memberships.  All of them read GitHub over the network and write the    *)
(* same rows later, each write in one transaction.                         *)
(*                                                                         *)
(* A process is one execution of any of the four, in any server process,   *)
(* and may crash before each step.  The rows of the installation carry the *)
(* time their refresh STARTED, so the order of two refreshes is the order  *)
(* of their starts; Start readings of the clock are distinct.              *)
(*                                                                         *)
(* GitHub is external: it changes on its own, announces a change with a    *)
(* webhook that may be lost, delayed or sent again, and answers a request  *)
(* with what is true when it is asked, or not at all.                      *)
(*                                                                         *)
(* A name with Without, Ignoring or FromNow is a faulty variant of the     *)
(* definition that follows it.                                             *)
(***************************************************************************)
EXTENDS WebhookQueue, FiniteSets

CONSTANTS
  Processes,       \* concurrent executions
  Repositories,    \* numeric repository ids
  Users,           \* linked users
  PageSize,        \* repositories per page of GitHub's listing: 100
  RepairInterval,  \* _REPAIR_INTERVAL  6 hours
  EntitlementTTL,  \* ENTITLEMENT_TTL   5 minutes
  MaxTime          \* bound: the clock stops here

VARIABLES
  clock,       \* the server's wall clock
  github,      \* what is true at GitHub: status, repositories, grants
  changed,     \* when the status or the repositories last changed at GitHub
  revoked,     \* when a user last lost a repository at GitHub
  sent,        \* the webhooks GitHub has sent, by delivery id
  deliveries,  \* github_webhook_deliveries
  inst,        \* the row of github_app_installations
  rows,        \* github_installation_repositories
  projects,    \* projects: none, shown, or hidden
  members,     \* project_memberships.expires_at by user and project
  synced,      \* users.github_app_access_synced_at
  jobs         \* the executions

queue == <<sent, deliveries>>
external == <<github, changed, revoked>>
access == <<members, synced>>
scope == <<inst, rows, projects>>
vars == <<clock, external, queue, scope, access, jobs>>

RepositoryStates == {"gone", "active", "archived", "disabled"}
Listings == [Repositories -> RepositoryStates]

ASSUME SyncAssumption ==
  /\ {PageSize, RepairInterval, EntitlementTTL, MaxTime} \subseteq Nat \ {0}
  /\ None \notin Deliveries \cup Users \cup Listings \cup Events

(***************************************************************************)
(* A listing has an ETag only if it fits one page that is not full.  Two   *)
(* equal listings have equal ETags, so the listing stands for its ETag.    *)
(***************************************************************************)
Listed(listing) == {r \in Repositories : listing[r] # "gone"}

ETag(listing) == IF Cardinality(Listed(listing)) < PageSize THEN listing ELSE None

(***************************************************************************)
(* What the rows say, in the words of a listing: the rows not removed.     *)
(***************************************************************************)
Cached(rs) == [r \in Repositories |-> IF rs[r] \in {"none", "removed"} THEN "gone" ELSE rs[r]]

NoInstallation == [status |-> "none", verified |-> 0, etag |-> None]

(***************************************************************************)
(* The repositories user u can reach through the installation at GitHub.   *)
(***************************************************************************)
Entitled(g, u) == IF g.status = "active" THEN g.grants[u] \cap Listed(g.listing) ELSE {}

(***************************************************************************)
(* An execution: what it does, its next step, when it started, the webhook *)
(* it works on, the user it serves, and what it has read so far.           *)
(***************************************************************************)
Idle ==
  [kind |-> "idle", pc |-> "idle", at |-> 0, delivery |-> None, attempt |-> 0, user |-> None,
   intent |-> "snapshot", etag |-> None, cached |-> None, suspended |-> FALSE, listing |-> None,
   grants |-> {}]

Started(kind, pc) == [Idle EXCEPT !.kind = kind, !.pc = pc, !.at = clock + 1]

Become(p, job) == jobs' = [jobs EXCEPT ![p] = job]

Goto(p, pc) == jobs' = [jobs EXCEPT ![p].pc = pc]

Start(p) == jobs[p].pc = "idle" /\ clock < MaxTime /\ clock' = clock + 1

-----------------------------------------------------------------------------
Init ==
  /\ clock = 0
  /\ github = [status |-> "active", listing |-> [r \in Repositories |-> "active"],
               grants |-> [u \in Users |-> Repositories]]
  /\ changed = 0
  /\ revoked = [u \in Users |-> [r \in Repositories |-> 0]]
  /\ sent = [d \in Deliveries |-> None]
  /\ deliveries = [d \in Deliveries |-> NoDelivery]
  /\ inst = NoInstallation
  /\ rows = [r \in Repositories |-> "none"]
  /\ projects = [r \in Repositories |-> "none"]
  /\ members = [u \in Users |-> [r \in Repositories |-> None]]
  /\ synced = [u \in Users |-> None]
  /\ jobs = [p \in Processes |-> Idle]

Tick ==
  /\ clock < MaxTime
  /\ clock' = clock + 1
  /\ UNCHANGED <<external, queue, scope, access, jobs>>

-----------------------------------------------------------------------------
(***************************************************************************)
(* GitHub: the installation is suspended, resumed or deleted, a repository *)
(* joins, leaves, is archived, or is disabled or given away, and each is   *)
(* announced; or a user gains or loses a repository, which is not.         *)
(***************************************************************************)
Becomes(g) ==
  /\ clock < MaxTime
  /\ github.status # "deleted"
  /\ g # github
  /\ clock' = clock + 1
  /\ github' = g
  /\ revoked' = [u \in Users |-> [r \in Repositories |->
       IF r \in Entitled(github, u) \ Entitled(g, u) THEN clock + 1 ELSE revoked[u][r]]]

Announced(event) ==
  /\ changed' = clock + 1
  /\ \E d \in Deliveries : sent[d] = None /\ sent' = [sent EXCEPT ![d] = event]
  /\ UNCHANGED <<deliveries, scope, access, jobs>>

SuspendAtGithub ==
  /\ Becomes([github EXCEPT !.status = "suspended"])
  /\ Announced("suspend")

ResumeAtGithub ==
  /\ github.status = "suspended"
  /\ Becomes([github EXCEPT !.status = "active"])
  /\ Announced("refresh")

DeleteAtGithub ==
  /\ Becomes([github EXCEPT !.status = "deleted"])
  /\ Announced("deleted")

ChangeRepository(r, state) ==
  /\ Becomes([github EXCEPT !.listing[r] = state])
  /\ Announced("refresh")

ChangeGrants(u, S) ==
  /\ Becomes([github EXCEPT !.grants[u] = S])
  /\ UNCHANGED <<changed, queue, scope, access, jobs>>

(***************************************************************************)
(* The webhook route: a delivery is claimed once, however often it comes.  *)
(***************************************************************************)
Receive(d) ==
  /\ sent[d] # None
  /\ deliveries[d].status = "none"
  /\ clock < MaxTime
  /\ clock' = clock + 1
  /\ deliveries' = [deliveries EXCEPT ![d] = ClaimedDelivery(sent[d], clock + 1)]
  /\ UNCHANGED <<external, sent, scope, access, jobs>>

-----------------------------------------------------------------------------
(***************************************************************************)
(* What starts an execution.  The worker leases the oldest due delivery;   *)
(* signed suspensions and deletions need nothing from GitHub.              *)
(***************************************************************************)
Lease(p) ==
  /\ Start(p)
  /\ \E d \in NextDue(deliveries, clock + 1) :
       LET event == deliveries[d].event
           job == Started("webhook", IF event = "refresh" THEN "cache" ELSE "guard")
       IN  /\ deliveries' = [deliveries EXCEPT ![d] = LeasedDelivery(@, clock + 1)]
           /\ Become(p, [job EXCEPT !.delivery = d, !.attempt = deliveries[d].attempts + 1,
                                    !.intent = IF event = "refresh" THEN "snapshot" ELSE event])
  /\ UNCHANGED <<external, sent, scope, access>>

(***************************************************************************)
(* The repair loop finds the installation due, and then asks GitHub for    *)
(* the states of all installations: one that is missing counts as deleted. *)
(***************************************************************************)
StartRepair(p) ==
  /\ Start(p)
  /\ inst.status \notin {"none", "deleted"}
  /\ inst.verified + RepairInterval <= clock + 1
  /\ Become(p, Started("repair", "states"))
  /\ UNCHANGED <<external, queue, scope, access>>

ListStates(p) ==
  /\ jobs[p].pc = "states"
  /\ Become(p, [jobs[p] EXCEPT
       !.pc = IF github.status = "active" THEN "cache" ELSE "project",
       !.intent = CASE github.status = "active" -> "snapshot"
                    [] github.status = "suspended" -> "suspend"
                    [] github.status = "deleted" -> "deleted"])
  /\ UNCHANGED <<clock, external, queue, scope, access>>

(***************************************************************************)
(* A user comes back from GitHub's setup page with an installation id.     *)
(***************************************************************************)
StartSetup(p, u) ==
  /\ Start(p)
  /\ Become(p, [Started("setup", "cache") EXCEPT !.user = u])
  /\ UNCHANGED <<external, queue, scope, access>>

-----------------------------------------------------------------------------
(***************************************************************************)
(* load_github_installation_repository_cache: the installation with its    *)
(* ETag, then its repositories, in two queries no transaction joins.       *)
(***************************************************************************)
ReadCachedETag(p) ==
  /\ jobs[p].pc = "cache"
  /\ Become(p, IF inst.status = "none"
               THEN [jobs[p] EXCEPT !.pc = "describe"]
               ELSE [jobs[p] EXCEPT !.pc = "cached_rows",
                                    !.etag = IF inst.status = "active" THEN inst.etag ELSE None])
  /\ UNCHANGED <<clock, external, queue, scope, access>>

ReadCachedRows(p) ==
  /\ jobs[p].pc = "cached_rows"
  /\ Become(p, [jobs[p] EXCEPT !.pc = "describe",
                               !.cached = IF jobs[p].etag = None THEN None ELSE Cached(rows)])
  /\ UNCHANGED <<clock, external, queue, scope, access>>

(***************************************************************************)
(* fetch_authoritative_installation: the installation's metadata first,    *)
(* then, with a token that GitHub only mints for an active installation,   *)
(* its repositories.  If the ETag still describes them the answer is 304   *)
(* and the cached rows are taken for it.                                   *)
(***************************************************************************)
Describe(p) ==
  /\ jobs[p].pc = "describe"
  /\ github.status # "deleted"
  /\ Become(p, [jobs[p] EXCEPT !.pc = "list", !.suspended = github.status = "suspended"])
  /\ UNCHANGED <<clock, external, queue, scope, access>>

ListRepositories(p) ==
  LET unchanged == jobs[p].etag # None /\ jobs[p].etag = ETag(github.listing)
  IN  /\ jobs[p].pc = "list"
      /\ github.status = "active"
      /\ Become(p, [jobs[p] EXCEPT
           !.pc = IF jobs[p].kind = "webhook" THEN "guard" ELSE "project",
           !.listing = IF unchanged THEN jobs[p].cached ELSE github.listing,
           !.etag = ETag(github.listing),
           !.cached = None])
      /\ UNCHANGED <<clock, external, queue, scope, access>>

(***************************************************************************)
(* GitHub refuses or does not answer.  A webhook is retried; the repair    *)
(* loop counts a failure; the user gets an error page.                     *)
(***************************************************************************)
AfterFailure(p) == IF jobs[p].kind = "webhook" THEN [jobs[p] EXCEPT !.pc = "retry"] ELSE Idle

FetchFails(p) ==
  /\ jobs[p].pc \in {"states", "describe", "list"}
  /\ Become(p, AfterFailure(p))
  /\ UNCHANGED <<clock, external, queue, scope, access>>

(***************************************************************************)
(* The lease is renewed right before the projection, or the work is given  *)
(* up because the lease ran out or another worker has it.                  *)
(***************************************************************************)
Guard(p) ==
  LET d == jobs[p].delivery
  IN  /\ jobs[p].pc = "guard"
      /\ IF HoldsLease(deliveries[d], jobs[p].at, clock)
         THEN /\ deliveries' = [deliveries EXCEPT ![d] = RenewedDelivery(@, clock)]
              /\ Goto(p, "project")
         ELSE /\ Become(p, Idle)
              /\ UNCHANGED deliveries
      /\ UNCHANGED <<clock, external, sent, scope, access>>

-----------------------------------------------------------------------------
(***************************************************************************)
(* The three projections.  All compare the start of the refresh with the   *)
(* start of the one the rows came from, and expire the memberships of the  *)
(* projects whose access changed; expired users are refreshed again.       *)
(***************************************************************************)
IsStaleIgnoring(at) == FALSE

IsStale(at) == inst.status # "none" /\ inst.verified > at

ExpireMemberships(invalid, at) ==
  /\ members' = [u \in Users |-> [r \in Repositories |->
       IF r \in invalid /\ members[u][r] # None /\ members[u][r] > at THEN at ELSE members[u][r]]]
  /\ synced' = [u \in Users |->
       IF \E r \in invalid : members[u][r] # None THEN None ELSE synced[u]]

Kept == {r \in Repositories : rows[r] \notin {"none", "removed"}}

Hide(S) == [r \in Repositories |-> IF r \in S THEN "hidden" ELSE projects[r]]

Deactivate(at) ==
  /\ inst' = [inst EXCEPT !.status = "deleted", !.verified = at]
  /\ rows' = [r \in Repositories |-> IF r \in Kept THEN "removed" ELSE rows[r]]
  /\ projects' = Hide(Kept)
  /\ ExpireMemberships(Kept, at)

SuspendedStatus == IF inst.status = "deleted" THEN "deleted" ELSE "suspended"

SuspendWithoutHiding(at) ==
  /\ inst' = [inst EXCEPT !.status = SuspendedStatus, !.verified = at]
  /\ rows' = [r \in Repositories |-> IF r \in Kept THEN "disabled" ELSE rows[r]]
  /\ ExpireMemberships(Kept, at)
  /\ UNCHANGED projects

Suspend(at) ==
  /\ inst' = [inst EXCEPT !.status = SuspendedStatus, !.verified = at]
  /\ rows' = [r \in Repositories |-> IF r \in Kept THEN "disabled" ELSE rows[r]]
  /\ projects' = Hide(Kept)
  /\ ExpireMemberships(Kept, at)

(***************************************************************************)
(* A snapshot: the installation's row and what it says of the repositories.*)
(***************************************************************************)
SnapshotRowFromNow(job) ==
  [status |-> IF job.suspended THEN "suspended" ELSE "active", verified |-> clock, etag |-> job.etag]

SnapshotRow(job) ==
  [status |-> IF job.suspended THEN "suspended" ELSE "active", verified |-> job.at, etag |-> job.etag]

ReplaceScope(job) ==
  LET listed == Listed(job.listing)
      inactive == {r \in listed : job.suspended \/ job.listing[r] = "disabled"}
      removed == Kept \ listed
      new == [r \in Repositories |->
                CASE r \in inactive -> "disabled"
                  [] r \in listed \ inactive -> job.listing[r]
                  [] r \in removed -> "removed"
                  [] OTHER -> rows[r]]
      invalid == {r \in listed : inst.status # SnapshotRow(job).status \/ rows[r] # new[r]}
                 \cup removed
  IN  /\ inst' = SnapshotRow(job)
      /\ rows' = new
      /\ projects' = [r \in Repositories |->
           CASE r \in inactive \cup removed -> "hidden"
             [] r \in listed \ inactive -> "shown"
             [] OTHER -> projects[r]]
      /\ ExpireMemberships(invalid, job.at)

(***************************************************************************)
(* What follows a projection: the worker completes its delivery, the setup *)
(* route refreshes the memberships of its user whether fresh or not.       *)
(***************************************************************************)
AfterProjection(p) ==
  CASE jobs[p].kind = "webhook" -> [jobs[p] EXCEPT !.pc = "complete"]
    [] jobs[p].kind = "setup" -> [Idle EXCEPT !.kind = "setup", !.pc = "members", !.user = jobs[p].user]
    [] OTHER -> Idle

ProjectNothing(p) ==
  /\ jobs[p].pc = "project"
  /\ \/ IsStale(jobs[p].at)
     \/ jobs[p].intent = "deleted" /\ inst.status = "none"
  /\ Become(p, AfterProjection(p))
  /\ UNCHANGED <<clock, external, queue, scope, access>>

ProjectScope(p) ==
  LET job == jobs[p]
  IN  /\ job.pc = "project"
      /\ ~IsStale(job.at)
      /\ CASE job.intent = "deleted" -> inst.status # "none" /\ Deactivate(job.at)
           [] job.intent = "suspend" -> inst.status # "none" /\ Suspend(job.at)
           [] job.intent = "snapshot" -> ReplaceScope(job)
      /\ Become(p, AfterProjection(p))
      /\ UNCHANGED <<clock, external, queue>>

(***************************************************************************)
(* A suspended installation that is not known, or any other error of the   *)
(* transaction: it is rolled back.                                         *)
(***************************************************************************)
ProjectFails(p) ==
  /\ jobs[p].pc = "project"
  /\ Become(p, AfterFailure(p))
  /\ UNCHANGED <<clock, external, queue, scope, access>>

(***************************************************************************)
(* The worker's last step: the delivery is processed if the lease is still *)
(* held, or is released for another attempt.  Anything else is logged.     *)
(***************************************************************************)
Complete(p) ==
  LET d == jobs[p].delivery
  IN  /\ jobs[p].pc = "complete"
      /\ deliveries' = IF HoldsLease(deliveries[d], jobs[p].at, clock)
                       THEN [deliveries EXCEPT ![d] = ProcessedDelivery(@)] ELSE deliveries
      /\ Become(p, Idle)
      /\ UNCHANGED <<clock, external, sent, scope, access>>

Retry(p) ==
  LET d == jobs[p].delivery
  IN  /\ jobs[p].pc = "retry"
      /\ \E notBefore \in {0, clock + 2 * MaximumRetry} :
           deliveries' = IF HasToken(deliveries[d], jobs[p].at)
                         THEN [deliveries EXCEPT
                                ![d] = ReleasedDelivery(@, jobs[p].attempt, notBefore, clock)]
                         ELSE deliveries
      /\ Become(p, Idle)
      /\ UNCHANGED <<clock, external, sent, scope, access>>

-----------------------------------------------------------------------------
IsFresh(u, t) == synced[u] # None /\ t - synced[u] < EntitlementTTL

(***************************************************************************)
(* refresh_github_app_memberships, when a request of user u finds them     *)
(* older than their lifetime, or from the setup route.                     *)
(***************************************************************************)
StartMembers(p, u) ==
  /\ Start(p)
  /\ ~IsFresh(u, clock + 1)
  /\ Become(p, [Started("members", "grants") EXCEPT !.user = u])
  /\ UNCHANGED <<external, queue, scope, access>>

ContinueMembers(p) ==
  /\ jobs[p].pc = "members"
  /\ clock < MaxTime
  /\ clock' = clock + 1
  /\ Become(p, [Started("members", "grants") EXCEPT !.user = jobs[p].user])
  /\ UNCHANGED <<external, queue, scope, access>>

FetchGrants(p) ==
  /\ jobs[p].pc = "grants"
  /\ Become(p, [jobs[p] EXCEPT !.pc = "projects", !.grants = Entitled(github, jobs[p].user)])
  /\ UNCHANGED <<clock, external, queue, scope, access>>

(***************************************************************************)
(* No token, or GitHub refuses: what the user had expires at once.         *)
(***************************************************************************)
ExpireForUser(p) ==
  LET u == jobs[p].user
      at == jobs[p].at
  IN  /\ jobs[p].pc = "grants"
      /\ members' = [members EXCEPT ![u] = [r \in Repositories |->
           IF @[r] # None /\ @[r] > at THEN at ELSE @[r]]]
      /\ synced' = [synced EXCEPT ![u] = None]
      /\ Become(p, Idle)
      /\ UNCHANGED <<clock, external, queue, scope>>

(***************************************************************************)
(* project_ids: of the granted repositories those that can be uploaded to. *)
(***************************************************************************)
MapProjects(p) ==
  /\ jobs[p].pc = "projects"
  /\ Become(p, [jobs[p] EXCEPT
       !.pc = "replace",
       !.grants = {r \in @ : inst.status = "active" /\ rows[r] = "active" /\ projects[r] = "shown"}])
  /\ UNCHANGED <<clock, external, queue, scope, access>>

ReplaceForUserFromNow(p) ==
  LET u == jobs[p].user
  IN  /\ jobs[p].pc = "replace"
      /\ members' = [members EXCEPT ![u] = [r \in Repositories |->
           IF r \in jobs[p].grants THEN clock + EntitlementTTL ELSE None]]
      /\ synced' = [synced EXCEPT ![u] = clock]
      /\ Become(p, Idle)
      /\ UNCHANGED <<clock, external, queue, scope>>

ReplaceForUser(p) ==
  LET u == jobs[p].user
      at == jobs[p].at
  IN  /\ jobs[p].pc = "replace"
      /\ members' = [members EXCEPT ![u] = [r \in Repositories |->
           IF r \in jobs[p].grants THEN at + EntitlementTTL ELSE None]]
      /\ synced' = [synced EXCEPT ![u] = at]
      /\ Become(p, Idle)
      /\ UNCHANGED <<clock, external, queue, scope>>

-----------------------------------------------------------------------------
(***************************************************************************)
(* A request may reach a project while it is shown and the user's          *)
(* membership lasts.  One that may manage it deletes it: it stays, hidden. *)
(***************************************************************************)
MayAccess(u, r) ==
  projects[r] = "shown" /\ members[u][r] # None /\ members[u][r] > clock

DeleteProject(r) ==
  /\ \E u \in Users : MayAccess(u, r)
  /\ projects' = [projects EXCEPT ![r] = "hidden"]
  /\ UNCHANGED <<clock, external, queue, inst, rows, access, jobs>>

(***************************************************************************)
(* An execution stops: its lease, if it has one, runs out.                 *)
(***************************************************************************)
Crash(p) ==
  /\ jobs[p].pc # "idle"
  /\ Become(p, Idle)
  /\ UNCHANGED <<clock, external, queue, scope, access>>

GithubStep ==
  \/ SuspendAtGithub \/ ResumeAtGithub \/ DeleteAtGithub
  \/ \E r \in Repositories, s \in RepositoryStates : ChangeRepository(r, s)
  \/ \E u \in Users : \E S \in SUBSET Repositories : ChangeGrants(u, S)

ProcessStep(p) ==
  \/ Lease(p) \/ StartRepair(p) \/ ListStates(p)
  \/ ReadCachedETag(p) \/ ReadCachedRows(p)
  \/ Describe(p) \/ ListRepositories(p) \/ FetchFails(p)
  \/ Guard(p) \/ ProjectNothing(p) \/ ProjectScope(p) \/ ProjectFails(p)
  \/ Complete(p) \/ Retry(p)
  \/ ContinueMembers(p) \/ FetchGrants(p) \/ ExpireForUser(p) \/ MapProjects(p) \/ ReplaceForUser(p)
  \/ Crash(p)
  \/ \E u \in Users : StartSetup(p, u) \/ StartMembers(p, u)

Next ==
  \/ Tick
  \/ GithubStep
  \/ \E d \in Deliveries : Receive(d)
  \/ \E r \in Repositories : DeleteProject(r)
  \/ \E p \in Processes : ProcessStep(p)

Spec == Init /\ [][Next]_vars
-----------------------------------------------------------------------------
(***************************************************************************)
(* The types of all variables, and what the columns of one row say about   *)
(* each other: no lease on a settled delivery, no delivery GitHub did not  *)
(* send, no conditional request without the rows to reuse.                 *)
(***************************************************************************)
Job ==
  [kind : {"idle", "webhook", "repair", "setup", "members"},
   pc : {"idle", "states", "cache", "cached_rows", "describe", "list", "guard", "project",
         "complete", "retry", "members", "grants", "projects", "replace"},
   at : Nat, delivery : Deliveries \cup {None}, attempt : Nat,
   user : Users \cup {None}, intent : {"snapshot", "suspend", "deleted"},
   etag : Listings \cup {None}, cached : Listings \cup {None}, suspended : BOOLEAN,
   listing : Listings \cup {None}, grants : SUBSET Repositories]

Delivery ==
  [status : {"none", "received", "processed", "failed"}, event : Events \cup {None},
   received : Nat, attempts : Nat, available : Int, token : Nat \cup {None}, expires : Nat]

JobOK(job) ==
  /\ job \in Job
  /\ job.pc \in {"guard", "complete", "retry"} => job.kind = "webhook"
  /\ job.kind = "webhook" => job.delivery \in Deliveries
  /\ job.kind \in {"setup", "members"} => job.user \in Users
  /\ job.pc \in {"members", "grants", "projects", "replace"} => job.kind \in {"setup", "members"}
  /\ job.pc \in {"states", "cache"} => job.etag = None
  /\ job.pc \in {"describe", "list"} /\ job.etag # None => job.cached # None
  /\ job.pc \in {"guard", "project"} /\ job.intent = "snapshot" => job.listing # None

RowsTyped ==
  /\ inst \in [status : {"none", "active", "suspended", "deleted"}, verified : Nat,
               etag : Listings \cup {None}]
  /\ rows \in [Repositories -> {"none", "active", "archived", "disabled", "removed"}]
  /\ projects \in [Repositories -> {"none", "shown", "hidden"}]

AccessTyped ==
  /\ members \in [Users -> [Repositories -> Nat \cup {None}]]
  /\ synced \in [Users -> Nat \cup {None}]

GithubTyped ==
  /\ github \in [status : {"active", "suspended", "deleted"}, listing : Listings,
                 grants : [Users -> SUBSET Repositories]]
  /\ changed \in Nat
  /\ revoked \in [Users -> [Repositories -> Nat]]

QueueTyped ==
  /\ sent \in [Deliveries -> Events \cup {None}]
  /\ deliveries \in [Deliveries -> Delivery]
  /\ \A d \in Deliveries :
       /\ deliveries[d].status # "none" => deliveries[d].event = sent[d] /\ sent[d] # None
       /\ deliveries[d].status # "received" => deliveries[d].token = None

JobsTyped ==
  /\ DOMAIN jobs = Processes
  /\ \A p \in Processes : JobOK(jobs[p])

TypeOK == clock \in Nat /\ GithubTyped /\ QueueTyped /\ RowsTyped /\ AccessTyped /\ JobsTyped

(***************************************************************************)
(* A project is shown only while its repository is installed and usable:   *)
(* whichever of the webhooks, the repair loop and the setup page wrote     *)
(* last, and in whatever order.                                            *)
(***************************************************************************)
ShownOnlyWhenInstalled ==
  \A r \in Repositories : projects[r] = "shown" =>
    inst.status = "active" /\ rows[r] \in {"active", "archived"}

(***************************************************************************)
(* "Reconciliation timestamps fence older concurrent snapshots": once a    *)
(* refresh that started after GitHub's last change is in the rows, they    *)
(* are what is true at GitHub, whatever was read before and is written     *)
(* later.  Of listings that are read in full: a page that an ETag confirms *)
(* can pair it with the rows of another listing.                           *)
(***************************************************************************)
FullListingIsCurrent ==
  inst.status = "active" /\ inst.etag = None /\ inst.verified > changed =>
    github.status = "active" /\ Cached(rows) = github.listing

(***************************************************************************)
(* A delivery is processed only when a refresh that started after it was   *)
(* received has reached the rows, by whichever execution, and no slower    *)
(* one puts the rows back; a refresh that failed or lost its lease leaves  *)
(* the delivery to another attempt.  A deletion leaves no timestamp when   *)
(* the installation has no row.                                            *)
(***************************************************************************)
Projected(d) == inst.verified > deliveries[d].received

ProcessedIsProjected ==
  \A d \in Deliveries : deliveries[d].status = "processed" /\ deliveries[d].event # "deleted" =>
    Projected(d)

(***************************************************************************)
(* A user who loses a repository at GitHub has lost its project when the   *)
(* lifetime of a membership has passed, also if a refresh that had read    *)
(* GitHub before is written after, or after the memberships were expired.  *)
(***************************************************************************)
RevocationTakesEffect ==
  \A u \in Users : \A r \in Repositories \ Entitled(github, u) :
    MayAccess(u, r) => clock < revoked[u][r] + EntitlementTTL

(***************************************************************************)
(* The deliveries as a queue of work: an execution that serves a webhook   *)
(* holds the delivery while the lease on it is still its own, whether or   *)
(* not the lease has run out.  The worker that stores a result, hands the  *)
(* delivery back or fails it is the last one that leased it.               *)
(***************************************************************************)
Serving(p) == IF jobs[p].kind = "webhook" THEN jobs[p].delivery ELSE None

Holders(d) == {p \in Processes : Serving(p) = d /\ deliveries[d].token = jobs[p].at}

Item(d) ==
  [status |-> deliveries[d].status, attempts |-> deliveries[d].attempts, holders |-> Holders(d)]

Work == INSTANCE WorkQueue WITH
  Workers <- Processes,
  work <- [d \in Deliveries |-> Item(d)],
  serving <- [p \in Processes |-> Serving(p)]

ServesQueue == Work!Spec
=============================================================================
