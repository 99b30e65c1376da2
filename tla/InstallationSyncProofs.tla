----------------------- MODULE InstallationSyncProofs -----------------------
(***************************************************************************)
(* Theorems of InstallationSync, for every set of processes, repositories, *)
(* users and deliveries, every page size and all time limits.              *)
(***************************************************************************)
EXTENDS InstallationSync, TLAPS

(***************************************************************************)
(* The rows of the queue that the actions write have their type.           *)
(***************************************************************************)
LEMMA SmallestAndLargest ==
  ASSUME NEW i \in Int, NEW j \in Int
  PROVE  Min({i, j}) \in {i, j} /\ Max({i, j}) \in {i, j}
BY SMT DEF Min, Max

LEMMA RetryTypes ==
  ASSUME NEW n \in Nat, NEW notBefore \in Nat, NEW t \in Nat
  PROVE  RetryAt(n, notBefore, t) \in Int
<1>1. MaximumRetry \in Int /\ InitialRetry * 2 ^ (n - 1) \in Int
  BY WebhookQueueAssumption
<1>2. t + RetryDelay(n) \in Int
  BY <1>1, SmallestAndLargest DEF RetryDelay
<1>3. Min({notBefore, t + MaximumRetry}) \in Int
  BY <1>1, SmallestAndLargest
<1> QED
  BY <1>2, <1>3, SmallestAndLargest DEF RetryAt

LEMMA DeliveryTypes ==
  ASSUME NEW row \in Delivery, NEW t \in Nat
  PROVE  /\ NoDelivery \in Delivery
         /\ \A event \in Events : ClaimedDelivery(event, t) \in Delivery
         /\ LeasedDelivery(row, t) \in Delivery
         /\ RenewedDelivery(row, t) \in Delivery
         /\ ProcessedDelivery(row) \in Delivery
         /\ \A n, notBefore \in Nat : ReleasedDelivery(row, n, notBefore, t) \in Delivery
<1>1. t + WorkLease \in Nat /\ t \in Int /\ row.attempts + 1 \in Nat /\ 0 \in Int
  BY WebhookQueueAssumption DEF Delivery
<1>2. NoDelivery \in Delivery
  BY <1>1 DEF NoDelivery, Delivery
<1>3. \A event \in Events : ClaimedDelivery(event, t) \in Delivery
  BY <1>1 DEF ClaimedDelivery, Delivery
<1>4. LeasedDelivery(row, t) \in Delivery
  BY <1>1 DEF LeasedDelivery, Delivery
<1>5. RenewedDelivery(row, t) \in Delivery
  BY <1>1 DEF RenewedDelivery, Delivery
<1>6. ProcessedDelivery(row) \in Delivery
  BY DEF ProcessedDelivery, Delivery
<1>7. \A n, notBefore \in Nat : ReleasedDelivery(row, n, notBefore, t) \in Delivery
  BY RetryTypes DEF ReleasedDelivery, Delivery
<1> QED
  BY <1>2, <1>3, <1>4, <1>5, <1>6, <1>7

(***************************************************************************)
(* Writing one job, and leaving variables alone, keeps the types.          *)
(***************************************************************************)
LEMMA JobWritten ==
  ASSUME JobsTyped, NEW p \in Processes, NEW job, JobOK(job), Become(p, job)
  PROVE  JobsTyped'
BY DEF JobsTyped, Become

LEMMA IdleTypes == JobOK(Idle)
BY DEF Idle, JobOK, Job

LEMMA StartedTypes ==
  ASSUME clock \in Nat
  PROVE  /\ JobOK(Started("repair", "states"))
         /\ \A u \in Users : JobOK([Started("setup", "cache") EXCEPT !.user = u])
         /\ \A u \in Users : JobOK([Started("members", "grants") EXCEPT !.user = u])
<1>1. clock + 1 \in Nat
  OBVIOUS
<1> QED
  BY <1>1, ZenonT(30) DEF Started, Idle, JobOK, Job

LEMMA Unchanged ==
  /\ UNCHANGED external /\ GithubTyped => GithubTyped'
  /\ UNCHANGED queue /\ QueueTyped => QueueTyped'
  /\ UNCHANGED scope /\ RowsTyped => RowsTyped'
  /\ UNCHANGED access /\ AccessTyped => AccessTyped'
  /\ UNCHANGED jobs /\ JobsTyped => JobsTyped'
BY DEF external, queue, scope, access, GithubTyped, QueueTyped, RowsTyped, AccessTyped, JobsTyped

-----------------------------------------------------------------------------
(***************************************************************************)
(* Type correctness.                                                       *)
(***************************************************************************)
LEMMA TypeInit == Init => TypeOK
<1> SUFFICES ASSUME Init PROVE TypeOK
  OBVIOUS
<1>1. \A d \in Deliveries : deliveries[d] = NoDelivery
  BY DEF Init
<1>2. QueueTyped
  BY <1>1, DeliveryTypes DEF Init, QueueTyped, NoDelivery, Delivery
<1>3. GithubTyped /\ RowsTyped /\ AccessTyped
  BY DEF Init, GithubTyped, RowsTyped, AccessTyped, Listings, RepositoryStates, NoInstallation
<1>4. JobsTyped
  BY IdleTypes DEF Init, JobsTyped
<1> QED
  BY <1>2, <1>3, <1>4 DEF TypeOK, Init

LEMMA GithubTypes ==
  ASSUME TypeOK, GithubStep
  PROVE  TypeOK'
<1>1. clock \in Nat /\ clock + 1 \in Nat /\ clock' = clock + 1
  <2>1. \E g : Becomes(g)
    BY DEF GithubStep, SuspendAtGithub, ResumeAtGithub, DeleteAtGithub, ChangeRepository, ChangeGrants
  <2> QED
    BY <2>1 DEF Becomes, TypeOK
<1>2. ASSUME NEW g, Becomes(g)
      PROVE  revoked' \in [Users -> [Repositories -> Nat]]
  BY <1>1, <1>2 DEF TypeOK, Becomes, GithubTyped
<1>3. ASSUME NEW event \in Events, Announced(event)
      PROVE  QueueTyped' /\ RowsTyped' /\ AccessTyped' /\ JobsTyped' /\ changed' \in Nat
  <2>1. \A d \in Deliveries : sent[d] # None => sent'[d] = sent[d]
    BY <1>3 DEF TypeOK, Announced, QueueTyped
  <2>2. sent' \in [Deliveries -> Events \cup {None}]
    BY <1>3 DEF TypeOK, Announced, QueueTyped
  <2>3. QueueTyped'
    BY <1>3, <2>1, <2>2 DEF TypeOK, Announced, QueueTyped
  <2> QED
    BY <1>1, <1>3, <2>3, Unchanged DEF TypeOK, Announced
<1>4. GithubTyped' /\ QueueTyped' /\ RowsTyped' /\ AccessTyped' /\ JobsTyped'
  <2>1. CASE SuspendAtGithub
    BY <2>1, <1>2, <1>3 DEF TypeOK, SuspendAtGithub, Becomes, GithubTyped, Events
  <2>2. CASE ResumeAtGithub
    BY <2>2, <1>2, <1>3 DEF TypeOK, ResumeAtGithub, Becomes, GithubTyped, Events
  <2>3. CASE DeleteAtGithub
    BY <2>3, <1>2, <1>3 DEF TypeOK, DeleteAtGithub, Becomes, GithubTyped, Events
  <2>4. ASSUME NEW r \in Repositories, NEW s \in RepositoryStates, ChangeRepository(r, s)
        PROVE  GithubTyped' /\ QueueTyped' /\ RowsTyped' /\ AccessTyped' /\ JobsTyped'
    <3> DEFINE g == [github EXCEPT !.listing[r] = s]
    <3>1. g.listing \in Listings /\ g.status = github.status /\ g.grants = github.grants
      BY DEF TypeOK, GithubTyped, Listings
    <3>2. g \in [status : {"active", "suspended", "deleted"}, listing : Listings,
                 grants : [Users -> SUBSET Repositories]]
      BY <3>1 DEF TypeOK, GithubTyped
    <3>3. Becomes(g) /\ Announced("refresh")
      BY <2>4 DEF ChangeRepository
    <3> QED
      BY <3>2, <3>3, <1>2, <1>3 DEF Becomes, GithubTyped, Events
  <2>5. ASSUME NEW u \in Users, NEW S \in SUBSET Repositories, ChangeGrants(u, S)
        PROVE  GithubTyped' /\ QueueTyped' /\ RowsTyped' /\ AccessTyped' /\ JobsTyped'
    <3> DEFINE g == [github EXCEPT !.grants[u] = S]
    <3>1. /\ g.grants \in [Users -> SUBSET Repositories]
          /\ g.status = github.status /\ g.listing = github.listing
      BY DEF TypeOK, GithubTyped
    <3>2. Becomes(g)
      BY <2>5 DEF ChangeGrants
    <3>3. g \in [status : {"active", "suspended", "deleted"}, listing : Listings,
                 grants : [Users -> SUBSET Repositories]]
      BY <3>1 DEF TypeOK, GithubTyped
    <3> QED
      <4>0. github' = g /\ changed' = changed
        BY <2>5, <3>2 DEF ChangeGrants, Becomes
      <4>1. GithubTyped'
        BY <3>2, <3>3, <4>0, <1>2 DEF TypeOK, GithubTyped
      <4>2. QueueTyped' /\ RowsTyped' /\ AccessTyped' /\ JobsTyped'
        BY <2>5, Unchanged DEF TypeOK, ChangeGrants
      <4> QED
        BY <4>1, <4>2
  <2> QED
    BY <2>1, <2>2, <2>3, <2>4, <2>5 DEF GithubStep
<1> QED
  BY <1>1, <1>4 DEF TypeOK

LEMMA QueueTypes ==
  ASSUME TypeOK, NEW d \in Deliveries, NEW row \in Delivery,
         row.event = deliveries[d].event, row.status \in {"received", "processed", "failed"},
         deliveries[d].status # "none",
         row.status # "received" => row.token = None,
         deliveries' = [deliveries EXCEPT ![d] = row], UNCHANGED sent
  PROVE  QueueTyped'
BY DEF TypeOK, QueueTyped

LEMMA JobTypes ==
  ASSUME NEW job, JobOK(job)
  PROVE  /\ job.pc = "states" =>
              \A pc \in {"cache", "project"}, intent \in {"snapshot", "suspend", "deleted"} :
                (pc = "project" => intent # "snapshot") =>
                JobOK([job EXCEPT !.pc = pc, !.intent = intent])
         /\ job.pc = "cache" =>
              \A etag \in Listings \cup {None} :
                JobOK([job EXCEPT !.pc = "cached_rows", !.etag = etag])
         /\ job.pc = "list" =>
              \A pc \in {"guard", "project"}, listing \in Listings, etag \in Listings \cup {None} :
                (pc = "guard" => job.kind = "webhook") =>
                JobOK([job EXCEPT !.pc = pc, !.listing = listing, !.etag = etag, !.cached = None])
<1>1. None \notin Listings
  BY SyncAssumption
<1>2. ASSUME job.pc = "states", NEW pc \in {"cache", "project"},
             NEW intent \in {"snapshot", "suspend", "deleted"}, pc = "project" => intent # "snapshot"
      PROVE  JobOK([job EXCEPT !.pc = pc, !.intent = intent])
  BY <1>2, ZenonT(30) DEF JobOK, Job
<1>3. ASSUME job.pc = "cache", NEW etag \in Listings \cup {None}
      PROVE  JobOK([job EXCEPT !.pc = "cached_rows", !.etag = etag])
  BY <1>3, ZenonT(60) DEF JobOK, Job
<1>4. ASSUME job.pc = "list", NEW pc \in {"guard", "project"}, NEW listing \in Listings,
             NEW etag \in Listings \cup {None}, pc = "guard" => job.kind = "webhook"
      PROVE  JobOK([job EXCEPT !.pc = pc, !.listing = listing, !.etag = etag, !.cached = None])
  BY <1>1, <1>4, ZenonT(30) DEF JobOK, Job
<1> QED
  BY <1>2, <1>3, <1>4

LEMMA AfterProjectionTypes ==
  ASSUME TypeOK, NEW p \in Processes, jobs[p].pc = "project"
  PROVE  JobOK(AfterProjection(p))
<1>1. JobOK(jobs[p])
  BY DEF TypeOK, JobsTyped
<1>2. jobs[p].kind = "webhook" => JobOK([jobs[p] EXCEPT !.pc = "complete"])
  BY <1>1 DEF JobOK, Job
<1>3. \A u \in Users : JobOK([Idle EXCEPT !.kind = "setup", !.pc = "members", !.user = u])
  BY DEF Idle, JobOK, Job
<1>4. jobs[p].kind = "setup" => jobs[p].user \in Users
  BY <1>1 DEF JobOK
<1> QED
  BY <1>2, <1>3, <1>4, IdleTypes DEF AfterProjection

LEMMA ReadingTypes ==
  ASSUME TypeOK, NEW p \in Processes,
         \/ ListStates(p) \/ ReadCachedETag(p) \/ ReadCachedRows(p) \/ Describe(p)
         \/ ListRepositories(p) \/ FetchFails(p) \/ ProjectNothing(p) \/ ProjectFails(p)
         \/ FetchGrants(p) \/ MapProjects(p) \/ Crash(p)
  PROVE  TypeOK'
<1>1. JobOK(jobs[p])
  BY DEF TypeOK, JobsTyped
<1>2. SUFFICES JobsTyped'
  <2>1. UNCHANGED <<clock, external, queue, scope, access>>
    BY DEF ListStates, ReadCachedETag, ReadCachedRows, Describe, ListRepositories, FetchFails,
           ProjectNothing, ProjectFails, FetchGrants, MapProjects, Crash
  <2> QED
    BY <2>1, Unchanged DEF TypeOK
<1>3. \A r \in Repositories : rows[r] \in {"none", "active", "archived", "disabled", "removed"}
  BY DEF TypeOK, RowsTyped
<1>4. Cached(rows) \in Listings /\ github.listing \in Listings /\ None \notin Listings
  BY <1>3, SyncAssumption DEF Cached, Listings, RepositoryStates, TypeOK, GithubTyped
<1>5. ETag(github.listing) \in Listings \cup {None} /\ inst.etag \in Listings \cup {None}
  BY <1>4 DEF ETag, TypeOK, RowsTyped
<1>6. JobOK(AfterFailure(p))
  BY <1>1, IdleTypes DEF AfterFailure, JobOK, Job
<1>7. jobs[p].pc = "project" => JobOK(AfterProjection(p))
  BY AfterProjectionTypes
<1>8. CASE ListStates(p)
  <2> DEFINE job == [jobs[p] EXCEPT
       !.pc = IF github.status = "active" THEN "cache" ELSE "project",
       !.intent = CASE github.status = "active" -> "snapshot"
                    [] github.status = "suspended" -> "suspend"
                    [] github.status = "deleted" -> "deleted"]
  <2>1. github.status \in {"active", "suspended", "deleted"}
    BY DEF TypeOK, GithubTyped
  <2>2. JobOK(job)
    BY <1>1, <1>8, <2>1, JobTypes DEF ListStates
  <2> QED
    BY <1>8, <2>2, JobWritten DEF ListStates, TypeOK
<1>9. CASE ReadCachedETag(p)
  <2> DEFINE job == IF inst.status = "none"
               THEN [jobs[p] EXCEPT !.pc = "describe"]
               ELSE [jobs[p] EXCEPT !.pc = "cached_rows",
                                    !.etag = IF inst.status = "active" THEN inst.etag ELSE None]
  <2>2. JobOK(job)
    <3>1. JobOK([jobs[p] EXCEPT !.pc = "describe"])
      BY <1>1, <1>9 DEF JobOK, Job, ReadCachedETag
    <3> QED
      BY <1>1, <1>5, <1>9, <3>1, JobTypes DEF ReadCachedETag
  <2> QED
    BY <1>9, <2>2, JobWritten DEF ReadCachedETag, TypeOK
<1>10. CASE ReadCachedRows(p)
  <2> DEFINE job == [jobs[p] EXCEPT !.pc = "describe",
                               !.cached = IF jobs[p].etag = None THEN None ELSE Cached(rows)]
  <2>2. JobOK(job)
    BY <1>1, <1>4, <1>10, ZenonT(30) DEF JobOK, Job, ReadCachedRows
  <2> QED
    BY <1>10, <2>2, JobWritten DEF ReadCachedRows, TypeOK
<1>11. CASE Describe(p)
  <2> DEFINE job == [jobs[p] EXCEPT !.pc = "list", !.suspended = github.status = "suspended"]
  <2>2. JobOK(job)
    BY <1>1, <1>11, ZenonT(30) DEF JobOK, Job, Describe
  <2> QED
    BY <1>11, <2>2, JobWritten DEF Describe, TypeOK
<1>12. CASE ListRepositories(p)
  <2> DEFINE unchanged == jobs[p].etag # None /\ jobs[p].etag = ETag(github.listing)
             job == [jobs[p] EXCEPT
           !.pc = IF jobs[p].kind = "webhook" THEN "guard" ELSE "project",
           !.listing = IF unchanged THEN jobs[p].cached ELSE github.listing,
           !.etag = ETag(github.listing),
           !.cached = None]
  <2>2. JobOK(job)
    <3>1. (IF unchanged THEN jobs[p].cached ELSE github.listing) \in Listings
      BY <1>1, <1>4, <1>12 DEF JobOK, Job, ListRepositories
    <3> QED
      BY <1>1, <1>5, <1>12, <3>1, JobTypes DEF ListRepositories
  <2> QED
    BY <1>12, <2>2, JobWritten DEF ListRepositories, TypeOK
<1>13. CASE FetchFails(p) \/ ProjectFails(p)
  BY <1>6, <1>13, JobWritten DEF FetchFails, ProjectFails, TypeOK
<1>14. CASE ProjectNothing(p)
  BY <1>7, <1>14, JobWritten DEF ProjectNothing, TypeOK
<1>15. CASE FetchGrants(p)
  <2> DEFINE job == [jobs[p] EXCEPT !.pc = "projects", !.grants = Entitled(github, jobs[p].user)]
  <2>1. Entitled(github, jobs[p].user) \subseteq Repositories
    BY DEF Entitled, Listed
  <2>2. JobOK(job)
    BY <1>1, <1>15, <2>1 DEF JobOK, Job, FetchGrants
  <2> QED
    BY <1>15, <2>2, JobWritten DEF FetchGrants, TypeOK
<1>16. CASE MapProjects(p)
  <2> DEFINE job == [jobs[p] EXCEPT
       !.pc = "replace",
       !.grants = {r \in jobs[p].grants :
                     inst.status = "active" /\ rows[r] = "active" /\ projects[r] = "shown"}]
  <2>2. JobOK(job)
    BY <1>1, <1>16 DEF JobOK, Job, MapProjects
  <2> QED
    BY <1>16, <2>2, JobWritten DEF MapProjects, TypeOK
<1>17. CASE Crash(p)
  BY <1>17, IdleTypes, JobWritten DEF Crash, TypeOK
<1> QED
  BY <1>8, <1>9, <1>10, <1>11, <1>12, <1>13, <1>14, <1>15, <1>16, <1>17

LEMMA StartTypes ==
  ASSUME TypeOK, NEW p \in Processes,
         \/ StartRepair(p) \/ ContinueMembers(p)
         \/ \E u \in Users : StartSetup(p, u) \/ StartMembers(p, u)
  PROVE  TypeOK'
<1>1. clock \in Nat /\ clock' = clock + 1 /\ clock' \in Nat
  <2>1. clock' = clock + 1
    BY DEF StartRepair, ContinueMembers, StartSetup, StartMembers, Start
  <2> QED
    BY <2>1 DEF TypeOK
<1>2. UNCHANGED <<external, queue, scope, access>>
  BY DEF StartRepair, ContinueMembers, StartSetup, StartMembers
<1>3. \E job : JobOK(job) /\ Become(p, job)
  <2>1. JobOK(jobs[p])
    BY DEF TypeOK, JobsTyped
  <2>2. CASE ContinueMembers(p)
    <3>1. jobs[p].user \in Users
      BY <2>1, <2>2 DEF ContinueMembers, JobOK
    <3> QED
      BY <1>1, <2>2, <3>1, StartedTypes DEF ContinueMembers
  <2> QED
    BY <1>1, <2>2, StartedTypes DEF StartRepair, StartSetup, StartMembers
<1> QED
  BY <1>1, <1>2, <1>3, JobWritten, Unchanged DEF TypeOK

LEMMA TickTypes ==
  ASSUME TypeOK, Tick
  PROVE  TypeOK'
BY Unchanged DEF Tick, TypeOK

(***************************************************************************)
(* The steps on the queue.                                                 *)
(***************************************************************************)
LEMMA ReceiveTypes ==
  ASSUME TypeOK, NEW d \in Deliveries, Receive(d)
  PROVE  TypeOK'
<1>1. clock' \in Nat /\ UNCHANGED <<external, sent, scope, access, jobs>>
  BY DEF Receive, TypeOK
<1>2. sent[d] \in Events
  BY DEF Receive, TypeOK, QueueTyped
<1> DEFINE row == ClaimedDelivery(sent[d], clock + 1)
<1>3. row \in Delivery
  <2>1. clock + 1 \in Nat /\ deliveries[d] \in Delivery
    BY DEF TypeOK, QueueTyped
  <2> QED
    BY <1>2, <2>1, DeliveryTypes
<1>4. row.status = "received" /\ row.event = sent[d]
  BY DEF ClaimedDelivery
<1>5. deliveries' = [deliveries EXCEPT ![d] = row] /\ sent' = sent /\ sent[d] # None
  BY DEF Receive
<1> HIDE DEF row
<1>6. QueueTyped'
  BY <1>3, <1>4, <1>5 DEF TypeOK, QueueTyped
<1> QED
  BY <1>1, <1>6, Unchanged DEF TypeOK

LEMMA QueueStepTypes ==
  ASSUME TypeOK, NEW p \in Processes, Lease(p) \/ Guard(p) \/ Complete(p) \/ Retry(p)
  PROVE  TypeOK'
<1>1. clock \in Nat /\ clock' \in Nat
  <2>1. clock' \in {clock, clock + 1}
    BY DEF Lease, Start, Guard, Complete, Retry
  <2> QED
    BY <2>1 DEF TypeOK
<1>2. UNCHANGED <<external, sent, scope, access>>
  BY DEF Lease, Guard, Complete, Retry
<1>3. JobOK(jobs[p]) /\ \A d \in Deliveries : deliveries[d] \in Delivery
  BY DEF TypeOK, JobsTyped, QueueTyped
<1>4. SUFFICES QueueTyped' /\ JobsTyped'
  BY <1>1, <1>2, Unchanged DEF TypeOK
<1>5. UNCHANGED queue => QueueTyped'
  BY Unchanged DEF TypeOK
<1>6. CASE Lease(p)
  <2>1. PICK d \in NextDue(deliveries, clock + 1) :
          /\ deliveries' = [deliveries EXCEPT ![d] = LeasedDelivery(@, clock + 1)]
          /\ Become(p, [Started("webhook", IF deliveries[d].event = "refresh" THEN "cache" ELSE "guard")
                          EXCEPT !.delivery = d, !.attempt = deliveries[d].attempts + 1,
                                 !.intent = IF deliveries[d].event = "refresh" THEN "snapshot"
                                            ELSE deliveries[d].event])
    BY <1>6 DEF Lease
  <2>2. d \in Deliveries /\ deliveries[d].status = "received"
    BY DEF NextDue, Due
  <2> DEFINE row == LeasedDelivery(deliveries[d], clock + 1)
             pc == IF deliveries[d].event = "refresh" THEN "cache" ELSE "guard"
             intent == IF deliveries[d].event = "refresh" THEN "snapshot" ELSE deliveries[d].event
             job == [Started("webhook", pc) EXCEPT !.delivery = d, !.attempt = deliveries[d].attempts + 1,
                                                   !.intent = intent]
  <2>3. row \in Delivery /\ row.event = deliveries[d].event /\ row.status = "received"
    <3>1. clock + 1 \in Nat
      BY <1>1
    <3> QED
      BY <1>3, <2>2, <3>1, DeliveryTypes, ZenonT(30) DEF LeasedDelivery, Delivery
  <2>4. deliveries[d].event \in Events
    BY <2>2 DEF TypeOK, QueueTyped
  <2>5. /\ pc \in {"cache", "guard"} /\ intent \in {"snapshot", "suspend", "deleted"}
        /\ pc = "guard" => intent # "snapshot"
    BY <2>4 DEF Events
  <2>6. deliveries[d].attempts + 1 \in Nat /\ clock + 1 \in Nat
    BY <1>1, <1>3, <2>2 DEF Delivery
  <2>7. Become(p, job) /\ deliveries' = [deliveries EXCEPT ![d] = row]
    BY <2>1, <2>2
  <2> HIDE DEF row, pc, intent
  <2>8. JobOK(job)
    BY <2>2, <2>5, <2>6 DEF Started, Idle, JobOK, Job
  <2> QED
    BY <1>2, <2>2, <2>3, <2>7, <2>8, QueueTypes, JobWritten DEF TypeOK
<1>7. CASE Guard(p)
  <2> DEFINE d == jobs[p].delivery
  <2>1. d \in Deliveries
    BY <1>3, <1>7 DEF Guard, JobOK
  <2>2. JobsTyped'
    <3>1. JobOK([jobs[p] EXCEPT !.pc = "project"])
      BY <1>3, <1>7 DEF Guard, JobOK, Job
    <3>2. Goto(p, "project") => Become(p, [jobs[p] EXCEPT !.pc = "project"])
      BY DEF Goto, Become, TypeOK, JobsTyped
    <3> QED
      BY <1>7, <3>1, <3>2, IdleTypes, JobWritten DEF Guard, TypeOK
  <2>3. CASE HoldsLease(deliveries[d], jobs[p].at, clock)
    <3> DEFINE row == RenewedDelivery(deliveries[d], clock)
    <3>1. row \in Delivery /\ row.event = deliveries[d].event /\ row.status = deliveries[d].status
          /\ deliveries[d].status = "received"
      BY <1>1, <1>3, <2>1, <2>3, DeliveryTypes DEF RenewedDelivery, Delivery, HoldsLease, HasToken
    <3>2. deliveries' = [deliveries EXCEPT ![d] = row]
      BY <1>7, <2>3 DEF Guard
    <3> HIDE DEF row
    <3> QED
      BY <1>2, <2>1, <2>2, <3>1, <3>2, QueueTypes
  <2>4. CASE ~HoldsLease(deliveries[d], jobs[p].at, clock)
    <3>1. UNCHANGED deliveries
      BY <1>7, <2>4 DEF Guard
    <3> QED
      BY <1>2, <1>5, <2>2, <3>1 DEF queue
  <2> QED
    BY <2>3, <2>4
<1>8. CASE Complete(p)
  <2> DEFINE d == jobs[p].delivery
  <2>1. d \in Deliveries
    BY <1>3, <1>8 DEF Complete, JobOK
  <2>2. JobsTyped'
    BY <1>8, IdleTypes, JobWritten DEF Complete, TypeOK
  <2>3. CASE HoldsLease(deliveries[d], jobs[p].at, clock)
    <3> DEFINE row == ProcessedDelivery(deliveries[d])
    <3>1. /\ row \in Delivery /\ row.event = deliveries[d].event /\ row.status = "processed"
          /\ row.token = None /\ deliveries[d].status = "received"
      <4>1. row \in Delivery /\ deliveries[d] \in Delivery
        BY <1>1, <1>3, <2>1, DeliveryTypes
      <4>2. row.event = deliveries[d].event /\ row.status = "processed" /\ row.token = None
        BY <4>1 DEF ProcessedDelivery, Delivery
      <4> QED
        BY <2>3, <4>1, <4>2 DEF HoldsLease, HasToken
    <3>2. deliveries' = [deliveries EXCEPT ![d] = row]
      BY <1>8, <2>3 DEF Complete
    <3> HIDE DEF row
    <3> QED
      BY <1>2, <2>1, <2>2, <3>1, <3>2, QueueTypes
  <2>4. CASE ~HoldsLease(deliveries[d], jobs[p].at, clock)
    <3>1. UNCHANGED deliveries
      BY <1>8, <2>4 DEF Complete
    <3> QED
      BY <1>2, <1>5, <2>2, <3>1 DEF queue
  <2> QED
    BY <2>3, <2>4
<1>9. CASE Retry(p)
  <2> DEFINE d == jobs[p].delivery
  <2>1. d \in Deliveries /\ jobs[p].attempt \in Nat
    BY <1>3, <1>9 DEF Retry, JobOK, Job
  <2>2. JobsTyped'
    BY <1>9, IdleTypes, JobWritten DEF Retry, TypeOK
  <2>3. CASE HasToken(deliveries[d], jobs[p].at)
    <3>1. PICK notBefore \in {0, clock + 2 * MaximumRetry} :
            deliveries' = [deliveries EXCEPT
                             ![d] = ReleasedDelivery(@, jobs[p].attempt, notBefore, clock)]
      BY <1>9, <2>3 DEF Retry
    <3>2. notBefore \in Nat
      BY <1>1, WebhookQueueAssumption
    <3> DEFINE row == ReleasedDelivery(deliveries[d], jobs[p].attempt, notBefore, clock)
    <3>3. row \in Delivery
      BY <1>1, <1>3, <2>1, <3>2, DeliveryTypes
    <3>4. /\ row.event = deliveries[d].event /\ row.status \in {"failed", "received"}
          /\ row.token = None
      BY <1>3, <2>1 DEF ReleasedDelivery, Delivery
    <3>5. deliveries' = [deliveries EXCEPT ![d] = row] /\ deliveries[d].status = "received"
      BY <2>1, <2>3, <3>1 DEF HasToken
    <3> HIDE DEF row
    <3> QED
      BY <1>2, <2>1, <2>2, <3>3, <3>4, <3>5, QueueTypes
  <2>4. CASE ~HasToken(deliveries[d], jobs[p].at)
    <3>1. UNCHANGED deliveries
      BY <1>9, <2>4 DEF Retry
    <3> QED
      BY <1>2, <1>5, <2>2, <3>1 DEF queue
  <2> QED
    BY <2>3, <2>4
<1> QED
  BY <1>6, <1>7, <1>8, <1>9

(***************************************************************************)
(* The steps on the rows of the installation, and on the memberships.      *)
(***************************************************************************)
LEMMA ExpireTypes ==
  ASSUME AccessTyped, NEW S, NEW at \in Nat, ExpireMemberships(S, at)
  PROVE  AccessTyped'
<1>1. members' \in [Users -> [Repositories -> Nat \cup {None}]]
  BY DEF AccessTyped, ExpireMemberships
<1>2. synced' \in [Users -> Nat \cup {None}]
  BY DEF AccessTyped, ExpireMemberships
<1> QED
  BY <1>1, <1>2 DEF AccessTyped

LEMMA HideTypes ==
  ASSUME RowsTyped, NEW S
  PROVE  Hide(S) \in [Repositories -> {"none", "shown", "hidden"}]
BY DEF RowsTyped, Hide

LEMMA DeactivateTypes ==
  ASSUME RowsTyped, NEW at \in Nat, Deactivate(at)
  PROVE  RowsTyped'
<1>1. /\ [inst EXCEPT !.status = "deleted", !.verified = at] \in
           [status : {"none", "active", "suspended", "deleted"}, verified : Nat,
            etag : Listings \cup {None}]
  BY DEF RowsTyped
<1>2. \A r \in Repositories : rows[r] \in {"none", "active", "archived", "disabled", "removed"}
  BY DEF RowsTyped
<1>3. rows' \in [Repositories -> {"none", "active", "archived", "disabled", "removed"}]
  BY <1>2 DEF Deactivate
<1>4. projects' \in [Repositories -> {"none", "shown", "hidden"}]
  BY HideTypes DEF Deactivate, RowsTyped
<1> QED
  BY <1>1, <1>3, <1>4 DEF RowsTyped, Deactivate

LEMMA SuspendTypes ==
  ASSUME RowsTyped, NEW at \in Nat, Suspend(at)
  PROVE  RowsTyped'
<1>1. /\ [inst EXCEPT !.status = SuspendedStatus, !.verified = at] \in
           [status : {"none", "active", "suspended", "deleted"}, verified : Nat,
            etag : Listings \cup {None}]
  BY DEF RowsTyped, SuspendedStatus
<1>2. \A r \in Repositories : rows[r] \in {"none", "active", "archived", "disabled", "removed"}
  BY DEF RowsTyped
<1>3. rows' \in [Repositories -> {"none", "active", "archived", "disabled", "removed"}]
  BY <1>2 DEF Suspend
<1>4. projects' \in [Repositories -> {"none", "shown", "hidden"}]
  BY HideTypes DEF Suspend, RowsTyped
<1> QED
  BY <1>1, <1>3, <1>4 DEF RowsTyped, Suspend

LEMMA ReplaceTypes ==
  ASSUME RowsTyped, NEW job \in Job, job.listing \in Listings, ReplaceScope(job)
  PROVE  RowsTyped'
<1> DEFINE listed == Listed(job.listing)
           inactive == {r \in listed : job.suspended \/ job.listing[r] = "disabled"}
           removed == Kept \ listed
<1>1. \A r \in Repositories : rows[r] \in {"none", "active", "archived", "disabled", "removed"}
  BY DEF RowsTyped
<1>2. \A r \in Repositories : projects[r] \in {"none", "shown", "hidden"}
  BY DEF RowsTyped
<1>3. \A r \in listed : job.listing[r] \in {"active", "archived", "disabled"}
  BY DEF Listed, Listings, RepositoryStates
<1>4. rows' \in [Repositories -> {"none", "active", "archived", "disabled", "removed"}]
  <2>1. rows' = [r \in Repositories |->
                CASE r \in inactive -> "disabled"
                  [] r \in listed \ inactive -> job.listing[r]
                  [] r \in removed -> "removed"
                  [] OTHER -> rows[r]]
    BY DEF ReplaceScope
  <2> HIDE DEF removed, inactive, listed
  <2> QED
    BY <1>1, <1>3, <2>1
<1>5. projects' \in [Repositories -> {"none", "shown", "hidden"}]
  <2>1. projects' = [r \in Repositories |->
           CASE r \in inactive \cup removed -> "hidden"
             [] r \in listed \ inactive -> "shown"
             [] OTHER -> projects[r]]
    BY DEF ReplaceScope
  <2> HIDE DEF removed, inactive, listed
  <2> QED
    BY <1>2, <2>1
<1>6. inst' \in [status : {"none", "active", "suspended", "deleted"}, verified : Nat,
                 etag : Listings \cup {None}]
  <2> DEFINE status == IF job.suspended THEN "suspended" ELSE "active"
  <2>1. inst' = [status |-> status, verified |-> job.at, etag |-> job.etag]
    BY DEF ReplaceScope, SnapshotRow
  <2>2. status \in {"active", "suspended"} /\ job.at \in Nat /\ job.etag \in Listings \cup {None}
    BY DEF Job
  <2> HIDE DEF status
  <2> QED
    BY <2>1, <2>2
<1> QED
  BY <1>4, <1>5, <1>6 DEF RowsTyped

LEMMA ProjectTypes ==
  ASSUME TypeOK, NEW p \in Processes, ProjectScope(p)
  PROVE  TypeOK'
<1>1. JobOK(jobs[p]) /\ jobs[p].pc = "project" /\ jobs[p] \in Job /\ jobs[p].at \in Nat
      /\ jobs[p].intent \in {"snapshot", "suspend", "deleted"}
  BY DEF TypeOK, JobsTyped, JobOK, Job, ProjectScope
<1>2. JobsTyped'
  BY <1>1, AfterProjectionTypes, JobWritten DEF ProjectScope, TypeOK
<1>3. RowsTyped /\ AccessTyped
  BY DEF TypeOK
<1>4. RowsTyped' /\ AccessTyped'
  <2>1. CASE jobs[p].intent = "deleted"
    <3>1. Deactivate(jobs[p].at)
      BY <2>1 DEF ProjectScope
    <3>2. ExpireMemberships(Kept, jobs[p].at)
      BY <3>1 DEF Deactivate
    <3> QED
      BY <1>1, <1>3, <3>1, <3>2, DeactivateTypes, ExpireTypes
  <2>2. CASE jobs[p].intent = "suspend"
    <3>1. Suspend(jobs[p].at)
      BY <2>2 DEF ProjectScope
    <3>2. ExpireMemberships(Kept, jobs[p].at)
      BY <3>1 DEF Suspend
    <3> QED
      BY <1>1, <1>3, <3>1, <3>2, SuspendTypes, ExpireTypes
  <2>3. CASE jobs[p].intent = "snapshot"
    <3>1. ReplaceScope(jobs[p])
      BY <2>3 DEF ProjectScope
    <3>2. jobs[p].listing \in Listings
      BY <1>1, <2>3 DEF JobOK, Job
    <3>3. \E S : ExpireMemberships(S, jobs[p].at)
      BY <3>1 DEF ReplaceScope
    <3> QED
      BY <1>1, <1>3, <3>1, <3>2, <3>3, ReplaceTypes, ExpireTypes
  <2> QED
    BY <1>1, <2>1, <2>2, <2>3
<1> QED
  BY <1>2, <1>4, Unchanged DEF TypeOK, ProjectScope

LEMMA AccessTypes ==
  ASSUME TypeOK, NEW p \in Processes, ExpireForUser(p) \/ ReplaceForUser(p)
  PROVE  TypeOK'
<1>1. JobOK(jobs[p]) /\ jobs[p].user \in Users /\ jobs[p].at \in Nat
  BY DEF TypeOK, JobsTyped, JobOK, Job, ExpireForUser, ReplaceForUser
<1>2. JobsTyped' /\ UNCHANGED <<clock, external, queue, scope>>
  BY IdleTypes, JobWritten DEF ExpireForUser, ReplaceForUser, TypeOK
<1>3. jobs[p].at + EntitlementTTL \in Nat
  BY <1>1, SyncAssumption
<1>4. members \in [Users -> [Repositories -> Nat \cup {None}]] /\ synced \in [Users -> Nat \cup {None}]
  BY DEF TypeOK, AccessTyped
<1>5. members' \in [Users -> [Repositories -> Nat \cup {None}]]
  <2>1. CASE ExpireForUser(p)
    BY <1>1, <1>4, <2>1 DEF ExpireForUser
  <2>2. CASE ReplaceForUser(p)
    BY <1>1, <1>3, <1>4, <2>2 DEF ReplaceForUser
  <2> QED
    BY <2>1, <2>2
<1>6. synced' \in [Users -> Nat \cup {None}]
  BY <1>1, <1>4 DEF ExpireForUser, ReplaceForUser
<1> QED
  BY <1>2, <1>5, <1>6, Unchanged DEF TypeOK, AccessTyped

LEMMA DeleteProjectTypes ==
  ASSUME TypeOK, NEW r \in Repositories, DeleteProject(r)
  PROVE  TypeOK'
<1>1. RowsTyped'
  BY DEF TypeOK, RowsTyped, DeleteProject
<1> QED
  BY <1>1, Unchanged DEF TypeOK, DeleteProject

LEMMA TypeStep == TypeOK /\ [Next]_vars => TypeOK'
<1> SUFFICES ASSUME TypeOK, [Next]_vars PROVE TypeOK'
  OBVIOUS
<1>1. CASE UNCHANGED vars
  BY <1>1, Unchanged DEF vars, TypeOK
<1>2. CASE Tick \/ GithubStep
  BY <1>2, TickTypes, GithubTypes
<1>3. ASSUME NEW d \in Deliveries, Receive(d) PROVE TypeOK'
  BY <1>3, ReceiveTypes
<1>4. ASSUME NEW r \in Repositories, DeleteProject(r) PROVE TypeOK'
  BY <1>4, DeleteProjectTypes
<1>5. ASSUME NEW p \in Processes, ProcessStep(p) PROVE TypeOK'
  BY <1>5, ReadingTypes, StartTypes, QueueStepTypes, ProjectTypes, AccessTypes DEF ProcessStep
<1> QED
  BY <1>1, <1>2, <1>3, <1>4, <1>5 DEF Next

(***************************************************************************)
(* Every row and every execution has its type, for any number of them: no  *)
(* settled delivery keeps a lease, no fetch is conditional without the     *)
(* rows to reuse.                                                          *)
(***************************************************************************)
THEOREM TypeCorrect == Spec => []TypeOK
<1>1. Init => TypeOK
  BY TypeInit
<1>2. TypeOK /\ [Next]_vars => TypeOK'
  BY TypeStep
<1> QED
  BY <1>1, <1>2, PTL DEF Spec

-----------------------------------------------------------------------------
(***************************************************************************)
(* A project is shown only while its repository is installed: no step of   *)
(* any execution breaks it, whatever it has read before.                   *)
(***************************************************************************)
LEMMA ShownProject ==
  ASSUME TypeOK, ShownOnlyWhenInstalled, NEW p \in Processes, ProjectScope(p)
  PROVE  ShownOnlyWhenInstalled'
<1>1. \A r \in Repositories \ Kept : projects[r] # "shown"
  BY DEF ShownOnlyWhenInstalled, Kept
<1>2. CASE Deactivate(jobs[p].at) \/ Suspend(jobs[p].at)
  <2>1. projects' = Hide(Kept)
    BY <1>2 DEF Deactivate, Suspend
  <2>2. \A r \in Repositories : projects'[r] # "shown"
    BY <1>1, <2>1 DEF Hide
  <2> QED
    BY <2>2 DEF ShownOnlyWhenInstalled
<1>3. CASE jobs[p].intent = "snapshot"
  <2> DEFINE job == jobs[p]
             listed == Listed(job.listing)
             inactive == {r \in listed : job.suspended \/ job.listing[r] = "disabled"}
             removed == Kept \ listed
  <2>1. job.listing \in Listings /\ job.suspended \in BOOLEAN
    BY <1>3 DEF TypeOK, JobsTyped, JobOK, Job, ProjectScope
  <2>2. ReplaceScope(job)
    BY <1>3 DEF ProjectScope
  <2>3. SUFFICES ASSUME NEW r \in Repositories, projects'[r] = "shown"
                 PROVE  inst'.status = "active" /\ rows'[r] \in {"active", "archived"}
    BY DEF ShownOnlyWhenInstalled
  <2>4. projects'[r] = CASE r \in inactive \cup removed -> "hidden"
                         [] r \in listed \ inactive -> "shown"
                         [] OTHER -> projects[r]
    BY <2>2 DEF ReplaceScope
  <2>5. r \in listed \ inactive
    <3>1. r \in Kept \/ projects[r] # "shown"
      BY <1>1
    <3> QED
      BY <2>3, <2>4, <3>1
  <2>6. rows'[r] = job.listing[r]
    <3>1. rows'[r] = CASE r \in inactive -> "disabled"
                       [] r \in listed \ inactive -> job.listing[r]
                       [] r \in removed -> "removed"
                       [] OTHER -> rows[r]
      BY <2>2 DEF ReplaceScope
    <3> QED
      BY <2>5, <3>1
  <2>7. job.listing[r] \in {"active", "archived"} /\ ~job.suspended
    BY <2>1, <2>5 DEF Listed, Listings, RepositoryStates
  <2>8. inst'.status = "active"
    BY <2>2, <2>7 DEF ReplaceScope, SnapshotRow
  <2> QED
    BY <2>6, <2>7, <2>8
<1> QED
  BY <1>2, <1>3 DEF ProjectScope, TypeOK, JobsTyped, JobOK, Job

(***************************************************************************)
(* The steps that leave the installation and its projects alone.           *)
(***************************************************************************)
LEMMA ScopeWritten ==
  ASSUME [Next]_vars
  PROVE  \/ UNCHANGED scope
         \/ \E r \in Repositories : DeleteProject(r)
         \/ \E p \in Processes : ProjectScope(p)
<1>1. CASE UNCHANGED vars \/ Tick \/ \E d \in Deliveries : Receive(d)
  BY <1>1 DEF vars, Tick, Receive
<1>2. CASE GithubStep
  BY <1>2 DEF GithubStep, SuspendAtGithub, ResumeAtGithub, DeleteAtGithub, ChangeRepository,
              ChangeGrants, Announced
<1>3. ASSUME NEW p \in Processes, ProcessStep(p), ~ProjectScope(p)
      PROVE  UNCHANGED scope
  <2>1. CASE Lease(p) \/ StartRepair(p) \/ ListStates(p) \/ ReadCachedETag(p) \/ ReadCachedRows(p)
             \/ Describe(p) \/ ListRepositories(p) \/ FetchFails(p)
    BY <2>1 DEF Lease, StartRepair, ListStates, ReadCachedETag, ReadCachedRows, Describe,
                ListRepositories, FetchFails
  <2>2. CASE Guard(p) \/ ProjectNothing(p) \/ ProjectFails(p) \/ Complete(p) \/ Retry(p) \/ Crash(p)
    BY <2>2 DEF Guard, ProjectNothing, ProjectFails, Complete, Retry, Crash
  <2>3. CASE ContinueMembers(p) \/ FetchGrants(p) \/ ExpireForUser(p) \/ MapProjects(p)
             \/ ReplaceForUser(p) \/ \E u \in Users : StartSetup(p, u) \/ StartMembers(p, u)
    BY <2>3 DEF ContinueMembers, FetchGrants, ExpireForUser, MapProjects, ReplaceForUser,
                StartSetup, StartMembers
  <2> QED
    BY <1>3, <2>1, <2>2, <2>3 DEF ProcessStep
<1> QED
  BY <1>1, <1>2, <1>3 DEF Next

(***************************************************************************)
(* A project is shown only while its repository is installed and usable.   *)
(***************************************************************************)
THEOREM ShownWhenInstalled == Spec => []ShownOnlyWhenInstalled
<1>1. Init => ShownOnlyWhenInstalled
  BY DEF Init, ShownOnlyWhenInstalled
<1>2. TypeOK /\ ShownOnlyWhenInstalled /\ [Next]_vars => ShownOnlyWhenInstalled'
  <2> SUFFICES ASSUME TypeOK, ShownOnlyWhenInstalled, [Next]_vars
               PROVE  ShownOnlyWhenInstalled'
    OBVIOUS
  <2>1. CASE UNCHANGED scope
    BY <2>1 DEF scope, ShownOnlyWhenInstalled
  <2>2. ASSUME NEW r \in Repositories, DeleteProject(r)
        PROVE  ShownOnlyWhenInstalled'
    BY <2>2 DEF DeleteProject, ShownOnlyWhenInstalled, TypeOK, RowsTyped
  <2> QED
    BY <2>1, <2>2, ScopeWritten, ShownProject
<1> QED
  BY <1>1, <1>2, TypeCorrect, PTL DEF Spec

-----------------------------------------------------------------------------
(***************************************************************************)
(* Which steps change what, and that no recorded time lies in the future.  *)
(***************************************************************************)
LEMMA ExternalWritten ==
  ASSUME [Next]_vars
  PROVE  UNCHANGED external \/ GithubStep
<1>1. CASE UNCHANGED vars \/ Tick \/ \E d \in Deliveries : Receive(d)
  BY <1>1 DEF vars, Tick, Receive
<1>2. ASSUME NEW r \in Repositories, DeleteProject(r) PROVE UNCHANGED external
  BY <1>2 DEF DeleteProject
<1>3. ASSUME NEW p \in Processes, ProcessStep(p)
      PROVE  UNCHANGED external
  <2>1. CASE Lease(p) \/ StartRepair(p) \/ ListStates(p) \/ ReadCachedETag(p) \/ ReadCachedRows(p)
             \/ Describe(p) \/ ListRepositories(p) \/ FetchFails(p)
    BY <2>1 DEF Lease, StartRepair, ListStates, ReadCachedETag, ReadCachedRows, Describe,
                ListRepositories, FetchFails
  <2>2. CASE Guard(p) \/ ProjectNothing(p) \/ ProjectScope(p) \/ ProjectFails(p) \/ Complete(p)
             \/ Retry(p) \/ Crash(p)
    BY <2>2 DEF Guard, ProjectNothing, ProjectScope, ProjectFails, Complete, Retry, Crash
  <2>3. CASE ContinueMembers(p) \/ FetchGrants(p) \/ ExpireForUser(p) \/ MapProjects(p)
             \/ ReplaceForUser(p) \/ \E u \in Users : StartSetup(p, u) \/ StartMembers(p, u)
    BY <2>3 DEF ContinueMembers, FetchGrants, ExpireForUser, MapProjects, ReplaceForUser,
                StartSetup, StartMembers
  <2> QED
    BY <1>3, <2>1, <2>2, <2>3 DEF ProcessStep
<1> QED
  BY <1>1, <1>2, <1>3 DEF Next

LEMMA GithubMoves ==
  ASSUME TypeOK, GithubStep
  PROVE  /\ clock' = clock + 1 /\ UNCHANGED <<deliveries, scope, access, jobs>>
         /\ \E g : Becomes(g)
         /\ \/ changed' = clock + 1
            \/ changed' = changed /\ github'.status = github.status
               /\ github'.listing = github.listing
<1>1. CASE SuspendAtGithub \/ ResumeAtGithub \/ DeleteAtGithub
           \/ \E r \in Repositories, s \in RepositoryStates : ChangeRepository(r, s)
  <2>1. PICK g, event : Becomes(g) /\ Announced(event)
    BY <1>1 DEF SuspendAtGithub, ResumeAtGithub, DeleteAtGithub, ChangeRepository
  <2>2. clock' = clock + 1 /\ changed' = clock + 1 /\ UNCHANGED <<deliveries, scope, access, jobs>>
    BY <2>1 DEF Becomes, Announced
  <2> QED
    BY <2>1, <2>2
<1>2. ASSUME NEW u \in Users, NEW S \in SUBSET Repositories, ChangeGrants(u, S)
      PROVE  /\ clock' = clock + 1 /\ UNCHANGED <<deliveries, scope, access, jobs>>
             /\ \E g : Becomes(g)
             /\ changed' = changed /\ github'.status = github.status
             /\ github'.listing = github.listing
  BY <1>2 DEF ChangeGrants, Becomes, queue, TypeOK, GithubTyped
<1> QED
  BY <1>1, <1>2 DEF GithubStep

(***************************************************************************)
(* What an execution writes of its own record.                             *)
(***************************************************************************)
LEMMA OneWrites ==
  ASSUME TypeOK, NEW p \in Processes, NEW job, Become(p, job)
  PROVE  jobs'[p] = job /\ \A q \in Processes \ {p} : jobs'[q] = jobs[q]
BY DEF TypeOK, JobsTyped, Become

LEMMA JobsWritten ==
  ASSUME TypeOK, NEW p \in Processes, ProcessStep(p)
  PROVE  \E job : Become(p, job)
<1>1. CASE Lease(p) \/ StartRepair(p) \/ ListStates(p) \/ ReadCachedETag(p) \/ ReadCachedRows(p)
           \/ Describe(p) \/ ListRepositories(p) \/ FetchFails(p)
  BY <1>1 DEF Lease, StartRepair, ListStates, ReadCachedETag, ReadCachedRows, Describe,
              ListRepositories, FetchFails
<1>2. CASE Guard(p) \/ ProjectNothing(p) \/ ProjectScope(p) \/ ProjectFails(p) \/ Complete(p)
           \/ Retry(p) \/ Crash(p)
  BY <1>2 DEF Guard, Goto, Become, ProjectNothing, ProjectScope, ProjectFails, Complete, Retry, Crash
<1>3. CASE ContinueMembers(p) \/ FetchGrants(p) \/ ExpireForUser(p) \/ MapProjects(p)
           \/ ReplaceForUser(p) \/ \E u \in Users : StartSetup(p, u) \/ StartMembers(p, u)
  BY <1>3 DEF ContinueMembers, FetchGrants, ExpireForUser, MapProjects, ReplaceForUser,
              StartSetup, StartMembers
<1> QED
  BY <1>1, <1>2, <1>3 DEF ProcessStep

LEMMA Starting ==
  ASSUME TypeOK, NEW p \in Processes,
         \/ Lease(p) \/ StartRepair(p) \/ ContinueMembers(p)
         \/ \E u \in Users : StartSetup(p, u) \/ StartMembers(p, u)
  PROVE  clock' = clock + 1 /\ jobs'[p].at = clock + 1
<1>1. \A kind, pc : Started(kind, pc).at = clock + 1
  BY DEF Started, Idle
<1>2. CASE Lease(p)
  <2>1. clock' = clock + 1
    BY <1>2 DEF Lease, Start
  <2>2. PICK kind, pc, d, attempt, intent :
          Become(p, [Started(kind, pc) EXCEPT !.delivery = d, !.attempt = attempt, !.intent = intent])
    BY <1>2 DEF Lease
  <2> DEFINE job == [Started(kind, pc) EXCEPT !.delivery = d, !.attempt = attempt, !.intent = intent]
  <2>3. job.at = clock + 1
    BY DEF Started, Idle
  <2>4. Become(p, job)
    BY <2>2
  <2> HIDE DEF job
  <2> QED
    BY <2>1, <2>3, <2>4, OneWrites
<1>3. CASE StartRepair(p)
  BY <1>1, <1>3, OneWrites DEF StartRepair, Start
<1>4. CASE ContinueMembers(p) \/ \E u \in Users : StartSetup(p, u) \/ StartMembers(p, u)
  <2>1. clock' = clock + 1
    BY <1>4 DEF ContinueMembers, StartSetup, StartMembers, Start
  <2>2. PICK kind, pc, u : Become(p, [Started(kind, pc) EXCEPT !.user = u])
    BY <1>4 DEF ContinueMembers, StartSetup, StartMembers
  <2> DEFINE job == [Started(kind, pc) EXCEPT !.user = u]
  <2>3. job.at = clock + 1
    BY DEF Started, Idle
  <2>4. Become(p, job)
    BY <2>2
  <2> HIDE DEF job
  <2> QED
    BY <2>1, <2>3, <2>4, OneWrites
<1> QED
  BY <1>2, <1>3, <1>4

(***************************************************************************)
(* A step either starts an execution, or keeps the time one started, or    *)
(* ends it.                                                                *)
(***************************************************************************)
LEMMA Continuing ==
  ASSUME TypeOK, NEW p \in Processes, ProcessStep(p),
         ~ \/ Lease(p) \/ StartRepair(p) \/ ContinueMembers(p)
           \/ \E u \in Users : StartSetup(p, u) \/ StartMembers(p, u)
  PROVE  clock' = clock /\ jobs'[p].at \in {jobs[p].at, 0}
<1>1. jobs[p] \in Job /\ Idle.at = 0 /\ DOMAIN jobs = Processes
  BY DEF TypeOK, JobsTyped, JobOK, Idle
<1>2. CASE ListStates(p) \/ ReadCachedETag(p) \/ ReadCachedRows(p) \/ Describe(p)
           \/ ListRepositories(p)
  <2>1. clock' = clock
    BY <1>2 DEF ListStates, ReadCachedETag, ReadCachedRows, Describe, ListRepositories
  <2>2. CASE ListStates(p) \/ Describe(p)
    BY <1>1, <2>2, ZenonT(30) DEF ListStates, Describe, Become, Job
  <2>3. CASE ReadCachedETag(p) \/ ReadCachedRows(p)
    BY <1>1, <2>3, ZenonT(30) DEF ReadCachedETag, ReadCachedRows, Become, Job
  <2>4. CASE ListRepositories(p)
    BY <1>1, <2>4 DEF ListRepositories, Become, Job
  <2> QED
    BY <1>2, <2>1, <2>2, <2>3, <2>4
<1>3. CASE FetchFails(p) \/ ProjectFails(p)
  <2>1. AfterFailure(p).at \in {jobs[p].at, 0}
    BY <1>1 DEF AfterFailure, Job
  <2> QED
    BY <1>3, <2>1, OneWrites DEF FetchFails, ProjectFails
<1>4. CASE ProjectNothing(p) \/ ProjectScope(p)
  <2>1. AfterProjection(p).at \in {jobs[p].at, 0}
    BY <1>1 DEF AfterProjection, Job, Idle
  <2> QED
    BY <1>4, <2>1, OneWrites DEF ProjectNothing, ProjectScope
<1>5. CASE Guard(p) \/ Complete(p) \/ Retry(p) \/ Crash(p)
  BY <1>1, <1>5 DEF Guard, Goto, Complete, Retry, Crash, Become, Job
<1>6. CASE FetchGrants(p) \/ ExpireForUser(p) \/ MapProjects(p) \/ ReplaceForUser(p)
  BY <1>1, <1>6 DEF FetchGrants, ExpireForUser, MapProjects, ReplaceForUser, Become, Job
<1> QED
  BY <1>2, <1>3, <1>4, <1>5, <1>6 DEF ProcessStep

Past ==
  /\ inst.verified <= clock /\ changed <= clock
  /\ inst.status = "none" => inst.verified = 0
  /\ \A p \in Processes : jobs[p].at <= clock
  /\ \A d \in Deliveries : deliveries[d].received <= clock

LEMMA ProjectWrites ==
  ASSUME TypeOK, NEW p \in Processes, ProjectScope(p)
  PROVE  /\ inst'.status \in {"active", "suspended", "deleted"}
         /\ inst'.verified = jobs[p].at
         /\ inst.status # "none" => inst.verified <= jobs[p].at
<1>1. /\ inst \in [status : {"none", "active", "suspended", "deleted"}, verified : Nat,
                   etag : Listings \cup {None}]
      /\ jobs[p] \in Job /\ jobs[p].at \in Nat
  BY DEF TypeOK, RowsTyped, JobsTyped, JobOK, Job
<1>2. Deactivate(jobs[p].at) \/ Suspend(jobs[p].at) \/ ReplaceScope(jobs[p])
  BY <1>1 DEF ProjectScope, Job
<1>3. inst'.status \in {"active", "suspended", "deleted"} /\ inst'.verified = jobs[p].at
  <2>1. CASE Deactivate(jobs[p].at) \/ Suspend(jobs[p].at)
    BY <1>1, <2>1 DEF Deactivate, Suspend, SuspendedStatus
  <2>2. CASE ReplaceScope(jobs[p])
    BY <2>2 DEF ReplaceScope, SnapshotRow
  <2> QED
    BY <1>2, <2>1, <2>2
<1>4. inst.status # "none" => inst.verified <= jobs[p].at
  BY <1>1 DEF ProjectScope, IsStale
<1> QED
  BY <1>3, <1>4

LEMMA QueueKept ==
  ASSUME NEW p \in Processes, ProcessStep(p), ~(Lease(p) \/ Guard(p) \/ Complete(p) \/ Retry(p))
  PROVE  UNCHANGED deliveries
<1>1. CASE StartRepair(p) \/ ListStates(p) \/ ReadCachedETag(p) \/ ReadCachedRows(p)
           \/ Describe(p) \/ ListRepositories(p) \/ FetchFails(p)
  BY <1>1 DEF StartRepair, ListStates, ReadCachedETag, ReadCachedRows, Describe,
              ListRepositories, FetchFails, queue
<1>2. CASE ProjectNothing(p) \/ ProjectScope(p) \/ ProjectFails(p) \/ Crash(p)
  BY <1>2 DEF ProjectNothing, ProjectScope, ProjectFails, Crash, queue
<1>3. CASE ContinueMembers(p) \/ FetchGrants(p) \/ ExpireForUser(p) \/ MapProjects(p)
           \/ ReplaceForUser(p) \/ \E u \in Users : StartSetup(p, u) \/ StartMembers(p, u)
  BY <1>3 DEF ContinueMembers, FetchGrants, ExpireForUser, MapProjects, ReplaceForUser,
              StartSetup, StartMembers, queue
<1> QED
  BY <1>1, <1>2, <1>3 DEF ProcessStep

(***************************************************************************)
(* The queue keeps the time a delivery was received, and its event.        *)
(***************************************************************************)
LEMMA QueueWritten ==
  ASSUME TypeOK, [Next]_vars
  PROVE  \/ UNCHANGED deliveries
         \/ \E d \in Deliveries : Receive(d)
         \/ \E p \in Processes : Lease(p) \/ Guard(p) \/ Complete(p) \/ Retry(p)
<1>1. CASE UNCHANGED vars \/ Tick
  BY <1>1 DEF vars, queue, Tick
<1>2. CASE GithubStep
  BY <1>2, GithubMoves
<1>3. ASSUME NEW r \in Repositories, DeleteProject(r) PROVE UNCHANGED deliveries
  BY <1>3 DEF DeleteProject, queue
<1> QED
  BY <1>1, <1>2, <1>3, QueueKept DEF Next

LEMMA RowWrites ==
  ASSUME NEW row \in Delivery, NEW t, NEW n, NEW notBefore
  PROVE  /\ \A w \in {LeasedDelivery(row, t), RenewedDelivery(row, t), ProcessedDelivery(row),
                      ReleasedDelivery(row, n, notBefore, t)} :
              w.received = row.received /\ w.event = row.event
         /\ LeasedDelivery(row, t).status = row.status
         /\ RenewedDelivery(row, t).status = row.status
         /\ ProcessedDelivery(row).status = "processed"
         /\ ReleasedDelivery(row, n, notBefore, t).status \in {"received", "failed"}
<1>1. LeasedDelivery(row, t).received = row.received /\ LeasedDelivery(row, t).event = row.event
      /\ LeasedDelivery(row, t).status = row.status
  BY DEF LeasedDelivery, Delivery
<1>2. RenewedDelivery(row, t).received = row.received /\ RenewedDelivery(row, t).event = row.event
      /\ RenewedDelivery(row, t).status = row.status
  BY DEF RenewedDelivery, Delivery
<1>3. ProcessedDelivery(row).received = row.received /\ ProcessedDelivery(row).event = row.event
      /\ ProcessedDelivery(row).status = "processed"
  BY DEF ProcessedDelivery, Delivery
<1>4. /\ ReleasedDelivery(row, n, notBefore, t).received = row.received
      /\ ReleasedDelivery(row, n, notBefore, t).event = row.event
      /\ ReleasedDelivery(row, n, notBefore, t).status \in {"received", "failed"}
  BY DEF ReleasedDelivery, Delivery
<1> QED
  BY <1>1, <1>2, <1>3, <1>4

(***************************************************************************)
(* The worker's steps keep what a delivery is; only Complete settles one.  *)
(***************************************************************************)
LEMMA DeliveryKept ==
  ASSUME TypeOK, NEW p \in Processes, Lease(p) \/ Guard(p) \/ Complete(p) \/ Retry(p),
         NEW d \in Deliveries
  PROVE  /\ deliveries'[d].received = deliveries[d].received
         /\ deliveries'[d].event = deliveries[d].event
         /\ deliveries[d].status # "none" => deliveries'[d].status # "none"
         /\ deliveries'[d].status = "processed" =>
              \/ deliveries[d].status = "processed"
              \/ Complete(p) /\ d = jobs[p].delivery
<1>1. deliveries \in [Deliveries -> Delivery] /\ JobOK(jobs[p])
  BY DEF TypeOK, QueueTyped, JobsTyped
<1>2. SUFFICES ASSUME deliveries'[d] # deliveries[d] PROVE
         /\ deliveries'[d].received = deliveries[d].received
         /\ deliveries'[d].event = deliveries[d].event
         /\ deliveries[d].status # "none" => deliveries'[d].status # "none"
         /\ deliveries'[d].status = "processed" =>
              \/ deliveries[d].status = "processed"
              \/ Complete(p) /\ d = jobs[p].delivery
  OBVIOUS
<1>3. CASE Lease(p)
  <2>1. \E t : deliveries'[d] = LeasedDelivery(deliveries[d], t)
    BY <1>1, <1>2, <1>3 DEF Lease
  <2> QED
    BY <1>1, <2>1, RowWrites
<1>4. CASE Guard(p)
  <2>1. deliveries'[d] = RenewedDelivery(deliveries[d], clock)
    BY <1>1, <1>2, <1>4 DEF Guard
  <2> QED
    BY <1>1, <2>1, RowWrites
<1>5. CASE Complete(p)
  <2>1. deliveries'[d] = ProcessedDelivery(deliveries[d]) /\ d = jobs[p].delivery
    BY <1>1, <1>2, <1>5 DEF Complete
  <2> QED
    BY <1>1, <1>5, <2>1, RowWrites
<1>6. CASE Retry(p)
  <2>1. \E n, notBefore : deliveries'[d] = ReleasedDelivery(deliveries[d], n, notBefore, clock)
    BY <1>1, <1>2, <1>6 DEF Retry
  <2> QED
    BY <1>1, <2>1, RowWrites
<1> QED
  BY <1>3, <1>4, <1>5, <1>6

LEMMA ReceiveWrites ==
  ASSUME TypeOK, NEW d \in Deliveries, Receive(d)
  PROVE  /\ clock' = clock + 1 /\ UNCHANGED <<external, scope, access, jobs>>
         /\ deliveries[d].status = "none"
         /\ deliveries'[d].received = clock + 1 /\ deliveries'[d].status = "received"
         /\ \A e \in Deliveries \ {d} : deliveries'[e] = deliveries[e]
BY DEF TypeOK, QueueTyped, Receive, ClaimedDelivery

LEMMA ClockMoves ==
  ASSUME TypeOK, [Next]_vars
  PROVE  clock \in Nat /\ clock' \in {clock, clock + 1}
<1>1. clock \in Nat
  BY DEF TypeOK
<1>2. CASE UNCHANGED vars \/ Tick \/ \E r \in Repositories : DeleteProject(r)
  BY <1>1, <1>2 DEF vars, Tick, DeleteProject
<1>3. CASE GithubStep \/ \E d \in Deliveries : Receive(d)
  BY <1>1, <1>3, GithubMoves, ReceiveWrites
<1>4. ASSUME NEW p \in Processes, ProcessStep(p) PROVE clock' \in {clock, clock + 1}
  BY <1>4, Starting, Continuing
<1> QED
  BY <1>1, <1>2, <1>3, <1>4 DEF Next

LEMMA JobTimes ==
  ASSUME TypeOK, Past, [Next]_vars
  PROVE  \A p \in Processes : jobs'[p].at <= clock'
<1>1. clock \in Nat /\ clock' \in {clock, clock + 1} /\ \A p \in Processes : jobs[p].at \in Nat
  BY ClockMoves DEF TypeOK, JobsTyped, JobOK, Job
<1>2. CASE UNCHANGED jobs
  BY <1>1, <1>2 DEF Past
<1>3. ASSUME NEW p \in Processes, ProcessStep(p)
      PROVE  \A q \in Processes : jobs'[q].at <= clock'
  <2>1. \A q \in Processes \ {p} : jobs'[q].at <= clock'
    <3>1. \A q \in Processes \ {p} : jobs'[q] = jobs[q]
      BY <1>3, JobsWritten, OneWrites
    <3> QED
      BY <1>1, <3>1 DEF Past
  <2>2. jobs'[p].at <= clock'
    <3>1. jobs'[p].at \in {jobs[p].at, 0, clock'}
      BY <1>3, Starting, Continuing
    <3> QED
      BY <1>1, <3>1 DEF Past
  <2> QED
    BY <2>1, <2>2
<1>4. CASE Tick \/ GithubStep \/ \E d \in Deliveries : Receive(d)
  BY <1>2, <1>4, GithubMoves, ReceiveWrites DEF Tick
<1>5. CASE \E r \in Repositories : DeleteProject(r)
  BY <1>2, <1>5 DEF DeleteProject
<1>6. CASE UNCHANGED vars
  BY <1>2, <1>6 DEF vars
<1> QED
  BY <1>3, <1>4, <1>5, <1>6 DEF Next

LEMMA PastStep ==
  ASSUME TypeOK, Past, [Next]_vars
  PROVE  Past'
<1>1. clock \in Nat /\ clock' \in {clock, clock + 1}
  BY ClockMoves
<1>2. inst'.verified <= clock' /\ (inst'.status = "none" => inst'.verified = 0)
  <2>1. inst.verified \in Nat
    BY DEF TypeOK, RowsTyped
  <2>2. CASE inst' = inst
    BY <1>1, <2>1, <2>2 DEF Past
  <2>3. ASSUME NEW p \in Processes, ProjectScope(p)
        PROVE  inst'.verified <= clock' /\ (inst'.status = "none" => inst'.verified = 0)
    <3>1. inst'.verified = jobs[p].at /\ inst'.status # "none" /\ jobs[p].at \in Nat
      BY <2>3, ProjectWrites DEF TypeOK, JobsTyped, JobOK, Job
    <3> QED
      BY <1>1, <3>1 DEF Past
  <2> QED
    BY <2>2, <2>3, ScopeWritten DEF scope, DeleteProject
<1>3. changed' <= clock'
  <2>1. CASE UNCHANGED external
    BY <1>1, <2>1 DEF external, Past, TypeOK, GithubTyped
  <2>2. CASE GithubStep
    BY <1>1, <2>2, GithubMoves DEF Past, TypeOK, GithubTyped
  <2> QED
    BY <2>1, <2>2, ExternalWritten
<1>4. ASSUME NEW d \in Deliveries
      PROVE  deliveries'[d].received <= clock'
  <2>1. deliveries[d].received \in Nat
    BY DEF TypeOK, QueueTyped, Delivery
  <2>2. deliveries'[d].received \in {deliveries[d].received, clock'}
    BY QueueWritten, DeliveryKept, ReceiveWrites
  <2> QED
    BY <1>1, <2>1, <2>2 DEF Past
<1> QED
  BY <1>2, <1>3, <1>4, JobTimes DEF Past

LEMMA PastInit == Init => Past
BY DEF Init, Past, NoInstallation, NoDelivery, Idle

-----------------------------------------------------------------------------
(***************************************************************************)
(* A worker started after its delivery was received, and is about to       *)
(* complete it only if the rows are from a refresh not older than its own. *)
(***************************************************************************)
ServesDelivery(job) ==
  LET row == deliveries[job.delivery]
  IN  job.kind = "webhook" =>
        /\ job.pc \notin {"idle", "states"}
        /\ row.status # "none" /\ row.received < job.at
        /\ job.intent = "deleted" => row.event = "deleted"
        /\ job.pc = "complete" => inst.verified >= job.at \/ row.event = "deleted"

Served == \A p \in Processes : ServesDelivery(jobs[p])

LEMMA DeliveryStays ==
  ASSUME TypeOK, Past, [Next]_vars, NEW d \in Deliveries, deliveries[d].status # "none"
  PROVE  /\ deliveries'[d].status # "none"
         /\ deliveries'[d].received = deliveries[d].received
         /\ deliveries'[d].event = deliveries[d].event
BY QueueWritten, DeliveryKept, ReceiveWrites

LEMMA VerifiedRises ==
  ASSUME TypeOK, Past, [Next]_vars
  PROVE  inst'.verified >= inst.verified /\ inst.verified \in Nat /\ inst'.verified \in Nat
<1>1. inst.verified \in Nat
  BY DEF TypeOK, RowsTyped
<1>2. ASSUME NEW p \in Processes, ProjectScope(p)
      PROVE  inst'.verified >= inst.verified /\ inst'.verified \in Nat
  <2>1. jobs[p].at \in Nat
    BY DEF TypeOK, JobsTyped, JobOK, Job
  <2> QED
    BY <1>1, <1>2, <2>1, ProjectWrites DEF Past
<1> QED
  BY <1>1, <1>2, ScopeWritten DEF scope, DeleteProject

LEMMA ServedStays ==
  ASSUME TypeOK, Past, [Next]_vars, NEW q \in Processes, ServesDelivery(jobs[q]),
         jobs'[q] = jobs[q]
  PROVE  ServesDelivery(jobs[q])'
<1>1. CASE jobs[q].kind = "webhook"
  <2>1. jobs[q].delivery \in Deliveries /\ jobs[q].at \in Nat
    BY <1>1 DEF TypeOK, JobsTyped, JobOK, Job
  <2>2. deliveries[jobs[q].delivery].status # "none"
    BY <1>1 DEF ServesDelivery
  <2>3. /\ deliveries'[jobs[q].delivery].status # "none"
        /\ deliveries'[jobs[q].delivery].received = deliveries[jobs[q].delivery].received
        /\ deliveries'[jobs[q].delivery].event = deliveries[jobs[q].delivery].event
    BY <2>1, <2>2, DeliveryStays
  <2>4. inst.verified >= jobs[q].at => inst'.verified >= jobs[q].at
    BY <2>1, VerifiedRises
  <2> QED
    BY <1>1, <2>3, <2>4 DEF ServesDelivery
<1> QED
  BY <1>1 DEF ServesDelivery

LEMMA ServedByLease ==
  ASSUME TypeOK, Past, NEW p \in Processes, Lease(p)
  PROVE  ServesDelivery(jobs[p])'
<1>1. PICK d \in NextDue(deliveries, clock + 1) :
        Become(p, [Started("webhook", IF deliveries[d].event = "refresh" THEN "cache" ELSE "guard")
                     EXCEPT !.delivery = d, !.attempt = deliveries[d].attempts + 1,
                            !.intent = IF deliveries[d].event = "refresh" THEN "snapshot"
                                       ELSE deliveries[d].event])
  BY DEF Lease
<1> DEFINE pc == IF deliveries[d].event = "refresh" THEN "cache" ELSE "guard"
           intent == IF deliveries[d].event = "refresh" THEN "snapshot" ELSE deliveries[d].event
           job == [Started("webhook", pc) EXCEPT !.delivery = d, !.attempt = deliveries[d].attempts + 1,
                                                 !.intent = intent]
<1>2. d \in Deliveries /\ deliveries[d].status = "received"
  BY DEF NextDue, Due
<1>3. pc \in {"cache", "guard"} /\ (intent = "deleted" => deliveries[d].event = "deleted")
  OBVIOUS
<1>4. Become(p, job)
  BY <1>1
<1> HIDE DEF pc, intent
<1>5. job.pc = pc /\ job.at = clock + 1 /\ job.delivery = d /\ job.intent = intent
  BY DEF Started, Idle
<1> HIDE DEF job
<1>6. jobs'[p] = job
  BY <1>4, OneWrites
<1>7. deliveries[d].received < clock + 1
  BY <1>2 DEF Past, TypeOK, QueueTyped, Delivery
<1>8. /\ deliveries'[d].received = deliveries[d].received /\ deliveries'[d].event = deliveries[d].event
      /\ deliveries'[d].status # "none"
  BY <1>2, DeliveryKept
<1> QED
  BY <1>3, <1>5, <1>6, <1>7, <1>8 DEF ServesDelivery

LEMMA StartedKinds ==
  /\ Idle.kind # "webhook" /\ Idle.pc = "idle"
  /\ Started("repair", "states").kind # "webhook" /\ Started("repair", "states").pc = "states"
  /\ \A u : [Started("setup", "cache") EXCEPT !.user = u].kind # "webhook"
  /\ \A u : [Started("setup", "cache") EXCEPT !.user = u].pc = "cache"
  /\ \A u : [Started("members", "grants") EXCEPT !.user = u].kind # "webhook"
  /\ \A u : [Started("members", "grants") EXCEPT !.user = u].pc = "grants"
  /\ \A u : [Idle EXCEPT !.kind = "setup", !.pc = "members", !.user = u].kind # "webhook"
  /\ \A u : [Idle EXCEPT !.kind = "setup", !.pc = "members", !.user = u].pc = "members"
BY DEF Idle, Started

LEMMA StartsOrEnds ==
  ASSUME TypeOK, NEW p \in Processes,
         \/ StartRepair(p) \/ ContinueMembers(p) \/ ReplaceForUser(p) \/ ExpireForUser(p)
         \/ Complete(p) \/ Retry(p) \/ Crash(p)
         \/ \E u \in Users : StartSetup(p, u) \/ StartMembers(p, u)
  PROVE  jobs'[p].kind # "webhook" /\ jobs'[p].pc \in {"idle", "states", "cache", "grants"}
<1>1. CASE ReplaceForUser(p) \/ ExpireForUser(p) \/ Complete(p) \/ Retry(p) \/ Crash(p)
  <2>1. Become(p, Idle)
    BY <1>1 DEF ReplaceForUser, ExpireForUser, Complete, Retry, Crash
  <2> QED
    BY <2>1, OneWrites, StartedKinds
<1>2. CASE StartRepair(p)
  BY <1>2, OneWrites, StartedKinds DEF StartRepair
<1>3. CASE ContinueMembers(p) \/ \E u \in Users : StartMembers(p, u)
  <2>1. PICK u : Become(p, [Started("members", "grants") EXCEPT !.user = u])
    BY <1>3 DEF ContinueMembers, StartMembers
  <2> DEFINE job == [Started("members", "grants") EXCEPT !.user = u]
  <2>2. Become(p, job) /\ job.kind # "webhook" /\ job.pc = "grants"
    BY <2>1, StartedKinds
  <2> HIDE DEF job
  <2> QED
    BY <2>2, OneWrites
<1>4. ASSUME NEW u \in Users, StartSetup(p, u)
      PROVE  jobs'[p].kind # "webhook" /\ jobs'[p].pc = "cache"
  <2> DEFINE job == [Started("setup", "cache") EXCEPT !.user = u]
  <2>1. Become(p, job) /\ job.kind # "webhook" /\ job.pc = "cache"
    BY <1>4, StartedKinds DEF StartSetup
  <2> HIDE DEF job
  <2> QED
    BY <2>1, OneWrites
<1> QED
  BY <1>1, <1>2, <1>3, <1>4

(***************************************************************************)
(* An execution serves a webhook from its lease until it ends, and what it *)
(* was leased stays what it was.                                           *)
(***************************************************************************)
LEMMA WebhookKept ==
  ASSUME TypeOK, NEW p \in Processes, ServesDelivery(jobs[p]), ProcessStep(p),
         jobs[p].kind = "webhook", jobs'[p].kind = "webhook"
  PROVE  /\ ~Lease(p)
         /\ jobs'[p].delivery = jobs[p].delivery /\ jobs'[p].at = jobs[p].at
         /\ jobs'[p].attempt = jobs[p].attempt /\ jobs'[p].intent = jobs[p].intent
         /\ jobs'[p].pc \notin {"idle", "states"}
         /\ jobs'[p].pc = "complete" => ProjectNothing(p) \/ ProjectScope(p)
<1>1. JobOK(jobs[p]) /\ jobs[p] \in Job /\ DOMAIN jobs = Processes
  BY DEF TypeOK, JobsTyped, JobOK
<1>2. ~Lease(p)
  BY DEF Lease, Start, ServesDelivery
<1>3. CASE ListStates(p) \/ StartRepair(p) \/ ContinueMembers(p) \/ ReplaceForUser(p)
           \/ FetchGrants(p) \/ MapProjects(p) \/ ExpireForUser(p) \/ Complete(p) \/ Retry(p)
           \/ Crash(p) \/ \E u \in Users : StartSetup(p, u) \/ StartMembers(p, u)
  <2>1. ~ListStates(p) /\ ~FetchGrants(p) /\ ~MapProjects(p)
    BY <1>1 DEF ListStates, ServesDelivery, JobOK, FetchGrants, MapProjects
  <2> QED
    BY <1>3, <2>1, StartsOrEnds
<1>4. CASE ReadCachedETag(p)
  BY <1>1, <1>2, <1>4, ZenonT(60) DEF ReadCachedETag, Become, Job
<1>5. CASE ReadCachedRows(p)
  BY <1>1, <1>2, <1>5, ZenonT(60) DEF ReadCachedRows, Become, Job
<1>6. CASE Describe(p)
  BY <1>1, <1>2, <1>6 DEF Describe, Become, Job
<1>7. CASE ListRepositories(p)
  BY <1>1, <1>2, <1>7 DEF ListRepositories, Become, Job
<1>8. CASE FetchFails(p) \/ ProjectFails(p)
  <2>1. jobs'[p] = [jobs[p] EXCEPT !.pc = "retry"]
    BY <1>8, OneWrites DEF FetchFails, ProjectFails, AfterFailure
  <2> QED
    BY <1>1, <1>2, <2>1 DEF Job
<1>9. CASE Guard(p)
  <2>1. jobs'[p] = Idle \/ jobs'[p] = [jobs[p] EXCEPT !.pc = "project"]
    BY <1>1, <1>9 DEF Guard, Goto, Become
  <2> QED
    BY <1>1, <1>2, <2>1 DEF Job, Idle
<1>10. CASE ProjectNothing(p) \/ ProjectScope(p)
  <2>1. jobs'[p] = [jobs[p] EXCEPT !.pc = "complete"]
    BY <1>10, OneWrites DEF ProjectNothing, ProjectScope, AfterProjection
  <2> QED
    BY <1>1, <1>2, <1>10, <2>1 DEF Job
<1> QED
  BY <1>2, <1>3, <1>4, <1>5, <1>6, <1>7, <1>8, <1>9, <1>10 DEF ProcessStep

LEMMA WebhookByLease ==
  ASSUME TypeOK, NEW p \in Processes, ProcessStep(p), ~Lease(p), jobs[p].kind # "webhook"
  PROVE  jobs'[p].kind # "webhook"
<1>1. JobOK(jobs[p]) /\ jobs[p] \in Job /\ DOMAIN jobs = Processes
  BY DEF TypeOK, JobsTyped, JobOK
<1>2. CASE StartRepair(p) \/ ContinueMembers(p) \/ ReplaceForUser(p) \/ ExpireForUser(p)
           \/ Complete(p) \/ Retry(p) \/ Crash(p)
           \/ \E u \in Users : StartSetup(p, u) \/ StartMembers(p, u)
  BY <1>2, StartsOrEnds
<1>3. CASE ListStates(p) \/ Describe(p) \/ FetchGrants(p) \/ MapProjects(p)
  BY <1>1, <1>3 DEF ListStates, Describe, FetchGrants, MapProjects, Become, Job
<1>4. CASE ReadCachedETag(p) \/ ReadCachedRows(p) \/ ListRepositories(p)
  BY <1>1, <1>4, ZenonT(60) DEF ReadCachedETag, ReadCachedRows, ListRepositories, Become, Job
<1>5. CASE FetchFails(p) \/ ProjectFails(p)
  BY <1>5, StartedKinds, OneWrites DEF FetchFails, ProjectFails, AfterFailure
<1>6. CASE ProjectNothing(p) \/ ProjectScope(p)
  <2>1. Become(p, AfterProjection(p)) /\ AfterProjection(p).kind # "webhook"
    BY <1>6, StartedKinds DEF ProjectNothing, ProjectScope, AfterProjection
  <2> QED
    BY <2>1, OneWrites
<1>7. ~Guard(p)
  BY <1>1 DEF Guard, JobOK
<1> QED
  BY <1>2, <1>3, <1>4, <1>5, <1>6, <1>7 DEF ProcessStep

LEMMA OthersKeep ==
  ASSUME TypeOK, NEW p \in Processes, ProcessStep(p), NEW q \in Processes \ {p}
  PROVE  jobs'[q] = jobs[q]
BY JobsWritten, OneWrites

LEMMA JobsStay ==
  ASSUME TypeOK, [Next]_vars, ~ \E p \in Processes : ProcessStep(p)
  PROVE  UNCHANGED jobs
<1>1. CASE Tick \/ GithubStep \/ \E d \in Deliveries : Receive(d)
  BY <1>1, GithubMoves, ReceiveWrites DEF Tick
<1>2. CASE UNCHANGED vars \/ \E r \in Repositories : DeleteProject(r)
  BY <1>2 DEF DeleteProject, vars
<1> QED
  BY <1>1, <1>2 DEF Next

LEMMA ServedStep ==
  ASSUME TypeOK, Past, Served, [Next]_vars
  PROVE  Served'
<1>1. CASE ~ \E p \in Processes : ProcessStep(p)
  BY <1>1, JobsStay, ServedStays DEF Served
<1>2. ASSUME NEW p \in Processes, ProcessStep(p)
      PROVE  Served'
  <2>1. \A q \in Processes \ {p} : ServesDelivery(jobs[q])'
    BY <1>2, OthersKeep, ServedStays DEF Served
  <2>2. SUFFICES ServesDelivery(jobs[p])'
    BY <2>1 DEF Served
  <2> DEFINE row == deliveries[jobs[p].delivery]
  <2>3. JobOK(jobs[p]) /\ jobs[p] \in Job /\ ServesDelivery(jobs[p])
    BY DEF TypeOK, JobsTyped, JobOK, Served
  <2>4. CASE jobs[p].kind = "webhook" /\ jobs'[p].kind = "webhook"
    <3>1. jobs[p].delivery \in Deliveries /\ jobs[p].at \in Nat
      BY <2>3, <2>4 DEF JobOK, Job
    <3>2. row.status # "none"
      BY <2>3, <2>4 DEF ServesDelivery
    <3>3. /\ deliveries'[jobs[p].delivery].status # "none"
          /\ deliveries'[jobs[p].delivery].received = row.received
          /\ deliveries'[jobs[p].delivery].event = row.event
      BY <3>1, <3>2, DeliveryStays
    <3>4. /\ jobs'[p].delivery = jobs[p].delivery /\ jobs'[p].at = jobs[p].at
          /\ jobs'[p].intent = jobs[p].intent /\ jobs'[p].pc \notin {"idle", "states"}
          /\ jobs'[p].pc = "complete" => ProjectNothing(p) \/ ProjectScope(p)
      BY <1>2, <2>3, <2>4, WebhookKept
    <3>5. ProjectScope(p) => inst'.verified >= jobs[p].at
      BY <3>1, ProjectWrites
    <3>6. ProjectNothing(p) => inst'.verified >= jobs[p].at \/ row.event = "deleted"
      <4>1. inst.verified \in Nat
        BY DEF TypeOK, RowsTyped
      <4>2. ProjectNothing(p) => inst' = inst
        BY DEF ProjectNothing, scope
      <4>3. jobs[p].intent = "deleted" => row.event = "deleted"
        BY <2>3, <2>4 DEF ServesDelivery
      <4> QED
        BY <3>1, <4>1, <4>2, <4>3 DEF ProjectNothing, IsStale
    <3> QED
      BY <2>3, <2>4, <3>3, <3>4, <3>5, <3>6 DEF ServesDelivery
  <2>5. CASE jobs'[p].kind # "webhook"
    BY <2>5 DEF ServesDelivery
  <2> QED
    BY <1>2, <2>4, <2>5, ServedByLease, WebhookByLease
<1> QED
  BY <1>1, <1>2

LEMMA ProjectedStep ==
  ASSUME TypeOK, Past, Served, ProcessedIsProjected, [Next]_vars
  PROVE  ProcessedIsProjected'
<1>1. SUFFICES ASSUME NEW d \in Deliveries, deliveries'[d].status = "processed",
                      deliveries'[d].event # "deleted"
               PROVE  inst'.verified > deliveries'[d].received
  BY DEF ProcessedIsProjected, Projected
<1>2. deliveries[d].received \in Nat /\ inst.verified \in Nat /\ inst'.verified \in Nat
  BY VerifiedRises DEF TypeOK, QueueTyped, Delivery
<1>3. CASE deliveries[d].status = "processed"
  <2>1. deliveries'[d].received = deliveries[d].received /\ deliveries'[d].event = deliveries[d].event
    BY <1>3, DeliveryStays
  <2> QED
    BY <1>1, <1>2, <1>3, <2>1, VerifiedRises DEF ProcessedIsProjected, Projected
<1>4. CASE deliveries[d].status # "processed"
  <2>1. PICK p \in Processes : Complete(p) /\ d = jobs[p].delivery
    BY <1>1, <1>4, QueueWritten, DeliveryKept, ReceiveWrites
  <2>2. deliveries'[d].received = deliveries[d].received /\ deliveries'[d].event = deliveries[d].event
    BY <2>1, DeliveryKept
  <2>3. jobs[p].kind = "webhook" /\ jobs[p].pc = "complete" /\ jobs[p].at \in Nat
    BY <2>1 DEF TypeOK, JobsTyped, JobOK, Job, Complete
  <2>4. inst.verified >= jobs[p].at /\ deliveries[d].received < jobs[p].at
    BY <1>1, <2>1, <2>2, <2>3 DEF Served, ServesDelivery
  <2> QED
    BY <1>2, <2>2, <2>3, <2>4, VerifiedRises
<1> QED
  BY <1>3, <1>4

(***************************************************************************)
(* A delivery is processed only when the rows are from a refresh that      *)
(* started after it was received, for any number of workers, any lease     *)
(* and any retries.                                                        *)
(***************************************************************************)
THEOREM ProcessedOnceProjected == Spec => []ProcessedIsProjected
<1>1. Init => Served /\ ProcessedIsProjected
  BY DEF Init, Served, ServesDelivery, Idle, ProcessedIsProjected, NoDelivery
<1> QED
  BY <1>1, PastInit, PastStep, ServedStep, ProjectedStep, TypeCorrect, PTL DEF Spec

-----------------------------------------------------------------------------
(***************************************************************************)
(* What an execution that started after GitHub's last change has read.     *)
(***************************************************************************)
ReadsCurrent(job) ==
  job.at > changed =>
    /\ job.pc = "list" => job.suspended = (github.status = "suspended")
    /\ job.pc \in {"guard", "project"} /\ job.intent = "snapshot" /\ job.etag = None =>
         ~job.suspended /\ github.status = "active" /\ job.listing = github.listing

AllReadCurrent == \A p \in Processes : ReadsCurrent(jobs[p])

LEMMA ReadsByProcess ==
  ASSUME TypeOK, AllReadCurrent, NEW p \in Processes, ProcessStep(p), UNCHANGED external
  PROVE  AllReadCurrent'
<1>1. JobOK(jobs[p]) /\ jobs[p] \in Job /\ ReadsCurrent(jobs[p]) /\ DOMAIN jobs = Processes
  BY DEF TypeOK, JobsTyped, JobOK, AllReadCurrent
<1>2. github' = github /\ changed' = changed
  BY DEF external
<1>3. \A q \in Processes \ {p} : ReadsCurrent(jobs[q])'
  <2>1. \A q \in Processes \ {p} : jobs'[q] = jobs[q]
    BY JobsWritten, OneWrites
  <2> QED
    BY <1>2, <2>1 DEF AllReadCurrent, ReadsCurrent
<1>4. SUFFICES ReadsCurrent(jobs[p])'
  BY <1>3 DEF AllReadCurrent
<1>5. CASE jobs'[p].pc \notin {"list", "guard", "project"}
  BY <1>5 DEF ReadsCurrent
<1>6. CASE Describe(p)
  BY <1>1, <1>2, <1>6 DEF Describe, Become, Job, ReadsCurrent
<1>7. CASE ListRepositories(p)
  <2>1. /\ jobs'[p].at = jobs[p].at /\ jobs'[p].suspended = jobs[p].suspended
        /\ jobs'[p].pc # "list" /\ jobs'[p].etag = ETag(github.listing)
        /\ jobs'[p].etag = None => jobs'[p].listing = github.listing
    BY <1>1, <1>7 DEF ListRepositories, Become, Job
  <2>2. jobs[p].at > changed => jobs[p].suspended = FALSE
    BY <1>1, <1>7 DEF ListRepositories, ReadsCurrent
  <2> QED
    BY <1>2, <1>7, <2>1, <2>2 DEF ListRepositories, ReadsCurrent
<1>8. CASE Guard(p)
  <2>1. jobs'[p] = Idle \/ jobs'[p] = [jobs[p] EXCEPT !.pc = "project"]
    BY <1>1, <1>8 DEF Guard, Goto, Become
  <2>2. CASE jobs'[p] = Idle
    BY <1>5, <2>2, StartedKinds
  <2>3. CASE jobs'[p] = [jobs[p] EXCEPT !.pc = "project"]
    <3>1. /\ jobs'[p].pc = "project" /\ jobs'[p].at = jobs[p].at /\ jobs'[p].etag = jobs[p].etag
          /\ jobs'[p].intent = jobs[p].intent /\ jobs'[p].listing = jobs[p].listing
          /\ jobs'[p].suspended = jobs[p].suspended /\ jobs[p].pc = "guard"
      BY <1>1, <1>8, <2>3 DEF Job, Guard
    <3> QED
      BY <1>1, <1>2, <3>1 DEF ReadsCurrent
  <2> QED
    BY <2>1, <2>2, <2>3
<1>9. CASE ListStates(p)
  <2>1. github.status \in {"active", "suspended", "deleted"}
    BY DEF TypeOK, GithubTyped
  <2> DEFINE pc == IF github.status = "active" THEN "cache" ELSE "project"
             intent == CASE github.status = "active" -> "snapshot"
                         [] github.status = "suspended" -> "suspend"
                         [] github.status = "deleted" -> "deleted"
             job == [jobs[p] EXCEPT !.pc = pc, !.intent = intent]
  <2>2. pc = "cache" \/ (pc = "project" /\ intent # "snapshot")
    BY <2>1
  <2>3. Become(p, job)
    BY <1>9 DEF ListStates
  <2> HIDE DEF pc, intent
  <2>4. job.pc = pc /\ job.intent = intent
    BY <1>1 DEF Job
  <2> HIDE DEF job
  <2>5. jobs'[p].pc = "cache" \/ (jobs'[p].pc = "project" /\ jobs'[p].intent # "snapshot")
    BY <2>2, <2>3, <2>4, OneWrites
  <2> QED
    BY <2>5 DEF ReadsCurrent
<1>10. CASE Lease(p)
  <2>1. PICK d \in NextDue(deliveries, clock + 1) :
          Become(p, [Started("webhook", IF deliveries[d].event = "refresh" THEN "cache" ELSE "guard")
                       EXCEPT !.delivery = d, !.attempt = deliveries[d].attempts + 1,
                              !.intent = IF deliveries[d].event = "refresh" THEN "snapshot"
                                         ELSE deliveries[d].event])
    BY <1>10 DEF Lease
  <2> DEFINE pc == IF deliveries[d].event = "refresh" THEN "cache" ELSE "guard"
             intent == IF deliveries[d].event = "refresh" THEN "snapshot" ELSE deliveries[d].event
             job == [Started("webhook", pc) EXCEPT !.delivery = d,
                                                   !.attempt = deliveries[d].attempts + 1,
                                                   !.intent = intent]
  <2>2. deliveries[d].event \in Events
    BY DEF TypeOK, QueueTyped, NextDue, Due
  <2>3. pc = "cache" \/ (pc = "guard" /\ intent # "snapshot")
    BY <2>2 DEF Events
  <2>4. Become(p, job)
    BY <2>1
  <2> HIDE DEF pc, intent
  <2>5. job.pc = pc /\ job.intent = intent
    BY DEF Started, Idle
  <2> HIDE DEF job
  <2> QED
    BY <2>3, <2>4, <2>5, OneWrites DEF ReadsCurrent
<1>11. CASE ReadCachedETag(p) \/ ReadCachedRows(p) \/ FetchGrants(p) \/ MapProjects(p)
  BY <1>1, <1>5, <1>11, ZenonT(30) DEF ReadCachedETag, ReadCachedRows, FetchGrants, MapProjects, Become, Job
<1>12. CASE FetchFails(p) \/ ProjectFails(p)
  <2>1. Become(p, AfterFailure(p)) /\ AfterFailure(p).pc \in {"retry", "idle"}
    BY <1>1, <1>12, StartedKinds DEF FetchFails, ProjectFails, AfterFailure, Job
  <2> QED
    BY <1>5, <2>1, OneWrites
<1>13. CASE ProjectNothing(p) \/ ProjectScope(p)
  <2>1. Become(p, AfterProjection(p)) /\ AfterProjection(p).pc \in {"complete", "members", "idle"}
    BY <1>1, <1>13, StartedKinds DEF ProjectNothing, ProjectScope, AfterProjection, Job
  <2> QED
    BY <1>5, <2>1, OneWrites
<1> QED
  BY <1>5, <1>6, <1>7, <1>8, <1>9, <1>10, <1>11, <1>12, <1>13, StartsOrEnds DEF ProcessStep

LEMMA ReadsStep ==
  ASSUME TypeOK, Past, AllReadCurrent, [Next]_vars
  PROVE  AllReadCurrent'
<1>1. CASE GithubStep
  <2>1. UNCHANGED jobs
    BY <1>1, GithubMoves
  <2>2. CASE changed' = clock + 1
    <3>1. \A p \in Processes : jobs'[p].at \in Nat /\ jobs'[p].at <= clock
      BY <2>1 DEF Past, TypeOK, JobsTyped, JobOK, Job
    <3> QED
      BY <2>2, <3>1 DEF AllReadCurrent, ReadsCurrent, TypeOK
  <2>3. CASE changed' = changed /\ github'.status = github.status /\ github'.listing = github.listing
    BY <2>1, <2>3 DEF AllReadCurrent, ReadsCurrent
  <2> QED
    BY <1>1, <2>2, <2>3, GithubMoves
<1>2. CASE UNCHANGED <<external, jobs>>
  BY <1>2 DEF AllReadCurrent, ReadsCurrent, external
<1>3. CASE Tick \/ \E d \in Deliveries : Receive(d)
  BY <1>2, <1>3 DEF Tick, Receive
<1>4. CASE UNCHANGED vars \/ \E r \in Repositories : DeleteProject(r)
  BY <1>2, <1>4 DEF vars, DeleteProject
<1>5. ASSUME NEW p \in Processes, ProcessStep(p), ~GithubStep
      PROVE  AllReadCurrent'
  BY <1>5, ExternalWritten, ReadsByProcess
<1> QED
  BY <1>1, <1>3, <1>4, <1>5 DEF Next

(***************************************************************************)
(* The rows a full listing leaves are that listing.                        *)
(***************************************************************************)
LEMMA ListingReplaces ==
  ASSUME RowsTyped, NEW job \in Job, job.listing \in Listings, ~job.suspended, ReplaceScope(job)
  PROVE  Cached(rows)' = job.listing
<1> DEFINE listed == Listed(job.listing)
           inactive == {r \in listed : job.suspended \/ job.listing[r] = "disabled"}
           removed == Kept \ listed
<1>1. SUFFICES ASSUME NEW r \in Repositories
               PROVE  (IF rows'[r] \in {"none", "removed"} THEN "gone" ELSE rows'[r]) = job.listing[r]
  BY DEF Cached, Listings
<1>2. rows'[r] = CASE r \in inactive -> "disabled"
                   [] r \in listed \ inactive -> job.listing[r]
                   [] r \in removed -> "removed"
                   [] OTHER -> rows[r]
  BY DEF ReplaceScope
<1>3. CASE r \in inactive
  BY <1>2, <1>3
<1>4. CASE r \in listed \ inactive
  <2>1. job.listing[r] \in {"active", "archived", "disabled"}
    BY <1>4 DEF Listed, Listings, RepositoryStates
  <2> QED
    BY <1>2, <1>4, <2>1
<1>5. CASE r \in removed
  BY <1>2, <1>5 DEF Listed
<1>6. CASE r \notin listed /\ r \notin removed
  BY <1>2, <1>6 DEF Listed, Kept
<1> QED
  BY <1>3, <1>4, <1>5, <1>6

LEMMA CurrentStep ==
  ASSUME TypeOK, Past, AllReadCurrent, FullListingIsCurrent, [Next]_vars
  PROVE  FullListingIsCurrent'
<1>1. SUFFICES ASSUME inst'.status = "active", inst'.etag = None, inst'.verified > changed'
               PROVE  github'.status = "active" /\ Cached(rows)' = github'.listing
  BY DEF FullListingIsCurrent
<1>2. CASE UNCHANGED <<inst, rows>> /\ UNCHANGED external
  BY <1>1, <1>2 DEF FullListingIsCurrent, Cached, external
<1>3. CASE GithubStep
  <2>1. UNCHANGED <<inst, rows>>
    BY <1>3, GithubMoves DEF scope
  <2>2. changed' # clock + 1
    BY <1>1, <2>1 DEF Past, TypeOK, RowsTyped
  <2> QED
    BY <1>1, <1>3, <2>1, <2>2, GithubMoves DEF FullListingIsCurrent, Cached
<1>4. ASSUME NEW p \in Processes, ProjectScope(p)
      PROVE  github'.status = "active" /\ Cached(rows)' = github'.listing
  <2>1. UNCHANGED external /\ jobs[p] \in Job /\ jobs[p].pc = "project"
    BY <1>4 DEF ProjectScope, TypeOK, JobsTyped, JobOK
  <2>2. inst'.verified = jobs[p].at /\ jobs[p].at > changed
    BY <1>1, <1>4, <2>1, ProjectWrites DEF external
  <2>3. jobs[p].intent = "snapshot"
    <3>1. inst \in [status : {"none", "active", "suspended", "deleted"}, verified : Nat,
                    etag : Listings \cup {None}]
      BY DEF TypeOK, RowsTyped
    <3>2. ~Deactivate(jobs[p].at) /\ ~Suspend(jobs[p].at)
      BY <1>1, <3>1 DEF Deactivate, Suspend, SuspendedStatus
    <3> QED
      BY <1>4, <2>1, <3>2 DEF ProjectScope, Job
  <2>4. ReplaceScope(jobs[p]) /\ jobs[p].listing \in Listings
    BY <1>4, <2>1, <2>3 DEF ProjectScope, TypeOK, JobsTyped, JobOK, Job
  <2>5. jobs[p].etag = None
    BY <1>1, <2>4 DEF ReplaceScope, SnapshotRow
  <2>6. ~jobs[p].suspended /\ github.status = "active" /\ jobs[p].listing = github.listing
    BY <2>1, <2>2, <2>3, <2>5 DEF AllReadCurrent, ReadsCurrent
  <2>7. Cached(rows)' = jobs[p].listing
    BY <2>1, <2>4, <2>6, ListingReplaces DEF TypeOK
  <2> QED
    BY <2>1, <2>6, <2>7 DEF external
<1> QED
  BY <1>2, <1>3, <1>4, ScopeWritten, ExternalWritten DEF scope, DeleteProject

(***************************************************************************)
(* Refreshes that overlap in any number and any order leave the rows of    *)
(* one that started after GitHub's last change, once there is one.         *)
(***************************************************************************)
THEOREM ListingsAreCurrent == Spec => []FullListingIsCurrent
<1>1. Init => AllReadCurrent /\ FullListingIsCurrent
  BY DEF Init, AllReadCurrent, ReadsCurrent, Idle, FullListingIsCurrent, NoInstallation
<1> QED
  BY <1>1, PastInit, PastStep, ReadsStep, CurrentStep, TypeCorrect, PTL DEF Spec

-----------------------------------------------------------------------------
(***************************************************************************)
(* A refresh of a user that has read GitHub holds no repository the user   *)
(* had lost when it started; a membership ends a lifetime after the loss.  *)
(***************************************************************************)
GrantsHeld(job) ==
  job.pc \in {"projects", "replace"} =>
    \A r \in job.grants \ Entitled(github, job.user) : job.at < revoked[job.user][r]

AllGrantsHeld == \A p \in Processes : GrantsHeld(jobs[p])

MembershipEnds(u, r) ==
  members[u][r] # None =>
    /\ members[u][r] <= clock + EntitlementTTL
    /\ r \notin Entitled(github, u) => members[u][r] < revoked[u][r] + EntitlementTTL

MembershipsEnd == \A u \in Users, r \in Repositories : MembershipEnds(u, r)

(***************************************************************************)
(* What a change at GitHub does to the entitlement of a user.              *)
(***************************************************************************)
LEMMA Losing ==
  ASSUME TypeOK, GithubStep, NEW u \in Users, NEW r \in Repositories
  PROVE  r \notin Entitled(github', u) =>
           \/ r \in Entitled(github, u) /\ revoked'[u][r] = clock + 1
           \/ r \notin Entitled(github, u) /\ revoked'[u][r] = revoked[u][r]
<1>1. PICK g : Becomes(g)
  BY GithubMoves
<1> QED
  BY <1>1 DEF Becomes

LEMMA GrantsByProcess ==
  ASSUME TypeOK, AllGrantsHeld, NEW p \in Processes, ProcessStep(p), UNCHANGED external
  PROVE  AllGrantsHeld'
<1>1. JobOK(jobs[p]) /\ jobs[p] \in Job /\ GrantsHeld(jobs[p]) /\ DOMAIN jobs = Processes
  BY DEF TypeOK, JobsTyped, JobOK, AllGrantsHeld
<1>2. github' = github /\ revoked' = revoked
  BY DEF external
<1>3. \A q \in Processes \ {p} : GrantsHeld(jobs[q])'
  <2>1. \A q \in Processes \ {p} : jobs'[q] = jobs[q]
    BY JobsWritten, OneWrites
  <2> QED
    BY <1>2, <2>1 DEF AllGrantsHeld, GrantsHeld
<1>4. SUFFICES GrantsHeld(jobs[p])'
  BY <1>3 DEF AllGrantsHeld
<1>5. CASE jobs'[p].pc \notin {"projects", "replace"}
  BY <1>5 DEF GrantsHeld
<1>6. CASE FetchGrants(p)
  <2>1. jobs'[p].grants = Entitled(github, jobs[p].user) /\ jobs'[p].user = jobs[p].user
    BY <1>1, <1>6 DEF FetchGrants, Become, Job
  <2> QED
    BY <1>2, <2>1 DEF GrantsHeld
<1>7. CASE MapProjects(p)
  <2>1. /\ jobs[p].pc = "projects" /\ jobs'[p].grants \subseteq jobs[p].grants
        /\ jobs'[p].user = jobs[p].user /\ jobs'[p].at = jobs[p].at
    BY <1>1, <1>7 DEF MapProjects, Become, Job
  <2> QED
    BY <1>1, <1>2, <2>1 DEF GrantsHeld
<1>8. CASE ListStates(p)
  <2> DEFINE pc == IF github.status = "active" THEN "cache" ELSE "project"
  <2>1. \E intent : Become(p, [jobs[p] EXCEPT !.pc = pc, !.intent = intent])
    BY <1>8 DEF ListStates
  <2>2. pc \notin {"projects", "replace"}
    OBVIOUS
  <2> HIDE DEF pc
  <2>3. \A intent : [jobs[p] EXCEPT !.pc = pc, !.intent = intent].pc = pc
    BY <1>1 DEF Job
  <2> QED
    BY <1>5, <2>1, <2>2, <2>3, OneWrites
<1>9. CASE Lease(p)
  <2>1. PICK d \in NextDue(deliveries, clock + 1) :
          Become(p, [Started("webhook", IF deliveries[d].event = "refresh" THEN "cache" ELSE "guard")
                       EXCEPT !.delivery = d, !.attempt = deliveries[d].attempts + 1,
                              !.intent = IF deliveries[d].event = "refresh" THEN "snapshot"
                                         ELSE deliveries[d].event])
    BY <1>9 DEF Lease
  <2> DEFINE pc == IF deliveries[d].event = "refresh" THEN "cache" ELSE "guard"
             intent == IF deliveries[d].event = "refresh" THEN "snapshot" ELSE deliveries[d].event
             job == [Started("webhook", pc) EXCEPT !.delivery = d,
                                                   !.attempt = deliveries[d].attempts + 1,
                                                   !.intent = intent]
  <2>2. Become(p, job) /\ pc \in {"cache", "guard"}
    BY <2>1
  <2> HIDE DEF pc, intent
  <2>3. job.pc = pc
    BY DEF Started, Idle
  <2> HIDE DEF job
  <2> QED
    BY <1>5, <2>2, <2>3, OneWrites
<1>10. CASE ReadCachedETag(p) \/ ReadCachedRows(p) \/ Describe(p) \/ ListRepositories(p)
  BY <1>1, <1>5, <1>10, ZenonT(30) DEF ReadCachedETag, ReadCachedRows, Describe, ListRepositories, Become, Job
<1>11. CASE FetchFails(p) \/ ProjectFails(p)
  <2>1. Become(p, AfterFailure(p)) /\ AfterFailure(p).pc \in {"retry", "idle"}
    BY <1>1, <1>11, StartedKinds DEF FetchFails, ProjectFails, AfterFailure, Job
  <2> QED
    BY <1>5, <2>1, OneWrites
<1>12. CASE ProjectNothing(p) \/ ProjectScope(p)
  <2>1. Become(p, AfterProjection(p)) /\ AfterProjection(p).pc \in {"complete", "members", "idle"}
    BY <1>1, <1>12, StartedKinds DEF ProjectNothing, ProjectScope, AfterProjection, Job
  <2> QED
    BY <1>5, <2>1, OneWrites
<1>13. CASE Guard(p)
  <2>1. jobs'[p] = Idle \/ jobs'[p] = [jobs[p] EXCEPT !.pc = "project"]
    BY <1>1, <1>13 DEF Guard, Goto, Become
  <2> QED
    BY <1>1, <1>5, <2>1, StartedKinds DEF Job
<1> QED
  BY <1>5, <1>6, <1>7, <1>8, <1>9, <1>10, <1>11, <1>12, <1>13, StartsOrEnds DEF ProcessStep

LEMMA GrantsStep ==
  ASSUME TypeOK, Past, AllGrantsHeld, [Next]_vars
  PROVE  AllGrantsHeld'
<1>1. CASE GithubStep
  <2>1. UNCHANGED jobs
    BY <1>1, GithubMoves
  <2>2. SUFFICES ASSUME NEW p \in Processes, jobs[p].pc \in {"projects", "replace"},
                        NEW r \in jobs[p].grants \ Entitled(github', jobs[p].user)
                 PROVE  jobs[p].at < revoked'[jobs[p].user][r]
    BY <2>1 DEF AllGrantsHeld, GrantsHeld
  <2>3. jobs[p].user \in Users /\ r \in Repositories /\ jobs[p].at \in Nat
    BY <2>2 DEF TypeOK, JobsTyped, JobOK, Job
  <2>4. jobs[p].at < clock + 1
    BY <2>3 DEF Past, TypeOK
  <2>5. r \notin Entitled(github, jobs[p].user) => jobs[p].at < revoked[jobs[p].user][r]
    BY <2>2 DEF AllGrantsHeld, GrantsHeld
  <2> QED
    BY <1>1, <2>2, <2>3, <2>4, <2>5, Losing
<1>2. CASE UNCHANGED <<external, jobs>>
  BY <1>2 DEF AllGrantsHeld, GrantsHeld, external
<1>3. CASE Tick \/ \E d \in Deliveries : Receive(d)
  BY <1>2, <1>3 DEF Tick, Receive
<1>4. CASE UNCHANGED vars \/ \E r \in Repositories : DeleteProject(r)
  BY <1>2, <1>4 DEF vars, DeleteProject
<1>5. ASSUME NEW p \in Processes, ProcessStep(p), ~GithubStep
      PROVE  AllGrantsHeld'
  BY <1>5, ExternalWritten, GrantsByProcess
<1> QED
  BY <1>1, <1>3, <1>4, <1>5 DEF Next

(***************************************************************************)
(* A membership is only shortened, or written by a refresh of its user.    *)
(***************************************************************************)
LEMMA AccessWritten ==
  ASSUME [Next]_vars
  PROVE  \/ UNCHANGED members
         \/ \E p \in Processes : ProjectScope(p) \/ ExpireForUser(p) \/ ReplaceForUser(p)
<1>1. CASE UNCHANGED vars \/ Tick \/ \E d \in Deliveries : Receive(d)
  BY <1>1 DEF vars, access, Tick, Receive
<1>2. CASE GithubStep
  BY <1>2 DEF GithubStep, SuspendAtGithub, ResumeAtGithub, DeleteAtGithub, ChangeRepository,
              ChangeGrants, Announced, access
<1>3. ASSUME NEW r \in Repositories, DeleteProject(r) PROVE UNCHANGED members
  BY <1>3 DEF DeleteProject, access
<1>4. ASSUME NEW p \in Processes, ProcessStep(p),
             ~(ProjectScope(p) \/ ExpireForUser(p) \/ ReplaceForUser(p))
      PROVE  UNCHANGED members
  <2>1. CASE Lease(p) \/ StartRepair(p) \/ ListStates(p) \/ ReadCachedETag(p) \/ ReadCachedRows(p)
             \/ Describe(p) \/ ListRepositories(p) \/ FetchFails(p)
    BY <2>1 DEF Lease, StartRepair, ListStates, ReadCachedETag, ReadCachedRows, Describe,
                ListRepositories, FetchFails, access
  <2>2. CASE Guard(p) \/ ProjectNothing(p) \/ ProjectFails(p) \/ Complete(p) \/ Retry(p) \/ Crash(p)
    BY <2>2 DEF Guard, ProjectNothing, ProjectFails, Complete, Retry, Crash, access
  <2>3. CASE ContinueMembers(p) \/ FetchGrants(p) \/ MapProjects(p)
             \/ \E u \in Users : StartSetup(p, u) \/ StartMembers(p, u)
    BY <2>3 DEF ContinueMembers, FetchGrants, MapProjects, StartSetup, StartMembers, access
  <2> QED
    BY <1>4, <2>1, <2>2, <2>3 DEF ProcessStep
<1> QED
  BY <1>1, <1>2, <1>3, <1>4 DEF Next

LEMMA MembershipWrites ==
  ASSUME TypeOK, AllGrantsHeld, NEW p \in Processes,
         ProjectScope(p) \/ ExpireForUser(p) \/ ReplaceForUser(p),
         NEW u \in Users, NEW r \in Repositories, members'[u][r] # None
  PROVE  \/ members[u][r] # None /\ members'[u][r] <= members[u][r]
         \/ /\ members'[u][r] = jobs[p].at + EntitlementTTL
            /\ r \notin Entitled(github, u) => jobs[p].at < revoked[u][r]
<1>1. /\ members \in [Users -> [Repositories -> Nat \cup {None}]]
      /\ jobs[p].at \in Nat /\ JobOK(jobs[p]) /\ None \notin Nat
  BY WebhookQueueAssumption DEF TypeOK, AccessTyped, JobsTyped, JobOK, Job
<1>2. CASE ProjectScope(p)
  <2>1. PICK S : ExpireMemberships(S, jobs[p].at)
    BY <1>1, <1>2 DEF ProjectScope, JobOK, Job, Deactivate, Suspend, ReplaceScope
  <2>2. members'[u][r] = IF r \in S /\ members[u][r] # None /\ members[u][r] > jobs[p].at
                         THEN jobs[p].at ELSE members[u][r]
    BY <2>1 DEF ExpireMemberships
  <2> QED
    BY <1>1, <2>2
<1>3. CASE ExpireForUser(p)
  <2>1. members'[u][r] \in {jobs[p].at, members[u][r]}
        /\ (members'[u][r] # members[u][r] => members[u][r] # None /\ members[u][r] > jobs[p].at)
    <3>1. CASE u = jobs[p].user
      <4>1. members'[u] = [x \in Repositories |->
              IF members[u][x] # None /\ members[u][x] > jobs[p].at THEN jobs[p].at ELSE members[u][x]]
        BY <1>1, <1>3, <3>1 DEF ExpireForUser
      <4> QED
        BY <4>1
    <3>2. CASE u # jobs[p].user
      BY <1>1, <1>3, <3>2 DEF ExpireForUser
    <3> QED
      BY <3>1, <3>2
  <2> QED
    BY <1>1, <2>1
<1>4. CASE ReplaceForUser(p)
  <2>1. CASE u = jobs[p].user
    <3>1. members'[u] = [x \in Repositories |->
            IF x \in jobs[p].grants THEN jobs[p].at + EntitlementTTL ELSE None]
      BY <1>1, <1>4, <2>1 DEF ReplaceForUser
    <3>2. r \in jobs[p].grants /\ members'[u][r] = jobs[p].at + EntitlementTTL
      BY <3>1
    <3> QED
      BY <1>4, <2>1, <3>2 DEF ReplaceForUser, AllGrantsHeld, GrantsHeld
  <2>2. CASE u # jobs[p].user
    BY <1>1, <1>4, <2>2 DEF ReplaceForUser
  <2> QED
    BY <2>1, <2>2
<1> QED
  BY <1>2, <1>3, <1>4

LEMMA MembershipsStep ==
  ASSUME TypeOK, Past, AllGrantsHeld, MembershipsEnd, [Next]_vars
  PROVE  MembershipsEnd'
<1>1. SUFFICES ASSUME NEW u \in Users, NEW r \in Repositories, members'[u][r] # None
               PROVE  /\ members'[u][r] <= clock' + EntitlementTTL
                      /\ r \notin Entitled(github', u) =>
                           members'[u][r] < revoked'[u][r] + EntitlementTTL
  BY DEF MembershipsEnd, MembershipEnds
<1>2. /\ clock \in Nat /\ clock' \in {clock, clock + 1} /\ EntitlementTTL \in Nat
      /\ revoked[u][r] \in Nat /\ members[u][r] \in Nat \cup {None}
  BY ClockMoves, SyncAssumption DEF TypeOK, GithubTyped, AccessTyped
<1>3. members[u][r] # None =>
        /\ members[u][r] <= clock + EntitlementTTL
        /\ r \notin Entitled(github, u) => members[u][r] < revoked[u][r] + EntitlementTTL
  BY DEF MembershipsEnd, MembershipEnds
<1>4. CASE GithubStep
  <2>1. members' = members /\ clock' = clock + 1
    BY <1>4, GithubMoves DEF access
  <2>2. r \notin Entitled(github', u) =>
           \/ r \in Entitled(github, u) /\ revoked'[u][r] = clock + 1
           \/ r \notin Entitled(github, u) /\ revoked'[u][r] = revoked[u][r]
    BY <1>4, Losing
  <2> HIDE DEF Entitled
  <2>3. members'[u][r] \in Nat
    BY <1>1, <1>2, <2>1
  <2>4. members'[u][r] <= clock + EntitlementTTL
    BY <1>1, <1>3, <2>1
  <2>5. CASE revoked'[u][r] = clock + 1
    BY <1>2, <2>1, <2>3, <2>4, <2>5
  <2>6. CASE revoked'[u][r] = revoked[u][r] /\ r \notin Entitled(github, u)
    BY <1>1, <1>2, <1>3, <2>1, <2>3, <2>4, <2>6
  <2>7. CASE r \in Entitled(github', u)
    BY <1>2, <2>1, <2>3, <2>4, <2>7
  <2> QED
    BY <2>2, <2>5, <2>6, <2>7
<1>5. CASE UNCHANGED external /\ UNCHANGED members
  BY <1>1, <1>2, <1>3, <1>5 DEF external
<1>6. ASSUME NEW p \in Processes, ProjectScope(p) \/ ExpireForUser(p) \/ ReplaceForUser(p)
      PROVE  /\ members'[u][r] <= clock' + EntitlementTTL
             /\ r \notin Entitled(github', u) => members'[u][r] < revoked'[u][r] + EntitlementTTL
  <2>1. UNCHANGED external /\ clock' = clock
    BY <1>6 DEF ProjectScope, ExpireForUser, ReplaceForUser
  <2>2. jobs[p].at <= clock /\ jobs[p].at \in Nat
    BY DEF Past, TypeOK, JobsTyped, JobOK, Job
  <2>3. members'[u][r] \in Nat
    <3>1. TypeOK'
      BY TypeStep
    <3> QED
      BY <1>1, <3>1 DEF TypeOK, AccessTyped
  <2>4. github' = github /\ revoked' = revoked
    BY <2>1 DEF external
  <2> HIDE DEF Entitled
  <2>5. CASE members[u][r] # None /\ members'[u][r] <= members[u][r]
    BY <1>2, <1>3, <2>1, <2>3, <2>4, <2>5
  <2>6. CASE /\ members'[u][r] = jobs[p].at + EntitlementTTL
             /\ r \notin Entitled(github, u) => jobs[p].at < revoked[u][r]
    BY <1>2, <2>1, <2>2, <2>4, <2>6
  <2> QED
    BY <1>1, <1>6, <2>5, <2>6, MembershipWrites
<1> QED
  BY <1>4, <1>5, <1>6, AccessWritten, ExternalWritten

LEMMA RevocationFollows ==
  TypeOK /\ MembershipsEnd => RevocationTakesEffect
<1> SUFFICES ASSUME TypeOK, MembershipsEnd, NEW u \in Users,
                    NEW r \in Repositories \ Entitled(github, u), MayAccess(u, r)
             PROVE  clock < revoked[u][r] + EntitlementTTL
  BY DEF RevocationTakesEffect
<1>1. /\ clock \in Nat /\ revoked[u][r] \in Nat /\ EntitlementTTL \in Nat
      /\ members[u][r] # None => members[u][r] \in Nat
  BY SyncAssumption DEF TypeOK, GithubTyped, AccessTyped
<1> QED
  BY <1>1 DEF MembershipsEnd, MembershipEnds, MayAccess

(***************************************************************************)
(* Who loses a repository at GitHub loses its project within a lifetime of *)
(* a membership, whatever refreshes are under way, for any number of users *)
(* and processes.                                                          *)
(***************************************************************************)
THEOREM RevocationsTakeEffect == Spec => []RevocationTakesEffect
<1>1. Init => AllGrantsHeld /\ MembershipsEnd
  BY DEF Init, AllGrantsHeld, GrantsHeld, Idle, MembershipsEnd, MembershipEnds
<1> QED
  BY <1>1, PastInit, PastStep, GrantsStep, MembershipsStep, RevocationFollows, TypeCorrect, PTL
  DEF Spec

-----------------------------------------------------------------------------
(***************************************************************************)
(* The queue of deliveries implements WorkQueue.  The worker whose token   *)
(* the row has knows the number of its attempt.                            *)
(***************************************************************************)
KnowsAttempt(p) ==
  Serving(p) # None /\ deliveries[Serving(p)].token = jobs[p].at =>
    jobs[p].attempt = deliveries[Serving(p)].attempts

AttemptsKnown == \A p \in Processes : KnowsAttempt(p)

LEMMA ServingTypes ==
  ASSUME TypeOK, NEW p \in Processes
  PROVE  /\ Serving(p) \in Deliveries \cup {None} /\ None \notin Deliveries
         /\ jobs[p].kind = "webhook" <=> Serving(p) # None
         /\ jobs[p].kind = "webhook" => Serving(p) = jobs[p].delivery
         /\ jobs[p].at \in Nat /\ jobs[p].attempt \in Nat /\ jobs[p].at # None
BY WebhookQueueAssumption, SyncAssumption DEF Serving, TypeOK, JobsTyped, JobOK, Job

LEMMA LeaseTakes ==
  ASSUME TypeOK, Past, Served, NEW p \in Processes, Lease(p)
  PROVE  /\ Serving(p) = None
         /\ \E d \in Deliveries :
              /\ deliveries[d].status = "received"
              /\ Serving(p)' = d
              /\ deliveries' = [deliveries EXCEPT ![d] = LeasedDelivery(deliveries[d], clock + 1)]
              /\ jobs'[p].at = clock + 1 /\ jobs'[p].attempt = deliveries[d].attempts + 1
<1>1. Serving(p) = None
  BY DEF Lease, Start, Served, ServesDelivery, Serving
<1>2. PICK d \in NextDue(deliveries, clock + 1) :
        /\ deliveries' = [deliveries EXCEPT ![d] = LeasedDelivery(@, clock + 1)]
        /\ Become(p, [Started("webhook", IF deliveries[d].event = "refresh" THEN "cache" ELSE "guard")
                        EXCEPT !.delivery = d, !.attempt = deliveries[d].attempts + 1,
                               !.intent = IF deliveries[d].event = "refresh" THEN "snapshot"
                                          ELSE deliveries[d].event])
  BY DEF Lease
<1>3. d \in Deliveries /\ deliveries[d].status = "received"
  BY DEF NextDue, Due
<1> DEFINE pc == IF deliveries[d].event = "refresh" THEN "cache" ELSE "guard"
           intent == IF deliveries[d].event = "refresh" THEN "snapshot" ELSE deliveries[d].event
           n == deliveries[d].attempts + 1
           job == [Started("webhook", pc) EXCEPT !.delivery = d, !.attempt = n, !.intent = intent]
<1>4. Become(p, job)
  BY <1>2
<1>5. deliveries' = [deliveries EXCEPT ![d] = LeasedDelivery(deliveries[d], clock + 1)]
  BY <1>2
<1> HIDE DEF pc, intent, n
<1>6. job.kind = "webhook" /\ job.at = clock + 1 /\ job.delivery = d /\ job.attempt = n
  BY DEF Started, Idle
<1> HIDE DEF job
<1>7. jobs'[p] = job
  BY <1>4, OneWrites
<1>8. Serving(p)' = d /\ jobs'[p].at = clock + 1 /\ jobs'[p].attempt = n
  BY <1>6, <1>7 DEF Serving
<1> QED
  BY <1>1, <1>3, <1>5, <1>8 DEF n

(***************************************************************************)
(* An execution that is serving a webhook and did not just lease it is     *)
(* serving the one it did.                                                 *)
(***************************************************************************)
LEMMA ServingStays ==
  ASSUME TypeOK, Served, [Next]_vars, NEW p \in Processes, ~Lease(p)
  PROVE  \/ /\ Serving(p)' = Serving(p)
            /\ Serving(p) # None => jobs'[p].at = jobs[p].at /\ jobs'[p].attempt = jobs[p].attempt
         \/ Serving(p) # None /\ Serving(p)' = None
<1>1. CASE jobs'[p] = jobs[p]
  BY <1>1 DEF Serving
<1>2. CASE ProcessStep(p) /\ jobs[p].kind = "webhook" /\ jobs'[p].kind = "webhook"
  BY <1>2, WebhookKept DEF Serving, Served
<1>3. CASE ProcessStep(p) /\ jobs[p].kind = "webhook" /\ jobs'[p].kind # "webhook"
  BY <1>3, ServingTypes DEF Serving
<1>4. CASE ProcessStep(p) /\ jobs[p].kind # "webhook"
  BY <1>4, WebhookByLease DEF Serving
<1> QED
  BY <1>1, <1>2, <1>3, <1>4, JobsStay, OthersKeep

(***************************************************************************)
(* Without a lease no row gets a token, and a row that keeps its token     *)
(* keeps its status and its attempts.                                      *)
(***************************************************************************)
LEMMA TokenStays ==
  ASSUME TypeOK, [Next]_vars, NEW d \in Deliveries, ~ \E p \in Processes : Lease(p),
         deliveries'[d].token # None
  PROVE  /\ deliveries'[d].token = deliveries[d].token
         /\ deliveries'[d].attempts = deliveries[d].attempts
<1>1. deliveries \in [Deliveries -> Delivery] /\ deliveries[d] \in Delivery
  BY DEF TypeOK, QueueTyped
<1>2. CASE deliveries'[d] = deliveries[d]
  BY <1>2
<1>3. ASSUME NEW e \in Deliveries, Receive(e)
      PROVE  deliveries'[d] = deliveries[d] \/ deliveries'[d].token = None
  BY <1>1, <1>3 DEF Receive, ClaimedDelivery
<1>4. ASSUME NEW p \in Processes, Guard(p), deliveries'[d] # deliveries[d]
      PROVE  /\ deliveries'[d].token = deliveries[d].token
             /\ deliveries'[d].attempts = deliveries[d].attempts
  <2>1. deliveries'[d] = RenewedDelivery(deliveries[d], clock)
    BY <1>1, <1>4 DEF Guard
  <2> QED
    BY <1>1, <2>1 DEF RenewedDelivery, Delivery
<1>5. ASSUME NEW p \in Processes, Complete(p), deliveries'[d] # deliveries[d]
      PROVE  deliveries'[d].token = None
  <2>1. deliveries'[d] = ProcessedDelivery(deliveries[d])
    BY <1>1, <1>5 DEF Complete
  <2> QED
    BY <1>1, <2>1 DEF ProcessedDelivery, Delivery
<1>6. ASSUME NEW p \in Processes, Retry(p), deliveries'[d] # deliveries[d]
      PROVE  deliveries'[d].token = None
  <2>1. \E n, notBefore : deliveries'[d] = ReleasedDelivery(deliveries[d], n, notBefore, clock)
    BY <1>1, <1>6 DEF Retry
  <2> QED
    BY <1>1, <2>1 DEF ReleasedDelivery, Delivery
<1> QED
  BY <1>2, <1>3, <1>4, <1>5, <1>6, QueueWritten

LEMMA AttemptsStep ==
  ASSUME TypeOK, Past, Served, AttemptsKnown, [Next]_vars
  PROVE  AttemptsKnown'
<1> SUFFICES ASSUME NEW q \in Processes, Serving(q)' # None,
                    deliveries'[Serving(q)'].token = jobs'[q].at
             PROVE  jobs'[q].attempt = deliveries'[Serving(q)'].attempts
  BY DEF AttemptsKnown, KnowsAttempt
<1>1. deliveries \in [Deliveries -> Delivery]
  BY DEF TypeOK, QueueTyped
<1>2. ASSUME NEW p \in Processes, Lease(p)
      PROVE  jobs'[q].attempt = deliveries'[Serving(q)'].attempts
  <2>1. PICK d \in Deliveries :
          /\ Serving(p)' = d
          /\ deliveries' = [deliveries EXCEPT ![d] = LeasedDelivery(deliveries[d], clock + 1)]
          /\ jobs'[p].at = clock + 1 /\ jobs'[p].attempt = deliveries[d].attempts + 1
    BY <1>2, LeaseTakes
  <2>2. deliveries'[d].token = clock + 1 /\ deliveries'[d].attempts = deliveries[d].attempts + 1
    BY <1>1, <2>1 DEF LeasedDelivery, Delivery
  <2>3. CASE q # p
    <3>1. jobs'[q] = jobs[q] /\ Serving(q)' = Serving(q)
      BY <1>2, <2>3, OthersKeep DEF ProcessStep, Serving
    <3>2. jobs[q].at \in Nat /\ jobs[q].at <= clock /\ clock \in Nat /\ Serving(q) \in Deliveries
      BY <3>1, ServingTypes DEF Past, TypeOK
    <3>3. Serving(q) # d
      BY <2>2, <3>1, <3>2
    <3> QED
      BY <1>1, <2>1, <3>1, <3>2, <3>3 DEF AttemptsKnown, KnowsAttempt
  <2> QED
    BY <2>1, <2>2, <2>3
<1>3. CASE ~ \E p \in Processes : Lease(p)
  <2>1. /\ Serving(q)' = Serving(q)
        /\ jobs'[q].at = jobs[q].at /\ jobs'[q].attempt = jobs[q].attempt
    BY <1>3, ServingStays
  <2>2. Serving(q) \in Deliveries /\ jobs[q].at # None
    BY <2>1, ServingTypes
  <2>3. /\ deliveries'[Serving(q)].token = deliveries[Serving(q)].token
        /\ deliveries'[Serving(q)].attempts = deliveries[Serving(q)].attempts
    BY <1>3, <2>1, <2>2, TokenStays
  <2> QED
    BY <2>1, <2>2, <2>3 DEF AttemptsKnown, KnowsAttempt
<1> QED
  BY <1>2, <1>3

(***************************************************************************)
(* How the steps of the executions map to those of the queue.              *)
(***************************************************************************)
LEMMA QueueStutters ==
  ASSUME \A q \in Processes : /\ Serving(q)' = Serving(q)
                              /\ Serving(q) # None => jobs'[q].at = jobs[q].at,
         \A e \in Deliveries : /\ deliveries'[e].status = deliveries[e].status
                               /\ deliveries'[e].attempts = deliveries[e].attempts
                               /\ deliveries'[e].token = deliveries[e].token
  PROVE  UNCHANGED Work!vars
<1>1. None \notin Deliveries
  BY SyncAssumption
<1>2. \A e \in Deliveries : Holders(e)' = Holders(e)
  BY <1>1 DEF Holders
<1>3. \A e \in Deliveries : Item(e)' = Item(e)
  BY <1>2 DEF Item
<1>4. [e \in Deliveries |-> Item(e)]' = [e \in Deliveries |-> Item(e)]
  BY <1>3
<1>5. [q \in Processes |-> Serving(q)]' = [q \in Processes |-> Serving(q)]
  OBVIOUS
<1> QED
  BY <1>4, <1>5 DEF Work!vars

LEMMA StopMaps ==
  ASSUME TypeOK, NEW p \in Processes, Serving(p) # None, Serving(p)' = None,
         \A q \in Processes \ {p} : jobs'[q] = jobs[q],
         UNCHANGED deliveries
  PROVE  Work!Stop(p)
<1>1. PICK d \in Deliveries : Serving(p) = d
  BY ServingTypes
<1>2. None \notin Deliveries
  BY SyncAssumption
<1>3. \A q \in Processes \ {p} : Serving(q)' = Serving(q)
  BY DEF Serving
<1>4. \A e \in Deliveries \ {d} : Holders(e)' = Holders(e)
  BY <1>1, <1>2, <1>3 DEF Holders
<1>5. Holders(d)' = Holders(d) \ {p}
  BY <1>1, <1>2, <1>3 DEF Holders
<1>6. \A e \in Deliveries \ {d} : Item(e)' = Item(e)
  BY <1>4 DEF Item
<1>7. Item(d)' = [Item(d) EXCEPT !.holders = Item(d).holders \ {p}]
  <2>1. Item(d)' = [status |-> deliveries[d].status, attempts |-> deliveries[d].attempts,
                    holders |-> Holders(d) \ {p}]
    BY <1>5 DEF Item
  <2> QED
    BY <2>1 DEF Item
<1>8. [e \in Deliveries |-> Item(e)]' =
        [[e \in Deliveries |-> Item(e)] EXCEPT ![d].holders = @ \ {p}]
  BY <1>6, <1>7
<1>9. [q \in Processes |-> Serving(q)]' = [[q \in Processes |-> Serving(q)] EXCEPT ![p] = None]
  <2>1. \A q \in Processes : Serving(q)' = IF q = p THEN None ELSE Serving(q)
    BY <1>3
  <2> QED
    BY <2>1
<1> QED
  BY <1>1, <1>2, <1>8, <1>9 DEF Work!Stop

LEMMA EndMaps ==
  ASSUME TypeOK, NEW p \in Processes, NEW d \in Deliveries, NEW row \in Delivery,
         Serving(p) = d, deliveries[d].token = jobs[p].at, Serving(p)' = None,
         \A q \in Processes \ {p} : jobs'[q] = jobs[q],
         deliveries' = [deliveries EXCEPT ![d] = row],
         row.token = None, row.attempts = deliveries[d].attempts
  PROVE  Work!End(d, p, row.status)
<1>1. None \notin Deliveries /\ \A q \in Processes : jobs[q].at # None
  BY ServingTypes
<1>2. \A q \in Processes \ {p} : Serving(q)' = Serving(q)
  BY DEF Serving
<1>3. deliveries[d].status = "received" /\ deliveries'[d] = row
  BY <1>1 DEF TypeOK, QueueTyped
<1>4. \A e \in Deliveries \ {d} : deliveries'[e] = deliveries[e]
  BY DEF TypeOK, QueueTyped
<1>5. \A e \in Deliveries \ {d} : Holders(e)' = Holders(e)
  BY <1>1, <1>2, <1>4 DEF Holders
<1>6. Holders(d)' = {} /\ p \in Holders(d)
  BY <1>1, <1>2, <1>3 DEF Holders
<1>7. \A e \in Deliveries \ {d} : Item(e)' = Item(e)
  BY <1>4, <1>5 DEF Item
<1>8. Item(d)' = [status |-> row.status, attempts |-> Item(d).attempts, holders |-> {}]
  BY <1>3, <1>6 DEF Item
<1>9. [e \in Deliveries |-> Item(e)]' =
        [[e \in Deliveries |-> Item(e)] EXCEPT ![d] =
           [status |-> row.status, attempts |-> @.attempts, holders |-> {}]]
  BY <1>7, <1>8
<1>10. [q \in Processes |-> Serving(q)]' = [[q \in Processes |-> Serving(q)] EXCEPT ![p] = None]
  BY <1>2
<1>11. Item(d).status = "received" /\ Item(d).holders = Holders(d)
  BY <1>3 DEF Item
<1> QED
  BY <1>6, <1>9, <1>10, <1>11 DEF Work!End

LEMMA LeaseMaps ==
  ASSUME TypeOK, Past, Served, NEW p \in Processes, Lease(p)
  PROVE  \E d \in Deliveries : Work!Take(d, p)
<1>1. PICK d \in Deliveries :
        /\ Serving(p) = None /\ Serving(p)' = d
        /\ deliveries[d].status = "received"
        /\ deliveries' = [deliveries EXCEPT ![d] = LeasedDelivery(deliveries[d], clock + 1)]
        /\ jobs'[p].at = clock + 1
  BY LeaseTakes
<1>2. None \notin Deliveries /\ clock \in Nat
      /\ \A q \in Processes : jobs[q].at \in Nat /\ jobs[q].at <= clock
  BY ServingTypes DEF Past, TypeOK
<1>3. \A q \in Processes \ {p} : jobs'[q] = jobs[q] /\ Serving(q)' = Serving(q)
  BY OthersKeep DEF ProcessStep, Serving
<1>4. /\ deliveries'[d].token = clock + 1 /\ deliveries'[d].status = deliveries[d].status
      /\ deliveries'[d].attempts = deliveries[d].attempts + 1
  BY <1>1 DEF TypeOK, QueueTyped, LeasedDelivery, Delivery
<1>5. \A e \in Deliveries \ {d} : deliveries'[e] = deliveries[e]
  BY <1>1 DEF TypeOK, QueueTyped
<1>6. \A e \in Deliveries \ {d} : Holders(e)' = Holders(e)
  BY <1>1, <1>2, <1>3, <1>5 DEF Holders
<1>7. Holders(d)' = {p}
  <2>1. \A q \in Processes \ {p} : jobs'[q].at # clock + 1
    BY <1>2, <1>3
  <2> QED
    BY <1>1, <1>4, <2>1 DEF Holders
<1>8. \A e \in Deliveries \ {d} : Item(e)' = Item(e)
  BY <1>5, <1>6 DEF Item
<1>9. Item(d)' = [status |-> "received", attempts |-> Item(d).attempts + 1, holders |-> {p}]
  BY <1>1, <1>4, <1>7 DEF Item
<1>10. [e \in Deliveries |-> Item(e)]' =
         [[e \in Deliveries |-> Item(e)] EXCEPT ![d] =
            [status |-> "received", attempts |-> @.attempts + 1, holders |-> {p}]]
  BY <1>8, <1>9
<1>11. [q \in Processes |-> Serving(q)]' = [[q \in Processes |-> Serving(q)] EXCEPT ![p] = d]
  BY <1>1, <1>3
<1>12. Item(d).status = "received"
  BY <1>1 DEF Item
<1>13. Work!Take(d, p)
  BY <1>1, <1>10, <1>11, <1>12 DEF Work!Take
<1> QED
  BY <1>13

LEMMA ReceiveMaps ==
  ASSUME TypeOK, NEW d \in Deliveries, Receive(d)
  PROVE  Work!Accept(d)
<1>1. UNCHANGED jobs /\ deliveries[d].status = "none"
  BY ReceiveWrites
<1>2. \A q \in Processes : Serving(q)' = Serving(q) /\ jobs[q].at # None
  BY <1>1, ServingTypes DEF Serving
<1>3. \A e \in Deliveries \ {d} : deliveries'[e] = deliveries[e]
  BY ReceiveWrites
<1>4. /\ deliveries'[d].token = None /\ deliveries'[d].attempts = 0
      /\ deliveries'[d].status = "received"
  BY DEF Receive, ClaimedDelivery, TypeOK, QueueTyped
<1>5. \A e \in Deliveries \ {d} : Holders(e)' = Holders(e)
  BY <1>1, <1>2, <1>3 DEF Holders
<1>6. Holders(d)' = {}
  BY <1>1, <1>2, <1>4 DEF Holders
<1>7. \A e \in Deliveries \ {d} : Item(e)' = Item(e)
  BY <1>3, <1>5 DEF Item
<1>8. Item(d)' = [Work!Unknown EXCEPT !.status = "received"]
  BY <1>4, <1>6 DEF Item, Work!Unknown
<1>9. [e \in Deliveries |-> Item(e)]' =
        [[e \in Deliveries |-> Item(e)] EXCEPT ![d] = [Work!Unknown EXCEPT !.status = "received"]]
  BY <1>7, <1>8
<1>10. [q \in Processes |-> Serving(q)]' = [q \in Processes |-> Serving(q)]
  BY <1>2
<1>11. Item(d).status = "none"
  BY <1>1 DEF Item
<1> QED
  BY <1>9, <1>10, <1>11 DEF Work!Accept

(***************************************************************************)
(* The step that ends the work on a delivery writes its row only with the  *)
(* row's token.                                                            *)
(***************************************************************************)
LEMMA EndingMaps ==
  ASSUME TypeOK, AttemptsKnown, NEW p \in Processes, Complete(p) \/ Retry(p)
  PROVE  [Work!Next]_(Work!vars)
<1> DEFINE d == jobs[p].delivery
<1>1. /\ jobs[p].kind = "webhook" /\ Serving(p) = d /\ d \in Deliveries /\ Serving(p) # None
      /\ jobs[p].attempt \in Nat
  BY ServingTypes DEF Complete, Retry, TypeOK, JobsTyped, JobOK
<1>2. Serving(p)' = None
  BY StartsOrEnds DEF Serving
<1>3. \A q \in Processes \ {p} : jobs'[q] = jobs[q]
  BY OthersKeep DEF ProcessStep
<1>4. deliveries \in [Deliveries -> Delivery] /\ clock \in Nat
  BY DEF TypeOK, QueueTyped
<1>5. CASE UNCHANGED deliveries
  BY <1>1, <1>2, <1>3, <1>5, StopMaps DEF Work!Next
<1>6. CASE Complete(p) /\ HoldsLease(deliveries[d], jobs[p].at, clock)
  <2> DEFINE row == ProcessedDelivery(deliveries[d])
  <2>1. /\ row \in Delivery /\ row.status = "processed" /\ row.token = None
        /\ row.attempts = deliveries[d].attempts
    <3>1. row \in Delivery
      BY <1>1, <1>4, DeliveryTypes
    <3> QED
      BY <1>1, <1>4, <3>1 DEF ProcessedDelivery, Delivery
  <2>2. deliveries' = [deliveries EXCEPT ![d] = row] /\ deliveries[d].token = jobs[p].at
    BY <1>6 DEF Complete, HoldsLease, HasToken
  <2> HIDE DEF row, d
  <2>3. Work!Settle(d, p)
    BY <1>1, <1>2, <1>3, <2>1, <2>2, EndMaps DEF Work!Settle
  <2> QED
    BY <1>1, <2>3 DEF Work!Next
<1>7. CASE Retry(p) /\ HasToken(deliveries[d], jobs[p].at)
  <2>1. PICK notBefore \in {0, clock + 2 * MaximumRetry} :
          deliveries' = [deliveries EXCEPT
                           ![d] = ReleasedDelivery(deliveries[d], jobs[p].attempt, notBefore, clock)]
    BY <1>7 DEF Retry
  <2> DEFINE row == ReleasedDelivery(deliveries[d], jobs[p].attempt, notBefore, clock)
  <2>2. notBefore \in Nat
    BY <1>4, WebhookQueueAssumption
  <2>3. row \in Delivery
    BY <1>1, <1>4, <2>2, DeliveryTypes
  <2>4. /\ row.token = None /\ row.attempts = deliveries[d].attempts
        /\ row.status = IF jobs[p].attempt >= MaximumAttempts THEN "failed" ELSE "received"
    BY <1>1, <1>4 DEF ReleasedDelivery, Delivery
  <2>5. deliveries[d].token = jobs[p].at /\ jobs[p].attempt = deliveries[d].attempts
    BY <1>1, <1>7 DEF HasToken, AttemptsKnown, KnowsAttempt
  <2>6. deliveries' = [deliveries EXCEPT ![d] = row]
    BY <2>1
  <2> HIDE DEF row, d
  <2>7. Work!End(d, p, row.status)
    BY <1>1, <1>2, <1>3, <2>3, <2>4, <2>5, <2>6, EndMaps
  <2>8. [e \in Deliveries |-> Item(e)][d].attempts = jobs[p].attempt
    BY <1>1, <2>5 DEF Item
  <2>9. MaximumAttempts \in Nat
    BY WebhookQueueAssumption
  <2>10. Work!HandBack(d, p) \/ Work!Fail(d, p)
    BY <1>1, <2>4, <2>7, <2>8, <2>9 DEF Work!HandBack, Work!Fail
  <2> QED
    BY <1>1, <2>10 DEF Work!Next
<1> QED
  BY <1>5, <1>6, <1>7 DEF Complete, Retry

(***************************************************************************)
(* All other steps of an execution leave the queue as it is, but for the   *)
(* lease that a guard renews; some of them end the execution.              *)
(***************************************************************************)
LEMMA WorkingMaps ==
  ASSUME TypeOK, Served, [Next]_vars, NEW p \in Processes, ProcessStep(p),
         ~(Lease(p) \/ Complete(p) \/ Retry(p))
  PROVE  [Work!Next]_(Work!vars)
<1>1. \A q \in Processes \ {p} : jobs'[q] = jobs[q] /\ Serving(q)' = Serving(q)
  BY OthersKeep DEF Serving
<1>2. \A e \in Deliveries : /\ deliveries'[e].status = deliveries[e].status
                            /\ deliveries'[e].attempts = deliveries[e].attempts
                            /\ deliveries'[e].token = deliveries[e].token
  <2>1. CASE UNCHANGED deliveries
    BY <2>1
  <2>2. CASE Guard(p)
    <3> SUFFICES ASSUME NEW e \in Deliveries, deliveries'[e] # deliveries[e]
                 PROVE  /\ deliveries'[e].status = deliveries[e].status
                        /\ deliveries'[e].attempts = deliveries[e].attempts
                        /\ deliveries'[e].token = deliveries[e].token
      OBVIOUS
    <3>1. deliveries[e] \in Delivery /\ deliveries'[e] = RenewedDelivery(deliveries[e], clock)
      BY <2>2 DEF Guard, TypeOK, QueueTyped
    <3> QED
      BY <3>1 DEF RenewedDelivery, Delivery
  <2> QED
    BY <2>1, <2>2, QueueKept
<1>3. CASE Serving(p)' = Serving(p) /\ (Serving(p) # None => jobs'[p].at = jobs[p].at)
  BY <1>1, <1>2, <1>3, QueueStutters
<1>4. CASE Serving(p) # None /\ Serving(p)' = None
  <2>1. UNCHANGED deliveries
    <3>1. CASE Guard(p)
      <4>1. ~Goto(p, "project")
        <5>1. Goto(p, "project") => jobs'[p].kind = jobs[p].kind /\ jobs'[p].delivery = jobs[p].delivery
          BY DEF Goto, TypeOK, JobsTyped, JobOK, Job
        <5> QED
          BY <1>4, <5>1 DEF Serving
      <4> QED
        BY <3>1, <4>1 DEF Guard
    <3> QED
      BY <3>1, QueueKept
  <2> QED
    BY <1>1, <1>4, <2>1, StopMaps DEF Work!Next
<1> QED
  BY <1>3, <1>4, ServingStays

LEMMA QueueMaps ==
  ASSUME TypeOK, Past, Served, AttemptsKnown, [Next]_vars
  PROVE  [Work!Next]_(Work!vars)
<1>1. ASSUME NEW p \in Processes, Lease(p) PROVE Work!Next
  BY <1>1, LeaseMaps DEF Work!Next
<1>2. ASSUME NEW d \in Deliveries, Receive(d) PROVE Work!Next
  BY <1>2, ReceiveMaps DEF Work!Next
<1>3. CASE (~ \E p \in Processes : ProcessStep(p)) /\ UNCHANGED deliveries
  <2>1. UNCHANGED jobs
    BY <1>3, JobsStay
  <2>2. \A q \in Processes : Serving(q)' = Serving(q)
    BY <2>1 DEF Serving
  <2> QED
    BY <1>3, <2>1, <2>2, QueueStutters
<1>4. (~ \E p \in Processes : ProcessStep(p)) =>
        UNCHANGED deliveries \/ \E d \in Deliveries : Receive(d)
  BY QueueWritten DEF ProcessStep
<1> QED
  BY <1>1, <1>2, <1>3, <1>4, EndingMaps, WorkingMaps

LEMMA QueueStarts == Init => Work!Init
<1> SUFFICES ASSUME Init PROVE Work!Init
  OBVIOUS
<1>1. \A p \in Processes : Serving(p) = None
  BY DEF Init, Serving, Idle
<1>2. None \notin Deliveries
  BY SyncAssumption
<1>3. \A d \in Deliveries : Holders(d) = {}
  BY <1>1, <1>2 DEF Holders
<1>4. \A d \in Deliveries : Item(d) = Work!Unknown
  BY <1>3 DEF Init, Item, NoDelivery, Work!Unknown
<1> QED
  BY <1>1, <1>4 DEF Work!Init

(***************************************************************************)
(* The leases of the table give every delivery to one worker at a time:    *)
(* whatever leases run out, workers crash or come back late, only the last *)
(* one that leased a delivery settles it, hands it back or fails it, and   *)
(* it fails only after the last attempt.                                   *)
(***************************************************************************)
THEOREM ImplementsQueue == Spec => ServesQueue
<1>1. Init => Served /\ AttemptsKnown
  BY DEF Init, Served, ServesDelivery, AttemptsKnown, KnowsAttempt, Serving, Idle
<1> QED
  BY <1>1, PastInit, PastStep, ServedStep, AttemptsStep, QueueStarts, QueueMaps, TypeCorrect, PTL
     DEF Spec, ServesQueue, Work!Spec
=============================================================================
