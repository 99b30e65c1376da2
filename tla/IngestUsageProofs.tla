------------------------- MODULE IngestUsageProofs -------------------------
(***************************************************************************)
(* Theorems of IngestService about what it records of an upload and tells  *)
(* its client: the content of a run, the promise of AcceptOnce, the        *)
(* attempts and the charges, and the limits that are counted from them.    *)
(***************************************************************************)
EXTENDS IngestServiceProofs, FiniteSetTheorems

Early == {"idle", "reserve", "acquire"}

(***************************************************************************)
(* A request keeps its command and its time from its arrival on, and only  *)
(* an acquisition grants it a claim.                                       *)
(***************************************************************************)
CommandStays(q) ==
  requests[q].pc # "idle" =>
    /\ requests'[q].pc # "idle"
    /\ requests'[q].cmd = requests[q].cmd /\ requests'[q].now = requests[q].now

GoesOn(q) ==
  /\ CommandStays(q)
  /\ requests[q].pc \notin Early => requests'[q].pc \notin Early
  /\ requests'[q].granted = requests[q].granted
  /\ requests'[q].pc \in Early =>
       requests[q].pc = requests'[q].pc /\ requests'[q].reserved = requests[q].reserved

Arrives(q) ==
  /\ requests[q].pc = "idle" /\ requests'[q].pc \in {"reserve", "done"}
  /\ requests'[q].granted = requests[q].granted /\ requests'[q].reserved = requests[q].reserved
  /\ requests'[q].now = clock /\ clock' = clock

Reserved(q, charged) ==
  /\ CommandStays(q)
  /\ requests[q].pc = "reserve" /\ requests'[q].pc = "acquire"
  /\ requests'[q].granted = requests[q].granted
  /\ IF charged THEN requests'[q].reserved = TRUE
                ELSE requests'[q].reserved = requests[q].reserved

LEMMA OneGoesOn ==
  ASSUME TypeOK, NEW r \in Requests,
         \/ /\ requests[r].pc # "idle"
            /\ \E pc \in {"persist", "cleanup", "record_failure", "record", "done"} : Goto(r, pc)
         \/ requests[r].pc # "idle" /\ \E outcome : Finish(r, outcome)
         \/ ReserveRefuse(r) \/ AcquireDecline(r) \/ PersistCommit(r)
  PROVE  \A q \in Requests : GoesOn(q)
<1> SUFFICES ASSUME NEW q \in Requests PROVE GoesOn(q)
  OBVIOUS
<1>1. requests \in [Requests -> RequestStates] /\ requests[r] \in RequestStates
  BY DEF TypeOK
<1>2. ASSUME requests[r].pc # "idle",
             NEW pc \in {"persist", "cleanup", "record_failure", "record", "done"}, Goto(r, pc)
      PROVE  GoesOn(q)
  BY <1>1, <1>2 DEF Goto, GoesOn, CommandStays, Early, RequestStates
<1>3. ASSUME requests[r].pc # "idle", NEW outcome, Finish(r, outcome) PROVE GoesOn(q)
  BY <1>1, <1>3 DEF Finish, GoesOn, CommandStays, Early, RequestStates
<1>4. CASE ReserveRefuse(r)
  BY <1>1, <1>4 DEF ReserveRefuse, GoesOn, CommandStays, Early, RequestStates
<1>5. CASE AcquireDecline(r)
  BY <1>1, <1>5 DEF AcquireDecline, GoesOn, CommandStays, Early, RequestStates
<1>6. CASE PersistCommit(r)
  BY <1>1, <1>6 DEF PersistCommit, Storable, GoesOn, CommandStays, Early, RequestStates
<1> QED
  BY <1>2, <1>3, <1>4, <1>5, <1>6

LEMMA RequestsGoOn ==
  ASSUME TypeOK, [Next]_vars, NEW q \in Requests
  PROVE  \/ GoesOn(q)
         \/ Arrives(q)
         \/ ReserveNoWork(q) /\ Reserved(q, FALSE)
         \/ ReserveCharge(q) /\ Reserved(q, TRUE)
         \/ AcquireGrant(q) /\ CommandStays(q)
            /\ requests'[q].pc = "persist" /\ requests'[q].granted
<1>0. requests \in [Requests -> RequestStates] /\ requests[q] \in RequestStates
  BY DEF TypeOK
<1>1. ASSUME NEW r \in Requests, NEW cmd \in Commands, Receive(r, cmd)
      PROVE  GoesOn(q) \/ Arrives(q)
  BY <1>0, <1>1 DEF Receive, GoesOn, Arrives, CommandStays, Early, RequestStates
<1>2. ASSUME NEW r \in Requests, HandlerStep(r) \/ Abandon(r),
             ~ReserveNoWork(r), ~ReserveCharge(r), ~AcquireGrant(r)
      PROVE  GoesOn(q)
  <2>1. CASE ReserveRefuse(r) \/ AcquireDecline(r) \/ PersistCommit(r)
    BY <2>1, OneGoesOn
  <2>2. CASE PersistUnacknowledged(r) \/ PersistFails(r)
    <3>1. requests[r].pc # "idle" /\ Goto(r, "cleanup")
      BY <2>2 DEF PersistUnacknowledged, PersistFails, Storable
    <3> QED
      BY <3>1, OneGoesOn
  <2>3. CASE CleanupFail(r) \/ CleanupSwallowed(r)
    <3>1. requests[r].pc # "idle" /\ Goto(r, "record_failure")
      BY <2>3 DEF CleanupFail, CleanupSwallowed
    <3> QED
      BY <3>1, OneGoesOn
  <2>4. CASE RecordFailure(r) \/ RecordFailureSwallowed(r) \/ RecordDangling(r) \/ Abandon(r)
    <3>1. requests[r].pc # "idle" /\ Finish(r, "error")
      BY <2>4 DEF RecordFailure, RecordFailureSwallowed, RecordDangling, Abandon
    <3> QED
      BY <3>1, OneGoesOn
  <2>5. CASE RecordOutcome(r)
    <3>1. requests[r].pc # "idle" /\ Goto(r, "done")
      BY <2>5 DEF RecordOutcome
    <3> QED
      BY <3>1, OneGoesOn
  <2> QED
    BY <1>2, <2>1, <2>2, <2>3, <2>4, <2>5
       DEF HandlerStep, Reserve, Acquire, Persist, Cleanup, Record
<1>3. ASSUME NEW r \in Requests, ReserveNoWork(r)
      PROVE  GoesOn(q) \/ (r = q /\ Reserved(q, FALSE))
  BY <1>0, <1>3 DEF ReserveNoWork, Goto, GoesOn, Reserved, CommandStays, Early, RequestStates
<1>4. ASSUME NEW r \in Requests, ReserveCharge(r)
      PROVE  GoesOn(q) \/ (r = q /\ Reserved(q, TRUE))
  BY <1>0, <1>4 DEF ReserveCharge, GoesOn, Reserved, CommandStays, Early, RequestStates
<1>5. ASSUME NEW r \in Requests, AcquireGrant(r)
      PROVE  \/ GoesOn(q)
             \/ /\ r = q /\ CommandStays(q)
                /\ requests'[q].pc = "persist" /\ requests'[q].granted
  BY <1>0, <1>5 DEF AcquireGrant, GoesOn, CommandStays, Early, RequestStates
<1>6. CASE Crash
  BY <1>0, <1>6 DEF Crash, Running, GoesOn, CommandStays, Early, RequestStates
<1>7. CASE UNCHANGED requests
  BY <1>7 DEF GoesOn, CommandStays
<1>8. DeletionStep \/ RetentionCleanup \/ Tick \/ UNCHANGED vars => UNCHANGED requests
  BY DEF DeletionStep, DeleteScan, BeginDeletion, DeleteListedScans, DeleteProject,
       DeleteProjectAborts, RetentionCleanup, Tick, vars
<1> QED
  BY <1>1, <1>2, <1>3, <1>4, <1>5, <1>6, <1>7, <1>8 DEF Next

(***************************************************************************)
(* What a step does to a claim beyond its state.                           *)
(***************************************************************************)
Renamed(k) ==
  /\ claims[k].state # "none" /\ claims'[k].state # "processing"
  /\ claims'[k].account = claims[k].account /\ claims'[k].principal = claims[k].principal
  /\ claims'[k].project = claims[k].project /\ claims'[k].payload = claims[k].payload

LEMMA PreparedNames ==
  ASSUME TypeOK, NEW k \in Keys, NEW ids, claims'[k] = Prepared(k, ids)
  PROVE  claims'[k] = claims[k] \/ Renamed(k)
<1>1. claims[k] \in ClaimRows
  BY DEF TypeOK
<1> QED
  BY <1>1 DEF Prepared, TombstonedRow, Renamed, ClaimRows

LEMMA ClaimCases ==
  ASSUME TypeOK, [Next]_vars, NEW k \in Keys
  PROVE  \/ claims'[k] = claims[k] \/ claims'[k] = NoClaim \/ Renamed(k)
         \/ \E r \in Requests : AcquireGrant(r) /\ k = requests[r].cmd.key
                                /\ claims'[k] = GrantedRow(r)
<1>0. claims[k] \in ClaimRows /\ claims \in [Keys -> ClaimRows]
  BY DEF TypeOK
<1>1. ASSUME NEW r \in Requests, AcquireGrant(r)
      PROVE  claims'[k] = claims[k] \/ (k = requests[r].cmd.key /\ claims'[k] = GrantedRow(r))
  BY <1>0, <1>1 DEF AcquireGrant
<1>2. ASSUME NEW r \in Requests, PersistCommit(r) \/ PersistUnacknowledged(r)
      PROVE  claims'[k] = claims[k] \/ Renamed(k)
  <2>1. StoreRun(r) /\ Owns(r)
    BY <1>2 DEF PersistCommit, PersistUnacknowledged, Storable
  <2> QED
    BY <1>0, <2>1 DEF StoreRun, Owns, OwnedBy, CompletedRow, Renamed, ClaimRows
<1>3. ASSUME NEW r \in Requests, CleanupFail(r) PROVE claims'[k] = claims[k] \/ Renamed(k)
  BY <1>0, <1>3 DEF CleanupFail, Owns, OwnedBy, FailedRow, Renamed, ClaimRows
<1>4. ASSUME NEW id \in RunIds, DeleteScan(id) PROVE claims'[k] = claims[k] \/ Renamed(k)
  BY <1>4, PreparedNames DEF DeleteScan, Remove
<1>5. DeleteListedScans \/ DeleteProject => claims'[k] = claims[k] \/ Renamed(k)
  BY PreparedNames DEF DeleteListedScans, DeleteProject, Remove
<1>6. ASSUME RetentionCleanup
      PROVE  claims'[k] = claims[k] \/ claims'[k] = NoClaim \/ Renamed(k)
  <2>1. \E over, expired : claims'[k] = IF k \in over THEN NoClaim ELSE Prepared(k, expired)
    BY <1>6 DEF RetentionCleanup, RetentionWrites
  <2> QED
    BY <2>1, PreparedNames
<1> QED
  BY <1>1, <1>2, <1>3, <1>4, <1>5, <1>6, StepCases

-----------------------------------------------------------------------------
(***************************************************************************)
(* The run of a claim has the content of the claim.  The project of a      *)
(* GitHub claim is not part of its fence; that it is the project of the    *)
(* request that holds the lease is what a takeover must take care of.      *)
(***************************************************************************)
LeasesPlaced ==
  \A k \in GithubKeys : claims[k].state = "processing" =>
    LET r == claims[k].lease
    IN  /\ r \in Requests /\ requests[r].pc # "idle"
        /\ claims[k].project = requests[r].cmd.project

GrantedTo(k, r) ==
  /\ claims'[k].state = "processing" /\ claims'[k].lease = r
  /\ requests[r].cmd.origin # "local" => claims'[k].project = requests[r].cmd.project

LEMMA GrantNames ==
  ASSUME TypeOK, NEW r \in Requests, AcquireGrant(r), NEW k \in Keys,
         k = requests[r].cmd.key, claims'[k] = GrantedRow(r)
  PROVE  GrantedTo(k, r)
<1>1. claims[k] \in ClaimRows
  BY DEF TypeOK
<1> QED
  BY <1>1 DEF GrantedRow, NewRow, LocalTakeOver, GithubTakeOver, GrantedTo, ClaimRows

LEMMA CommandsStay ==
  ASSUME TypeOK, [Next]_vars, NEW q \in Requests
  PROVE  CommandStays(q)
BY RequestsGoOn DEF GoesOn, Arrives, Reserved, CommandStays

LEMMA LeasesStep ==
  ASSUME TypeOK, LeasesPlaced, [Next]_vars
  PROVE  LeasesPlaced'
<1> SUFFICES ASSUME NEW k \in GithubKeys, claims'[k].state = "processing"
             PROVE  /\ claims'[k].lease \in Requests
                    /\ requests'[claims'[k].lease].pc # "idle"
                    /\ claims'[k].project = requests'[claims'[k].lease].cmd.project
  BY DEF LeasesPlaced
<1>0. k \in Keys
  BY DEF Keys
<1>1. CASE claims'[k] = claims[k]
  BY <1>1, CommandsStay DEF LeasesPlaced, CommandStays
<1>2. ASSUME NEW r \in Requests, AcquireGrant(r), k = requests[r].cmd.key,
             claims'[k] = GrantedRow(r)
      PROVE  /\ claims'[k].lease \in Requests
             /\ requests'[claims'[k].lease].pc # "idle"
             /\ claims'[k].project = requests'[claims'[k].lease].cmd.project
  <2>1. requests[r].pc # "idle" /\ requests[r].cmd \in Commands
    BY <1>2, RequestTypes DEF AcquireGrant
  <2>2. requests[r].cmd.origin # "local"
    BY <1>2, <2>1, CommandTypes, IngestAssumption
  <2>3. GrantedTo(k, r) /\ CommandStays(r)
    BY <1>0, <1>2, GrantNames, CommandsStay
  <2> QED
    BY <2>1, <2>2, <2>3 DEF GrantedTo, CommandStays
<1>3. claims'[k] # NoClaim /\ ~Renamed(k)
  BY DEF NoClaim, Renamed
<1> QED
  BY <1>0, <1>1, <1>2, <1>3, ClaimCases

LEMMA StoreBinds ==
  ASSUME TypeOK, LeasesPlaced, NEW r \in Requests, PersistCommit(r) \/ PersistUnacknowledged(r)
  PROVE  LET k == requests[r].cmd.key
             run == runs'[RunIdOf(r)]
         IN  /\ run.payload = claims'[k].payload
             /\ k \in GithubKeys => run.project = claims'[k].project
<1> DEFINE k == requests[r].cmd.key
           id == RunIdOf(r)
<1>1. Storable(r) /\ StoreRun(r) /\ requests[r].pc # "idle"
  BY DEF PersistCommit, PersistUnacknowledged, Storable
<1>2. k \in Keys /\ id \in RunIds /\ claims[k] \in ClaimRows
  BY <1>1, RequestTypes DEF TypeOK
<1>3. claims'[k] = CompletedRow(claims[k], None, id) /\ runs'[id] = RunRecord(r)
  BY <1>1, <1>2 DEF StoreRun, TypeOK
<1>4. /\ claims[k].state = "processing" /\ claims[k].lease = r
      /\ claims[k].payload = requests[r].cmd.payload
  BY <1>1 DEF Storable, Owns, OwnedBy
<1>5. claims'[k].payload = claims[k].payload /\ claims'[k].project = claims[k].project
  BY <1>2, <1>3 DEF CompletedRow, ClaimRows
<1>6. runs'[id].payload = requests[r].cmd.payload /\ runs'[id].project = requests[r].cmd.project
  BY <1>3 DEF RunRecord
<1>7. k \in GithubKeys => claims[k].project = requests[r].cmd.project
  BY <1>4 DEF LeasesPlaced
<1> QED
  BY <1>4, <1>5, <1>6, <1>7

Same(id) ==
  /\ runs'[id].payload = runs[id].payload /\ runs'[id].project = runs[id].project
  /\ runs'[id].key = runs[id].key /\ runs'[id].origin = runs[id].origin
  /\ runs'[id].request = runs[id].request /\ runs'[id].completedAt = runs[id].completedAt

LEMMA RemovedRuns ==
  ASSUME NEW listed, NEW ids, Remove(listed, ids), NEW id \in RunIds
  PROVE  IF id \in ids THEN ~runs'[id].stored ELSE runs'[id] = runs[id]
BY DEF Remove, NoRun

LEMMA RunsStay ==
  ASSUME TypeOK, [Next]_vars, NEW id \in RunIds, runs'[id].stored
  PROVE  \/ runs[id].stored /\ Same(id)
         \/ \E r \in Requests : /\ PersistCommit(r) \/ PersistUnacknowledged(r)
                                /\ id = RunIdOf(r)
<1>0. runs \in [RunIds -> RunRows] /\ runs[id] \in RunRows
  BY DEF TypeOK
<1>1. CASE UNCHANGED <<claims, runs>>
  BY <1>1 DEF Same
<1>2. ASSUME NEW r \in Requests, AcquireGrant(r) \/ CleanupFail(r) PROVE runs' = runs
  BY <1>2 DEF AcquireGrant, CleanupFail
<1>3. ASSUME NEW r \in Requests, PersistCommit(r) \/ PersistUnacknowledged(r), id # RunIdOf(r)
      PROVE  runs'[id] = runs[id]
  BY <1>0, <1>3, StoreWrites
<1>4. ASSUME NEW i \in RunIds, DeleteScan(i) PROVE runs'[id] = runs[id]
  BY <1>4, RemovedRuns DEF DeleteScan
<1>5. DeleteListedScans \/ DeleteProject => runs'[id] = runs[id]
  BY RemovedRuns DEF DeleteListedScans, DeleteProject
<1>6. ASSUME RetentionCleanup PROVE runs[id].stored /\ Same(id)
  <2>1. \E expired, unpacked :
          runs'[id] = IF id \in expired THEN NoRun
                      ELSE IF id \in unpacked THEN [runs[id] EXCEPT !.artifacts = FALSE]
                      ELSE runs[id]
    BY <1>6 DEF RetentionCleanup, RetentionWrites
  <2> QED
    BY <1>0, <2>1 DEF NoRun, Same, RunRows
<1> QED
  BY <1>1, <1>2, <1>3, <1>4, <1>5, <1>6, StepCases DEF Same

LEMMA BindStep ==
  ASSUME IInv, LeasesPlaced, ClaimBindsRunContent, [Next]_vars
  PROVE  ClaimBindsRunContent'
<1> SUFFICES ASSUME NEW k \in Keys, claims'[k].state = "completed"
             PROVE  /\ runs'[claims'[k].run].payload = claims'[k].payload
                    /\ k \in GithubKeys => runs'[claims'[k].run].project = claims'[k].project
  BY DEF ClaimBindsRunContent
<1>0. TypeOK /\ ClaimsAndRunsAgree /\ ClaimsAndRunsAgree'
  BY AgreeStep DEF IInv
<1> DEFINE id == claims'[k].run
<1>1. id \in RunIds /\ runs'[id].stored /\ runs'[id].key = k
  BY <1>0 DEF ClaimsAndRunsAgree
<1>2. ASSUME NEW r \in Requests, PersistCommit(r) \/ PersistUnacknowledged(r), id = RunIdOf(r)
      PROVE  /\ runs'[id].payload = claims'[k].payload
             /\ k \in GithubKeys => runs'[id].project = claims'[k].project
  <2>1. runs'[id].key = requests[r].cmd.key
    BY <1>0, <1>2, StoreWrites
  <2> QED
    BY <1>0, <1>1, <1>2, <2>1, StoreBinds
<1>3. ASSUME runs[id].stored, Same(id),
             ~\E r \in Requests : (PersistCommit(r) \/ PersistUnacknowledged(r)) /\ id = RunIdOf(r)
      PROVE  claims'[k] = claims[k]
  <2>1. ASSUME NEW r \in Requests, AcquireGrant(r) PROVE claims'[k] = claims[k]
    BY <1>0, <2>1, GrantWrites DEF IInv
  <2>2. ASSUME NEW r \in Requests, PersistCommit(r) \/ PersistUnacknowledged(r)
        PROVE  claims'[k] = claims[k]
    BY <1>0, <1>3, <2>2, StoreWrites DEF TypeOK
  <2>3. ASSUME NEW r \in Requests, CleanupFail(r) PROVE claims'[k] = claims[k]
    BY <1>0, <2>3, FailWrites
  <2>4. ASSUME NEW ids, Deletes(ids) PROVE claims'[k] = claims[k]
    BY <2>4 DEF Deletes, Kept, NoClaim
  <2> QED
    BY <2>1, <2>2, <2>3, <2>4, StepCases, DeletionCases
<1>4. CASE claims'[k] = claims[k] /\ Same(id)
  BY <1>4 DEF ClaimBindsRunContent, Same
<1> QED
  BY <1>0, <1>1, <1>2, <1>3, <1>4, RunsStay

(***************************************************************************)
(* A replay answers with the upload that it was asked for.                 *)
(***************************************************************************)
THEOREM ClaimsBindContent == Spec => []ClaimBindsRunContent
<1> DEFINE Inv == LeasesPlaced /\ ClaimBindsRunContent
<1>1. Init => Inv
  BY DEF Init, LeasesPlaced, ClaimBindsRunContent, NoClaim, Keys
<1>2. IInv /\ Inv /\ [Next]_vars => Inv'
  BY LeasesStep, BindStep DEF IInv
<1>3. Inv => ClaimBindsRunContent
  OBVIOUS
<1> QED
  BY <1>1, <1>2, <1>3, Invariance, PTL DEF Spec

-----------------------------------------------------------------------------
(***************************************************************************)
(* The service implements AcceptOnce.  A granted claim and a deletion are  *)
(* abstract deletions (of nothing, in the first case, when it forgets an   *)
(* elapsed tombstone), a committed run is an acceptance, and a declined    *)
(* acquisition that finds the run is a replay.                             *)
(*                                                                         *)
(* What has to be known besides IInv: the content of a completed claim is  *)
(* that of its run, a local run has a local key, and no request has named  *)
(* a run before it stores or is declined.                                  *)
(***************************************************************************)
OriginsPlaced ==
  \A id \in RunIds : runs[id].stored => (runs[id].origin = "local" <=> runs[id].key \in LocalKeys)

SilentEarly == \A r \in Requests : ~Past(r) => requests[r].run = None

AnswerInv == LeasesPlaced /\ ClaimBindsRunContent /\ OriginsPlaced /\ SilentEarly

LEMMA StoreRecords ==
  ASSUME TypeOK, NEW r \in Requests, PersistCommit(r) \/ PersistUnacknowledged(r)
  PROVE  runs' = [runs EXCEPT ![RunIdOf(r)] = RunRecord(r)]
BY DEF PersistCommit, PersistUnacknowledged, StoreRun

LEMMA OriginsStep ==
  ASSUME TypeOK, OriginsPlaced, [Next]_vars
  PROVE  OriginsPlaced'
<1> SUFFICES ASSUME NEW id \in RunIds, runs'[id].stored
             PROVE  runs'[id].origin = "local" <=> runs'[id].key \in LocalKeys
  BY DEF OriginsPlaced
<1>1. CASE runs[id].stored /\ Same(id)
  BY <1>1 DEF Same, OriginsPlaced
<1>2. ASSUME NEW r \in Requests, PersistCommit(r) \/ PersistUnacknowledged(r), id = RunIdOf(r)
      PROVE  runs'[id].origin = "local" <=> runs'[id].key \in LocalKeys
  <2>1. requests[r].cmd \in Commands
    BY <1>2, RequestTypes DEF PersistCommit, PersistUnacknowledged, Storable
  <2>2. runs'[id] = RunRecord(r)
    BY <1>2, StoreRecords DEF TypeOK
  <2>3. runs'[id].origin = requests[r].cmd.origin /\ runs'[id].key = requests[r].cmd.key
    BY <2>2 DEF RunRecord
  <2> QED
    BY <2>1, <2>3, CommandTypes, IngestAssumption
<1> QED
  BY <1>1, <1>2, RunsStay

(***************************************************************************)
(* What a step does to the uploads that were sent and to what is answered. *)
(***************************************************************************)
Silent(q) ==
  /\ requests'[q].pc = "idle" <=> requests[q].pc = "idle"
  /\ requests'[q].cmd = requests[q].cmd /\ requests'[q].run = requests[q].run
  /\ Past(q) => Past(q)'

LEMMA GotoSilent ==
  ASSUME TypeOK, NEW r \in Requests, requests[r].pc # "idle", NEW pc, pc # "idle", Goto(r, pc),
         Past(r) => pc \notin {"reserve", "acquire", "persist"}
  PROVE  \A q \in Requests : Silent(q)
<1> SUFFICES ASSUME NEW q \in Requests PROVE Silent(q)
  OBVIOUS
<1>1. requests \in [Requests -> RequestStates] /\ requests[q] \in RequestStates
  BY DEF TypeOK
<1>2. requests'[q] = IF q = r THEN [requests[r] EXCEPT !.pc = pc] ELSE requests[q]
  BY <1>1 DEF Goto
<1> QED
  BY <1>1, <1>2 DEF Silent, Past, RequestStates

LEMMA SilentSteps ==
  ASSUME TypeOK, [Next]_vars
  PROVE  \/ \E r \in Requests, cmd \in Commands : Receive(r, cmd)
         \/ \E r \in Requests : AcquireDecline(r)
         \/ \E r \in Requests : PersistCommit(r)
         \/ \A q \in Requests : Silent(q)
<1>0. requests \in [Requests -> RequestStates]
  BY DEF TypeOK
<1>1. ASSUME NEW r \in Requests, HandlerStep(r) \/ Abandon(r),
             ~AcquireDecline(r), ~PersistCommit(r), NEW q \in Requests
      PROVE  Silent(q)
  <2>1. CASE ReserveNoWork(r)
    BY <2>1, GotoSilent DEF ReserveNoWork, Past
  <2>2. CASE ReserveCharge(r) \/ ReserveRefuse(r) \/ AcquireGrant(r)
    <3>0. requests[q] \in RequestStates
      BY <1>0
    <3>1. CASE ReserveCharge(r)
      BY <1>0, <3>0, <3>1 DEF ReserveCharge, Silent, Past, RequestStates
    <3>2. CASE ReserveRefuse(r)
      BY <1>0, <3>0, <3>2 DEF ReserveRefuse, Silent, Past, RequestStates
    <3>3. CASE AcquireGrant(r)
      BY <1>0, <3>0, <3>3 DEF AcquireGrant, Silent, Past, RequestStates
    <3> QED
      BY <2>2, <3>1, <3>2, <3>3
  <2>3. CASE PersistUnacknowledged(r) \/ PersistFails(r)
    BY <2>3, GotoSilent DEF PersistUnacknowledged, Storable, PersistFails, Past
  <2>4. CASE CleanupFail(r) \/ CleanupSwallowed(r) \/ RecordOutcome(r)
    BY <2>4, GotoSilent DEF CleanupFail, CleanupSwallowed, RecordOutcome
  <2>5. CASE RecordFailure(r) \/ RecordFailureSwallowed(r) \/ RecordDangling(r) \/ Abandon(r)
    <3>0. requests[q] \in RequestStates
      BY <1>0
    <3>1. Finish(r, "error") /\ requests[r].pc # "idle"
      BY <2>5 DEF RecordFailure, RecordFailureSwallowed, RecordDangling, Abandon
    <3> QED
      BY <1>0, <3>0, <3>1 DEF Finish, Silent, Past, RequestStates
  <2> QED
    BY <1>1, <2>1, <2>2, <2>3, <2>4, <2>5
       DEF HandlerStep, Reserve, Acquire, Persist, Cleanup, Record
<1>2. ASSUME Crash, NEW q \in Requests PROVE Silent(q)
  <2>1. requests[q] \in RequestStates
    BY <1>0
  <2> QED
    BY <1>2, <2>1 DEF Crash, Running, Silent, Past, RequestStates
<1>3. CASE UNCHANGED requests
  BY <1>3 DEF Silent, Past
<1>4. DeletionStep \/ RetentionCleanup \/ Tick \/ UNCHANGED vars => UNCHANGED requests
  BY DEF DeletionStep, DeleteScan, BeginDeletion, DeleteListedScans, DeleteProject,
       DeleteProjectAborts, RetentionCleanup, Tick, vars
<1> QED
  BY <1>1, <1>2, <1>3, <1>4 DEF Next

LEMMA OthersUnchanged ==
  ASSUME TypeOK, NEW r \in Requests,
         (\E cmd \in Commands : Receive(r, cmd)) \/ AcquireDecline(r) \/ PersistCommit(r)
  PROVE  \A q \in Requests : q # r => requests'[q] = requests[q]
BY DEF Receive, AcquireDecline, PersistCommit, TypeOK

LEMMA SilentStep ==
  ASSUME TypeOK, SilentEarly, [Next]_vars
  PROVE  SilentEarly'
<1>0. requests \in [Requests -> RequestStates]
  BY DEF TypeOK
<1> SUFFICES ASSUME NEW q \in Requests, ~Past(q)' PROVE requests'[q].run = None
  BY DEF SilentEarly
<1>1. CASE Silent(q) \/ requests'[q] = requests[q]
  BY <1>1 DEF Silent, SilentEarly, Past
<1>2. ASSUME NEW cmd \in Commands, Receive(q, cmd) PROVE requests'[q].run = None
  <2>1. requests[q] \in RequestStates /\ requests'[q].run = requests[q].run /\ requests[q].pc = "idle"
    BY <1>0, <1>2 DEF Receive, RequestStates
  <2> QED
    BY <2>1 DEF SilentEarly, Past
<1>3. ~AcquireDecline(q) /\ ~PersistCommit(q)
  <2>1. requests[q] \in RequestStates
    BY <1>0
  <2>2. AcquireDecline(q) => requests'[q].pc = "record"
    BY <1>0, <2>1 DEF AcquireDecline, RequestStates
  <2> QED
    BY <2>2, StorePasses DEF Past
<1>4. ASSUME NEW r \in Requests,
             (\E cmd \in Commands : Receive(r, cmd)) \/ AcquireDecline(r) \/ PersistCommit(r)
      PROVE  requests'[q].run = None
  BY <1>1, <1>2, <1>3, <1>4, OthersUnchanged
<1> QED
  BY <1>1, <1>4, SilentSteps

LEMMA AnswerStep == IInv /\ AnswerInv /\ [Next]_vars => AnswerInv'
BY LeasesStep, BindStep, OriginsStep, SilentStep DEF IInv, AnswerInv

LEMMA SilentRefines ==
  ASSUME \A q \in Requests : Silent(q)
  PROVE  UNCHANGED <<Asked, Answers>>
<1>1. {q \in Requests : requests[q].pc # "idle"}' = {q \in Requests : requests[q].pc # "idle"}
  BY DEF Silent
<1>2. {q \in Requests : requests[q].run # None}' = {q \in Requests : requests[q].run # None}
  BY DEF Silent
<1>3. Asked' = Asked
  BY <1>1 DEF Asked, Silent
<1>4. Answers' = Answers
  BY <1>2 DEF Answers, Silent
<1> QED
  BY <1>3, <1>4

LEMMA RefinementInit == Init => Abstract!Init
BY DEF Init, Abstract!Init, Asked, Answers, Accepted, Blocked, Stored, NoClaim, NoRun, NewRequest

(***************************************************************************)
(* The upload of a request that has arrived, and the run that it is told.  *)
(***************************************************************************)
UploadOf(r) ==
  [client |-> r, key |-> requests[r].cmd.key, content |-> Content(requests[r].cmd)]

AcceptedRun(id) == [id |-> id, key |-> runs[id].key, content |-> Content(runs[id])]

LEMMA ReceiveRefines ==
  ASSUME TypeOK, NEW r \in Requests, NEW cmd \in Commands, Receive(r, cmd)
  PROVE  Abstract!Next
<1> DEFINE upload == [client |-> r, key |-> cmd.key, content |-> Content(cmd)]
<1>1. /\ requests \in [Requests -> RequestStates] /\ requests[r] \in RequestStates
      /\ UNCHANGED <<clock, claims, runs>> /\ requests[r].pc = "idle"
  BY DEF TypeOK, Receive
<1>2. /\ \A q \in Requests : q # r => requests'[q] = requests[q]
      /\ requests'[r].cmd = cmd /\ requests'[r].run = requests[r].run
      /\ requests'[r].pc # "idle"
  BY <1>1 DEF Receive, RequestStates
<1>3. \A sent \in Asked : sent.client # r
  BY <1>1 DEF Asked
<1>4. Asked' = Asked \cup {upload}
  <2>1. {q \in Requests : requests[q].pc # "idle"}' = {q \in Requests : requests[q].pc # "idle"} \cup {r}
    BY <1>2
  <2> QED
    BY <1>1, <1>2, <2>1 DEF Asked
<1>5. Answers' = Answers
  <2>1. \A q \in Requests : requests'[q].run = requests[q].run
    BY <1>2
  <2>2. {q \in Requests : requests[q].run # None}' = {q \in Requests : requests[q].run # None}
    BY <2>1
  <2> QED
    BY <2>1, <2>2 DEF Answers
<1>6. Accepted' = Accepted /\ Blocked' = Blocked
  BY <1>1 DEF Accepted, Blocked, Stored
<1>7. cmd.key \in Keys
  BY CommandTypes
<1>8. Abstract!Ask(r)
  BY <1>1, <1>3, <1>4, <1>5, <1>6, <1>7 DEF Abstract!Ask
<1> QED
  BY <1>8 DEF Abstract!Next

(***************************************************************************)
(* A request that names a run for the first time tells its client.         *)
(***************************************************************************)
LEMMA Tells ==
  ASSUME NEW r \in Requests, NEW id \in RunIds, requests[r].run = None,
         requests'[r].run = id, requests[r].pc # "idle", requests'[r].pc # "idle",
         requests'[r].cmd = requests[r].cmd,
         \A q \in Requests : q # r => requests'[q] = requests[q]
  PROVE  Abstract!Tell(r, id) /\ Asked' = Asked
<1>0. id # None
  BY IngestAssumption DEF RunIds, Keys
<1>1. \A answer \in Answers : answer.client # r
  BY DEF Answers
<1>2. {q \in Requests : requests[q].run # None}' = {q \in Requests : requests[q].run # None} \cup {r}
  BY <1>0
<1>3. Answers' = Answers \cup {[client |-> r, run |-> id]}
  BY <1>2 DEF Answers
<1>4. {q \in Requests : requests[q].pc # "idle"}' = {q \in Requests : requests[q].pc # "idle"}
  OBVIOUS
<1>5. \A q \in Requests : requests'[q].cmd = requests[q].cmd
  OBVIOUS
<1>6. Asked' = Asked
  BY <1>4, <1>5 DEF Asked
<1> QED
  BY <1>1, <1>3, <1>6 DEF Abstract!Tell

(***************************************************************************)
(* A row that answers "replayed" has the run of the upload that asks.      *)
(***************************************************************************)
LEMMA ReplayedRun ==
  ASSUME IInv, AnswerInv, NEW r \in Requests, requests[r].pc = "acquire",
         Decision(r) = "replayed"
  PROVE  LET id == claims[requests[r].cmd.key].run
         IN  /\ id \in Stored
             /\ runs[id].key = requests[r].cmd.key
             /\ Content(runs[id]) = Content(requests[r].cmd)
<1> DEFINE cmd == requests[r].cmd
           row == claims[cmd.key]
           id == row.run
<1>1. cmd \in Commands /\ cmd.key \in Keys
  BY RequestTypes DEF IInv
<1>2. row.state = "completed"
  BY DEF Decision, LocalExistingDecision, GithubExistingDecision
<1>3. id \in RunIds /\ runs[id].stored /\ runs[id].key = cmd.key
  BY <1>1, <1>2 DEF IInv, ClaimsAndRunsAgree
<1>4. runs[id].payload = row.payload /\ (cmd.key \in GithubKeys => runs[id].project = row.project)
  BY <1>1, <1>2 DEF AnswerInv, ClaimBindsRunContent
<1>5. runs[id].origin = "local" <=> cmd.origin = "local"
  BY <1>1, <1>3, CommandTypes, IngestAssumption DEF AnswerInv, OriginsPlaced
<1>6. CASE cmd.origin = "local"
  <2>1. row.payload = cmd.payload
    BY <1>6 DEF Decision, LocalExistingDecision, LocalBindingDiffers
  <2> QED
    BY <1>3, <1>4, <1>5, <1>6, <2>1 DEF Content, Stored
<1>7. CASE cmd.origin # "local"
  <2>1. row.payload = cmd.payload /\ row.project = cmd.project
    BY <1>7 DEF Decision, GithubExistingDecision, GithubBindingDiffers
  <2>2. cmd.key \in GithubKeys
    BY <1>1, <1>7, CommandTypes
  <2> QED
    BY <1>3, <1>4, <1>5, <1>7, <2>1, <2>2 DEF Content, Stored
<1> QED
  BY <1>6, <1>7

LEMMA DeclineRefines ==
  ASSUME IInv, AnswerInv, NEW r \in Requests, AcquireDecline(r)
  PROVE  Abstract!Next \/ UNCHANGED Abstract!vars
<1> DEFINE id == claims[requests[r].cmd.key].run
<1>1. /\ requests \in [Requests -> RequestStates] /\ requests[r] \in RequestStates
      /\ UNCHANGED <<clock, claims, runs>> /\ requests[r].pc = "acquire"
      /\ requests[r].run = None
  BY DEF IInv, TypeOK, AcquireDecline, AnswerInv, SilentEarly, Past
<1>2. /\ \A q \in Requests : q # r => requests'[q] = requests[q]
      /\ requests'[r].cmd = requests[r].cmd /\ requests'[r].pc = "record"
      /\ requests'[r].run = IF Decision(r) = "replayed" THEN id ELSE None
  BY <1>1 DEF AcquireDecline, RequestStates
<1>3. Accepted' = Accepted /\ Blocked' = Blocked
  BY <1>1 DEF Accepted, Blocked, Stored
<1>4. CASE Decision(r) # "replayed"
  <2>1. requests'[r].run = requests[r].run
    BY <1>1, <1>2, <1>4
  <2>2. {q \in Requests : requests[q].run # None}' = {q \in Requests : requests[q].run # None}
    BY <1>2, <2>1
  <2>3. {q \in Requests : requests[q].pc # "idle"}' = {q \in Requests : requests[q].pc # "idle"}
    BY <1>1, <1>2
  <2>4. Asked' = Asked
    BY <1>2, <2>3 DEF Asked
  <2>5. Answers' = Answers
    BY <1>2, <2>1, <2>2 DEF Answers
  <2> QED
    BY <1>1, <1>3, <2>4, <2>5 DEF Abstract!vars
<1>5. CASE Decision(r) = "replayed"
  <2>1. /\ id \in Stored /\ runs[id].key = requests[r].cmd.key
        /\ Content(runs[id]) = Content(requests[r].cmd)
    BY <1>1, <1>5, ReplayedRun
  <2> HIDE DEF id
  <2>2. UploadOf(r) \in Asked
    BY <1>1 DEF Asked, UploadOf
  <2>3. AcceptedRun(id) \in Accepted
    BY <2>1 DEF Accepted, AcceptedRun
  <2>4. id \in RunIds
    BY <2>1 DEF Stored
  <2>5. Abstract!Tell(r, id) /\ Asked' = Asked
    BY <1>1, <1>2, <1>5, <2>4, Tells
  <2>6. Abstract!Replay(UploadOf(r), AcceptedRun(id))
    BY <1>1, <1>3, <2>1, <2>2, <2>3, <2>5 DEF Abstract!Replay, UploadOf, AcceptedRun
  <2> QED
    BY <2>2, <2>3, <2>6 DEF Abstract!Next
<1> QED
  BY <1>4, <1>5

LEMMA StoreRefines ==
  ASSUME IInv, AnswerInv, NEW r \in Requests, PersistCommit(r) \/ PersistUnacknowledged(r)
  PROVE  Abstract!Next
<1> DEFINE k == requests[r].cmd.key
           id == RunIdOf(r)
<1>1. /\ k \in Keys /\ id \in RunIds /\ clock' = clock
      /\ claims[k].state = "processing" /\ ~runs[id].stored
      /\ \A j \in Keys : j # k => claims'[j] = claims[j]
      /\ \A i \in RunIds : i # id => runs'[i] = runs[i]
      /\ claims'[k].state = "completed"
      /\ runs'[id].stored /\ runs'[id].key = k
  BY StoreWrites, StorePasses DEF IInv, TypeOK
<1>2. ClaimsAndRunsAgree /\ clock \in Nat
  BY DEF IInv, TypeOK
<1>3. Content(runs'[id]) = Content(requests[r].cmd)
  <2>1. runs'[id] = RunRecord(r)
    BY <1>1, StoreRecords DEF IInv, TypeOK
  <2> QED
    BY <2>1 DEF RunRecord, Content
<1>4. requests[r].pc = "persist" /\ requests[r].run = None
  BY DEF PersistCommit, PersistUnacknowledged, Storable, AnswerInv, SilentEarly, Past
<1>5. Asked' = Asked /\ (Abstract!Tell(r, id) \/ UNCHANGED Answers)
  <2>0. requests \in [Requests -> RequestStates] /\ requests[r] \in RequestStates
    BY DEF IInv, TypeOK
  <2>1. CASE PersistCommit(r)
    <3>1. /\ \A q \in Requests : q # r => requests'[q] = requests[q]
          /\ requests'[r].cmd = requests[r].cmd /\ requests'[r].pc = "done"
          /\ requests'[r].run = id
      BY <2>0, <2>1 DEF PersistCommit, RequestStates
    <3> QED
      BY <1>1, <1>4, <3>1, Tells
  <2>2. CASE PersistUnacknowledged(r)
    BY <1>4, <2>2, GotoSilent, SilentRefines DEF PersistUnacknowledged, IInv, Past
  <2> QED
    BY <2>1, <2>2
<1> HIDE DEF k, id
<1>6. \A run \in Accepted : run.key # k /\ run.id # id
  BY <1>1, <1>2 DEF Accepted, Stored, ClaimsAndRunsAgree
<1>7. Blocked[k] <= clock
  BY <1>1, <1>2 DEF Blocked
<1>8. Stored' = Stored \cup {id} /\ id \notin Stored
  BY <1>1 DEF Stored
<1>9. Accepted' = Accepted \cup {[id |-> id, key |-> k, content |-> Content(requests[r].cmd)]}
  <2>1. \A i \in Stored : i \in RunIds /\ i # id /\ runs'[i] = runs[i]
    BY <1>1, <1>8 DEF Stored
  <2> QED
    BY <1>1, <1>3, <1>8, <2>1 DEF Accepted
<1>10. Blocked' = [Blocked EXCEPT ![k] = 0]
  BY <1>1 DEF Blocked
<1>11. UploadOf(r) \in Asked
  BY <1>4 DEF Asked, UploadOf
<1>12. Abstract!Accept(UploadOf(r), id)
  BY <1>1, <1>5, <1>6, <1>7, <1>9, <1>10, <1>11 DEF Abstract!Accept, UploadOf, k
<1> QED
  BY <1>1, <1>11, <1>12 DEF Abstract!Next

(***************************************************************************)
(* The steps that change the rows and tell nobody.                         *)
(***************************************************************************)
LEMMA GrantRefines ==
  ASSUME IInv, UNCHANGED <<Asked, Answers>>, NEW r \in Requests, AcquireGrant(r)
  PROVE  Abstract!Next
<1> DEFINE k == requests[r].cmd.key
<1>1. k \in Keys /\ UNCHANGED <<clock, runs>> /\ TypeOK /\ ArrivalsPast
  BY RequestTypes DEF AcquireGrant, IInv
<1>2. claims[k].state = "tombstoned" => claims[k].tombExpires <= clock
  BY <1>1, FreeRow DEF AcquireGrant
<1>3. /\ \A j \in Keys : j # k => claims'[j] = claims[j]
      /\ claims'[k].state = "processing"
  BY <1>1, FreeRow DEF AcquireGrant, TypeOK
<1> HIDE DEF k
<1>4. Blocked[k] <= clock
  BY <1>1, <1>2 DEF Blocked, TypeOK
<1>5. Accepted' = Accepted
  BY <1>1 DEF Accepted, Stored
<1>6. Blocked' = [j \in Keys |-> IF j = k THEN 0 ELSE Blocked[j]]
  BY <1>1, <1>3 DEF Blocked
<1>7. Abstract!Delete({}, {k})
  BY <1>1, <1>4, <1>5, <1>6 DEF Abstract!Delete
<1> QED
  BY <1>1, <1>7 DEF Abstract!Next

LEMMA DeletionRefines ==
  ASSUME IInv, UNCHANGED <<Asked, Answers>>, NEW ids, Deletes(ids), clock' = clock
  PROVE  Abstract!Next
<1> DEFINE gone == {AcceptedRun(id) : id \in Stored \cap ids}
           over == {k \in Keys : /\ claims[k].state = "tombstoned" /\ claims[k].tombExpires <= clock
                                 /\ claims'[k] = NoClaim}
<1>0. TypeOK /\ ClaimsAndRunsAgree
  BY DEF IInv
<1>1. gone \subseteq Accepted /\ over \subseteq Keys
  BY DEF Accepted, AcceptedRun
<1>2. \A k \in over : Blocked[k] <= clock
  BY DEF Blocked
<1>3. Stored' = Stored \ ids
  BY DEF Stored, Deletes
<1>4. Accepted' = Accepted \ gone
  <2>1. \A id \in Stored' : /\ runs'[id].key = runs[id].key
                            /\ Content(runs'[id]) = Content(runs[id])
    BY DEF Stored, Deletes, Content
  <2>2. Accepted' = {AcceptedRun(id) : id \in Stored \ ids}
    BY <1>3, <2>1 DEF Accepted, AcceptedRun
  <2>3. Accepted = {AcceptedRun(id) : id \in Stored}
    BY DEF Accepted, AcceptedRun
  <2>4. \A i, j : AcceptedRun(i) = AcceptedRun(j) => i = j
    BY DEF AcceptedRun
  <2> QED
    BY <2>2, <2>3, <2>4
<1>5. ASSUME NEW k \in Keys
      PROVE  Blocked'[k] = IF \E run \in gone : run.key = k THEN clock + Tombstone
                           ELSE IF k \in over THEN 0
                           ELSE Blocked[k]
  <2>1. (\E run \in gone : run.key = k) <=> (claims[k].state = "completed" /\ claims[k].run \in ids)
    <3>1. ASSUME NEW run \in gone, run.key = k
          PROVE  claims[k].state = "completed" /\ claims[k].run \in ids
      <4>1. PICK id \in Stored \cap ids : run = AcceptedRun(id)
        OBVIOUS
      <4>2. runs[id].key = k /\ id \in RunIds /\ runs[id].stored
        BY <3>1, <4>1 DEF Stored, AcceptedRun
      <4> QED
        BY <1>0, <4>1, <4>2 DEF ClaimsAndRunsAgree
    <3>2. ASSUME claims[k].state = "completed", claims[k].run \in ids
          PROVE  \E run \in gone : run.key = k
      <4>1. /\ claims[k].run \in Stored \cap ids
            /\ runs[claims[k].run].key = k
        BY <1>0, <3>2 DEF ClaimsAndRunsAgree, Stored
      <4>2. AcceptedRun(claims[k].run) \in gone /\ AcceptedRun(claims[k].run).key = k
        BY <4>1 DEF AcceptedRun
      <4> QED
        BY <4>2
    <3> QED
      BY <3>1, <3>2
  <2>2. CASE claims[k].state = "completed" /\ claims[k].run \in ids
    BY <2>1, <2>2 DEF Deletes, Blocked
  <2>3. CASE ~(claims[k].state = "completed" /\ claims[k].run \in ids)
    <3>1. Kept(k)
      BY <2>3 DEF Deletes
    <3>2. CASE k \in over
      BY <2>1, <2>3, <3>2 DEF Blocked, NoClaim
    <3>3. CASE k \notin over
      BY <2>1, <2>3, <3>1, <3>3 DEF Kept, Blocked
    <3> QED
      BY <3>2, <3>3
  <2> QED
    BY <2>2, <2>3
<1>6. Blocked' = [k \in Keys |-> IF \E run \in gone : run.key = k THEN clock + Tombstone
                                 ELSE IF k \in over THEN 0
                                 ELSE Blocked[k]]
  BY <1>5 DEF Blocked
<1> HIDE DEF gone, over
<1>7. Abstract!Delete(gone, over)
  BY <1>1, <1>2, <1>4, <1>6 DEF Abstract!Delete
<1> QED
  BY <1>1, <1>7 DEF Abstract!Next

LEMMA SilentStepRefines ==
  ASSUME IInv, [Next]_vars, UNCHANGED <<Asked, Answers>>,
         ~\E r \in Requests : PersistCommit(r) \/ PersistUnacknowledged(r)
  PROVE  Abstract!Next \/ UNCHANGED Abstract!vars
<1>1. CASE clock' = clock + 1 /\ UNCHANGED <<claims, runs>>
  BY <1>1 DEF Abstract!Next, Abstract!Tick, Accepted, Blocked, Stored
<1>2. CASE clock' = clock
  <2>1. CASE UNCHANGED <<claims, runs>>
    BY <1>2, <2>1 DEF Abstract!vars, Accepted, Blocked, Stored
  <2>2. ASSUME NEW r \in Requests, CleanupFail(r) PROVE UNCHANGED Abstract!vars
    <3>1. /\ \A k \in Keys : \/ claims'[k] = claims[k]
                             \/ claims[k].state = "processing" /\ claims'[k].state = "failed"
          /\ runs' = runs
      BY <2>2, FailWrites DEF IInv, CleanupFail
    <3>2. Accepted' = Accepted /\ Blocked' = Blocked
      BY <3>1 DEF Accepted, Blocked, Stored
    <3> QED
      BY <1>2, <3>2 DEF Abstract!vars
  <2> QED
    BY <1>2, <2>1, <2>2, GrantRefines, DeletionRefines, StepCases, DeletionCases
<1> QED
  BY <1>1, <1>2, ClockAdvances DEF IInv

LEMMA RefinementStep ==
  IInv /\ AnswerInv /\ [Next]_vars => [Abstract!Next]_(Abstract!vars)
<1> SUFFICES ASSUME IInv, AnswerInv, [Next]_vars PROVE Abstract!Next \/ UNCHANGED Abstract!vars
  BY DEF Abstract!vars
<1>1. ASSUME NEW r \in Requests, NEW cmd \in Commands, Receive(r, cmd) PROVE Abstract!Next
  BY <1>1, ReceiveRefines DEF IInv
<1>2. ASSUME NEW r \in Requests, AcquireDecline(r)
      PROVE  Abstract!Next \/ UNCHANGED Abstract!vars
  BY <1>2, DeclineRefines
<1>3. ASSUME NEW r \in Requests, PersistCommit(r) \/ PersistUnacknowledged(r) PROVE Abstract!Next
  BY <1>3, StoreRefines
<1>4. CASE \A q \in Requests : Silent(q)
  BY <1>3, <1>4, SilentRefines, SilentStepRefines
<1> QED
  BY <1>1, <1>2, <1>3, <1>4, SilentSteps DEF IInv

(***************************************************************************)
(* The upload service keeps the promise of AcceptOnce: one run for a key,  *)
(* a quarantine after its deletion, and no client is told of a run that    *)
(* has another key or other content than the client has sent.              *)
(***************************************************************************)
THEOREM ImplementsAcceptOnce == Spec => AcceptsOnce
<1>1. Init => AnswerInv
  BY DEF Init, AnswerInv, LeasesPlaced, ClaimBindsRunContent, OriginsPlaced, SilentEarly,
         NoClaim, NoRun, NewRequest, Keys
<1> QED
  BY <1>1, AnswerStep, RefinementInit, RefinementStep, Invariance, PTL
     DEF Spec, AcceptsOnce, Abstract!Spec

-----------------------------------------------------------------------------
(***************************************************************************)
(* Attempts.  An attempt is kept as long as AttemptsKept says, for its     *)
(* time to expire is counted from the same moment as the run's.            *)
(***************************************************************************)
Accounted(id) ==
  LET attempt == attempts[runs[id].request]
  IN  /\ attempt.outcome = "accepted" /\ attempt.run = id
      /\ attempt.expires = runs[id].completedAt + AttemptRetention

AttemptsKept ==
  \A id \in RunIds : runs[id].stored =>
    /\ runs[id].request \in Requests
    /\ clock >= runs[id].completedAt + AttemptRetention \/ Accounted(id)

AttemptsRefer ==
  \A r \in Requests : attempts[r].run # None => attempts[r].run \in Stored

AttemptInv == AttemptsKept /\ AttemptsRefer

(***************************************************************************)
(* The steps that leave runs and attempts alone, those that write one      *)
(* attempt, and those that delete.                                         *)
(***************************************************************************)
LEMMA AttemptCases ==
  ASSUME [Next]_vars
  PROVE  \/ UNCHANGED <<runs, attempts>>
         \/ \E r \in Requests : PersistCommit(r) \/ PersistUnacknowledged(r)
         \/ \E r \in Requests : RecordFailure(r) \/ RecordOutcome(r)
         \/ \E listed, ids : Remove(listed, ids)
         \/ RetentionCleanup
<1>1. ASSUME NEW r \in Requests, HandlerStep(r) \/ Abandon(r)
      PROVE  \/ UNCHANGED <<runs, attempts>>
             \/ PersistCommit(r) \/ PersistUnacknowledged(r)
             \/ RecordFailure(r) \/ RecordOutcome(r)
  BY <1>1 DEF HandlerStep, Reserve, ReserveNoWork, ReserveCharge, ReserveRefuse,
       Acquire, AcquireGrant, AcquireDecline, Persist, PersistFails, Cleanup, CleanupFail,
       CleanupSwallowed, RecordFailureSwallowed, Record, RecordDangling, Abandon
<1>2. ASSUME NEW r \in Requests, NEW cmd \in Commands, Receive(r, cmd)
      PROVE  UNCHANGED <<runs, attempts>>
  BY <1>2 DEF Receive
<1>3. Crash \/ Tick \/ UNCHANGED vars => UNCHANGED <<runs, attempts>>
  BY DEF Crash, Tick, vars
<1>4. DeletionStep => UNCHANGED <<runs, attempts>> \/ \E listed, ids : Remove(listed, ids)
  BY DEF DeletionStep, DeleteScan, BeginDeletion, DeleteListedScans, DeleteProject,
       DeleteProjectAborts
<1> QED
  BY <1>1, <1>2, <1>3, <1>4 DEF Next

LEMMA RemovalKeepsAttempts ==
  ASSUME TypeOK, AttemptInv, clock' \in Nat, clock <= clock', NEW ids, NEW stale,
         \A id \in RunIds : IF id \in ids THEN ~runs'[id].stored
                            ELSE (runs'[id].stored <=> runs[id].stored) /\ Same(id),
         \A r \in stale : attempts[r].expires <= clock,
         \A r \in Requests : attempts'[r] = IF r \in stale THEN NoAttempt ELSE Detached(r, ids)
  PROVE  AttemptInv'
<1>0. /\ clock \in Nat /\ attempts \in [Requests -> AttemptRows]
      /\ AttemptRetention \in Nat /\ \A id \in RunIds : runs[id].completedAt \in Nat
  BY TimesPositive DEF TypeOK, RunRows
<1>1. ASSUME NEW id \in RunIds, runs'[id].stored
      PROVE  /\ runs'[id].request \in Requests
             /\ clock' >= runs'[id].completedAt + AttemptRetention \/ Accounted(id)'
  <2>1. /\ id \notin ids /\ runs[id].stored /\ Same(id)
        /\ runs[id].request \in Requests
        /\ clock >= runs[id].completedAt + AttemptRetention \/ Accounted(id)
    BY <1>1 DEF AttemptInv, AttemptsKept
  <2> DEFINE r == runs[id].request
  <2>2. CASE clock >= runs[id].completedAt + AttemptRetention
    BY <1>0, <2>1, <2>2 DEF Same
  <2>3. CASE ~(clock >= runs[id].completedAt + AttemptRetention)
    <3>1. Accounted(id)
      BY <2>1, <2>3
    <3>2. r \notin stale
      <4>1. attempts[r].expires = runs[id].completedAt + AttemptRetention
        BY <3>1 DEF Accounted
      <4>2. runs[id].completedAt + AttemptRetention \in Nat
        BY <1>0
      <4> QED
        BY <1>0, <2>3, <4>1, <4>2
    <3>3. attempts[r].run = id
      BY <3>1 DEF Accounted
    <3>4. attempts'[r] = Detached(r, ids)
      BY <2>1, <3>2
    <3>5. attempts'[r] = attempts[r]
      BY <2>1, <3>3, <3>4 DEF Detached
    <3> QED
      BY <2>1, <3>1, <3>5 DEF Accounted, Same
  <2> QED
    BY <2>2, <2>3
<1>2. ASSUME NEW r \in Requests, attempts'[r].run # None
      PROVE  attempts'[r].run \in Stored'
  <2>1. attempts[r] \in AttemptRows /\ NoAttempt.run = None
    BY <1>0 DEF NoAttempt
  <2>2. attempts'[r].run = attempts[r].run /\ attempts[r].run \notin ids
    BY <1>2, <2>1 DEF Detached, AttemptRows
  <2>3. attempts[r].run \in RunIds /\ runs[attempts[r].run].stored
    BY <1>2, <2>2 DEF AttemptInv, AttemptsRefer, Stored
  <2> QED
    BY <2>2, <2>3 DEF Stored
<1> QED
  BY <1>1, <1>2 DEF AttemptInv, AttemptsKept, AttemptsRefer

LEMMA AttemptStep ==
  ASSUME TypeOK, AttemptInv, [Next]_vars
  PROVE  AttemptInv'
<1>0. /\ clock \in Nat /\ clock' \in Nat /\ clock <= clock'
      /\ attempts \in [Requests -> AttemptRows] /\ runs \in [RunIds -> RunRows]
      /\ AttemptRetention \in Nat /\ \A id \in RunIds : runs[id].completedAt \in Nat
  BY TimesPositive, ClockAdvances DEF TypeOK, RunRows
<1>1. CASE UNCHANGED <<runs, attempts>>
  BY <1>0, <1>1 DEF AttemptInv, AttemptsKept, AttemptsRefer, Accounted, Stored
<1>2. ASSUME NEW r \in Requests, PersistCommit(r) \/ PersistUnacknowledged(r)
      PROVE  AttemptInv'
  <2> DEFINE new == RunIdOf(r)
  <2>1. /\ Storable(r) /\ StoreRun(r) /\ requests[r].pc # "idle"
        /\ new \in RunIds /\ requests[r].now \in Nat /\ clock' = clock
    BY <1>2, RequestTypes DEF PersistCommit, PersistUnacknowledged, Storable
  <2>2. /\ runs'[new] = RunRecord(r) /\ attempts'[r] = Attempt(r, "accepted", new)
        /\ \A id \in RunIds : id # new => runs'[id] = runs[id]
        /\ \A q \in Requests : q # r => attempts'[q] = attempts[q]
        /\ attempts[r].outcome = "none" /\ ~runs[new].stored
    BY <1>0, <2>1 DEF StoreRun, Storable
  <2>3. runs'[new].stored
    BY <2>2 DEF RunRecord
  <2>6. ASSUME NEW id \in RunIds, id = new PROVE runs'[id].request = r /\ Accounted(id)'
    <3>1. /\ runs'[id].request = r /\ runs'[id].completedAt = requests[r].now
          /\ attempts'[r] = Attempt(r, "accepted", id)
      BY <2>2, <2>6 DEF RunRecord
    <3> QED
      BY <3>1 DEF Attempt, Accounted
  <2>4. ASSUME NEW id \in RunIds, id # new, runs'[id].stored
        PROVE  /\ runs'[id].request \in Requests
               /\ clock' >= runs'[id].completedAt + AttemptRetention \/ Accounted(id)'
    <3>1. /\ runs'[id] = runs[id] /\ runs[id].request \in Requests
          /\ clock >= runs[id].completedAt + AttemptRetention \/ Accounted(id)
      BY <2>2, <2>4 DEF AttemptInv, AttemptsKept
    <3>2. Accounted(id) => runs[id].request # r
      BY <2>2 DEF Accounted
    <3> QED
      BY <2>1, <2>2, <3>1, <3>2 DEF Accounted
  <2>5. ASSUME NEW q \in Requests, attempts'[q].run # None PROVE attempts'[q].run \in Stored'
    <3>1. CASE q = r
      BY <2>1, <2>2, <2>3, <3>1 DEF Attempt, Stored
    <3>2. CASE q # r
      BY <2>2, <2>3, <2>5, <3>2 DEF AttemptInv, AttemptsRefer, Stored
    <3> QED
      BY <3>1, <3>2
  <2> QED
    BY <2>4, <2>5, <2>6 DEF AttemptInv, AttemptsKept, AttemptsRefer
<1>3. ASSUME NEW r \in Requests, RecordFailure(r) \/ RecordOutcome(r) PROVE AttemptInv'
  <2>1. /\ runs' = runs /\ clock' = clock /\ attempts[r].outcome = "none"
        /\ \A q \in Requests : q # r => attempts'[q] = attempts[q]
    BY <1>0, <1>3 DEF RecordFailure, RecordOutcome
  <2>2. attempts'[r].run \in {None} \cup Stored
    <3>1. CASE RecordFailure(r)
      BY <1>0, <3>1 DEF RecordFailure, Attempt
    <3>2. CASE RecordOutcome(r)
      BY <1>0, <3>2 DEF RecordOutcome, Attempt, Answerable
    <3> QED
      BY <1>3, <3>1, <3>2
  <2>3. \A id \in RunIds : runs[id].stored /\ Accounted(id) => runs[id].request # r
    BY <2>1 DEF Accounted
  <2>4. AttemptsKept'
    BY <2>1, <2>3 DEF AttemptInv, AttemptsKept, Accounted
  <2>5. AttemptsRefer'
    BY <2>1, <2>2 DEF AttemptInv, AttemptsRefer, Stored
  <2> QED
    BY <2>4, <2>5 DEF AttemptInv
<1>4. ASSUME NEW listed, NEW ids, Remove(listed, ids) PROVE AttemptInv'
  <2>1. \A id \in RunIds : IF id \in ids THEN ~runs'[id].stored
                           ELSE (runs'[id].stored <=> runs[id].stored) /\ Same(id)
    BY <1>4, RemovedRuns DEF Same
  <2> PICK stale : stale = {}
    OBVIOUS
  <2>2. \A r \in Requests : attempts'[r] = IF r \in stale THEN NoAttempt ELSE Detached(r, ids)
    BY <1>4 DEF Remove
  <2>3. \A r \in stale : attempts[r].expires <= clock
    OBVIOUS
  <2> QED
    BY <1>0, <2>1, <2>2, <2>3, RemovalKeepsAttempts
<1>5. ASSUME RetentionCleanup PROVE AttemptInv'
  <2>1. PICK unpacked, expired, over, stale, spent :
               /\ RetentionWrites(unpacked, expired, over, stale, spent)
               /\ stale \in Batches(OldAttempts)
    BY <1>5 DEF RetentionCleanup
  <2>2. \A id \in RunIds : IF id \in expired THEN ~runs'[id].stored
                           ELSE (runs'[id].stored <=> runs[id].stored) /\ Same(id)
    BY <1>0, <2>1 DEF RetentionWrites, NoRun, Same, RunRows
  <2>3. \A r \in stale : attempts[r].expires <= clock
    BY <2>1 DEF Batches, OldAttempts
  <2>4. \A r \in Requests : attempts'[r] = IF r \in stale THEN NoAttempt ELSE Detached(r, expired)
    BY <2>1 DEF RetentionWrites
  <2> QED
    BY <1>0, <2>2, <2>3, <2>4, RemovalKeepsAttempts
<1> QED
  BY <1>1, <1>2, <1>3, <1>4, <1>5, AttemptCases

(***************************************************************************)
(* What the attempts say agrees with what is stored.                       *)
(***************************************************************************)
THEOREM AttemptsAgree == Spec => []AttemptsMatchRuns
<1>1. Init => AttemptInv
  BY DEF Init, AttemptInv, AttemptsKept, AttemptsRefer, NoRun, NoAttempt
<1>2. TypeOK /\ AttemptInv /\ [Next]_vars => AttemptInv'
  BY AttemptStep
<1>3. AttemptInv => AttemptsMatchRuns
  BY DEF AttemptInv, AttemptsKept, AttemptsRefer, Accounted, AttemptsMatchRuns, Stored
<1> QED
  BY <1>1, <1>2, <1>3, TypeCorrect, PTL DEF Spec

-----------------------------------------------------------------------------
(***************************************************************************)
(* Charges.  The request that decided holds the write transaction until it *)
(* acquires, and so what it decided on is still there.                     *)
(***************************************************************************)
WriterHolds ==
  \A r \in Requests : requests[r].pc = "acquire" =>
    /\ writer = r
    /\ IF requests[r].reserved THEN ~NoWork(r) /\ QuotaAllows(r) ELSE NoWork(r)

NotReservedEarly ==
  \A r \in Requests : requests[r].pc \in {"idle", "reserve"} => ~requests[r].reserved

GrantsPast == \A r \in Requests : requests[r].granted => requests[r].pc \notin Early

ChargesPlaced ==
  \A c \in charges : /\ c.request \in Requests /\ requests[c.request].granted
                     /\ c = Charge(c.request)

ChargedWhileKept ==
  \A r \in Requests :
    requests[r].granted /\ clock < requests[r].now + ChargeRetention =>
      \E c \in charges : c.request = r

ChargeInv == WriterHolds /\ NotReservedEarly /\ GrantsPast /\ ChargesPlaced /\ ChargedWhileKept

(***************************************************************************)
(* Only the writer of an open transaction writes the tables.               *)
(***************************************************************************)
LEMMA WriterExcludes ==
  ASSUME TypeOK, [Next]_vars, NEW q \in Requests, requests[q].pc = "acquire", writer = q
  PROVE  \/ UNCHANGED <<claims, runs, charges>> /\ (writer' = q \/ requests'[q].pc # "acquire")
         \/ AcquireGrant(q)
<1>0. writer # None /\ requests \in [Requests -> RequestStates]
  BY IngestAssumption DEF TypeOK
<1>1. ASSUME NEW r \in Requests, HandlerStep(r), ~AcquireGrant(r), ~AcquireDecline(r)
      PROVE  UNCHANGED <<claims, runs, charges, writer>>
  BY <1>0, <1>1 DEF HandlerStep, Reserve, ReserveNoWork, ReserveCharge, ReserveRefuse, Acquire,
       Persist, PersistCommit, PersistUnacknowledged, PersistFails, Storable, Cleanup, CleanupFail,
       CleanupSwallowed, RecordFailure, RecordFailureSwallowed, Record, RecordOutcome,
       RecordDangling
<1>2. ASSUME NEW r \in Requests, AcquireDecline(r)
      PROVE  UNCHANGED <<claims, runs, charges>> /\ requests'[q].pc # "acquire"
  BY <1>0, <1>2 DEF AcquireDecline, RequestStates
<1>3. ASSUME NEW r \in Requests, AcquireGrant(r) PROVE r = q
  BY <1>3 DEF AcquireGrant
<1>4. ASSUME NEW r \in Requests, Abandon(r)
      PROVE  UNCHANGED <<claims, runs, charges>> /\ (writer' = q \/ requests'[q].pc # "acquire")
  BY <1>0, <1>4 DEF Abandon, Finish, RequestStates
<1>5. ASSUME NEW r \in Requests, NEW cmd \in Commands, Receive(r, cmd)
      PROVE  UNCHANGED <<claims, runs, charges, writer>>
  BY <1>5 DEF Receive
<1>6. Tick \/ UNCHANGED vars => UNCHANGED <<claims, runs, charges, writer>>
  BY DEF Tick, vars
<1>7. Crash => UNCHANGED <<claims, runs, charges>> /\ requests'[q].pc # "acquire"
  BY <1>0 DEF Crash, Running, RequestStates
<1>8. DeletionStep \/ RetentionCleanup => UNCHANGED <<claims, runs, charges, writer>>
  BY <1>0 DEF DeletionStep, DeleteScan, BeginDeletion, DeleteListedScans, DeleteProject,
       DeleteProjectAborts, RetentionCleanup
<1> QED
  BY <1>1, <1>2, <1>3, <1>4, <1>5, <1>6, <1>7, <1>8 DEF Next

LEMMA WriterStep ==
  ASSUME TypeOK, WriterHolds, NotReservedEarly, [Next]_vars
  PROVE  WriterHolds'
<1> SUFFICES ASSUME NEW q \in Requests, requests'[q].pc = "acquire"
             PROVE  /\ writer' = q
                    /\ IF requests'[q].reserved THEN ~NoWork(q)' /\ QuotaAllows(q)' ELSE NoWork(q)'
  BY DEF WriterHolds
<1>1. ASSUME UNCHANGED <<claims, runs, charges>>, CommandStays(q), requests[q].pc # "idle"
      PROVE  (NoWork(q)' <=> NoWork(q)) /\ (QuotaAllows(q)' <=> QuotaAllows(q))
  <2>1. requests'[q].cmd = requests[q].cmd /\ requests'[q].now = requests[q].now
    BY <1>1 DEF CommandStays
  <2>2. NoWork(q)' <=> NoWork(q)
    BY <1>1, <2>1 DEF NoWork
  <2>3. QuotaAllows(q)' <=> QuotaAllows(q)
    BY <1>1, <2>1 DEF QuotaAllows
  <2> QED
    BY <2>2, <2>3
<1>2. CASE GoesOn(q)
  <2>1. requests[q].pc = "acquire" /\ requests'[q].reserved = requests[q].reserved
    BY <1>2 DEF GoesOn, Early
  <2>2. writer = q /\ IF requests[q].reserved THEN ~NoWork(q) /\ QuotaAllows(q) ELSE NoWork(q)
    BY <2>1 DEF WriterHolds
  <2>3. ~AcquireGrant(q)
    <3>1. requests \in [Requests -> RequestStates]
      BY DEF TypeOK
    <3> QED
      BY <3>1 DEF AcquireGrant, RequestStates
  <2>4. UNCHANGED <<claims, runs, charges>> /\ writer' = q
    BY <2>1, <2>2, <2>3, WriterExcludes
  <2> QED
    BY <1>1, <1>2, <2>1, <2>2, <2>4 DEF GoesOn
<1>3. CASE ReserveNoWork(q) /\ Reserved(q, FALSE)
  <2>1. /\ UNCHANGED <<claims, runs, charges>> /\ writer' = q /\ NoWork(q)
        /\ ~requests'[q].reserved /\ requests[q].pc # "idle" /\ CommandStays(q)
    BY <1>3 DEF ReserveNoWork, Reserved, NotReservedEarly
  <2> QED
    BY <1>1, <2>1
<1>4. CASE ReserveCharge(q) /\ Reserved(q, TRUE)
  <2>1. /\ UNCHANGED <<claims, runs, charges>> /\ writer' = q /\ ~NoWork(q) /\ QuotaAllows(q)
        /\ requests'[q].reserved /\ requests[q].pc # "idle" /\ CommandStays(q)
    BY <1>4 DEF ReserveCharge, Reserved
  <2> QED
    BY <1>1, <2>1
<1> QED
  BY <1>2, <1>3, <1>4, RequestsGoOn DEF Arrives

LEMMA ChargeCases ==
  ASSUME [Next]_vars
  PROVE  \/ UNCHANGED charges
         \/ \E r \in Requests : AcquireGrant(r)
         \/ \E spent \in SUBSET OldCharges : charges' = charges \ spent
<1>1. ASSUME NEW r \in Requests, HandlerStep(r) \/ Abandon(r), ~AcquireGrant(r)
      PROVE  UNCHANGED charges
  BY <1>1 DEF HandlerStep, Reserve, ReserveNoWork, ReserveCharge, ReserveRefuse, Acquire,
       AcquireDecline, Persist, PersistCommit, PersistUnacknowledged, PersistFails, Cleanup,
       CleanupFail, CleanupSwallowed, RecordFailure, RecordFailureSwallowed, Record, RecordOutcome,
       RecordDangling, Abandon
<1>2. ASSUME NEW r \in Requests, NEW cmd \in Commands, Receive(r, cmd) PROVE UNCHANGED charges
  BY <1>2 DEF Receive
<1>3. Crash \/ DeletionStep \/ Tick \/ UNCHANGED vars => UNCHANGED charges
  BY DEF Crash, DeletionStep, DeleteScan, BeginDeletion, DeleteListedScans, DeleteProject,
       DeleteProjectAborts, Tick, vars
<1>4. RetentionCleanup => \E spent \in SUBSET OldCharges : charges' = charges \ spent
  BY DEF RetentionCleanup, RetentionWrites, Batches
<1> QED
  BY <1>1, <1>2, <1>3, <1>4 DEF Next

LEMMA GrantCharges ==
  ASSUME TypeOK, WriterHolds, NEW r \in Requests, AcquireGrant(r)
  PROVE  /\ charges' = charges \cup {Charge(r)} /\ clock' = clock
         /\ ~NoWork(r) /\ QuotaAllows(r)
<1>1. requests[r].pc = "acquire" /\ Decision(r) = "free" /\ clock' = clock
  BY DEF AcquireGrant
<1>2. ~NoWork(r)
  BY <1>1, NoWorkExactlyWhenDeclined
<1>3. requests[r].reserved /\ QuotaAllows(r)
  BY <1>1, <1>2 DEF WriterHolds
<1> QED
  BY <1>1, <1>2, <1>3 DEF AcquireGrant

LEMMA ChargeStep ==
  ASSUME TypeOK, ChargeInv, [Next]_vars
  PROVE  ChargeInv'
<1>0. /\ clock \in Nat /\ clock' \in Nat /\ clock <= clock' /\ ChargeRetention \in Nat
      /\ \A r \in Requests : requests[r].now \in Nat /\ requests[r].granted \in BOOLEAN
                             /\ requests[r].reserved \in BOOLEAN
  BY TimesPositive, ClockAdvances DEF TypeOK, RequestStates
<1>1. WriterHolds'
  BY WriterStep DEF ChargeInv
<1>2. NotReservedEarly'
  <2> SUFFICES ASSUME NEW q \in Requests, requests'[q].pc \in {"idle", "reserve"}
               PROVE  ~requests'[q].reserved
    BY DEF NotReservedEarly
  <2>1. GoesOn(q) \/ Arrives(q)
    BY RequestsGoOn DEF Reserved
  <2> QED
    BY <2>1 DEF GoesOn, Arrives, Early, ChargeInv, NotReservedEarly
<1>3. GrantsPast'
  <2> SUFFICES ASSUME NEW q \in Requests, requests'[q].granted PROVE requests'[q].pc \notin Early
    BY DEF GrantsPast
  <2>1. CASE GoesOn(q)
    BY <2>1 DEF GoesOn, ChargeInv, GrantsPast
  <2>2. CASE AcquireGrant(q) /\ requests'[q].pc = "persist"
    BY <2>2 DEF Early
  <2>3. ASSUME requests[q].pc \in Early, requests'[q].granted = requests[q].granted PROVE FALSE
    BY <2>3 DEF ChargeInv, GrantsPast
  <2> QED
    BY <2>1, <2>2, <2>3, RequestsGoOn DEF Reserved, Arrives, Early
<1>4. ASSUME NEW q \in Requests, requests[q].granted
      PROVE  /\ requests'[q].granted /\ requests'[q].now = requests[q].now
             /\ Charge(q)' = Charge(q)
  <2>1. requests[q].pc \notin Early
    BY <1>4 DEF ChargeInv, GrantsPast
  <2>2. GoesOn(q)
    BY <2>1, RequestsGoOn DEF Early, Arrives, Reserved, AcquireGrant
  <2> QED
    BY <1>4, <2>1, <2>2 DEF GoesOn, CommandStays, Early, Charge
<1>5. ASSUME NEW r \in Requests, AcquireGrant(r)
      PROVE  requests'[r].granted /\ Charge(r)' = Charge(r)
  <2>1. requests[r].pc = "acquire"
    BY <1>5 DEF AcquireGrant
  <2>2. requests'[r].granted
    BY <1>5 DEF AcquireGrant, TypeOK, RequestStates
  <2> QED
    BY <2>1, <2>2, CommandsStay DEF CommandStays, Charge
<1>6. ChargesPlaced'
  <2> SUFFICES ASSUME NEW c \in charges'
               PROVE  /\ c.request \in Requests /\ requests'[c.request].granted
                      /\ c = Charge(c.request)'
    BY DEF ChargesPlaced
  <2>1. CASE c \in charges
    BY <1>4, <2>1 DEF ChargeInv, ChargesPlaced
  <2>2. ASSUME NEW r \in Requests, AcquireGrant(r), c = Charge(r)
        PROVE  c.request = r /\ requests'[c.request].granted /\ c = Charge(c.request)'
    BY <1>5, <2>2 DEF Charge
  <2>3. ASSUME NEW r \in Requests, AcquireGrant(r) PROVE c \in charges \cup {Charge(r)}
    BY <2>3, GrantCharges DEF ChargeInv
  <2> QED
    BY <2>1, <2>2, <2>3, ChargeCases
<1>7. ChargedWhileKept'
  <2> SUFFICES ASSUME NEW q \in Requests, requests'[q].granted,
                      clock' < requests'[q].now + ChargeRetention
               PROVE  \E c \in charges' : c.request = q
    BY DEF ChargedWhileKept
  <2>1. ASSUME AcquireGrant(q) PROVE \E c \in charges' : c.request = q
    <3>1. Charge(q) \in charges'
      BY <2>1, GrantCharges DEF ChargeInv
    <3> QED
      BY <3>1 DEF Charge
  <2>2. ASSUME requests[q].granted PROVE \E c \in charges' : c.request = q
    <3>1. clock < requests[q].now + ChargeRetention
      BY <1>0, <1>4, <2>2
    <3>2. PICK c \in charges : c.request = q
      BY <2>2, <3>1 DEF ChargeInv, ChargedWhileKept
    <3>3. c.at = requests[q].now
      BY <3>2 DEF ChargeInv, ChargesPlaced, Charge
    <3>4. c \notin OldCharges
      BY <1>0, <3>1, <3>3 DEF OldCharges
    <3>5. ASSUME NEW r \in Requests, AcquireGrant(r) PROVE c \in charges'
      BY <3>2, <3>5, GrantCharges DEF ChargeInv
    <3> QED
      BY <3>2, <3>4, <3>5, ChargeCases
  <2> QED
    BY <2>1, <2>2, RequestsGoOn DEF GoesOn, Arrives, Reserved
<1> QED
  BY <1>1, <1>2, <1>3, <1>6, <1>7 DEF ChargeInv

LEMMA ChargeInvariance == Spec => []ChargeInv
<1>1. Init => ChargeInv
  BY DEF Init, ChargeInv, WriterHolds, NotReservedEarly, GrantsPast, ChargesPlaced,
         ChargedWhileKept, NewRequest
<1>2. TypeOK /\ ChargeInv /\ [Next]_vars => ChargeInv'
  BY ChargeStep
<1> QED
  BY <1>1, <1>2, TypeCorrect, PTL DEF Spec

(***************************************************************************)
(* An upload is charged if and only if it was granted a claim: reserve     *)
(* stages the charge and acquire commits it with the row.                  *)
(***************************************************************************)
THEOREM ChargedWhenGranted == Spec => []ChargesMatchGrants
<1>1. ChargeInv => ChargesMatchGrants
  BY DEF ChargeInv, ChargesPlaced, ChargedWhileKept, ChargesMatchGrants
<1> QED
  BY <1>1, ChargeInvariance, PTL

-----------------------------------------------------------------------------
(***************************************************************************)
(* Counting.                                                               *)
(***************************************************************************)
LEMMA CountStays ==
  ASSUME NEW S, IsFiniteSet(S), NEW T, T \subseteq S, NEW n \in Nat, Cardinality(S) <= n
  PROVE  IsFiniteSet(T) /\ Cardinality(T) <= n
<1>1. IsFiniteSet(T) /\ Cardinality(T) <= Cardinality(S)
  BY FS_Subset
<1> QED
  BY <1>1, FS_CardinalityType

LEMMA CountGrows ==
  ASSUME NEW S, IsFiniteSet(S), NEW x, NEW T, T \subseteq S \cup {x},
         NEW n \in Nat, Cardinality(S) < n
  PROVE  IsFiniteSet(T) /\ Cardinality(T) <= n
<1>1. Cardinality(S) \in Nat
  BY FS_CardinalityType
<1>2. /\ IsFiniteSet(S \cup {x})
      /\ Cardinality(S \cup {x}) = IF x \in S THEN Cardinality(S) ELSE Cardinality(S) + 1
  BY FS_AddElement
<1>3. Cardinality(S \cup {x}) <= n
  BY <1>1, <1>2
<1> QED
  BY <1>2, <1>3, CountStays

LEMMA LimitTypes ==
  /\ LocalLimits.uploadsPerHour \in Nat /\ LocalLimits.uploadsPerDay \in Nat
  /\ LocalLimits.inflightPerPrincipal \in Nat /\ LocalLimits.inflightPerAccount \in Nat
  /\ LocalLimits.inflightPerOrigin \in Nat /\ SharedInflight \in Nat
  /\ GithubLimits.uploadsPerHour \in Nat /\ GithubLimits.uploadsPerDay \in Nat
  /\ GithubLimits.inflightPerPrincipal \in Nat
  /\ LocalLimits.bytesPerDay \in Nat /\ GithubLimits.bytesPerDay \in Nat
BY QuotaAssumption

-----------------------------------------------------------------------------
(***************************************************************************)
(* Uploads in flight.  A row keeps the user or the repository of its key,  *)
(* whoever takes it over, so that it is counted for the one who is limited.*)
(***************************************************************************)
RowsNamed ==
  \A k \in Keys, c \in Commands : c.key = k /\ claims[k].state # "none" =>
    /\ c.origin = "local" => claims[k].account = c.account
    /\ c.origin # "local" => claims[k].principal = c.principal

Rows == {k \in Keys : claims[k].state # "none"}

RowsFinite == IsFiniteSet(Rows)

LEMMA GrantedNames ==
  ASSUME TypeOK, RowsNamed, NEW r \in Requests, AcquireGrant(r)
  PROVE  LET cmd == requests[r].cmd
             row == claims'[cmd.key]
         IN  /\ cmd.origin = "local" => row.account = cmd.account
             /\ row.principal = cmd.principal
<1> DEFINE cmd == requests[r].cmd
           k == cmd.key
<1>1. cmd \in Commands /\ k \in Keys /\ claims[k] \in ClaimRows /\ claims'[k] = GrantedRow(r)
  BY RequestTypes DEF AcquireGrant, TypeOK
<1>2. CASE claims[k].state = "none"
  BY <1>1, <1>2 DEF GrantedRow, NewRow
<1>3. CASE claims[k].state # "none" /\ cmd.origin = "local"
  <2>1. claims'[k] = LocalTakeOver(claims[k], cmd, None, r, requests[r].now + Lease)
    BY <1>1, <1>3 DEF GrantedRow
  <2>2. claims[k].account = cmd.account
    BY <1>1, <1>3 DEF RowsNamed
  <2> QED
    BY <1>1, <2>1, <2>2 DEF LocalTakeOver, ClaimRows
<1>4. CASE claims[k].state # "none" /\ cmd.origin # "local"
  <2>1. claims'[k] = GithubTakeOver(claims[k], cmd, None, r, requests[r].now + Lease)
    BY <1>1, <1>4 DEF GrantedRow
  <2>2. claims[k].principal = cmd.principal
    BY <1>1, <1>4 DEF RowsNamed
  <2> QED
    BY <1>1, <1>4, <2>1, <2>2 DEF GithubTakeOver, ClaimRows
<1> QED
  BY <1>2, <1>3, <1>4

LEMMA NamesStep ==
  ASSUME TypeOK, RowsNamed, [Next]_vars
  PROVE  RowsNamed'
<1> SUFFICES ASSUME NEW k \in Keys, NEW c \in Commands, c.key = k, claims'[k].state # "none"
             PROVE  /\ c.origin = "local" => claims'[k].account = c.account
                    /\ c.origin # "local" => claims'[k].principal = c.principal
  BY DEF RowsNamed
<1>1. CASE claims'[k] = claims[k] \/ Renamed(k)
  BY <1>1 DEF RowsNamed, Renamed
<1>2. claims'[k] # NoClaim
  BY DEF NoClaim
<1>3. ASSUME NEW r \in Requests, AcquireGrant(r), k = requests[r].cmd.key
      PROVE  /\ c.origin = "local" => claims'[k].account = c.account
             /\ c.origin # "local" => claims'[k].principal = c.principal
  <2> DEFINE cmd == requests[r].cmd
  <2>1. cmd \in Commands
    BY <1>3, RequestTypes DEF AcquireGrant
  <2>2. c.origin = cmd.origin
    BY <1>3, <2>1, IngestAssumption
  <2>3. /\ c.origin = "local" => c.account = cmd.account
        /\ c.origin # "local" => c.principal = cmd.principal
    BY <1>3, <2>1, <2>2, IngestAssumption
  <2> QED
    BY <1>3, <2>2, <2>3, GrantedNames
<1> QED
  BY <1>1, <1>2, <1>3, ClaimCases

LEMMA RowsStep ==
  ASSUME TypeOK, RowsFinite, [Next]_vars
  PROVE  RowsFinite'
<1>1. ASSUME NEW r \in Requests, AcquireGrant(r) PROVE RowsFinite'
  <2>1. Rows' \subseteq Rows \cup {requests[r].cmd.key}
    BY <1>1 DEF AcquireGrant, TypeOK, Rows
  <2>2. IsFiniteSet(Rows \cup {requests[r].cmd.key})
    BY FS_AddElement DEF RowsFinite
  <2> QED
    BY <2>1, <2>2, FS_Subset DEF RowsFinite
<1>2. ASSUME ~\E r \in Requests : AcquireGrant(r) PROVE RowsFinite'
  <2>1. Rows' \subseteq Rows
    BY <1>2, ClaimCases DEF Rows, Renamed, NoClaim
  <2> QED
    BY <2>1, FS_Subset DEF RowsFinite
<1> QED
  BY <1>1, <1>2

(***************************************************************************)
(* What was in flight at t and is so no more, and what a grant adds.       *)
(***************************************************************************)
LEMMA InFlightFinite ==
  ASSUME RowsFinite, NEW keys, keys \subseteq Keys, NEW t
  PROVE  /\ IsFiniteSet(InFlight(claims, keys, t))
         /\ \A p : IsFiniteSet(PrincipalInFlight(claims, keys, p, t))
         /\ \A a : IsFiniteSet(AccountInFlight(claims, keys, a, t))
<1>1. /\ InFlight(claims, keys, t) \subseteq Rows
      /\ \A p : PrincipalInFlight(claims, keys, p, t) \subseteq Rows
      /\ \A a : AccountInFlight(claims, keys, a, t) \subseteq Rows
  BY DEF InFlight, PrincipalInFlight, AccountInFlight, LeaseLive, Rows
<1> QED
  BY <1>1, FS_Subset DEF RowsFinite

InFlightGrows(r, keys, t) ==
  LET key == requests[r].cmd.key
      cmd == requests[r].cmd
  IN  /\ InFlight(claims', keys, clock) \subseteq InFlight(claims, keys, t) \cup {key}
      /\ \A p : PrincipalInFlight(claims', keys, p, clock)
                  \subseteq PrincipalInFlight(claims, keys, p, t) \cup {key}
      /\ \A a : AccountInFlight(claims', keys, a, clock)
                  \subseteq AccountInFlight(claims, keys, a, t) \cup {key}

LEMMA GrantGrows ==
  ASSUME TypeOK, NEW r \in Requests, AcquireGrant(r), NEW keys, keys \subseteq Keys,
         NEW t \in Nat, t <= clock
  PROVE  InFlightGrows(r, keys, t)
<1>1. \A k \in Keys : k # requests[r].cmd.key => claims'[k] = claims[k]
  BY DEF AcquireGrant, TypeOK
<1>2. clock \in Nat /\ \A k \in Keys : claims[k].leaseExpires \in Nat
  BY DEF TypeOK, ClaimRows
<1>3. ASSUME NEW k \in keys, k # requests[r].cmd.key, LeaseLive(claims'[k], clock)
      PROVE  LeaseLive(claims[k], t) /\ claims'[k] = claims[k]
  BY <1>1, <1>2, <1>3 DEF LeaseLive
<1> QED
  BY <1>3 DEF InFlightGrows, InFlight, PrincipalInFlight, AccountInFlight

InFlightFalls(keys) ==
  /\ InFlight(claims', keys, clock') \subseteq InFlight(claims, keys, clock)
  /\ \A p : PrincipalInFlight(claims', keys, p, clock')
              \subseteq PrincipalInFlight(claims, keys, p, clock)
  /\ \A a : AccountInFlight(claims', keys, a, clock')
              \subseteq AccountInFlight(claims, keys, a, clock)

LEMMA OthersFall ==
  ASSUME TypeOK, [Next]_vars, NEW keys, keys \subseteq Keys,
         ~\E r \in Requests : AcquireGrant(r) /\ requests[r].cmd.key \in keys
  PROVE  InFlightFalls(keys)
<1>1. /\ clock \in Nat /\ clock' \in Nat /\ clock <= clock'
      /\ \A k \in Keys : claims[k].leaseExpires \in Nat
  BY ClockAdvances DEF TypeOK, ClaimRows
<1>2. ASSUME NEW k \in keys, LeaseLive(claims'[k], clock')
      PROVE  LeaseLive(claims[k], clock) /\ claims'[k] = claims[k]
  <2>1. claims'[k] # NoClaim /\ ~Renamed(k)
    BY <1>2 DEF LeaseLive, NoClaim, Renamed
  <2>2. claims'[k] = claims[k]
    BY <2>1, ClaimCases
  <2> QED
    BY <1>1, <1>2, <2>2 DEF LeaseLive
<1> QED
  BY <1>2 DEF InFlightFalls, InFlight, PrincipalInFlight, AccountInFlight

(***************************************************************************)
(* What the limits said of the upload a grant admits.                      *)
(***************************************************************************)
LEMMA GrantQuota ==
  ASSUME TypeOK, ArrivalsPast, ChargeInv, NEW r \in Requests, AcquireGrant(r)
  PROVE  LET cmd == requests[r].cmd
             t == requests[r].now
         IN  /\ t \in Nat /\ t <= clock /\ clock' = clock /\ charges' = charges \cup {Charge(r)}
             /\ Cardinality(InFlight(claims, Keys, t)) < SharedInflight
             /\ cmd.origin = "local" =>
                  /\ Cardinality(PrincipalInFlight(claims, LocalKeys, cmd.principal, t))
                       < LocalLimits.inflightPerPrincipal
                  /\ Cardinality(AccountInFlight(claims, LocalKeys, cmd.account, t))
                       < LocalLimits.inflightPerAccount
                  /\ Cardinality(InFlight(claims, LocalKeys, t)) < LocalLimits.inflightPerOrigin
                  /\ Cardinality(PrincipalCharges(charges, cmd, t)) < LocalLimits.uploadsPerHour
                  /\ Cardinality(AccountCharges(charges, cmd, t)) < LocalLimits.uploadsPerDay
                  /\ ChargedBytes(AccountCharges(charges, cmd, t)) + cmd.bytes
                       <= LocalLimits.bytesPerDay
             /\ cmd.origin # "local" =>
                  /\ Cardinality(PrincipalInFlight(claims, GithubKeys, cmd.principal, t))
                       < GithubLimits.inflightPerPrincipal
                  /\ Cardinality(PrincipalCharges(charges, cmd, t)) < GithubLimits.uploadsPerHour
                  /\ Cardinality(AccountCharges(charges, cmd, t)) < GithubLimits.uploadsPerDay
                  /\ ChargedBytes(AccountCharges(charges, cmd, t)) + cmd.bytes
                       <= GithubLimits.bytesPerDay
<1>1. requests[r].now \in Nat /\ requests[r].now <= clock
  BY DEF TypeOK, RequestStates, ArrivalsPast
<1>2. charges' = charges \cup {Charge(r)} /\ clock' = clock /\ QuotaAllows(r)
  BY GrantCharges DEF ChargeInv
<1>3. CASE requests[r].cmd.origin = "local"
  BY <1>1, <1>2, <1>3 DEF QuotaAllows, LocalQuotaAllows
<1>4. CASE requests[r].cmd.origin # "local"
  BY <1>1, <1>2, <1>4 DEF QuotaAllows, GithubQuotaAllows
<1> QED
  BY <1>3, <1>4

LEMMA KeyOrigin ==
  ASSUME NEW c \in Commands
  PROVE  /\ c.key \in Keys
         /\ c.origin = "local" <=> c.key \in LocalKeys
         /\ c.origin # "local" <=> c.key \in GithubKeys
BY IngestAssumption DEF Keys

(***************************************************************************)
(* A set that only loses members, or that gains one where the limit had    *)
(* room, stays within the limit.                                           *)
(***************************************************************************)
LEMMA CountStep ==
  ASSUME NEW S, IsFiniteSet(S), NEW n \in Nat, Cardinality(S) <= n, NEW T,
         \/ T \subseteq S
         \/ \E x, U : IsFiniteSet(U) /\ Cardinality(U) < n /\ T \subseteq U \cup {x}
  PROVE  Cardinality(T) <= n
BY CountStays, CountGrows

InFlightHolds ==
  TypeOK /\ ArrivalsPast /\ ChargeInv /\ RowsNamed /\ RowsFinite /\ InflightWithinLimits

LEMMA PrincipalStep ==
  ASSUME InFlightHolds, [Next]_vars, NEW p, NEW keys, NEW n \in Nat,
         \/ keys = LocalKeys /\ n = LocalLimits.inflightPerPrincipal
         \/ keys = GithubKeys /\ n = GithubLimits.inflightPerPrincipal,
         Cardinality(PrincipalInFlight(claims, keys, p, clock)) <= n
  PROVE  Cardinality(PrincipalInFlight(claims', keys, p, clock')) <= n
<1>0. TypeOK /\ ArrivalsPast /\ ChargeInv /\ RowsNamed /\ RowsFinite
  BY DEF InFlightHolds
<1>1. keys \subseteq Keys
  BY DEF Keys
<1>2. \A t : IsFiniteSet(PrincipalInFlight(claims, keys, p, t))
  BY <1>0, <1>1, InFlightFinite
<1>3. ASSUME NEW r \in Requests, AcquireGrant(r), requests[r].cmd.key \in keys,
             requests[r].cmd.principal = p
      PROVE  Cardinality(PrincipalInFlight(claims', keys, p, clock')) <= n
  <2>1. requests[r].cmd \in Commands
    BY <1>0, <1>3, RequestTypes DEF AcquireGrant
  <2>2. /\ keys = LocalKeys => requests[r].cmd.origin = "local"
        /\ keys = GithubKeys => requests[r].cmd.origin # "local"
    BY <1>3, <2>1, KeyOrigin
  <2>3. /\ requests[r].now \in Nat /\ requests[r].now <= clock /\ clock' = clock
        /\ Cardinality(PrincipalInFlight(claims, keys, p, requests[r].now)) < n
    BY <1>0, <1>3, <2>2, GrantQuota
  <2>4. PrincipalInFlight(claims', keys, p, clock')
          \subseteq PrincipalInFlight(claims, keys, p, requests[r].now) \cup {requests[r].cmd.key}
    BY <1>0, <1>1, <1>3, <2>3, GrantGrows DEF InFlightGrows
  <2> QED
    BY <1>2, <2>3, <2>4, CountGrows
<1>4. ASSUME NEW r \in Requests, AcquireGrant(r), requests[r].cmd.key \in keys,
             requests[r].cmd.principal # p
      PROVE  Cardinality(PrincipalInFlight(claims', keys, p, clock')) <= n
  <2>1. clock \in Nat /\ clock' = clock
    BY <1>4 DEF AcquireGrant, InFlightHolds, TypeOK
  <2>2. PrincipalInFlight(claims', keys, p, clock')
          \subseteq PrincipalInFlight(claims, keys, p, clock) \cup {requests[r].cmd.key}
    BY <1>0, <1>1, <1>4, <2>1, GrantGrows DEF InFlightGrows
  <2>3. claims'[requests[r].cmd.key].principal # p
    BY <1>0, <1>4, GrantedNames
  <2>4. requests[r].cmd.key \notin PrincipalInFlight(claims', keys, p, clock')
    BY <2>3 DEF PrincipalInFlight
  <2> QED
    BY <1>2, <2>2, <2>4, CountStays
<1>5. ASSUME ~\E r \in Requests : AcquireGrant(r) /\ requests[r].cmd.key \in keys
      PROVE  Cardinality(PrincipalInFlight(claims', keys, p, clock')) <= n
  BY <1>0, <1>1, <1>2, <1>5, OthersFall, CountStays DEF InFlightFalls
<1> QED
  BY <1>3, <1>4, <1>5

LEMMA AccountStep ==
  ASSUME InFlightHolds, [Next]_vars, NEW a,
         Cardinality(AccountInFlight(claims, LocalKeys, a, clock)) <= LocalLimits.inflightPerAccount
  PROVE  Cardinality(AccountInFlight(claims', LocalKeys, a, clock'))
           <= LocalLimits.inflightPerAccount
<1> DEFINE n == LocalLimits.inflightPerAccount
<1>0. TypeOK /\ ArrivalsPast /\ ChargeInv /\ RowsNamed /\ RowsFinite
  BY DEF InFlightHolds
<1>1. LocalKeys \subseteq Keys /\ n \in Nat
  BY LimitTypes DEF Keys
<1>2. \A t : IsFiniteSet(AccountInFlight(claims, LocalKeys, a, t))
  BY <1>0, <1>1, InFlightFinite
<1>3. ASSUME NEW r \in Requests, AcquireGrant(r), requests[r].cmd.key \in LocalKeys
      PROVE  /\ requests[r].cmd.origin = "local" /\ clock \in Nat /\ clock' = clock
             /\ claims'[requests[r].cmd.key].account = requests[r].cmd.account
  <2>1. requests[r].cmd \in Commands
    BY <1>0, <1>3, RequestTypes DEF AcquireGrant
  <2>2. requests[r].cmd.origin = "local"
    BY <1>3, <2>1, KeyOrigin
  <2> QED
    BY <1>0, <1>3, <2>2, GrantedNames DEF AcquireGrant, TypeOK
<1>4. ASSUME NEW r \in Requests, AcquireGrant(r), requests[r].cmd.key \in LocalKeys,
             requests[r].cmd.account = a
      PROVE  Cardinality(AccountInFlight(claims', LocalKeys, a, clock')) <= n
  <2>1. /\ requests[r].now \in Nat /\ requests[r].now <= clock /\ clock' = clock
        /\ Cardinality(AccountInFlight(claims, LocalKeys, a, requests[r].now)) < n
    BY <1>0, <1>3, <1>4, GrantQuota
  <2>2. AccountInFlight(claims', LocalKeys, a, clock')
          \subseteq AccountInFlight(claims, LocalKeys, a, requests[r].now)
                      \cup {requests[r].cmd.key}
    BY <1>0, <1>1, <1>4, <2>1, GrantGrows DEF InFlightGrows
  <2> QED
    BY <1>1, <1>2, <2>1, <2>2, CountGrows
<1>5. ASSUME NEW r \in Requests, AcquireGrant(r), requests[r].cmd.key \in LocalKeys,
             requests[r].cmd.account # a
      PROVE  Cardinality(AccountInFlight(claims', LocalKeys, a, clock')) <= n
  <2>1. AccountInFlight(claims', LocalKeys, a, clock')
          \subseteq AccountInFlight(claims, LocalKeys, a, clock) \cup {requests[r].cmd.key}
    BY <1>0, <1>1, <1>3, <1>5, GrantGrows DEF InFlightGrows
  <2>2. requests[r].cmd.key \notin AccountInFlight(claims', LocalKeys, a, clock')
    BY <1>3, <1>5 DEF AccountInFlight
  <2> QED
    BY <1>1, <1>2, <2>1, <2>2, CountStays
<1>6. ASSUME ~\E r \in Requests : AcquireGrant(r) /\ requests[r].cmd.key \in LocalKeys
      PROVE  Cardinality(AccountInFlight(claims', LocalKeys, a, clock')) <= n
  BY <1>0, <1>1, <1>2, <1>6, OthersFall, CountStays DEF InFlightFalls
<1> QED
  BY <1>4, <1>5, <1>6

LEMMA TotalStep ==
  ASSUME InFlightHolds, [Next]_vars, NEW keys, NEW n \in Nat,
         \/ keys = LocalKeys /\ n = LocalLimits.inflightPerOrigin
         \/ keys = Keys /\ n = SharedInflight,
         Cardinality(InFlight(claims, keys, clock)) <= n
  PROVE  Cardinality(InFlight(claims', keys, clock')) <= n
<1>0. TypeOK /\ ArrivalsPast /\ ChargeInv /\ RowsFinite
  BY DEF InFlightHolds
<1>1. keys \subseteq Keys
  BY DEF Keys
<1>2. \A t : IsFiniteSet(InFlight(claims, keys, t))
  BY <1>0, <1>1, InFlightFinite
<1>3. ASSUME NEW r \in Requests, AcquireGrant(r), requests[r].cmd.key \in keys
      PROVE  Cardinality(InFlight(claims', keys, clock')) <= n
  <2>1. requests[r].cmd \in Commands
    BY <1>0, <1>3, RequestTypes DEF AcquireGrant
  <2>2. keys = LocalKeys => requests[r].cmd.origin = "local"
    BY <1>3, <2>1, KeyOrigin
  <2>3. /\ requests[r].now \in Nat /\ requests[r].now <= clock /\ clock' = clock
        /\ Cardinality(InFlight(claims, keys, requests[r].now)) < n
    BY <1>0, <1>3, <2>2, GrantQuota
  <2>4. InFlight(claims', keys, clock')
          \subseteq InFlight(claims, keys, requests[r].now) \cup {requests[r].cmd.key}
    BY <1>0, <1>1, <1>3, <2>3, GrantGrows DEF InFlightGrows
  <2> QED
    BY <1>2, <2>3, <2>4, CountGrows
<1>4. ASSUME ~\E r \in Requests : AcquireGrant(r) /\ requests[r].cmd.key \in keys
      PROVE  Cardinality(InFlight(claims', keys, clock')) <= n
  BY <1>0, <1>1, <1>2, <1>4, OthersFall, CountStays DEF InFlightFalls
<1> QED
  BY <1>3, <1>4

LEMMA InFlightStep ==
  ASSUME InFlightHolds, [Next]_vars
  PROVE  InflightWithinLimits'
<1>1. InflightWithinLimits
  BY DEF InFlightHolds
<1>2. ASSUME NEW p \in Principals
      PROVE  /\ Cardinality(PrincipalInFlight(claims', LocalKeys, p, clock'))
                  <= LocalLimits.inflightPerPrincipal
             /\ Cardinality(PrincipalInFlight(claims', GithubKeys, p, clock'))
                  <= GithubLimits.inflightPerPrincipal
  <2>1. /\ Cardinality(PrincipalInFlight(claims, LocalKeys, p, clock))
             <= LocalLimits.inflightPerPrincipal
        /\ Cardinality(PrincipalInFlight(claims, GithubKeys, p, clock))
             <= GithubLimits.inflightPerPrincipal
    BY <1>1 DEF InflightWithinLimits
  <2> QED
    BY <2>1, LimitTypes, PrincipalStep
<1>3. ASSUME NEW a \in Accounts
      PROVE  Cardinality(AccountInFlight(claims', LocalKeys, a, clock'))
               <= LocalLimits.inflightPerAccount
  BY <1>1, AccountStep DEF InflightWithinLimits
<1>4. Cardinality(InFlight(claims', Keys, clock')) <= SharedInflight
  BY <1>1, LimitTypes, TotalStep DEF InflightWithinLimits
<1>5. Cardinality(InFlight(claims', LocalKeys, clock')) <= LocalLimits.inflightPerOrigin
  BY <1>1, LimitTypes, TotalStep DEF InflightWithinLimits
<1> QED
  BY <1>2, <1>3, <1>4, <1>5 DEF InflightWithinLimits
(***************************************************************************)
(* Uploads in flight stay within the limits, whoever is granted a claim    *)
(* and whenever the handlers that read the clock come to reserve.          *)
(***************************************************************************)
THEOREM InFlightStaysWithin == Spec => []InflightWithinLimits
<1>1. Init => RowsNamed /\ RowsFinite /\ InflightWithinLimits
  <2> SUFFICES ASSUME Init PROVE RowsNamed /\ RowsFinite /\ InflightWithinLimits
    OBVIOUS
  <2>1. \A k \in Keys : claims[k].state = "none"
    BY DEF Init, NoClaim
  <2>2. Rows = {}
    BY <2>1 DEF Rows
  <2>3. /\ \A keys \in SUBSET Keys : \A t : InFlight(claims, keys, t) = {}
        /\ \A keys \in SUBSET Keys : \A p, t : PrincipalInFlight(claims, keys, p, t) = {}
        /\ \A keys \in SUBSET Keys : \A a, t : AccountInFlight(claims, keys, a, t) = {}
    BY <2>1 DEF InFlight, PrincipalInFlight, AccountInFlight, LeaseLive
  <2>4. IsFiniteSet({}) /\ Cardinality({}) = 0
    BY FS_EmptySet
  <2>5. InflightWithinLimits
    BY <2>3, <2>4, LimitTypes DEF InflightWithinLimits, Keys
  <2> QED
    BY <2>1, <2>2, <2>4, <2>5 DEF RowsNamed, RowsFinite
<1>2. InFlightHolds /\ [Next]_vars => (RowsNamed /\ RowsFinite /\ InflightWithinLimits)'
  BY InFlightStep, NamesStep, RowsStep DEF InFlightHolds
<1>3. IInv => TypeOK /\ ArrivalsPast
  BY DEF IInv
<1>4. InFlightHolds <=> /\ TypeOK /\ ArrivalsPast /\ ChargeInv
                        /\ (RowsNamed /\ RowsFinite /\ InflightWithinLimits)
  BY DEF InFlightHolds
<1> QED
  BY <1>1, <1>2, <1>3, <1>4, Invariance, ChargeInvariance, PTL DEF Spec

-----------------------------------------------------------------------------
(***************************************************************************)
(* Bytes charged.  ChargedBytes adds the bytes of the charges in an order  *)
(* that CHOOSE picks; as the number of elements of a set it no longer      *)
(* depends on the order, and facts about finite sets apply to it.          *)
(***************************************************************************)
Units(S) == UNION {{c} \X (1 .. c.bytes) : c \in S}

Some(S) == CHOOSE c \in S : TRUE

LEMMA UnitsWithout ==
  ASSUME NEW S, NEW c \in S, c.bytes \in Nat, IsFiniteSet(Units(S \ {c}))
  PROVE  /\ IsFiniteSet(Units(S))
         /\ Cardinality(Units(S)) = c.bytes + Cardinality(Units(S \ {c}))
<1> DEFINE rest == Units(S \ {c})
           mine == {c} \X (1 .. c.bytes)
<1>1. Units(S) = rest \cup mine /\ rest \cap mine = {}
  BY DEF Units
<1>2. IsFiniteSet(1 .. c.bytes) /\ Cardinality(1 .. c.bytes) = c.bytes
  BY FS_Interval
<1>3. IsFiniteSet({c}) /\ Cardinality({c}) = 1
  BY FS_Singleton
<1>4. IsFiniteSet(mine) /\ Cardinality(mine) = c.bytes
  <2>1. Cardinality(mine) = Cardinality({c}) * Cardinality(1 .. c.bytes) /\ IsFiniteSet(mine)
    BY <1>2, <1>3, FS_Product
  <2> QED
    BY <1>2, <1>3, <2>1
<1>5. Cardinality(rest \cap mine) = 0
  BY <1>1, FS_EmptySet
<1> HIDE DEF rest, mine
<1>6. Cardinality(rest) \in Nat
  BY FS_CardinalityType DEF rest
<1>7. /\ IsFiniteSet(rest \cup mine)
      /\ Cardinality(rest \cup mine) =
           Cardinality(rest) + Cardinality(mine) - Cardinality(rest \cap mine)
  <2>1. IsFiniteSet(rest)
    BY DEF rest
  <2> QED
    BY <1>4, <2>1, FS_Union
<1>8. Cardinality(rest \cup mine) = c.bytes + Cardinality(rest)
  BY <1>4, <1>5, <1>6, <1>7
<1> QED
  BY <1>1, <1>7, <1>8 DEF rest

LEMMA SmallestSubset ==
  ASSUME NEW S, IsFiniteSet(S), NEW T \in SUBSET SUBSET S, T # {}
  PROVE  \E s \in T : \A t \in SUBSET s : t # s => t \notin T
<1>1. IsWellFoundedOn(StrictSubsetOrdering(S), SUBSET S)
  BY FS_StrictSubsetOrderingWellFounded, FS_FiniteSubsetsOfFinite
<1>2. \E s \in T : \A t \in T : ~(<<t, s>> \in StrictSubsetOrdering(S))
  BY <1>1, WFMin
<1> QED
  BY <1>2 DEF StrictSubsetOrdering

LEMMA UnitsFinite ==
  ASSUME NEW S, IsFiniteSet(S), \A c \in S : c.bytes \in Nat
  PROVE  \A s \in SUBSET S : IsFiniteSet(Units(s))
<1> DEFINE T == {s \in SUBSET S : ~IsFiniteSet(Units(s))}
<1> SUFFICES ASSUME T # {} PROVE FALSE
  OBVIOUS
<1>0. T \in SUBSET SUBSET S
  OBVIOUS
<1>1. PICK s \in T : \A t \in SUBSET s : t # s => t \notin T
  <2> HIDE DEF T
  <2> QED
    BY <1>0, SmallestSubset
<1>2. s # {}
  <2>1. Units({}) = {}
    BY DEF Units
  <2> QED
    BY <2>1, FS_EmptySet
<1>3. PICK c \in s : TRUE
  BY <1>2
<1>4. IsFiniteSet(Units(s \ {c}))
  BY <1>1, <1>3
<1> QED
  BY <1>1, <1>3, <1>4, UnitsWithout

LEMMA ChargedBytesCount ==
  ASSUME NEW S, IsFiniteSet(S), \A c \in S : c.bytes \in Nat
  PROVE  ChargedBytes(S) = Cardinality(Units(S))
<1> DEFINE Sum(g) == [s \in SUBSET S |-> IF s = {} THEN 0 ELSE Some(s).bytes + g[s \ {Some(s)}]]
           g == CHOOSE h : h = Sum(h)
           count == [s \in SUBSET S |-> Cardinality(Units(s))]
<1>1. ChargedBytes(S) = g[S]
  BY DEF ChargedBytes, MapThenSumSet, MapThenFoldSet, Some
<1>2. \A s \in SUBSET S : s # {} =>
        /\ Some(s) \in s /\ s \ {Some(s)} \in SUBSET S
        /\ Cardinality(Units(s)) = Some(s).bytes + Cardinality(Units(s \ {Some(s)}))
  BY UnitsFinite, UnitsWithout DEF Some
<1>3. Cardinality(Units({})) = 0
  <2>1. Units({}) = {}
    BY DEF Units
  <2> QED
    BY <2>1, FS_EmptySet
<1>4. count = Sum(count)
  BY <1>2, <1>3
<1> HIDE DEF count
<1>5. g = Sum(g)
  BY <1>4
<1> HIDE DEF g
<1>6. \A s \in SUBSET S : g[s] = Cardinality(Units(s))
  <2> DEFINE T == {s \in SUBSET S : g[s] # Cardinality(Units(s))}
  <2> SUFFICES ASSUME T # {} PROVE FALSE
    OBVIOUS
  <2>0. T \in SUBSET SUBSET S
    OBVIOUS
  <2>1. PICK s \in T : \A t \in SUBSET s : t # s => t \notin T
    <3> HIDE DEF T
    <3> QED
      BY <2>0, SmallestSubset
  <2>2. g[s] = IF s = {} THEN 0 ELSE Some(s).bytes + g[s \ {Some(s)}]
    BY <1>5, <2>1
  <2>3. s # {}
    BY <1>3, <2>1, <2>2
  <2>4. g[s \ {Some(s)}] = Cardinality(Units(s \ {Some(s)}))
    BY <1>2, <2>1, <2>3
  <2> QED
    BY <1>2, <2>1, <2>2, <2>3, <2>4
<1> QED
  BY <1>1, <1>6

LEMMA NothingCharged == ChargedBytes({}) = 0
<1>1. Units({}) = {}
  BY DEF Units
<1> QED
  BY <1>1, ChargedBytesCount, FS_EmptySet

LEMMA ChargedBytesGrows ==
  ASSUME NEW S, NEW T \in SUBSET S, IsFiniteSet(S), \A c \in S : c.bytes \in Nat
  PROVE  /\ ChargedBytes(S) \in Nat /\ ChargedBytes(T) \in Nat
         /\ ChargedBytes(T) <= ChargedBytes(S)
<1>1. IsFiniteSet(T)
  BY FS_Subset
<1>2. IsFiniteSet(Units(S)) /\ Units(T) \in SUBSET Units(S)
  BY UnitsFinite DEF Units
<1>3. ChargedBytes(S) = Cardinality(Units(S)) /\ ChargedBytes(T) = Cardinality(Units(T))
  BY <1>1, ChargedBytesCount
<1> QED
  BY <1>2, <1>3, FS_Subset, FS_CardinalityType

LEMMA ChargedBytesAdd ==
  ASSUME NEW S, NEW c, IsFiniteSet(S), \A d \in S \cup {c} : d.bytes \in Nat
  PROVE  ChargedBytes(S \cup {c}) <= ChargedBytes(S) + c.bytes
<1>1. CASE c \in S
  <2>1. S \cup {c} = S
    BY <1>1
  <2> QED
    BY <2>1, ChargedBytesGrows
<1>2. CASE c \notin S
  <2> DEFINE all == S \cup {c}
  <2>1. all \ {c} = S /\ c \in all
    BY <1>2
  <2>2. IsFiniteSet(all)
    BY FS_AddElement
  <2>3. ChargedBytes(all) = Cardinality(Units(all)) /\ ChargedBytes(S) = Cardinality(Units(S))
    BY <2>2, ChargedBytesCount
  <2>4. IsFiniteSet(Units(S))
    BY UnitsFinite
  <2>5. Cardinality(Units(all)) = c.bytes + Cardinality(Units(S))
    <3> HIDE DEF all
    <3> QED
      BY <2>1, <2>4, UnitsWithout DEF all
  <2>6. Cardinality(Units(S)) \in Nat
    BY <2>4, FS_CardinalityType
  <2> QED
    BY <2>3, <2>5, <2>6
<1> QED
  BY <1>1, <1>2

-----------------------------------------------------------------------------
(***************************************************************************)
(* Uploads lately.  What the limits promise is about grants; what they are *)
(* decided on are the charges that retention left.  A handler that         *)
(* reserves within ReserveWithin of the time it read finds every grant     *)
(* that still counts at that time charged, and while its transaction is    *)
(* open nobody purges one.                                                 *)
(***************************************************************************)
ReservesInTime ==
  \A r \in Requests : requests[r].pc = "reserve" => clock <= requests[r].now + ReserveWithin

Counts(c, t) == t - Hour <= c.at \/ DayStart(t) <= c.at

CountedIsCharged ==
  \A r \in Requests : requests[r].pc = "acquire" =>
    \A c \in Grants : Counts(c, requests[r].now) => c \in charges

HoursWithin ==
  \A p \in Principals, t \in Nat :
    /\ Cardinality(ChargesOf("local", GrantsBy(p, t))) <= LocalLimits.uploadsPerHour
    /\ Cardinality(ChargesOf("github", GrantsBy(p, t))) <= GithubLimits.uploadsPerHour

DaysWithin ==
  \A a \in Accounts, d \in Nat :
    /\ Cardinality(ChargesOf("local", GrantsOn(d, a))) <= LocalLimits.uploadsPerDay
    /\ Cardinality(ChargesOf("github", GrantsOn(d, a))) <= GithubLimits.uploadsPerDay
    /\ ChargedBytes(ChargesOf("local", GrantsOn(d, a))) <= LocalLimits.bytesPerDay
    /\ ChargedBytes(ChargesOf("github", GrantsOn(d, a))) <= GithubLimits.bytesPerDay

GrantsFinite == IsFiniteSet(Grants)

RatesInv == ReservesInTime /\ CountedIsCharged /\ GrantsFinite /\ HoursWithin /\ DaysWithin

RatesHold == TypeOK /\ ArrivalsPast /\ ChargeInv /\ RatesInv

(***************************************************************************)
(* A charge is a grant, and grants only ever grow, one by one.             *)
(***************************************************************************)
LEMMA ChargesAreGrants ==
  ASSUME ChargeInv
  PROVE  charges \subseteq Grants
BY DEF ChargeInv, ChargesPlaced, Grants

LEMMA GrantCases ==
  ASSUME TypeOK, ChargeInv, [Next]_vars
  PROVE  \/ Grants' = Grants /\ \A r \in Requests : ~AcquireGrant(r)
         \/ \E r \in Requests : AcquireGrant(r) /\ Grants' = Grants \cup {Charge(r)}
<1>0. \A r \in Requests : requests[r].granted \in BOOLEAN
  BY DEF TypeOK, RequestStates
<1>1. ASSUME NEW q \in Requests, requests[q].granted
      PROVE  requests'[q].granted /\ Charge(q)' = Charge(q)
  <2>1. requests[q].pc \notin Early
    BY <1>1 DEF ChargeInv, GrantsPast
  <2>2. GoesOn(q)
    BY <2>1, RequestsGoOn DEF Early, Arrives, Reserved, AcquireGrant
  <2> QED
    BY <1>1, <2>1, <2>2 DEF GoesOn, CommandStays, Early, Charge
<1>2. ASSUME NEW q \in Requests, ~requests[q].granted, requests'[q].granted
      PROVE  AcquireGrant(q)
  BY <1>2, RequestsGoOn DEF GoesOn, Arrives, Reserved
<1>3. ASSUME NEW r \in Requests, AcquireGrant(r)
      PROVE  /\ requests'[r].granted /\ Charge(r)' = Charge(r)
             /\ \A q \in Requests : AcquireGrant(q) => q = r
  <2>1. requests[r].pc = "acquire" /\ \A q \in Requests : AcquireGrant(q) => q = r
    BY <1>3 DEF AcquireGrant
  <2>2. requests'[r].granted
    BY <1>3 DEF AcquireGrant, TypeOK, RequestStates
  <2> QED
    BY <2>1, <2>2, CommandsStay DEF CommandStays, Charge
<1>4. CASE \A r \in Requests : ~AcquireGrant(r)
  <2>1. \A q \in Requests : requests'[q].granted <=> requests[q].granted
    BY <1>0, <1>1, <1>2, <1>4
  <2> QED
    BY <1>1, <1>4, <2>1 DEF Grants
<1>5. ASSUME NEW r \in Requests, AcquireGrant(r) PROVE Grants' = Grants \cup {Charge(r)}
  <2>1. \A q \in Requests : requests'[q].granted <=> requests[q].granted \/ q = r
    BY <1>0, <1>1, <1>2, <1>3, <1>5
  <2>2. \A q \in Requests : requests'[q].granted => Charge(q)' = Charge(q)
    BY <1>1, <1>3, <1>5, <2>1
  <2> QED
    BY <1>5, <2>1, <2>2 DEF Grants
<1> QED
  BY <1>4, <1>5

LEMMA GrantOf ==
  ASSUME TypeOK, ChargeInv, [Next]_vars, NEW r \in Requests, AcquireGrant(r)
  PROVE  Grants' = Grants \cup {Charge(r)}
<1>1. PICK q \in Requests : AcquireGrant(q) /\ Grants' = Grants \cup {Charge(q)}
  BY GrantCases
<1>2. q = r
  BY <1>1 DEF AcquireGrant
<1> QED
  BY <1>1, <1>2

LEMMA GrantsStep ==
  ASSUME RatesHold, [Next]_vars
  PROVE  GrantsFinite'
BY GrantCases, FS_AddElement DEF RatesHold, RatesInv, GrantsFinite

LEMMA OnlyTicksAdvance ==
  ASSUME TypeOK, [Next]_vars, ~Tick
  PROVE  clock' = clock
<1>1. ASSUME NEW r \in Requests, HandlerStep(r) \/ Abandon(r) PROVE clock' = clock
  BY <1>1, HandlerFrame
<1>2. ASSUME NEW r \in Requests, NEW cmd \in Commands, Receive(r, cmd) PROVE clock' = clock
  BY <1>2 DEF Receive
<1>3. Crash \/ DeletionStep \/ RetentionCleanup \/ UNCHANGED vars => clock' = clock
  BY DEF Crash, DeletionStep, DeleteScan, BeginDeletion, DeleteListedScans, DeleteProject,
       DeleteProjectAborts, RetentionCleanup, vars
<1> QED
  BY <1>1, <1>2, <1>3 DEF Next

LEMMA InTimeStep ==
  ASSUME RatesHold, [Next]_vars
  PROVE  ReservesInTime'
<1> SUFFICES ASSUME NEW q \in Requests, requests'[q].pc = "reserve"
             PROVE  clock' <= requests'[q].now + ReserveWithin
  BY DEF ReservesInTime
<1>0. /\ clock \in Nat /\ ReserveWithin \in Nat
      /\ requests[q].now \in Nat
  BY IngestAssumption DEF RatesHold, TypeOK, RequestStates
<1>1. CASE Tick
  <2>1. requests' = requests /\ clock' = clock + 1
    BY <1>1 DEF Tick
  <2>2. clock + 1 <= requests[q].now + ReserveWithin
    BY <1>1, <2>1 DEF Tick
  <2> QED
    BY <2>1, <2>2
<1>2. CASE ~Tick
  <2>1. clock' = clock
    BY <1>2, OnlyTicksAdvance DEF RatesHold
  <2>2. CASE GoesOn(q)
    <3>1. requests[q].pc = "reserve" /\ requests'[q].now = requests[q].now
      BY <2>2 DEF GoesOn, Early, CommandStays
    <3> QED
      BY <2>1, <3>1 DEF RatesHold, RatesInv, ReservesInTime
  <2>3. CASE Arrives(q)
    BY <1>0, <2>3 DEF Arrives
  <2> QED
    BY <2>2, <2>3, RequestsGoOn DEF RatesHold, Reserved
<1> QED
  BY <1>1, <1>2

(***************************************************************************)
(* At the time a handler reserves, a grant that counts for it is charged.  *)
(***************************************************************************)
LEMMA CountedOnReserve ==
  ASSUME RatesHold, NEW q \in Requests, requests[q].pc = "reserve",
         NEW c \in Grants, Counts(c, requests[q].now)
  PROVE  c \in charges
<1>1. PICK r \in Requests : requests[r].granted /\ c = Charge(r)
  BY DEF Grants
<1>2. c.request = r /\ c.at = requests[r].now
  BY <1>1 DEF Charge
<1>3. /\ clock \in Nat /\ requests[q].now \in Nat /\ requests[r].now \in Nat
      /\ clock <= requests[q].now + ReserveWithin
  BY DEF RatesHold, RatesInv, TypeOK, RequestStates, ReservesInTime
<1>4. /\ Hour \in Nat /\ Day \in Nat /\ Day # 0 /\ ReserveWithin \in Nat /\ ChargeRetention \in Nat
      /\ Hour + ReserveWithin < ChargeRetention /\ Day + ReserveWithin <= ChargeRetention
  BY IngestAssumption
<1>5. requests[q].now - Day < DayStart(requests[q].now) /\ DayStart(requests[q].now) \in Int
  <2>1. requests[q].now % Day \in 0 .. (Day - 1)
    BY <1>3, <1>4
  <2> QED
    BY <1>3, <1>4, <2>1 DEF DayStart
<1>6. clock < requests[r].now + ChargeRetention
  BY <1>2, <1>3, <1>4, <1>5 DEF Counts
<1>7. PICK e \in charges : e.request = r
  BY <1>1, <1>6 DEF RatesHold, ChargeInv, ChargedWhileKept
<1> QED
  BY <1>1, <1>7 DEF RatesHold, ChargeInv, ChargesPlaced

LEMMA CountedStep ==
  ASSUME RatesHold, [Next]_vars
  PROVE  CountedIsCharged'
<1> SUFFICES ASSUME NEW q \in Requests, requests'[q].pc = "acquire",
                    NEW c \in Grants', Counts(c, requests'[q].now)
             PROVE  c \in charges'
  BY DEF CountedIsCharged, Counts, DayStart
<1>0. TypeOK /\ ChargeInv
  BY DEF RatesHold
<1>1. ASSUME \A r \in Requests : ~AcquireGrant(r) PROVE c \in Grants
  BY <1>0, <1>1, GrantCases
<1>2. CASE GoesOn(q)
  <2>1. requests[q].pc = "acquire" /\ requests'[q].now = requests[q].now
    BY <1>2 DEF GoesOn, Early, CommandStays
  <2>2. writer = q
    BY <2>1 DEF RatesHold, ChargeInv, WriterHolds
  <2>3. ~AcquireGrant(q)
    <3>1. requests \in [Requests -> RequestStates]
      BY <1>0 DEF TypeOK
    <3> QED
      BY <3>1 DEF AcquireGrant, RequestStates
  <2>4. UNCHANGED charges
    BY <1>0, <2>1, <2>2, <2>3, WriterExcludes
  <2>5. \A r \in Requests : ~AcquireGrant(r)
    BY <2>2, <2>3 DEF AcquireGrant
  <2> QED
    BY <1>1, <2>1, <2>4, <2>5 DEF RatesHold, RatesInv, CountedIsCharged
<1>3. ASSUME ReserveNoWork(q) \/ ReserveCharge(q)
      PROVE  c \in charges'
  <2>1. /\ requests[q].pc = "reserve" /\ UNCHANGED charges /\ writer = None
        /\ CommandStays(q)
    BY <1>0, <1>3, CommandsStay DEF ReserveNoWork, ReserveCharge
  <2>2. \A r \in Requests : ~AcquireGrant(r)
    BY <2>1, IngestAssumption DEF AcquireGrant
  <2> QED
    BY <1>1, <2>1, <2>2, CountedOnReserve DEF CommandStays
<1> QED
  BY <1>0, <1>2, <1>3, RequestsGoOn DEF Arrives

LEMMA ChargeTimes ==
  ASSUME TypeOK, ChargeInv, NEW c \in Grants
  PROVE  c.at \in Nat /\ c.bytes \in Nat /\ c.origin \in {"local", "github"}
<1>1. PICK r \in Requests : requests[r].granted /\ c = Charge(r)
  BY DEF Grants
<1>2. requests[r].now \in Nat /\ requests[r].pc # "idle"
  BY <1>1 DEF TypeOK, RequestStates, ChargeInv, GrantsPast, Early
<1>3. requests[r].cmd \in Commands
  BY <1>1, <1>2, RequestTypes
<1> QED
  BY <1>1, <1>2, <1>3, IngestAssumption DEF Charge

(***************************************************************************)
(* The window a limit is counted in when an upload is granted holds every  *)
(* earlier grant of any window that the new one falls into; so the windows *)
(* of other moments are bounded too.                                       *)
(***************************************************************************)
LEMMA HourStep ==
  ASSUME RatesHold, [Next]_vars, NEW p, NEW t \in Nat, NEW o, NEW n \in Nat,
         \/ o = "local" /\ n = LocalLimits.uploadsPerHour
         \/ o = "github" /\ n = GithubLimits.uploadsPerHour,
         Cardinality(ChargesOf(o, GrantsBy(p, t))) <= n
  PROVE  Cardinality(ChargesOf(o, GrantsBy(p, t)')) <= n
<1>0. TypeOK /\ ArrivalsPast /\ ChargeInv /\ IsFiniteSet(Grants) /\ charges \subseteq Grants /\ Hour \in Nat
  BY TimesPositive, ChargesAreGrants DEF RatesHold, RatesInv, GrantsFinite
<1>1. IsFiniteSet(ChargesOf(o, GrantsBy(p, t)))
  BY <1>0, FS_Subset DEF ChargesOf, GrantsBy
<1>2. ASSUME NEW r \in Requests, AcquireGrant(r),
             Charge(r) \in ChargesOf(o, GrantsBy(p, t)')
      PROVE  Cardinality(ChargesOf(o, GrantsBy(p, t)')) <= n
  <2> DEFINE cmd == requests[r].cmd
             now == requests[r].now
             counted == PrincipalCharges(charges, cmd, now)
  <2>1. /\ cmd.origin = o /\ cmd.principal = p /\ now <= t /\ t - Hour <= now
    BY <1>2 DEF ChargesOf, GrantsBy, Charge
  <2>2. /\ now \in Nat /\ Cardinality(counted) < n /\ Grants' = Grants \cup {Charge(r)}
        /\ requests[r].pc = "acquire"
    BY <1>0, <1>2, <2>1, GrantQuota, GrantOf DEF AcquireGrant
  <2>3. IsFiniteSet(counted)
    BY <1>0, FS_Subset DEF PrincipalCharges
  <2>4. ASSUME NEW c \in Grants, c.origin = o, c.principal = p, t - Hour <= c.at, c.at <= t
        PROVE  c \in counted
    <3>1. c.at \in Nat /\ now - Hour <= c.at
      BY <1>0, <2>1, <2>2, <2>4, ChargeTimes
    <3>2. c \in charges
      BY <2>2, <3>1 DEF RatesHold, RatesInv, CountedIsCharged, Counts
    <3> QED
      BY <1>0, <2>1, <2>2, <2>4, <3>1, <3>2 DEF PrincipalCharges
  <2>5. ChargesOf(o, GrantsBy(p, t)') \subseteq counted \cup {Charge(r)}
    BY <2>2, <2>4 DEF ChargesOf, GrantsBy
  <2> QED
    BY <2>2, <2>3, <2>5, CountGrows
<1>3. ASSUME \A r \in Requests : AcquireGrant(r) => Charge(r) \notin ChargesOf(o, GrantsBy(p, t)')
      PROVE  Cardinality(ChargesOf(o, GrantsBy(p, t)')) <= n
  <2>1. ASSUME NEW c \in ChargesOf(o, GrantsBy(p, t)') PROVE c \in Grants
    BY <1>0, <1>3, <2>1, GrantCases DEF ChargesOf, GrantsBy
  <2>2. ChargesOf(o, GrantsBy(p, t)') \subseteq ChargesOf(o, GrantsBy(p, t))
    BY <2>1 DEF ChargesOf, GrantsBy
  <2> QED
    BY <1>1, <2>2, CountStays
<1> QED
  BY <1>2, <1>3

LEMMA DayStartBefore ==
  ASSUME NEW t \in Nat
  PROVE  DayStart(t) <= t /\ DayStart(t) \in Int
<1>1. Day \in Nat \ {0}
  BY IngestAssumption
<1>2. t % Day \in 0 .. (Day - 1)
  BY <1>1
<1> QED
  BY <1>1, <1>2 DEF DayStart

(***************************************************************************)
(* The grants of a day after a step: those from before, or with the new    *)
(* one, all among the charges that its limits were checked on.             *)
(***************************************************************************)
LEMMA DayCases ==
  ASSUME RatesHold, [Next]_vars, NEW a, NEW d \in Nat, NEW o
  PROVE  \/ ChargesOf(o, GrantsOn(d, a)') \subseteq ChargesOf(o, GrantsOn(d, a))
         \/ \E r \in Requests :
              /\ AcquireGrant(r) /\ requests[r].cmd.origin = o
              /\ ChargesOf(o, GrantsOn(d, a)') \subseteq
                   AccountCharges(charges, requests[r].cmd, requests[r].now) \cup {Charge(r)}
<1>0. TypeOK /\ ArrivalsPast /\ ChargeInv
  BY DEF RatesHold
<1>1. ASSUME NEW r \in Requests, AcquireGrant(r),
             Charge(r) \in ChargesOf(o, GrantsOn(d, a)')
      PROVE  /\ requests[r].cmd.origin = o
             /\ ChargesOf(o, GrantsOn(d, a)') \subseteq
                  AccountCharges(charges, requests[r].cmd, requests[r].now) \cup {Charge(r)}
  <2> DEFINE cmd == requests[r].cmd
             now == requests[r].now
             counted == AccountCharges(charges, cmd, now)
  <2>1. /\ cmd.origin = o /\ cmd.account = a /\ DayStart(now) = DayStart(d)
    BY <1>1 DEF ChargesOf, GrantsOn, Charge
  <2>2. Grants' = Grants \cup {Charge(r)} /\ requests[r].pc = "acquire"
    BY <1>0, <1>1, GrantOf DEF AcquireGrant
  <2>3. ASSUME NEW c \in Grants, c.origin = o, c.account = a, DayStart(c.at) = DayStart(d)
        PROVE  c \in counted
    <3>1. DayStart(c.at) <= c.at
      BY <1>0, <2>3, ChargeTimes, DayStartBefore
    <3>2. c \in charges
      BY <2>1, <2>2, <2>3, <3>1 DEF RatesHold, RatesInv, CountedIsCharged, Counts
    <3> QED
      BY <2>1, <2>3, <3>1, <3>2 DEF AccountCharges
  <2> QED
    BY <2>1, <2>2, <2>3 DEF ChargesOf, GrantsOn
<1>2. ASSUME \A r \in Requests :
               AcquireGrant(r) => Charge(r) \notin ChargesOf(o, GrantsOn(d, a)')
      PROVE  ChargesOf(o, GrantsOn(d, a)') \subseteq ChargesOf(o, GrantsOn(d, a))
  <2>1. ASSUME NEW c \in ChargesOf(o, GrantsOn(d, a)') PROVE c \in Grants
    BY <1>0, <1>2, <2>1, GrantCases DEF ChargesOf, GrantsOn
  <2> QED
    BY <2>1 DEF ChargesOf, GrantsOn
<1> QED
  BY <1>1, <1>2

LEMMA DayStep ==
  ASSUME RatesHold, [Next]_vars, NEW a, NEW d \in Nat, NEW o, NEW n \in Nat,
         \/ o = "local" /\ n = LocalLimits.uploadsPerDay
         \/ o = "github" /\ n = GithubLimits.uploadsPerDay,
         Cardinality(ChargesOf(o, GrantsOn(d, a))) <= n
  PROVE  Cardinality(ChargesOf(o, GrantsOn(d, a)')) <= n
<1>0. TypeOK /\ ArrivalsPast /\ ChargeInv /\ IsFiniteSet(Grants) /\ charges \subseteq Grants
  BY ChargesAreGrants DEF RatesHold, RatesInv, GrantsFinite
<1>1. ASSUME NEW r \in Requests, AcquireGrant(r), requests[r].cmd.origin = o,
             ChargesOf(o, GrantsOn(d, a)') \subseteq
               AccountCharges(charges, requests[r].cmd, requests[r].now) \cup {Charge(r)}
      PROVE  Cardinality(ChargesOf(o, GrantsOn(d, a)')) <= n
  <2> DEFINE counted == AccountCharges(charges, requests[r].cmd, requests[r].now)
  <2>1. IsFiniteSet(counted)
    BY <1>0, FS_Subset DEF AccountCharges
  <2>2. Cardinality(counted) < n
    BY <1>0, <1>1, GrantQuota
  <2> QED
    BY <1>1, <2>1, <2>2, CountGrows
<1>2. IsFiniteSet(ChargesOf(o, GrantsOn(d, a)))
  BY <1>0, FS_Subset DEF ChargesOf, GrantsOn
<1> QED
  BY <1>1, <1>2, DayCases, CountStays

LEMMA BytesStep ==
  ASSUME RatesHold, [Next]_vars, NEW a, NEW d \in Nat, NEW o, NEW n \in Nat,
         \/ o = "local" /\ n = LocalLimits.bytesPerDay
         \/ o = "github" /\ n = GithubLimits.bytesPerDay,
         ChargedBytes(ChargesOf(o, GrantsOn(d, a))) <= n
  PROVE  ChargedBytes(ChargesOf(o, GrantsOn(d, a)')) <= n
<1>0. TypeOK /\ ArrivalsPast /\ ChargeInv /\ IsFiniteSet(Grants) /\ charges \subseteq Grants
  BY ChargesAreGrants DEF RatesHold, RatesInv, GrantsFinite
<1>1. ASSUME NEW r \in Requests, AcquireGrant(r), requests[r].cmd.origin = o,
             ChargesOf(o, GrantsOn(d, a)') \subseteq
               AccountCharges(charges, requests[r].cmd, requests[r].now) \cup {Charge(r)}
      PROVE  ChargedBytes(ChargesOf(o, GrantsOn(d, a)')) <= n
  <2> DEFINE counted == AccountCharges(charges, requests[r].cmd, requests[r].now)
             all == counted \cup {Charge(r)}
             today == ChargesOf(o, GrantsOn(d, a)')
  <2>1. IsFiniteSet(counted)
    BY <1>0, FS_Subset DEF AccountCharges
  <2>2. requests[r].cmd.bytes \in Nat /\ Charge(r).bytes = requests[r].cmd.bytes
    BY <1>0, <1>1, RequestTypes, CommandTypes DEF AcquireGrant, Charge
  <2>3. \A c \in all : c.bytes \in Nat
    BY <1>0, <2>2, ChargeTimes DEF AccountCharges
  <2>4. ChargedBytes(counted) + requests[r].cmd.bytes <= n
    BY <1>0, <1>1, GrantQuota
  <2> HIDE DEF counted
  <2>5. ChargedBytes(all) <= ChargedBytes(counted) + Charge(r).bytes
    BY <2>1, <2>3, ChargedBytesAdd
  <2>6. IsFiniteSet(all)
    BY <2>1, FS_AddElement
  <2>7. ChargedBytes(counted) \in Nat
    BY <2>1, <2>3, ChargedBytesGrows
  <2>8. today \in SUBSET all
    BY <1>1 DEF counted
  <2> HIDE DEF all, today
  <2>9. ChargedBytes(all) \in Nat /\ ChargedBytes(today) \in Nat
        /\ ChargedBytes(today) <= ChargedBytes(all)
    BY <2>3, <2>6, <2>8, ChargedBytesGrows
  <2>10. ChargedBytes(today) <= n
    BY <2>2, <2>4, <2>5, <2>7, <2>9
  <2> QED
    BY <2>10 DEF today
<1>2. ASSUME ChargesOf(o, GrantsOn(d, a)') \subseteq ChargesOf(o, GrantsOn(d, a))
      PROVE  ChargedBytes(ChargesOf(o, GrantsOn(d, a)')) <= n
  <2> DEFINE before == ChargesOf(o, GrantsOn(d, a))
             today == ChargesOf(o, GrantsOn(d, a)')
  <2>1. IsFiniteSet(before) /\ \A c \in before : c.bytes \in Nat
    BY <1>0, FS_Subset, ChargeTimes DEF ChargesOf, GrantsOn
  <2>2. today \in SUBSET before
    BY <1>2
  <2> HIDE DEF before, today
  <2>3. ChargedBytes(before) \in Nat /\ ChargedBytes(today) \in Nat
        /\ ChargedBytes(today) <= ChargedBytes(before)
    BY <2>1, <2>2, ChargedBytesGrows
  <2> QED
    BY <2>3 DEF before, today
<1> QED
  BY <1>1, <1>2, DayCases

(***************************************************************************)
(* No hour sees more uploads and no day more uploads or bytes than the     *)
(* limits, in whatever order the handlers that read the clock come to      *)
(* reserve.                                                                *)
(***************************************************************************)
THEOREM RatesStayWithin == Spec => []RatesWithinLimits
<1>1. Init => RatesInv
  <2> SUFFICES ASSUME Init PROVE RatesInv
    OBVIOUS
  <2>1. /\ Grants = {} /\ IsFiniteSet({}) /\ Cardinality({}) = 0
        /\ \A r \in Requests : requests[r].pc = "idle"
    BY FS_EmptySet DEF Init, NewRequest, Grants
  <2>2. /\ \A o, p, t : ChargesOf(o, GrantsBy(p, t)) = {}
        /\ \A o, a, d : ChargesOf(o, GrantsOn(d, a)) = {}
    BY <2>1 DEF ChargesOf, GrantsBy, GrantsOn
  <2>3. ChargedBytes({}) = 0
    BY NothingCharged
  <2>4. HoursWithin
    BY <2>1, <2>2, LimitTypes DEF HoursWithin
  <2>5. DaysWithin
    BY <2>1, <2>2, <2>3, LimitTypes DEF DaysWithin
  <2>6. ReservesInTime /\ CountedIsCharged /\ GrantsFinite
    BY <2>1 DEF ReservesInTime, CountedIsCharged, GrantsFinite
  <2> QED
    BY <2>4, <2>5, <2>6 DEF RatesInv
<1>2. RatesHold /\ [Next]_vars => RatesInv'
  <2> SUFFICES ASSUME RatesHold, [Next]_vars
               PROVE  RatesInv'
    OBVIOUS
  <2>1. HoursWithin /\ DaysWithin
    BY DEF RatesHold, RatesInv
  <2>2. HoursWithin'
    <3>1. ASSUME NEW p \in Principals, NEW t \in Nat
          PROVE  /\ Cardinality(ChargesOf("local", GrantsBy(p, t)')) <= LocalLimits.uploadsPerHour
                 /\ Cardinality(ChargesOf("github", GrantsBy(p, t)')) <= GithubLimits.uploadsPerHour
      BY <2>1, LimitTypes, HourStep DEF HoursWithin
    <3> QED
      BY <3>1 DEF HoursWithin, ChargesOf
  <2>3. DaysWithin'
    <3>1. ASSUME NEW a \in Accounts, NEW d \in Nat
          PROVE  /\ Cardinality(ChargesOf("local", GrantsOn(d, a)')) <= LocalLimits.uploadsPerDay
                 /\ Cardinality(ChargesOf("github", GrantsOn(d, a)'))
                      <= GithubLimits.uploadsPerDay
      BY <2>1, LimitTypes, DayStep DEF DaysWithin
    <3>2. ASSUME NEW a \in Accounts, NEW d \in Nat
          PROVE  /\ ChargedBytes(ChargesOf("local", GrantsOn(d, a)')) <= LocalLimits.bytesPerDay
                 /\ ChargedBytes(ChargesOf("github", GrantsOn(d, a)'))
                      <= GithubLimits.bytesPerDay
      BY <2>1, LimitTypes, BytesStep DEF DaysWithin
    <3> QED
      BY <3>1, <3>2 DEF DaysWithin, ChargesOf
  <2> QED
    BY <2>2, <2>3, GrantsStep, InTimeStep, CountedStep DEF RatesInv
<1>3. ASSUME RatesHold PROVE RatesWithinLimits
  <2>1. HoursWithin /\ DaysWithin /\ clock \in Nat
    BY <1>3 DEF RatesHold, RatesInv, TypeOK
  <2>2. \A t \in 0 .. clock : t \in Nat
    BY <2>1
  <2>3. HourlyUploads
    BY <2>1, <2>2 DEF HoursWithin, HourlyUploads
  <2>4. DailyUploads
    BY <2>1, <2>2 DEF DaysWithin, DailyUploads
  <2>5. DailyBytes
    BY <2>1, <2>2 DEF DaysWithin, DailyBytes
  <2> QED
    BY <2>3, <2>4, <2>5 DEF RatesWithinLimits
<1>4. IInv => TypeOK /\ ArrivalsPast
  BY DEF IInv
<1>5. RatesHold <=> TypeOK /\ ArrivalsPast /\ ChargeInv /\ RatesInv
  BY DEF RatesHold
<1> QED
  BY <1>1, <1>2, <1>3, <1>4, <1>5, Invariance, ChargeInvariance, PTL DEF Spec
=============================================================================
