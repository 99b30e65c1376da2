------------------------ MODULE IngestServiceProofs ------------------------
(***************************************************************************)
(* Theorems of IngestService, for every set of requests, keys, commands,   *)
(* limits and retention times.                                             *)
(***************************************************************************)
EXTENDS IngestService, TLAPS

(***************************************************************************)
(* The rows and records that the actions write have their types.           *)
(***************************************************************************)
LEMMA CommandTypes ==
  ASSUME NEW c \in Commands
  PROVE  /\ c.project \in Projects /\ c.account \in Accounts
         /\ c.principal \in Principals /\ c.payload \in Payloads
         /\ c.bytes \in Nat /\ c.size \in Nat
         /\ c.origin \in {"local", "github"}
         /\ c.key \in Keys
         /\ c.origin = "local" => c.key \in LocalKeys
         /\ c.origin # "local" => c.key \in GithubKeys
BY IngestAssumption DEF Projects, Accounts, Principals, Payloads, Keys

LEMMA TimesPositive ==
  /\ Lease \in Nat \ {0} /\ Hour \in Nat \ {0} /\ Day \in Nat \ {0}
  /\ Tombstone \in Nat \ {0} /\ RawRetention \in Nat \ {0} /\ HistoryRetention \in Nat \ {0}
  /\ AttemptRetention \in Nat \ {0} /\ ChargeRetention \in Nat \ {0}
BY IngestAssumption

LEMMA RowTypes ==
  ASSUME TypeOK, NEW k \in Keys
  PROVE  /\ NoClaim \in ClaimRows
         /\ \A r \in Requests, c \in Commands, t \in Nat :
              NewRow(c, None, r, t) \in ClaimRows
         /\ \A r \in Requests, c \in Commands, t \in Nat :
              LocalTakeOver(claims[k], c, None, r, t) \in ClaimRows
         /\ \A r \in Requests, c \in Commands, t \in Nat :
              GithubTakeOver(claims[k], c, None, r, t) \in ClaimRows
         /\ \A id \in RunIds : CompletedRow(claims[k], None, id) \in ClaimRows
         /\ FailedRow(claims[k], None) \in ClaimRows
         /\ \A t \in Nat : TombstonedRow(claims[k], None, t) \in ClaimRows
<1>0. claims[k] \in ClaimRows
  BY DEF TypeOK
<1>1. NoClaim \in ClaimRows
  BY DEF NoClaim, ClaimRows, ClaimStates
<1>2. \A r \in Requests, c \in Commands, t \in Nat : NewRow(c, None, r, t) \in ClaimRows
  BY CommandTypes DEF NewRow, ClaimRows, ClaimStates
<1>3. \A r \in Requests, c \in Commands, t \in Nat :
        LocalTakeOver(claims[k], c, None, r, t) \in ClaimRows
  BY <1>0, CommandTypes DEF LocalTakeOver, ClaimRows, ClaimStates
<1>4. \A r \in Requests, c \in Commands, t \in Nat :
        GithubTakeOver(claims[k], c, None, r, t) \in ClaimRows
  BY <1>0, CommandTypes DEF GithubTakeOver, ClaimRows, ClaimStates
<1>5. \A id \in RunIds : CompletedRow(claims[k], None, id) \in ClaimRows
  BY <1>0 DEF CompletedRow, ClaimRows, ClaimStates
<1>6. FailedRow(claims[k], None) \in ClaimRows
  BY <1>0 DEF FailedRow, ClaimRows, ClaimStates
<1>7. \A t \in Nat : TombstonedRow(claims[k], None, t) \in ClaimRows
  BY <1>0 DEF TombstonedRow, ClaimRows, ClaimStates
<1> QED
  BY <1>1, <1>2, <1>3, <1>4, <1>5, <1>6, <1>7

(***************************************************************************)
(* A request beyond idle has a command, and the ids it derives from it.    *)
(***************************************************************************)
LEMMA RequestTypes ==
  ASSUME TypeOK, NEW r \in Requests, requests[r].pc # "idle"
  PROVE  /\ requests[r] \in RequestStates
         /\ requests[r].cmd \in Commands
         /\ requests[r].cmd.key \in Keys
         /\ requests[r].now \in Nat
         /\ RunIdOf(r) \in RunIds
         /\ RunRecord(r) \in RunRows
         /\ Charge(r) \in ChargeRows
         /\ \A outcome \in {"accepted", "replayed", "rejected", "failed_internal"} :
              \A run \in RunIds \cup {None} : Attempt(r, outcome, run) \in AttemptRows
         /\ GrantedRow(r) \in ClaimRows
         /\ Decision(r) \in {"free", "replayed", "in_progress", "conflict", "tombstoned"}
<1>1. requests[r] \in RequestStates /\ requests[r].cmd \in Commands
  BY DEF TypeOK
<1>2. requests[r].cmd.key \in Keys /\ requests[r].now \in Nat
  BY <1>1, CommandTypes DEF RequestStates
<1>3. RunIdOf(r) \in RunIds
  BY <1>1, CommandTypes DEF RunIdOf, RunIds
<1>4. RunRecord(r) \in RunRows
  BY <1>1, <1>2, CommandTypes DEF RunRecord, RunRows, TypeOK
<1>5. Charge(r) \in ChargeRows
  BY <1>1, <1>2, CommandTypes DEF Charge, ChargeRows
<1>6. \A outcome \in {"accepted", "replayed", "rejected", "failed_internal"} :
        \A run \in RunIds \cup {None} : Attempt(r, outcome, run) \in AttemptRows
  BY <1>2, TimesPositive DEF Attempt, AttemptRows
<1>7. GrantedRow(r) \in ClaimRows
  <2>1. requests[r].now + Lease \in Nat
    BY <1>2, TimesPositive
  <2> QED
    BY <1>1, <1>2, <2>1, RowTypes DEF GrantedRow
<1>8. Decision(r) \in {"free", "replayed", "in_progress", "conflict", "tombstoned"}
  BY DEF Decision, LocalExistingDecision, GithubExistingDecision
<1> QED
  BY <1>1, <1>2, <1>3, <1>4, <1>5, <1>6, <1>7, <1>8

-----------------------------------------------------------------------------
(***************************************************************************)
(* Type correctness.                                                       *)
(***************************************************************************)
LEMMA PreparedTypes ==
  ASSUME TypeOK, NEW ids, NEW k \in Keys
  PROVE  Prepared(k, ids) \in ClaimRows
<1>1. claims[k] \in ClaimRows /\ clock + Tombstone \in Nat
  BY TimesPositive DEF TypeOK
<1> QED
  BY <1>1, RowTypes DEF Prepared

LEMMA RemoveTypes ==
  ASSUME TypeOK, NEW listed, NEW ids, Remove(listed, ids)
  PROVE  /\ claims' \in [Keys -> ClaimRows]
         /\ runs' \in [RunIds -> RunRows]
         /\ attempts' \in [Requests -> AttemptRows]
<1>1. claims' \in [Keys -> ClaimRows]
  BY PreparedTypes DEF Remove
<1>2. NoRun \in RunRows
  BY DEF NoRun, RunRows
<1>3. runs' \in [RunIds -> RunRows]
  BY <1>2 DEF Remove, TypeOK
<1>4. \A r \in Requests : Detached(r, ids) \in AttemptRows
  BY DEF Detached, AttemptRows, TypeOK
<1>5. attempts' \in [Requests -> AttemptRows]
  BY <1>4 DEF Remove
<1> QED
  BY <1>1, <1>3, <1>5

LEMMA NoDeletionTypes == NoDeletion \in Deletions /\ NoDeletion.kind = "none"
BY DEF NoDeletion, Deletions

LEMMA TypeInit == Init => TypeOK
<1> SUFFICES ASSUME Init PROVE TypeOK
  OBVIOUS
<1>1. NoClaim \in ClaimRows
  BY DEF NoClaim, ClaimRows, ClaimStates
<1>2. NoRun \in RunRows
  BY DEF NoRun, RunRows
<1>3. NoAttempt \in AttemptRows
  BY DEF NoAttempt, AttemptRows
<1>4. NewRequest \in RequestStates /\ NewRequest.pc = "idle"
  BY DEF NewRequest, RequestStates
<1> QED
  BY <1>1, <1>2, <1>3, <1>4, NoDeletionTypes DEF Init, TypeOK

(***************************************************************************)
(* Writing the fields of one request keeps the requests well typed.        *)
(***************************************************************************)
RequestsTyped ==
  /\ requests \in [Requests -> RequestStates]
  /\ \A r \in Requests : requests[r].pc # "idle" => requests[r].cmd \in Commands

LEMMA RequestWritten ==
  ASSUME TypeOK, NEW r \in Requests, NEW q \in RequestStates, q.cmd \in Commands,
         requests' = [requests EXCEPT ![r] = q]
  PROVE  RequestsTyped'
BY DEF TypeOK, RequestsTyped

LEMMA FinishWrites ==
  ASSUME TypeOK, NEW r \in Requests, requests[r].pc # "idle",
         NEW outcome \in {"error", "lost", "quota"}, Finish(r, outcome)
  PROVE  RequestsTyped'
<1> DEFINE q == [requests[r] EXCEPT !.pc = "done", !.outcome = outcome]
<1>1. q \in RequestStates /\ q.cmd \in Commands
  BY RequestTypes DEF RequestStates
<1> QED
  BY <1>1, RequestWritten DEF Finish

LEMMA TypeStep == TypeOK /\ [Next]_vars => TypeOK'
<1> SUFFICES ASSUME TypeOK, [Next]_vars PROVE TypeOK'
  OBVIOUS
<1>1. ASSUME NEW r \in Requests, NEW cmd \in Commands, Receive(r, cmd) PROVE TypeOK'
  <2> DEFINE found == cmd.project \notin hidden
             q == [requests[r] EXCEPT !.cmd = cmd,
                                      !.now = clock,
                                      !.pc = IF found THEN "reserve" ELSE "done",
                                      !.outcome = IF found THEN "none" ELSE "not_found"]
  <2>1. q \in RequestStates /\ q.cmd = cmd
    BY DEF TypeOK, RequestStates
  <2>2. RequestsTyped'
    BY <1>1, <2>1, RequestWritten DEF Receive
  <2> QED
    BY <1>1, <2>2 DEF Receive, TypeOK, RequestsTyped
<1>2. ASSUME NEW r \in Requests, ReserveNoWork(r) PROVE TypeOK'
  BY <1>2 DEF ReserveNoWork, Goto, TypeOK, RequestStates
<1>3. ASSUME NEW r \in Requests, ReserveCharge(r) PROVE TypeOK'
  <2> DEFINE q == [requests[r] EXCEPT !.pc = "acquire", !.reserved = TRUE]
  <2>1. q \in RequestStates /\ q.cmd \in Commands
    BY <1>3, RequestTypes DEF ReserveCharge, RequestStates
  <2>2. RequestsTyped'
    BY <1>3, <2>1, RequestWritten DEF ReserveCharge
  <2> QED
    BY <1>3, <2>2 DEF ReserveCharge, TypeOK, RequestsTyped
<1>4. ASSUME NEW r \in Requests, ReserveRefuse(r) PROVE TypeOK'
  <2> DEFINE q == [requests[r] EXCEPT !.pc = "record", !.outcome = "quota"]
  <2>1. q \in RequestStates /\ q.cmd \in Commands
    BY <1>4, RequestTypes DEF ReserveRefuse, RequestStates
  <2>2. RequestsTyped'
    BY <1>4, <2>1, RequestWritten DEF ReserveRefuse
  <2> QED
    BY <1>4, <2>2 DEF ReserveRefuse, TypeOK, RequestsTyped
<1>5. ASSUME NEW r \in Requests, AcquireGrant(r) PROVE TypeOK'
  <2>1. GrantedRow(r) \in ClaimRows /\ Charge(r) \in ChargeRows
    BY <1>5, RequestTypes DEF AcquireGrant
  <2>2. claims' \in [Keys -> ClaimRows] /\ charges' \subseteq ChargeRows
    BY <1>5, <2>1 DEF AcquireGrant, TypeOK
  <2> DEFINE q == [requests[r] EXCEPT !.pc = "persist", !.granted = TRUE]
  <2>3. q \in RequestStates /\ q.cmd \in Commands
    BY <1>5, RequestTypes DEF AcquireGrant, RequestStates
  <2>4. RequestsTyped'
    BY <1>5, <2>3, RequestWritten DEF AcquireGrant
  <2> QED
    BY <1>5, <2>2, <2>4 DEF AcquireGrant, TypeOK, RequestsTyped
<1>6. ASSUME NEW r \in Requests, AcquireDecline(r) PROVE TypeOK'
  <2>1. /\ Decision(r) \in {"replayed", "in_progress", "conflict", "tombstoned"}
        /\ claims[requests[r].cmd.key].run \in RunIds \cup {None}
    BY <1>6, RequestTypes DEF AcquireDecline, TypeOK, ClaimRows
  <2> DEFINE q == [requests[r] EXCEPT
                     !.pc = "record",
                     !.outcome = Decision(r),
                     !.run = IF Decision(r) = "replayed" THEN claims[requests[r].cmd.key].run
                                                         ELSE None]
  <2>2. q \in RequestStates /\ q.cmd \in Commands
    BY <1>6, <2>1, RequestTypes DEF AcquireDecline, RequestStates
  <2>3. RequestsTyped'
    BY <1>6, <2>2, RequestWritten DEF AcquireDecline
  <2> QED
    BY <1>6, <2>3 DEF AcquireDecline, TypeOK, RequestsTyped
<1>7. ASSUME NEW r \in Requests, Storable(r), StoreRun(r)
      PROVE  /\ claims' \in [Keys -> ClaimRows]
             /\ runs' \in [RunIds -> RunRows]
             /\ attempts' \in [Requests -> AttemptRows]
  <2>1. /\ requests[r].cmd.key \in Keys /\ RunIdOf(r) \in RunIds
        /\ RunRecord(r) \in RunRows /\ Attempt(r, "accepted", RunIdOf(r)) \in AttemptRows
    BY <1>7, RequestTypes DEF Storable
  <2>2. CompletedRow(claims[requests[r].cmd.key], None, RunIdOf(r)) \in ClaimRows
    BY <2>1, RowTypes
  <2> QED
    BY <1>7, <2>1, <2>2 DEF StoreRun, TypeOK
<1>8. ASSUME NEW r \in Requests, PersistCommit(r) PROVE TypeOK'
  <2>1. RunIdOf(r) \in RunIds
    BY <1>8, RequestTypes DEF PersistCommit, Storable
  <2> DEFINE q == [requests[r] EXCEPT !.pc = "done", !.outcome = "created",
                                      !.run = RunIdOf(r)]
  <2>2. q \in RequestStates /\ q.cmd \in Commands
    BY <1>8, <2>1, RequestTypes DEF PersistCommit, Storable, RequestStates
  <2>3. RequestsTyped'
    BY <1>8, <2>2, RequestWritten DEF PersistCommit
  <2> QED
    BY <1>7, <1>8, <2>3 DEF PersistCommit, TypeOK, RequestsTyped
<1>9. ASSUME NEW r \in Requests, PersistUnacknowledged(r) PROVE TypeOK'
  <2>1. RequestsTyped'
    BY <1>9 DEF PersistUnacknowledged, Goto, TypeOK, RequestStates, RequestsTyped, Storable
  <2> QED
    BY <1>7, <1>9, <2>1 DEF PersistUnacknowledged, TypeOK, RequestsTyped
<1>10. ASSUME NEW r \in Requests, PersistFails(r) PROVE TypeOK'
  BY <1>10 DEF PersistFails, Goto, TypeOK, RequestStates
<1>11. ASSUME NEW r \in Requests, CleanupFail(r) PROVE TypeOK'
  <2>1. requests[r].cmd.key \in Keys
    BY <1>11, RequestTypes DEF CleanupFail
  <2>2. claims' \in [Keys -> ClaimRows]
    BY <1>11, <2>1, RowTypes DEF CleanupFail, TypeOK
  <2>3. RequestsTyped'
    BY <1>11 DEF CleanupFail, Goto, TypeOK, RequestStates, RequestsTyped
  <2> QED
    BY <1>11, <2>2, <2>3 DEF CleanupFail, TypeOK, RequestsTyped
<1>12. ASSUME NEW r \in Requests, CleanupSwallowed(r) PROVE TypeOK'
  BY <1>12 DEF CleanupSwallowed, Goto, TypeOK, RequestStates
<1>13. ASSUME NEW r \in Requests, RecordFailure(r) PROVE TypeOK'
  <2>1. Attempt(r, "failed_internal", None) \in AttemptRows
    BY <1>13, RequestTypes DEF RecordFailure
  <2>2. RequestsTyped'
    BY <1>13, FinishWrites DEF RecordFailure
  <2> QED
    BY <1>13, <2>1, <2>2 DEF RecordFailure, TypeOK, RequestsTyped
<1>14. ASSUME NEW r \in Requests, RecordFailureSwallowed(r) PROVE TypeOK'
  <2>1. RequestsTyped'
    BY <1>14, FinishWrites DEF RecordFailureSwallowed
  <2> QED
    BY <1>14, <2>1 DEF RecordFailureSwallowed, TypeOK, RequestsTyped
<1>15. ASSUME NEW r \in Requests, RecordOutcome(r) PROVE TypeOK'
  <2>1. requests[r].run \in RunIds \cup {None}
    BY DEF TypeOK, RequestStates
  <2>2. Attempt(r, AttemptOutcome(requests[r].outcome), requests[r].run) \in AttemptRows
    BY <1>15, <2>1, RequestTypes DEF RecordOutcome, AttemptOutcome
  <2>3. RequestsTyped'
    BY <1>15 DEF RecordOutcome, Goto, TypeOK, RequestStates, RequestsTyped
  <2> QED
    BY <1>15, <2>2, <2>3 DEF RecordOutcome, TypeOK, RequestsTyped
<1>16. ASSUME NEW r \in Requests, RecordDangling(r) PROVE TypeOK'
  <2>1. RequestsTyped'
    BY <1>16, FinishWrites DEF RecordDangling
  <2> QED
    BY <1>16, <2>1 DEF RecordDangling, TypeOK, RequestsTyped
<1>17. ASSUME NEW r \in Requests, Abandon(r) PROVE TypeOK'
  <2>1. RequestsTyped'
    BY <1>17, FinishWrites DEF Abandon
  <2> QED
    BY <1>17, <2>1 DEF Abandon, TypeOK, RequestsTyped
<1>18. ASSUME Crash PROVE TypeOK'
  <2>1. ASSUME NEW r \in Requests
        PROVE  /\ requests'[r] \in RequestStates
               /\ requests'[r].pc # "idle" => requests'[r].cmd \in Commands
    <3>1. CASE Running(r)
      <4>1. requests[r].pc # "idle"
        BY <3>1 DEF Running
      <4>2. requests'[r] = [requests[r] EXCEPT !.pc = "done", !.outcome = "lost"]
        BY <1>18, <3>1 DEF Crash
      <4> QED
        BY <4>1, <4>2, RequestTypes DEF RequestStates
    <3>2. CASE ~Running(r)
      BY <1>18, <3>2 DEF Crash, TypeOK
    <3> QED
      BY <3>1, <3>2
  <2>2. requests' \in [Requests -> RequestStates]
    BY <1>18, <2>1 DEF Crash
  <2> QED
    BY <1>18, <2>1, <2>2, NoDeletionTypes DEF Crash, TypeOK
<1>19. ASSUME NEW id \in RunIds, DeleteScan(id) PROVE TypeOK'
  BY <1>19, RemoveTypes DEF DeleteScan, TypeOK
<1>20. ASSUME NEW p \in Projects, NEW kind \in {"scans", "project"}, BeginDeletion(kind, p)
       PROVE  TypeOK'
  <2>1. deletion' \in Deletions /\ deletion'.project = p
    BY <1>20 DEF BeginDeletion, StoredOf, Stored, Deletions, TypeOK
  <2> QED
    BY <1>20, <2>1 DEF BeginDeletion, TypeOK
<1>21. ASSUME DeleteListedScans PROVE TypeOK'
  BY <1>21, NoDeletionTypes, RemoveTypes DEF DeleteListedScans, TypeOK
<1>22. ASSUME DeleteProject PROVE TypeOK'
  <2>1. hidden' \subseteq Projects
    BY <1>22 DEF DeleteProject, TypeOK
  <2> QED
    BY <1>22, <2>1, NoDeletionTypes, RemoveTypes DEF DeleteProject, TypeOK
<1>23. ASSUME DeleteProjectAborts PROVE TypeOK'
  BY <1>23, NoDeletionTypes DEF DeleteProjectAborts, TypeOK
<1>24. ASSUME RetentionCleanup PROVE TypeOK'
  <2>0. PICK unpacked \in Batches(OldArtifacts) : \E expired \in Batches(OldRuns(unpacked)) :
          \E local \in Batches(OldTombstones(LocalKeys)),
             github \in Batches(OldTombstones(GithubKeys)),
             stale \in Batches(OldAttempts), spent \in Batches(OldCharges) :
               RetentionWrites(unpacked, expired, local \cup github, stale, spent)
    BY <1>24 DEF RetentionCleanup
  <2>1. PICK expired \in Batches(OldRuns(unpacked)),
             local \in Batches(OldTombstones(LocalKeys)),
             github \in Batches(OldTombstones(GithubKeys)),
             stale \in Batches(OldAttempts), spent \in Batches(OldCharges) :
               RetentionWrites(unpacked, expired, local \cup github, stale, spent)
    BY <2>0
  <2>2. claims' \in [Keys -> ClaimRows]
    BY <2>1, RowTypes, PreparedTypes DEF RetentionWrites
  <2>3. runs' \in [RunIds -> RunRows]
    <3>1. NoRun \in RunRows
      BY DEF NoRun, RunRows
    <3>2. \A id \in RunIds : [runs[id] EXCEPT !.artifacts = FALSE] \in RunRows
      BY ZenonT(30) DEF TypeOK, RunRows
    <3> QED
      BY <2>1, <3>1, <3>2 DEF RetentionWrites, TypeOK
  <2>4. attempts' \in [Requests -> AttemptRows]
    <3>1. \A r \in Requests : Detached(r, expired) \in AttemptRows
      BY DEF Detached, AttemptRows, TypeOK
    <3>2. NoAttempt \in AttemptRows
      BY DEF NoAttempt, AttemptRows
    <3> QED
      BY <2>1, <3>1, <3>2 DEF RetentionWrites
  <2> QED
    BY <1>24, <2>1, <2>2, <2>3, <2>4 DEF RetentionCleanup, RetentionWrites, TypeOK
<1>25. ASSUME Tick PROVE TypeOK'
  BY <1>25 DEF Tick, TypeOK
<1>26. ASSUME UNCHANGED vars PROVE TypeOK'
  BY <1>26 DEF vars, TypeOK
<1> QED
  BY <1>1, <1>2, <1>3, <1>4, <1>5, <1>6, <1>8, <1>9, <1>10, <1>11, <1>12, <1>13, <1>14, <1>15,
     <1>16, <1>17, <1>18, <1>19, <1>20, <1>21, <1>22, <1>23, <1>24, <1>25, <1>26
  DEF Next, HandlerStep, Reserve, Acquire, Persist, Cleanup, Record, DeletionStep

(***************************************************************************)
(* Every table and every handler variable keeps its type.                  *)
(***************************************************************************)
THEOREM TypeCorrect == Spec => []TypeOK
<1>1. Init => TypeOK
  BY TypeInit
<1>2. TypeOK /\ [Next]_vars => TypeOK'
  BY TypeStep
<1> QED
  BY <1>1, <1>2, PTL DEF Spec

-----------------------------------------------------------------------------
(***************************************************************************)
(* The inductive invariant.  ClaimsAndRunsAgree is not inductive: what     *)
(* DeleteProject tombstones is what it read before, so it must be known    *)
(* that no listed run was stored again in another project meanwhile.       *)
(***************************************************************************)
Past(r) == requests[r].pc \notin {"idle", "reserve", "acquire", "persist"}

(***************************************************************************)
(* No request has read the clock in the future.                            *)
(***************************************************************************)
ArrivalsPast == \A r \in Requests : requests[r].now <= clock

DeletionTimely ==
  deletion = NoDeletion \/ (deletion.since <= clock /\ clock < deletion.since + Tombstone)

(***************************************************************************)
(* A run's id says which key it has, or which request has stored it.       *)
(***************************************************************************)
RunIdsPlaced ==
  \A id \in RunIds : runs[id].stored =>
    /\ id \in GithubKeys => runs[id].key = id
    /\ id \in Requests => Past(id)

(***************************************************************************)
(* A run listed by a deletion is in the project still, or it cannot be     *)
(* stored again before the deletion ends.                                  *)
(***************************************************************************)
Quarantined(id) ==
  \/ id \in Requests /\ Past(id)
  \/ /\ id \in GithubKeys
     /\ claims[id].state = "tombstoned"
     /\ claims[id].tombExpires >= deletion.since + Tombstone

ListedRunsStay ==
  deletion # NoDeletion =>
    \A id \in deletion.runs :
      \/ runs[id].stored /\ runs[id].project = deletion.project
      \/ ~runs[id].stored /\ Quarantined(id)

IInv ==
  TypeOK /\ ClaimsAndRunsAgree /\ ArrivalsPast /\ DeletionTimely /\ RunIdsPlaced /\ ListedRunsStay

(***************************************************************************)
(* What a step does to the claims and the runs.                            *)
(***************************************************************************)
LEMMA StepCases ==
  ASSUME [Next]_vars
  PROVE  \/ UNCHANGED <<claims, runs>>
         \/ \E r \in Requests : AcquireGrant(r)
         \/ \E r \in Requests : PersistCommit(r) \/ PersistUnacknowledged(r)
         \/ \E r \in Requests : CleanupFail(r)
         \/ \E id \in RunIds : DeleteScan(id)
         \/ DeleteListedScans
         \/ DeleteProject
         \/ RetentionCleanup
<1>1. ASSUME NEW r \in Requests, HandlerStep(r)
      PROVE  \/ UNCHANGED <<claims, runs>>
             \/ AcquireGrant(r)
             \/ PersistCommit(r) \/ PersistUnacknowledged(r)
             \/ CleanupFail(r)
  BY <1>1 DEF HandlerStep, Reserve, ReserveNoWork, ReserveCharge, ReserveRefuse,
       Acquire, AcquireDecline, Persist, PersistFails, Cleanup, CleanupSwallowed, RecordFailure,
       RecordFailureSwallowed, Record, RecordOutcome, RecordDangling
<1>2. ASSUME NEW r \in Requests, NEW cmd \in Commands, Receive(r, cmd)
      PROVE  UNCHANGED <<claims, runs>>
  BY <1>2 DEF Receive
<1>3. ASSUME NEW r \in Requests, Abandon(r) PROVE UNCHANGED <<claims, runs>>
  BY <1>3 DEF Abandon
<1>4. ASSUME Crash \/ Tick \/ DeleteProjectAborts \/ UNCHANGED vars
      PROVE  UNCHANGED <<claims, runs>>
  BY <1>4 DEF Crash, Tick, DeleteProjectAborts, vars
<1>5. ASSUME NEW p \in Projects, NEW kind, BeginDeletion(kind, p)
      PROVE  UNCHANGED <<claims, runs>>
  BY <1>5 DEF BeginDeletion
<1> QED
  BY <1>1, <1>2, <1>3, <1>4, <1>5 DEF Next, DeletionStep

(***************************************************************************)
(* What a step does to a request, to the clock and to the deletion.        *)
(***************************************************************************)
LEMMA HandlerFrame ==
  ASSUME TypeOK, NEW r \in Requests, HandlerStep(r) \/ Abandon(r)
  PROVE  /\ UNCHANGED <<clock, deletion>>
         /\ \A q \in Requests : /\ requests'[q].now = requests[q].now
                                /\ Past(q) => Past(q)'
<1>1. ASSUME NEW pc, requests[r].pc \in {"reserve", "acquire", "persist"} \/
                     pc \in {"record_failure", "done"},
             Goto(r, pc), NEW q \in Requests
      PROVE  requests'[q].now = requests[q].now /\ (Past(q) => Past(q)')
  BY <1>1 DEF Goto, Past, TypeOK, RequestStates
<1>2. ASSUME NEW outcome, Finish(r, outcome), NEW q \in Requests
      PROVE  requests'[q].now = requests[q].now /\ (Past(q) => Past(q)')
  BY <1>2 DEF Finish, Past, TypeOK, RequestStates
<1>3. ASSUME ReserveNoWork(r) \/ ReserveCharge(r) \/ ReserveRefuse(r), NEW q \in Requests
      PROVE  requests'[q].now = requests[q].now /\ (Past(q) => Past(q)')
  <2>1. CASE ReserveNoWork(r)
    BY <1>1, <2>1 DEF ReserveNoWork
  <2>2. CASE ReserveCharge(r)
    BY <2>2 DEF ReserveCharge, Past, TypeOK, RequestStates
  <2>3. CASE ReserveRefuse(r)
    BY <2>3 DEF ReserveRefuse, Past, TypeOK, RequestStates
  <2> QED
    BY <1>3, <2>1, <2>2, <2>3
<1>4. ASSUME AcquireGrant(r) \/ AcquireDecline(r), NEW q \in Requests
      PROVE  requests'[q].now = requests[q].now /\ (Past(q) => Past(q)')
  <2>1. CASE AcquireGrant(r)
    BY <2>1 DEF AcquireGrant, Past, TypeOK, RequestStates
  <2>2. CASE AcquireDecline(r)
    BY <2>2 DEF AcquireDecline, Past, TypeOK, RequestStates
  <2> QED
    BY <1>4, <2>1, <2>2
<1>5. ASSUME PersistCommit(r) \/ PersistUnacknowledged(r) \/ PersistFails(r), NEW q \in Requests
      PROVE  requests'[q].now = requests[q].now /\ (Past(q) => Past(q)')
  <2>1. CASE PersistCommit(r)
    BY <2>1 DEF PersistCommit, Storable, Past, TypeOK, RequestStates
  <2>2. CASE PersistUnacknowledged(r)
    BY <1>1, <2>2 DEF PersistUnacknowledged, Storable
  <2>3. CASE PersistFails(r)
    BY <1>1, <2>3 DEF PersistFails
  <2> QED
    BY <1>5, <2>1, <2>2, <2>3
<1>6. ASSUME Cleanup(r) \/ Record(r) \/ Abandon(r), NEW q \in Requests
      PROVE  requests'[q].now = requests[q].now /\ (Past(q) => Past(q)')
  BY <1>1, <1>2, <1>6 DEF Cleanup, CleanupFail, CleanupSwallowed, RecordFailure,
       RecordFailureSwallowed, Record, RecordOutcome, RecordDangling, Abandon
<1>7. UNCHANGED <<clock, deletion>>
  BY DEF HandlerStep, Reserve, ReserveNoWork, ReserveCharge, ReserveRefuse, Acquire, AcquireGrant,
       AcquireDecline, Persist, PersistCommit, PersistUnacknowledged, PersistFails, Cleanup,
       CleanupFail, CleanupSwallowed, RecordFailure, RecordFailureSwallowed, Record, RecordOutcome,
       RecordDangling, Abandon
<1> QED
  BY <1>3, <1>4, <1>5, <1>6, <1>7 DEF HandlerStep, Reserve, Acquire, Persist

LEMMA RequestsAdvance ==
  ASSUME TypeOK, [Next]_vars, NEW q \in Requests
  PROVE  /\ Past(q) => Past(q)'
         /\ \/ requests'[q].now = requests[q].now
            \/ requests'[q].now = clock /\ clock' = clock
<1>1. ASSUME NEW r \in Requests, HandlerStep(r) \/ Abandon(r)
      PROVE  requests'[q].now = requests[q].now /\ (Past(q) => Past(q)')
  BY <1>1, HandlerFrame
<1>2. ASSUME NEW r \in Requests, NEW cmd \in Commands, Receive(r, cmd)
      PROVE  /\ Past(q) => Past(q)'
             /\ \/ requests'[q].now = requests[q].now
                \/ requests'[q].now = clock /\ clock' = clock
  BY <1>2 DEF Receive, Past, TypeOK, RequestStates
<1>3. CASE Crash
  <2>1. CASE Running(q)
    BY <1>3, <2>1 DEF Crash, Past, TypeOK, RequestStates
  <2>2. CASE ~Running(q)
    BY <1>3, <2>2 DEF Crash, Past
  <2> QED
    BY <2>1, <2>2
<1>4. CASE UNCHANGED requests
  BY <1>4 DEF Past
<1>5. DeletionStep \/ RetentionCleanup \/ Tick \/ UNCHANGED vars => UNCHANGED requests
  BY DEF DeletionStep, DeleteScan, BeginDeletion, DeleteListedScans, DeleteProject,
       DeleteProjectAborts, RetentionCleanup, Tick, vars
<1> QED
  BY <1>1, <1>2, <1>3, <1>4, <1>5 DEF Next

(***************************************************************************)
(* The clock never goes back, and stands still while a table is written.   *)
(***************************************************************************)
LEMMA ClockAdvances ==
  ASSUME TypeOK, [Next]_vars
  PROVE  /\ clock' \in Nat
         /\ clock <= clock'
         /\ \/ clock' = clock
            \/ clock' = clock + 1 /\ UNCHANGED <<claims, runs, requests, deletion>>
<1>1. ASSUME NEW r \in Requests, HandlerStep(r) \/ Abandon(r) PROVE clock' = clock
  BY <1>1, HandlerFrame
<1>2. ASSUME NEW r \in Requests, NEW cmd \in Commands, Receive(r, cmd) PROVE clock' = clock
  BY <1>2 DEF Receive
<1>3. Crash \/ DeletionStep \/ RetentionCleanup \/ UNCHANGED vars => clock' = clock
  BY DEF Crash, DeletionStep, DeleteScan, BeginDeletion, DeleteListedScans, DeleteProject,
       DeleteProjectAborts, RetentionCleanup, vars
<1>4. Tick => clock' = clock + 1 /\ UNCHANGED <<claims, runs, requests, deletion>>
  BY DEF Tick
<1>5. clock \in Nat
  BY DEF TypeOK
<1> QED
  BY <1>1, <1>2, <1>3, <1>4, <1>5 DEF Next

LEMMA ArrivalsStep ==
  ASSUME TypeOK, [Next]_vars, ArrivalsPast
  PROVE  ArrivalsPast'
<1> SUFFICES ASSUME NEW r \in Requests PROVE requests'[r].now <= clock'
  BY DEF ArrivalsPast
<1>1. requests[r].now \in Nat /\ requests[r].now <= clock /\ clock \in Nat
  BY DEF TypeOK, RequestStates, ArrivalsPast
<1> QED
  BY <1>1, RequestsAdvance, ClockAdvances

LEMMA TimelyStep ==
  ASSUME TypeOK, [Next]_vars, DeletionTimely
  PROVE  DeletionTimely'
<1>0. clock \in Nat /\ Tombstone \in Nat \ {0} /\ deletion.since \in Nat
  BY TimesPositive DEF TypeOK, Deletions
<1>1. CASE deletion' = deletion /\ clock' = clock
  BY <1>1 DEF DeletionTimely
<1>2. CASE Tick
  BY <1>0, <1>2 DEF Tick, DeletionTimely
<1>3. ASSUME NEW p \in Projects, NEW kind, BeginDeletion(kind, p) PROVE DeletionTimely'
  BY <1>0, <1>3 DEF BeginDeletion, DeletionTimely
<1>4. CASE deletion' = NoDeletion
  BY <1>4 DEF DeletionTimely
<1>5. ASSUME NEW r \in Requests, HandlerStep(r) \/ Abandon(r)
      PROVE  deletion' = deletion /\ clock' = clock
  BY <1>5, HandlerFrame
<1>6. ASSUME NEW r \in Requests, NEW cmd \in Commands, Receive(r, cmd)
      PROVE  deletion' = deletion /\ clock' = clock
  BY <1>6 DEF Receive
<1>7. ASSUME NEW id \in RunIds, DeleteScan(id) PROVE deletion' = deletion /\ clock' = clock
  BY <1>7 DEF DeleteScan
<1>8. RetentionCleanup \/ UNCHANGED vars => deletion' = deletion /\ clock' = clock
  BY DEF RetentionCleanup, vars
<1>9. Crash \/ DeleteListedScans \/ DeleteProject \/ DeleteProjectAborts => deletion' = NoDeletion
  BY DEF Crash, DeleteListedScans, DeleteProject, DeleteProjectAborts
<1> QED
  BY <1>1, <1>2, <1>3, <1>4, <1>5, <1>6, <1>7, <1>8, <1>9 DEF Next, DeletionStep

(***************************************************************************)
(* Every kind of deletion removes the runs `ids`, turns their claims into  *)
(* tombstones and keeps the other claims, elapsed tombstones apart.        *)
(***************************************************************************)
Kept(k) ==
  \/ claims'[k] = claims[k]
  \/ claims[k].state = "tombstoned" /\ claims[k].tombExpires <= clock /\ claims'[k] = NoClaim

Deletes(ids) ==
  /\ \A k \in Keys :
       IF claims[k].state = "completed" /\ claims[k].run \in ids
       THEN claims'[k].state = "tombstoned" /\ claims'[k].tombExpires = clock + Tombstone
       ELSE Kept(k)
  /\ \A id \in RunIds :
       /\ runs'[id].stored <=> runs[id].stored /\ id \notin ids
       /\ runs'[id].stored => /\ runs'[id].key = runs[id].key
                              /\ runs'[id].project = runs[id].project
                              /\ runs'[id].payload = runs[id].payload
                              /\ runs'[id].origin = runs[id].origin

LEMMA RemoveDeletes ==
  ASSUME TypeOK, NEW listed, NEW ids, Remove(listed, ids),
         \A id \in RunIds : runs[id].stored => (id \in listed <=> id \in ids)
  PROVE  Deletes(listed)
<1>1. ASSUME NEW k \in Keys
      PROVE  IF claims[k].state = "completed" /\ claims[k].run \in listed
             THEN claims'[k].state = "tombstoned" /\ claims'[k].tombExpires = clock + Tombstone
             ELSE claims'[k] = claims[k]
  <2>1. claims'[k] = Prepared(k, listed) /\ claims[k] \in ClaimRows
    BY DEF Remove, TypeOK
  <2> QED
    BY <2>1 DEF Prepared, TombstonedRow, ClaimRows
<1>2. ASSUME NEW id \in RunIds
      PROVE  /\ runs'[id].stored <=> runs[id].stored /\ id \notin listed
             /\ runs'[id].stored => runs'[id] = runs[id]
  <2>1. runs'[id] = IF id \in ids THEN NoRun ELSE runs[id]
    BY DEF Remove
  <2>2. ~NoRun.stored /\ runs[id].stored \in BOOLEAN
    BY DEF NoRun, TypeOK, RunRows
  <2>3. CASE id \in ids
    BY <2>1, <2>2, <2>3
  <2>4. CASE id \notin ids
    BY <2>1, <2>2, <2>4
  <2> QED
    BY <2>3, <2>4
<1> QED
  BY <1>1, <1>2 DEF Deletes, Kept

LEMMA ListedDeletes ==
  ASSUME IInv, DeleteListedScans
  PROVE  Deletes(deletion.runs)
BY RemoveDeletes DEF IInv, DeleteListedScans

LEMMA ScanDeletes ==
  ASSUME TypeOK, NEW id \in RunIds, DeleteScan(id)
  PROVE  Deletes({id})
BY RemoveDeletes DEF DeleteScan

LEMMA ProjectDeletes ==
  ASSUME IInv, DeleteProject
  PROVE  Deletes(deletion.runs)
<1> DEFINE ids == StoredOf(deletion.project)
<1>1. ASSUME NEW id \in RunIds, runs[id].stored, id \in deletion.runs PROVE id \in ids
  <2>1. deletion # NoDeletion
    BY NoDeletionTypes DEF DeleteProject
  <2>2. runs[id].project = deletion.project
    BY <1>1, <2>1 DEF IInv, ListedRunsStay
  <2> QED
    BY <1>1, <2>2 DEF StoredOf, Stored
<1>2. ASSUME NEW id \in RunIds, runs[id].stored, id \in ids PROVE id \in deletion.runs
  <2>1. /\ runs[id].key \in Keys /\ claims[runs[id].key].state = "completed"
        /\ claims[runs[id].key].run = id
    BY <1>2 DEF IInv, ClaimsAndRunsAgree
  <2> QED
    BY <1>2, <2>1 DEF DeleteProject, Stranded
<1> QED
  BY <1>1, <1>2, RemoveDeletes DEF IInv, DeleteProject

LEMMA RetentionDeletes ==
  ASSUME IInv, RetentionCleanup
  PROVE  \E ids \in SUBSET Stored : Deletes(ids)
<1>1. PICK unpacked \in Batches(OldArtifacts) : \E expired \in Batches(OldRuns(unpacked)) :
        \E local \in Batches(OldTombstones(LocalKeys)),
           github \in Batches(OldTombstones(GithubKeys)),
           stale \in Batches(OldAttempts), spent \in Batches(OldCharges) :
             RetentionWrites(unpacked, expired, local \cup github, stale, spent)
  BY DEF RetentionCleanup
<1>2. PICK expired \in Batches(OldRuns(unpacked)),
           local \in Batches(OldTombstones(LocalKeys)),
           github \in Batches(OldTombstones(GithubKeys)),
           stale \in Batches(OldAttempts), spent \in Batches(OldCharges) :
             RetentionWrites(unpacked, expired, local \cup github, stale, spent)
  BY <1>1
<1>3. expired \subseteq Stored
  BY DEF Batches, OldRuns
<1>4. \A k \in local \cup github : claims[k].state = "tombstoned" /\ claims[k].tombExpires <= clock
  BY DEF Batches, OldTombstones
<1>5. ASSUME NEW k \in Keys
      PROVE  IF claims[k].state = "completed" /\ claims[k].run \in expired
             THEN claims'[k].state = "tombstoned" /\ claims'[k].tombExpires = clock + Tombstone
             ELSE Kept(k)
  <2>1. /\ claims'[k] = IF k \in local \cup github THEN NoClaim ELSE Prepared(k, expired)
        /\ claims[k] \in ClaimRows
    BY <1>2 DEF RetentionWrites, IInv, TypeOK
  <2>2. CASE k \in local \cup github
    BY <1>4, <2>1, <2>2 DEF Kept
  <2>3. CASE k \notin local \cup github
    BY <2>1, <2>3 DEF Prepared, TombstonedRow, ClaimRows, Kept
  <2> QED
    BY <2>2, <2>3
<1>6. ASSUME NEW id \in RunIds
      PROVE  /\ runs'[id].stored <=> runs[id].stored /\ id \notin expired
             /\ runs'[id].stored => /\ runs'[id].key = runs[id].key
                                    /\ runs'[id].project = runs[id].project
                                    /\ runs'[id].payload = runs[id].payload
                                    /\ runs'[id].origin = runs[id].origin
  <2>1. runs'[id] = IF id \in expired THEN NoRun
                    ELSE IF id \in unpacked THEN [runs[id] EXCEPT !.artifacts = FALSE]
                    ELSE runs[id]
    BY <1>2 DEF RetentionWrites
  <2>2. ~NoRun.stored /\ runs[id] \in RunRows
    BY DEF NoRun, IInv, TypeOK
  <2> QED
    BY <2>1, <2>2 DEF RunRows
<1> QED
  BY <1>3, <1>5, <1>6 DEF Deletes

LEMMA DeletesAgree ==
  ASSUME TypeOK, ClaimsAndRunsAgree, NEW ids, Deletes(ids)
  PROVE  ClaimsAndRunsAgree'
<1>1. ASSUME NEW k \in Keys, claims'[k].state = "completed"
      PROVE  /\ claims'[k] = claims[k]
             /\ claims[k].run \in RunIds /\ claims[k].run \notin ids
             /\ runs'[claims[k].run].stored /\ runs'[claims[k].run].key = k
  <2>1. claims'[k] = claims[k] /\ claims[k].run \notin ids
    BY <1>1 DEF Deletes, Kept, NoClaim
  <2>2. claims[k].run \in RunIds /\ runs[claims[k].run].stored /\ runs[claims[k].run].key = k
    BY <1>1, <2>1 DEF ClaimsAndRunsAgree
  <2> QED
    BY <2>1, <2>2 DEF Deletes
<1>2. ASSUME NEW id \in RunIds, runs'[id].stored
      PROVE  /\ runs'[id].key \in Keys
             /\ claims'[runs'[id].key].state = "completed" /\ claims'[runs'[id].key].run = id
  <2>1. runs[id].stored /\ id \notin ids /\ runs'[id].key = runs[id].key
    BY <1>2 DEF Deletes
  <2>2. /\ runs[id].key \in Keys
        /\ claims[runs[id].key].state = "completed" /\ claims[runs[id].key].run = id
    BY <2>1 DEF ClaimsAndRunsAgree
  <2>3. claims'[runs[id].key] = claims[runs[id].key]
    BY <2>1, <2>2 DEF Deletes, Kept
  <2> QED
    BY <2>1, <2>2, <2>3
<1> QED
  BY <1>1, <1>2 DEF ClaimsAndRunsAgree

(***************************************************************************)
(* The steps of a handler that write a claim.                              *)
(***************************************************************************)
LEMMA FreeRow ==
  ASSUME TypeOK, ArrivalsPast, NEW r \in Requests, requests[r].pc # "idle", Decision(r) = "free"
  PROVE  LET row == claims[requests[r].cmd.key]
         IN  /\ row.state # "completed"
             /\ row.state = "tombstoned" => row.tombExpires <= clock
             /\ GrantedRow(r).state = "processing"
<1> DEFINE row == claims[requests[r].cmd.key]
<1>1. row \in ClaimRows /\ requests[r].now \in Nat /\ requests[r].now <= clock /\ clock \in Nat
  BY RequestTypes DEF TypeOK, ArrivalsPast
<1>2. row.state # "completed" /\ (row.state = "tombstoned" => ~(row.tombExpires > requests[r].now))
  BY DEF Decision, LocalExistingDecision, GithubExistingDecision
<1>3. row.tombExpires \in Nat
  BY <1>1 DEF ClaimRows
<1>4. GrantedRow(r).state = "processing"
  BY <1>1 DEF GrantedRow, NewRow, LocalTakeOver, GithubTakeOver, ClaimRows
<1> QED
  BY <1>1, <1>2, <1>3, <1>4

LEMMA GrantWrites ==
  ASSUME TypeOK, ArrivalsPast, NEW r \in Requests, AcquireGrant(r), NEW k \in Keys
  PROVE  \/ claims'[k] = claims[k]
         \/ /\ claims[k].state # "completed"
            /\ claims[k].state = "tombstoned" => claims[k].tombExpires <= clock
            /\ claims'[k].state = "processing"
<1>1. requests[r].pc # "idle" /\ requests[r].cmd.key \in Keys
  BY RequestTypes DEF AcquireGrant
<1> QED
  BY <1>1, FreeRow DEF AcquireGrant, TypeOK

LEMMA StoreWrites ==
  ASSUME TypeOK, NEW r \in Requests, PersistCommit(r) \/ PersistUnacknowledged(r)
  PROVE  LET k == requests[r].cmd.key
             id == RunIdOf(r)
         IN  /\ k \in Keys /\ id \in RunIds
             /\ claims[k].state = "processing" /\ ~runs[id].stored
             /\ claims' = [claims EXCEPT ![k] = claims'[k]]
             /\ claims'[k].state = "completed" /\ claims'[k].run = id
             /\ runs' = [runs EXCEPT ![id] = runs'[id]]
             /\ runs'[id].stored /\ runs'[id].key = k /\ runs'[id].request = r
<1> DEFINE k == requests[r].cmd.key
           id == RunIdOf(r)
<1>1. Storable(r) /\ StoreRun(r)
  BY DEF PersistCommit, PersistUnacknowledged
<1>2. k \in Keys /\ id \in RunIds /\ claims[k] \in ClaimRows
  BY <1>1, RequestTypes DEF Storable, TypeOK
<1>3. claims[k].state = "processing" /\ ~runs[id].stored
  BY <1>1 DEF Storable, Owns, OwnedBy
<1>4. /\ claims' = [claims EXCEPT ![k] = CompletedRow(claims[k], None, id)]
      /\ runs' = [runs EXCEPT ![id] = RunRecord(r)]
  BY <1>1 DEF StoreRun
<1>5. /\ claims'[k] = CompletedRow(claims[k], None, id)
      /\ runs'[id] = RunRecord(r)
  BY <1>2, <1>4 DEF TypeOK
<1>6. claims'[k].state = "completed" /\ claims'[k].run = id
  BY <1>2, <1>5 DEF CompletedRow, ClaimRows
<1>7. runs'[id].stored /\ runs'[id].key = k /\ runs'[id].request = r
  BY <1>5 DEF RunRecord
<1> QED
  BY <1>2, <1>3, <1>4, <1>5, <1>6, <1>7

LEMMA FailWrites ==
  ASSUME TypeOK, NEW r \in Requests, CleanupFail(r), NEW k \in Keys
  PROVE  /\ \/ claims'[k] = claims[k]
            \/ claims[k].state = "processing" /\ claims'[k].state = "failed"
         /\ runs' = runs
<1>1. requests[r].cmd.key \in Keys /\ claims[requests[r].cmd.key] \in ClaimRows
  BY RequestTypes DEF CleanupFail, TypeOK
<1> QED
  BY <1>1 DEF CleanupFail, Owns, OwnedBy, FailedRow, TypeOK, ClaimRows

LEMMA DeletionCases ==
  ASSUME IInv, \/ \E id \in RunIds : DeleteScan(id)
               \/ DeleteListedScans
               \/ DeleteProject
               \/ RetentionCleanup
  PROVE  \E ids : Deletes(ids)
BY ScanDeletes, ListedDeletes, ProjectDeletes, RetentionDeletes DEF IInv

LEMMA AgreeStep ==
  ASSUME IInv, [Next]_vars
  PROVE  ClaimsAndRunsAgree'
<1>0. TypeOK /\ ClaimsAndRunsAgree /\ ArrivalsPast
  BY DEF IInv
<1>1. CASE UNCHANGED <<claims, runs>>
  BY <1>0, <1>1 DEF ClaimsAndRunsAgree
<1>2. ASSUME NEW r \in Requests, AcquireGrant(r) PROVE ClaimsAndRunsAgree'
  <2>1. runs' = runs
    BY <1>2 DEF AcquireGrant
  <2>2. \A k \in Keys : \/ claims'[k] = claims[k]
                        \/ claims[k].state # "completed" /\ claims'[k].state = "processing"
    BY <1>0, <1>2, GrantWrites
  <2> QED
    BY <1>0, <2>1, <2>2 DEF ClaimsAndRunsAgree
<1>3. ASSUME NEW r \in Requests, PersistCommit(r) \/ PersistUnacknowledged(r)
      PROVE  ClaimsAndRunsAgree'
  <2> DEFINE k == requests[r].cmd.key
             id == RunIdOf(r)
  <2>1. /\ k \in Keys /\ id \in RunIds
        /\ claims[k].state = "processing" /\ ~runs[id].stored
        /\ \A j \in Keys : j # k => claims'[j] = claims[j]
        /\ \A i \in RunIds : i # id => runs'[i] = runs[i]
        /\ claims'[k].state = "completed" /\ claims'[k].run = id
        /\ runs'[id].stored /\ runs'[id].key = k
    BY <1>0, <1>3, StoreWrites DEF TypeOK
  <2> HIDE DEF k, id
  <2>2. ASSUME NEW j \in Keys, claims'[j].state = "completed"
        PROVE  /\ claims'[j].run \in RunIds
               /\ runs'[claims'[j].run].stored /\ runs'[claims'[j].run].key = j
    BY <1>0, <2>1, <2>2 DEF ClaimsAndRunsAgree
  <2>3. ASSUME NEW i \in RunIds, runs'[i].stored
        PROVE  /\ runs'[i].key \in Keys
               /\ claims'[runs'[i].key].state = "completed" /\ claims'[runs'[i].key].run = i
    BY <1>0, <2>1, <2>3 DEF ClaimsAndRunsAgree
  <2> QED
    BY <2>2, <2>3 DEF ClaimsAndRunsAgree
<1>4. ASSUME NEW r \in Requests, CleanupFail(r) PROVE ClaimsAndRunsAgree'
  <2>1. /\ \A k \in Keys : \/ claims'[k] = claims[k]
                           \/ claims[k].state = "processing" /\ claims'[k].state = "failed"
        /\ runs' = runs
    BY <1>0, <1>4, FailWrites DEF CleanupFail
  <2> QED
    BY <1>0, <2>1 DEF ClaimsAndRunsAgree
<1>5. ASSUME NEW ids, Deletes(ids) PROVE ClaimsAndRunsAgree'
  BY <1>0, <1>5, DeletesAgree
<1> QED
  BY <1>1, <1>2, <1>3, <1>4, <1>5, StepCases, DeletionCases

(***************************************************************************)
(* A tombstone that has not expired is left alone by every step.           *)
(***************************************************************************)
LEMMA TombstoneStep ==
  ASSUME IInv, [Next]_vars, NEW k \in Keys,
         claims[k].state = "tombstoned", claims[k].tombExpires > clock
  PROVE  claims'[k] = claims[k]
<1>0. TypeOK /\ ArrivalsPast /\ clock \in Nat /\ claims[k].tombExpires \in Nat
  BY DEF IInv, TypeOK, ClaimRows
<1>1. CASE UNCHANGED <<claims, runs>>
  BY <1>1
<1>2. ASSUME NEW r \in Requests, AcquireGrant(r) PROVE claims'[k] = claims[k]
  BY <1>0, <1>2, GrantWrites
<1>3. ASSUME NEW r \in Requests, PersistCommit(r) \/ PersistUnacknowledged(r)
      PROVE  claims'[k] = claims[k]
  BY <1>0, <1>3, StoreWrites DEF TypeOK
<1>4. ASSUME NEW r \in Requests, CleanupFail(r) PROVE claims'[k] = claims[k]
  BY <1>0, <1>4, FailWrites
<1>5. ASSUME NEW ids, Deletes(ids) PROVE claims'[k] = claims[k]
  BY <1>0, <1>5 DEF Deletes, Kept
<1> QED
  BY <1>1, <1>2, <1>3, <1>4, <1>5, StepCases, DeletionCases

(***************************************************************************)
(* What a step does to a run: nothing, or it is stored by a request, or it *)
(* is deleted and leaves a tombstone on its key.                           *)
(***************************************************************************)
LEMMA RunCases ==
  ASSUME IInv, [Next]_vars, NEW id \in RunIds
  PROVE  \/ /\ runs'[id].stored <=> runs[id].stored
            /\ runs'[id].stored => /\ runs'[id].key = runs[id].key
                                   /\ runs'[id].project = runs[id].project
         \/ \E r \in Requests : /\ PersistCommit(r) \/ PersistUnacknowledged(r)
                                /\ id = RunIdOf(r)
         \/ /\ runs[id].stored /\ ~runs'[id].stored
            /\ claims'[runs[id].key].state = "tombstoned"
            /\ claims'[runs[id].key].tombExpires = clock + Tombstone
<1>0. TypeOK /\ ClaimsAndRunsAgree
  BY DEF IInv
<1>1. CASE UNCHANGED <<claims, runs>>
  BY <1>1
<1>2. ASSUME NEW r \in Requests, AcquireGrant(r) PROVE runs' = runs
  BY <1>2 DEF AcquireGrant
<1>3. ASSUME NEW r \in Requests, PersistCommit(r) \/ PersistUnacknowledged(r), id # RunIdOf(r)
      PROVE  runs'[id] = runs[id]
  BY <1>0, <1>3, StoreWrites DEF TypeOK
<1>4. ASSUME NEW r \in Requests, CleanupFail(r) PROVE runs' = runs
  BY <1>4 DEF CleanupFail
<1>5. ASSUME NEW ids, Deletes(ids)
      PROVE  \/ /\ runs'[id].stored <=> runs[id].stored
                /\ runs'[id].stored => /\ runs'[id].key = runs[id].key
                                       /\ runs'[id].project = runs[id].project
             \/ /\ runs[id].stored /\ ~runs'[id].stored
                /\ claims'[runs[id].key].state = "tombstoned"
                /\ claims'[runs[id].key].tombExpires = clock + Tombstone
  <2>1. CASE runs[id].stored /\ id \in ids
    <3>1. /\ runs[id].key \in Keys
          /\ claims[runs[id].key].state = "completed" /\ claims[runs[id].key].run = id
      BY <1>0, <2>1 DEF ClaimsAndRunsAgree
    <3> QED
      BY <1>5, <2>1, <3>1 DEF Deletes
  <2>2. CASE ~(runs[id].stored /\ id \in ids)
    BY <1>5, <2>2 DEF Deletes
  <2> QED
    BY <2>1, <2>2
<1> QED
  BY <1>1, <1>2, <1>3, <1>4, <1>5, StepCases, DeletionCases

(***************************************************************************)
(* The request that stores a run is past storing another.                  *)
(***************************************************************************)
LEMMA StorePasses ==
  ASSUME TypeOK, NEW r \in Requests, PersistCommit(r) \/ PersistUnacknowledged(r)
  PROVE  /\ ~Past(r) /\ Past(r)'
         /\ requests[r].pc = "persist"
         /\ RunIdOf(r) = r \/ (RunIdOf(r) = requests[r].cmd.key /\ RunIdOf(r) \in GithubKeys)
         /\ UNCHANGED <<clock, deletion>>
<1>1. requests[r].pc = "persist"
  BY DEF PersistCommit, PersistUnacknowledged, Storable
<1>2. RunIdOf(r) = r \/ (RunIdOf(r) = requests[r].cmd.key /\ RunIdOf(r) \in GithubKeys)
  <2>1. requests[r].cmd \in Commands
    BY <1>1, RequestTypes
  <2>2. requests[r].cmd.origin # "local" => requests[r].cmd.key \in GithubKeys
    BY <2>1, CommandTypes
  <2> QED
    BY <2>2 DEF RunIdOf
<1>3. requests'[r].pc \in {"done", "cleanup"}
  <2>1. CASE PersistCommit(r)
    BY <2>1 DEF PersistCommit, TypeOK, RequestStates
  <2>2. CASE PersistUnacknowledged(r)
    BY <2>2 DEF PersistUnacknowledged, Goto, TypeOK, RequestStates
  <2> QED
    BY <2>1, <2>2
<1>4. UNCHANGED <<clock, deletion>>
  BY DEF PersistCommit, PersistUnacknowledged
<1> QED
  BY <1>1, <1>2, <1>3, <1>4 DEF Past

LEMMA PlacedStep ==
  ASSUME IInv, [Next]_vars
  PROVE  RunIdsPlaced'
<1> SUFFICES ASSUME NEW id \in RunIds, runs'[id].stored
             PROVE  /\ id \in GithubKeys => runs'[id].key = id
                    /\ id \in Requests => Past(id)'
  BY DEF RunIdsPlaced
<1>0. TypeOK /\ RunIdsPlaced /\ Requests \cap GithubKeys = {}
  BY IngestAssumption DEF IInv
<1>1. CASE runs[id].stored /\ runs'[id].key = runs[id].key
  BY <1>0, <1>1, RequestsAdvance DEF RunIdsPlaced
<1>2. ASSUME NEW r \in Requests, PersistCommit(r) \/ PersistUnacknowledged(r), id = RunIdOf(r)
      PROVE  /\ id \in GithubKeys => runs'[id].key = id
             /\ id \in Requests => Past(id)'
  <2>1. runs'[id].key = requests[r].cmd.key
    BY <1>0, <1>2, StoreWrites
  <2> QED
    BY <1>0, <1>2, <2>1, StorePasses
<1> QED
  BY <1>1, <1>2, RunCases

(***************************************************************************)
(* A run that a deletion read cannot be stored anew while it is under way. *)
(***************************************************************************)
LEMMA QuarantineHolds ==
  ASSUME IInv, [Next]_vars, NEW id \in RunIds, deletion # NoDeletion, deletion' = deletion,
         ~runs[id].stored, Quarantined(id)
  PROVE  ~runs'[id].stored /\ Quarantined(id)'
<1>0. TypeOK /\ Requests \cap GithubKeys = {} /\ GithubKeys \subseteq Keys
  BY IngestAssumption DEF IInv, Keys
<1>1. /\ clock \in Nat /\ Tombstone \in Nat /\ deletion.since \in Nat
      /\ deletion.since <= clock /\ clock < deletion.since + Tombstone
  BY TimesPositive DEF IInv, TypeOK, Deletions, DeletionTimely
<1>2. CASE id \in Requests /\ Past(id)
  <2>1. Past(id)'
    BY <1>0, <1>2, RequestsAdvance
  <2>2. ASSUME NEW r \in Requests, PersistCommit(r) \/ PersistUnacknowledged(r), id = RunIdOf(r)
        PROVE  FALSE
    BY <1>0, <1>2, <2>2, StorePasses
  <2>3. ~runs'[id].stored
    BY <2>2, RunCases
  <2> QED
    BY <1>2, <2>1, <2>3 DEF Quarantined
<1>3. CASE /\ id \in GithubKeys
           /\ claims[id].state = "tombstoned"
           /\ claims[id].tombExpires >= deletion.since + Tombstone
  <2>1. claims[id].tombExpires \in Nat /\ claims[id].tombExpires > clock
    BY <1>0, <1>1, <1>3 DEF TypeOK, ClaimRows
  <2>2. claims'[id] = claims[id]
    BY <1>0, <1>3, <2>1, TombstoneStep
  <2>3. ASSUME NEW r \in Requests, PersistCommit(r) \/ PersistUnacknowledged(r), id = RunIdOf(r)
        PROVE  FALSE
    <3>1. requests[r].cmd.key = id
      BY <1>0, <1>3, <2>3, StorePasses
    <3>2. claims[id].state = "processing"
      BY <1>0, <2>3, <3>1, StoreWrites
    <3> QED
      BY <1>3, <3>2
  <2>4. ~runs'[id].stored
    BY <2>3, RunCases
  <2> QED
    BY <1>3, <2>2, <2>4 DEF Quarantined
<1> QED
  BY <1>2, <1>3 DEF Quarantined

(***************************************************************************)
(* A listed run that is deleted, by anyone, is in quarantine.              *)
(***************************************************************************)
LEMMA DeletedQuarantined ==
  ASSUME IInv, [Next]_vars, NEW id \in RunIds, deletion # NoDeletion, deletion' = deletion,
         runs[id].stored,
         claims'[runs[id].key].state = "tombstoned",
         claims'[runs[id].key].tombExpires = clock + Tombstone
  PROVE  Quarantined(id)'
<1>1. /\ clock \in Nat /\ Tombstone \in Nat /\ deletion.since \in Nat
      /\ deletion.since <= clock
  BY TimesPositive DEF IInv, TypeOK, Deletions, DeletionTimely
<1>2. CASE id \in Requests
  <2>1. Past(id)
    BY <1>2 DEF IInv, RunIdsPlaced
  <2> QED
    BY <1>2, <2>1, RequestsAdvance DEF IInv, Quarantined
<1>3. CASE id \in GithubKeys
  <2>1. runs[id].key = id
    BY <1>3 DEF IInv, RunIdsPlaced
  <2> QED
    BY <1>1, <1>3, <2>1 DEF Quarantined
<1> QED
  BY <1>2, <1>3 DEF RunIds

LEMMA DeletionSteps ==
  ASSUME TypeOK, [Next]_vars
  PROVE  \/ deletion' = deletion
         \/ deletion' = NoDeletion
         \/ /\ runs' = runs
            /\ deletion'.runs = StoredOf(deletion'.project)
<1>1. ASSUME NEW r \in Requests, HandlerStep(r) \/ Abandon(r) PROVE deletion' = deletion
  BY <1>1, HandlerFrame
<1>2. ASSUME NEW r \in Requests, NEW cmd \in Commands, Receive(r, cmd) PROVE deletion' = deletion
  BY <1>2 DEF Receive
<1>3. ASSUME NEW p \in Projects, NEW kind, BeginDeletion(kind, p)
      PROVE  runs' = runs /\ deletion'.runs = StoredOf(deletion'.project)
  BY <1>3 DEF BeginDeletion
<1>4. ASSUME NEW id \in RunIds, DeleteScan(id) PROVE deletion' = deletion
  BY <1>4 DEF DeleteScan
<1>5. RetentionCleanup \/ Tick \/ UNCHANGED vars => deletion' = deletion
  BY DEF RetentionCleanup, Tick, vars
<1>6. Crash \/ DeleteListedScans \/ DeleteProject \/ DeleteProjectAborts => deletion' = NoDeletion
  BY DEF Crash, DeleteListedScans, DeleteProject, DeleteProjectAborts
<1> QED
  BY <1>1, <1>2, <1>3, <1>4, <1>5, <1>6 DEF Next, DeletionStep

LEMMA ListedStep ==
  ASSUME IInv, [Next]_vars
  PROVE  ListedRunsStay'
<1>0. TypeOK /\ ListedRunsStay /\ deletion.runs \subseteq RunIds
  BY DEF IInv, TypeOK, Deletions
<1>1. CASE deletion' = NoDeletion
  BY <1>1 DEF ListedRunsStay
<1>2. CASE runs' = runs /\ deletion'.runs = StoredOf(deletion'.project)
  BY <1>2 DEF ListedRunsStay, StoredOf, Stored
<1>3. CASE deletion' = deletion
  <2> SUFFICES ASSUME deletion # NoDeletion, NEW id \in deletion.runs
               PROVE  \/ runs'[id].stored /\ runs'[id].project = deletion.project
                      \/ ~runs'[id].stored /\ Quarantined(id)'
    BY <1>3 DEF ListedRunsStay
  <2>1. id \in RunIds
    BY <1>0
  <2>2. CASE runs[id].stored /\ runs[id].project = deletion.project
    <3>1. ASSUME NEW r \in Requests, PersistCommit(r) \/ PersistUnacknowledged(r), id = RunIdOf(r)
          PROVE  FALSE
      BY <1>0, <2>2, <3>1, StoreWrites
    <3>2. CASE ~runs'[id].stored /\ claims'[runs[id].key].state = "tombstoned"
               /\ claims'[runs[id].key].tombExpires = clock + Tombstone
      BY <1>3, <2>1, <2>2, <3>2, DeletedQuarantined
    <3> QED
      BY <2>1, <2>2, <3>1, <3>2, RunCases
  <2>3. CASE ~runs[id].stored /\ Quarantined(id)
    BY <1>3, <2>1, <2>3, QuarantineHolds
  <2> QED
    BY <1>0, <2>2, <2>3 DEF ListedRunsStay
<1> QED
  BY <1>0, <1>1, <1>2, <1>3, DeletionSteps

-----------------------------------------------------------------------------
LEMMA IInvInit == Init => IInv
<1> SUFFICES ASSUME Init PROVE IInv
  OBVIOUS
<1>1. TypeOK
  BY TypeInit
<1>2. ClaimsAndRunsAgree /\ RunIdsPlaced
  BY DEF Init, ClaimsAndRunsAgree, RunIdsPlaced, NoClaim, NoRun
<1>3. ArrivalsPast
  BY DEF Init, ArrivalsPast, NewRequest
<1>4. DeletionTimely /\ ListedRunsStay
  BY DEF Init, DeletionTimely, ListedRunsStay
<1> QED
  BY <1>1, <1>2, <1>3, <1>4 DEF IInv

LEMMA IInvStep == IInv /\ [Next]_vars => IInv'
<1> SUFFICES ASSUME IInv, [Next]_vars PROVE IInv'
  OBVIOUS
<1>1. TypeOK'
  BY TypeStep DEF IInv
<1>2. ClaimsAndRunsAgree' /\ RunIdsPlaced' /\ ListedRunsStay'
  BY AgreeStep, PlacedStep, ListedStep
<1>3. ArrivalsPast' /\ DeletionTimely'
  BY ArrivalsStep, TimelyStep DEF IInv
<1> QED
  BY <1>1, <1>2, <1>3 DEF IInv

LEMMA Invariance == Spec => []IInv
BY IInvInit, IInvStep, PTL DEF Spec

(***************************************************************************)
(* Completed claims and stored runs always match, whatever commits,        *)
(* releases, takeovers, crashes, deletions and cleanups interleave.        *)
(***************************************************************************)
THEOREM ClaimsMatchRuns == Spec => []ClaimsAndRunsAgree
<1>1. IInv => ClaimsAndRunsAgree
  BY DEF IInv
<1> QED
  BY <1>1, Invariance, PTL

(***************************************************************************)
(* At most one run is stored for a key, however often an upload is sent.   *)
(***************************************************************************)
THEOREM StoresAtMostOnce == Spec => []OneRunPerKey
<1>1. IInv => OneRunPerKey
  BY DEF IInv, ClaimsAndRunsAgree, OneRunPerKey
<1> QED
  BY <1>1, Invariance, PTL

(***************************************************************************)
(* No step changes a tombstone that has not expired.                       *)
(***************************************************************************)
THEOREM TombstonesHold == Spec => TombstoneHolds
<1>1. IInv /\ [Next]_vars =>
        [\A k \in Keys : claims[k].state = "tombstoned" /\ claims[k].tombExpires > clock =>
           claims'[k] = claims[k]]_vars
  BY TombstoneStep
<1> QED
  BY <1>1, Invariance, PTL DEF Spec, TombstoneHolds

(***************************************************************************)
(* Every step that removes a run leaves a fresh tombstone on its key.      *)
(***************************************************************************)
THEOREM DeletionsLeaveTombstones == Spec => DeletionLeavesTombstone
<1>1. ASSUME IInv, [Next]_vars, NEW id \in RunIds, runs[id].stored, ~runs'[id].stored
      PROVE  /\ claims'[runs[id].key].state = "tombstoned"
             /\ claims'[runs[id].key].tombExpires = clock + Tombstone
  <2>1. ASSUME NEW r \in Requests, PersistCommit(r) \/ PersistUnacknowledged(r), id = RunIdOf(r)
        PROVE  FALSE
    BY <1>1, <2>1, StoreWrites DEF IInv
  <2> QED
    BY <1>1, <2>1, RunCases
<1>2. IInv /\ [Next]_vars =>
        [\A id \in RunIds : runs[id].stored /\ ~runs'[id].stored =>
           LET row == claims'[runs[id].key]
           IN  row.state = "tombstoned" /\ row.tombExpires = clock + Tombstone]_vars
  BY <1>1
<1> QED
  BY <1>2, Invariance, PTL DEF Spec, DeletionLeavesTombstone

(***************************************************************************)
(* Only the request that holds the lease completes or releases a claim.    *)
(***************************************************************************)
LEMMA LeaseholderStep ==
  ASSUME IInv, [Next]_vars, NEW k \in Keys,
         claims[k].state = "processing", claims'[k].state # "processing"
  PROVE  LET r == claims[k].lease
         IN  /\ requests[r].pc \in {"persist", "cleanup"}
             /\ requests'[r].pc # requests[r].pc
             /\ claims'[k].state = "completed" => runs'[claims'[k].run].request = r
<1>0. TypeOK /\ ArrivalsPast
  BY DEF IInv
<1>1. ~UNCHANGED <<claims, runs>>
  OBVIOUS
<1>2. ASSUME NEW r \in Requests, AcquireGrant(r) PROVE FALSE
  BY <1>0, <1>2, GrantWrites
<1>3. ASSUME NEW r \in Requests, PersistCommit(r) \/ PersistUnacknowledged(r)
      PROVE  /\ claims[k].lease = r /\ requests[r].pc = "persist" /\ requests'[r].pc # "persist"
             /\ runs'[claims'[k].run].request = r
  <2>1. k = requests[r].cmd.key /\ runs'[claims'[k].run].request = r
    BY <1>0, <1>3, StoreWrites DEF TypeOK
  <2>2. claims[k].lease = r
    BY <1>3, <2>1 DEF PersistCommit, PersistUnacknowledged, Storable, Owns, OwnedBy
  <2> QED
    BY <1>0, <1>3, <2>1, <2>2, StorePasses DEF Past
<1>4. ASSUME NEW r \in Requests, CleanupFail(r)
      PROVE  /\ claims[k].lease = r /\ requests[r].pc = "cleanup" /\ requests'[r].pc # "cleanup"
             /\ claims'[k].state = "failed"
  <2>1. requests[r].pc = "cleanup" /\ requests'[r].pc = "record_failure"
    BY <1>0, <1>4 DEF CleanupFail, Goto, TypeOK, RequestStates
  <2>2. k = requests[r].cmd.key /\ Owns(r)
    BY <1>0, <1>4 DEF CleanupFail, TypeOK
  <2>3. claims'[k].state = "failed"
    BY <1>0, <1>4, FailWrites
  <2> QED
    BY <2>1, <2>2, <2>3 DEF Owns, OwnedBy
<1>5. ASSUME NEW ids, Deletes(ids) PROVE FALSE
  BY <1>5 DEF Deletes, Kept
<1> QED
  BY <1>1, <1>2, <1>3, <1>4, <1>5, StepCases, DeletionCases

(***************************************************************************)
(* A worker whose claim was taken over can neither complete nor release it.*)
(***************************************************************************)
THEOREM LeaseholderFinishes == Spec => OnlyLeaseholderFinishes
<1>1. IInv /\ [Next]_vars =>
        [\A k \in Keys : claims[k].state = "processing" /\ claims'[k].state # "processing" =>
           LET r == claims[k].lease
           IN  /\ requests[r].pc \in {"persist", "cleanup"}
               /\ requests'[r].pc # requests[r].pc
               /\ claims'[k].state = "completed" => runs'[claims'[k].run].request = r]_vars
  BY LeaseholderStep
<1> QED
  BY <1>1, Invariance, PTL DEF Spec, OnlyLeaseholderFinishes

(***************************************************************************)
(* The quota step and the acquisition, code of their own, agree: an upload *)
(* costs nothing exactly when the row will not be granted to it, if both   *)
(* look at the same row with the same clock reading.                       *)
(***************************************************************************)
THEOREM NoWorkExactlyWhenDeclined ==
  ASSUME TypeOK, NEW r \in Requests, requests[r].pc # "idle"
  PROVE  NoWork(r) <=> Decision(r) # "free"
<1> DEFINE cmd == requests[r].cmd
           row == claims[cmd.key]
<1>2. CASE row.state = "none"
  BY <1>2 DEF NoWork, Decision
<1>3. CASE row.state # "none" /\ cmd.origin = "local"
  BY <1>3 DEF NoWork, Decision, LocalNoWork, LocalExistingDecision
<1>4. CASE row.state # "none" /\ cmd.origin # "local"
  BY <1>4 DEF NoWork, Decision, GithubNoWork, GithubExistingDecision
<1> QED
  BY <1>2, <1>3, <1>4
=============================================================================
