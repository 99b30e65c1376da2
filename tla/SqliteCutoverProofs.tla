------------------------ MODULE SqliteCutoverProofs ------------------------
(***************************************************************************)
(* Proofs about SqliteCutover, for any commits, backups and recovery       *)
(* paths.  The invariant behind them says what the order of the checks and *)
(* renames buys: the log is gone and the recovery path free when the swap  *)
(* begins, and from the first rename on the files other than the target    *)
(* hold every commit.                                                      *)
(***************************************************************************)
EXTENDS SqliteCutover, TLAPS

Planned == {"stage", "recheck", "sidecars", "move"}
Moved == {"swap", "verify", "undo", "reinstate"}

(***************************************************************************)
(* What a step of a backup or a restore has at hand.                       *)
(***************************************************************************)
StepsPlaced ==
  /\ taking.pc # "idle" => taking.path \in Backups /\ taking.copy \in Databases
  /\ restore.pc # "idle" => restore.path \in Backups /\ backups[restore.path].file # None
  /\ restore.pc \in Planned \cup Moved => restore.recovery \in Recoveries
  /\ restore.pc \in {"recheck", "sidecars", "move", "swap"} => restore.staged \in Databases

LogFits ==
  /\ LogBelongsToTarget
  /\ log # None => log.base \subseteq log.head
  /\ running => log # None
  /\ Swapping => log = None

FilesWhole == \A n \in Names : files[n] # Torn

RecoveryFree == restore.pc \in Planned => files[restore.recovery] = None

KeptAside ==
  restore.pc \in Moved =>
    \A c \in acknowledged : \E n \in Names \ {"target"} : c \in HeldBy(n)

IInv ==
  /\ TypeOK /\ StepsPlaced /\ LogFits /\ FilesWhole
  /\ RecoveryFree /\ KeptAside /\ NoCommitIsLost

-----------------------------------------------------------------------------
LEMMA Distinct ==
  /\ "target" \in Names /\ "failed" \in Names /\ "target" # "failed"
  /\ \A r \in Recoveries : r \in Names /\ r # "target" /\ r # "failed" /\ r # None
  /\ \A b \in Backups : b # None
  /\ Torn # None
  /\ \A d \in Databases : d # None /\ d # Torn
  /\ {} \in Databases
  /\ Databases \subseteq Contents
BY CutoverAssumption DEF Names, Databases, Contents

LEMMA Logs ==
  \A d, e \in Databases :
     /\ Log(d, e) \in [base : Databases, head : Databases]
     /\ Log(d, e) # None /\ Log(d, e).base = d /\ Log(d, e).head = e
BY CutoverAssumption DEF Log

LEMMA CutoverInit == Init => IInv
<1> SUFFICES ASSUME Init PROVE IInv
  OBVIOUS
<1>1. TypeOK
  BY Distinct DEF Init, TypeOK, Contents, NoBackup, NoRestore
<1>2. StepsPlaced /\ RecoveryFree /\ KeptAside /\ NoCommitIsLost
  BY DEF Init, StepsPlaced, RecoveryFree, KeptAside, NoCommitIsLost, NoBackup, NoRestore,
         Planned, Moved
<1>3. LogFits
  BY DEF Init, LogFits, LogBelongsToTarget, Swapping, NoRestore
<1>4. FilesWhole
  BY Distinct DEF Init, FilesWhole
<1> QED
  BY <1>1, <1>2, <1>3, <1>4 DEF IInv

-----------------------------------------------------------------------------
(***************************************************************************)
(* The service changes the target and the log, and never while files are   *)
(* swapped.                                                                *)
(***************************************************************************)
Writes(db) ==
  /\ UNCHANGED <<backups, taking, evidence, restore>> /\ ~Swapping
  /\ acknowledged' \subseteq Commits
  /\ files' \in [Names -> Contents \cup {None}] /\ files'["target"] = db
  /\ \A n \in Names \ {"target"} : files'[n] = files[n]
  /\ \/ log' = None
     \/ /\ log' \in [base : Databases, head : Databases] /\ log' # None
        /\ log'.base = db /\ db \subseteq log'.head
  /\ \A c \in acknowledged' : \/ c \in (IF log' = None THEN db ELSE log'.head)
                              \/ \E n \in Names \ {"target"} : c \in HeldBy(n)

LEMMA ServiceStep ==
  ASSUME IInv, NEW db \in Databases, Writes(db), running' \in BOOLEAN, running' => log' # None
  PROVE  IInv'
<1> USE DEF IInv, Writes
<1>1. /\ files' \in [Names -> Contents \cup {None}] /\ files'["target"] = db
      /\ \A n \in Names \ {"target"} : files'[n] = files[n]
  OBVIOUS
<1>2. TypeOK'
  BY <1>1 DEF TypeOK
<1>3. StepsPlaced'
  BY DEF StepsPlaced
<1>4. LogFits'
  BY <1>1 DEF LogFits, LogBelongsToTarget, Swapping
<1>5. FilesWhole'
  BY <1>1, Distinct DEF FilesWhole
<1>6. RecoveryFree'
  BY <1>1, Distinct DEF RecoveryFree, StepsPlaced
<1>7. KeptAside'
  BY DEF KeptAside, Swapping, Moved
<1>8. NoCommitIsLost'
  BY <1>1, Distinct DEF NoCommitIsLost, Logged, HeldBy
<1> QED
  BY <1>2, <1>3, <1>4, <1>5, <1>6, <1>7, <1>8

LEMMA ServiceKeeps == IInv /\ Service => IInv'
<1> SUFFICES ASSUME IInv, Service PROVE IInv'
  OBVIOUS
<1> USE DEF IInv
<1>1. running => log # None /\ ~Swapping /\ log \in [base : Databases, head : Databases]
  BY DEF LogFits, TypeOK
<1>2. log # None => log \in [base : Databases, head : Databases] /\ log.base = files["target"]
                    /\ log.base \subseteq log.head
  BY DEF LogFits, LogBelongsToTarget, TypeOK
<1>3. files["target"] \in Databases \cup {None}
  BY Distinct DEF TypeOK, Contents, FilesWhole
<1>4. \A c \in acknowledged : \/ c \in Logged \/ c \in HeldBy("target")
                              \/ \E n \in Names \ {"target"} : c \in HeldBy(n)
  BY DEF NoCommitIsLost
<1>r. running' \in BOOLEAN
  BY Zenon DEF Service, Start, Commit, Checkpoint, Stop, Kill, TypeOK
<1>5. CASE Start
  <2> DEFINE db == IF files["target"] = None THEN {} ELSE files["target"]
  <2>1. db \in Databases
    BY <1>3, Distinct
  <2>2. CASE log = None
    <3>1. log' = Log(db, db) /\ files' = [files EXCEPT !["target"] = db]
      BY <1>5, <2>1, <2>2, Logs DEF Start
    <3>2. \A c \in acknowledged : c \in db \/ \E n \in Names \ {"target"} : c \in HeldBy(n)
      BY <1>4, <2>2 DEF Logged, HeldBy
    <3>3. log' \in [base : Databases, head : Databases] /\ log' # None /\ log'.base = db /\ log'.head = db
      BY <2>1, <3>1, Logs
    <3> HIDE DEF db
    <3>4. Writes(db)
      BY <1>5, <3>1, <3>2, <3>3, Distinct DEF Start, TypeOK, Writes
    <3> QED
      BY <1>r, <2>1, <3>3, <3>4, ServiceStep
  <2>3. CASE log # None
    <3>1. log' = log /\ log.base = db /\ files' = [files EXCEPT !["target"] = db]
      BY <1>2, <1>5, <2>3, Distinct DEF Start
    <3>2. \A c \in acknowledged : c \in log.head \/ \E n \in Names \ {"target"} : c \in HeldBy(n)
      BY <1>2, <1>4, <2>3 DEF Logged, HeldBy
    <3>3. Writes(db)
      BY <1>2, <1>5, <2>3, <3>1, <3>2, Distinct DEF Start, TypeOK, Writes
    <3> QED
      BY <1>r, <2>1, <2>3, <3>1, <3>3, ServiceStep
  <2> QED
    BY <2>2, <2>3
<1>6. ASSUME NEW c \in Commits, Commit(c) PROVE IInv'
  <2>1. log' = Log(log.base, log.head \cup {c}) /\ log.head \cup {c} \in Databases
    BY <1>1, <1>6 DEF Commit, Log, Databases
  <2>2. \A d \in acknowledged' : d \in log.head \cup {c} \/ \E n \in Names \ {"target"} : d \in HeldBy(n)
    BY <1>1, <1>2, <1>4, <1>6 DEF Commit, Logged, HeldBy
  <2>3. /\ log' # None /\ log' \in [base : Databases, head : Databases] /\ log.base \in Databases
        /\ log'.base = log.base /\ log'.head = log.head \cup {c}
    BY <1>1, <1>6, <2>1, Logs DEF Commit
  <2>4. Writes(log.base)
    <3>1. acknowledged' \subseteq Commits
      BY <1>6 DEF Commit, TypeOK
    <3>2. files' \in [Names -> Contents \cup {None}] /\ files' = files /\ files["target"] = log.base
      BY <1>1, <1>2, <1>6 DEF Commit, TypeOK
    <3> QED
      BY <1>1, <1>2, <1>6, <2>2, <2>3, <3>1, <3>2 DEF Commit, Writes
  <2> QED
    BY <1>r, <2>4, <2>3, ServiceStep
<1>7. CASE Checkpoint
  <2>1. \A d \in acknowledged : d \in log.head \/ \E n \in Names \ {"target"} : d \in HeldBy(n)
    BY <1>1, <1>2, <1>4, <1>7 DEF Checkpoint, Logged, HeldBy
  <2>2. /\ log.head \in Databases /\ log' # None /\ log' \in [base : Databases, head : Databases]
        /\ log'.base = log.head /\ log'.head = log.head
    BY <1>1, <1>7, Logs DEF Checkpoint
  <2>3. Writes(log.head)
    BY <1>1, <1>7, <2>1, <2>2, Distinct DEF Checkpoint, TypeOK, Writes
  <2> QED
    BY <1>r, <2>2, <2>3, ServiceStep
<1>8. CASE Stop
  <2>1. \A d \in acknowledged : d \in log.head \/ \E n \in Names \ {"target"} : d \in HeldBy(n)
    BY <1>1, <1>2, <1>4, <1>8 DEF Stop, Logged, HeldBy
  <2>2. log.head \in Databases /\ log' = None /\ ~running'
    BY <1>1, <1>8 DEF Stop
  <2>3. Writes(log.head)
    BY <1>1, <1>8, <2>1, <2>2, Distinct DEF Stop, TypeOK, Writes
  <2> QED
    BY <1>r, <2>2, <2>3, ServiceStep
<1>9. CASE Kill
  <2>1. \A d \in acknowledged : d \in log.head \/ \E n \in Names \ {"target"} : d \in HeldBy(n)
    BY <1>1, <1>2, <1>4, <1>9 DEF Kill, Logged, HeldBy
  <2>2. /\ log.base \in Databases /\ log' # None /\ log' = log
        /\ files["target"] = log.base /\ log.base \subseteq log.head
    BY <1>1, <1>2, <1>9 DEF Kill
  <2>3. Writes(log.base)
    BY <1>1, <1>9, <2>1, <2>2, Distinct DEF Kill, TypeOK, Writes
  <2> QED
    BY <1>r, <2>2, <2>3, ServiceStep
<1> QED
  BY <1>5, <1>6, <1>7, <1>8, <1>9 DEF Service

(***************************************************************************)
(* A backup changes no file of the service.                                *)
(***************************************************************************)
LEMMA BackupKeeps == IInv /\ TakeBackup => IInv'
<1> SUFFICES ASSUME IInv, TakeBackup PROVE IInv'
  OBVIOUS
<1> USE DEF IInv
<1>1. UNCHANGED <<acknowledged, running, files, log, evidence, restore>>
  BY DEF TakeBackup, CopySource, BackupDecays, PublishBackup, WriteManifest, BackupEnds, service
<1>2. LogFits' /\ FilesWhole' /\ RecoveryFree' /\ KeptAside' /\ NoCommitIsLost'
  BY <1>1 DEF LogFits, LogBelongsToTarget, Swapping, FilesWhole, RecoveryFree, KeptAside,
              NoCommitIsLost, HeldBy, Logged
<1>3. TypeOK' /\ StepsPlaced'
  <2>1. ASSUME NEW b \in Backups, CopySource(b) PROVE TypeOK' /\ StepsPlaced'
    <3>1. files["target"] \in Databases
      BY <2>1, Distinct DEF CopySource, TypeOK, Contents
    <3> QED
      BY <1>1, <2>1, <3>1 DEF CopySource, TypeOK, StepsPlaced
  <2>2. ASSUME NEW b \in Backups, BackupDecays(b) PROVE TypeOK' /\ StepsPlaced'
    <3>1. TypeOK' /\ taking' = taking
      BY <1>1, <2>2 DEF BackupDecays, TypeOK, Contents
    <3>2. \A p \in Backups : backups[p].file # None => backups'[p].file # None
      BY <2>2, Distinct DEF BackupDecays, TypeOK
    <3> QED
      BY <1>1, <3>1, <3>2 DEF StepsPlaced
  <2>3. CASE PublishBackup
    <3>1. TypeOK' /\ taking'.path = taking.path /\ taking'.copy = taking.copy
      BY <1>1, <2>3 DEF PublishBackup, TypeOK, StepsPlaced, Contents
    <3>2. \A p \in Backups : backups[p].file # None => backups'[p].file # None
      BY <2>3, Distinct DEF PublishBackup, TypeOK, StepsPlaced
    <3> QED
      BY <1>1, <2>3, <3>1, <3>2 DEF PublishBackup, StepsPlaced
  <2>4. CASE WriteManifest
    BY <1>1, <2>4 DEF WriteManifest, TypeOK, StepsPlaced, NoBackup
  <2>5. CASE BackupEnds
    BY <1>1, <2>5 DEF BackupEnds, TypeOK, StepsPlaced, NoBackup
  <2> QED
    BY <2>1, <2>2, <2>3, <2>4, <2>5 DEF TakeBackup
<1> QED
  BY <1>2, <1>3

(***************************************************************************)
(* A step of a restore before the first rename changes no file either.     *)
(***************************************************************************)
LEMMA PlanKeeps ==
  ASSUME IInv, TakeEvidence \/ EvidenceExpires \/ (\E b \in Backups : Plan(b))
               \/ (\E r \in Recoveries : Guard(r)) \/ Stage \/ RecheckDigest \/ RecheckSidecars
               \/ Return \/ Raise \/ RestoreEnds
  PROVE  IInv'
<1> USE DEF IInv
<1>1. UNCHANGED <<acknowledged, running, files, log, backups, taking>>
  BY DEF TakeEvidence, EvidenceExpires, Plan, Guard, Stage, RecheckDigest, RecheckSidecars,
         Return, Raise, RestoreEnds, service
<1>2. FilesWhole' /\ NoCommitIsLost'
  BY <1>1 DEF FilesWhole, NoCommitIsLost, HeldBy, Logged
<1>3. ASSUME TypeOK', StepsPlaced', RecoveryFree', Swapping' => log = None,
             restore'.pc \in Moved => restore.pc \in Moved
      PROVE  IInv'
  <2>1. LogFits'
    BY <1>1, <1>3 DEF LogFits, LogBelongsToTarget
  <2>2. KeptAside'
    BY <1>1, <1>3 DEF KeptAside, HeldBy
  <2> QED
    BY <1>2, <1>3, <2>1, <2>2
<1>4. CASE TakeEvidence \/ EvidenceExpires
  <2>1. UNCHANGED <<backups, restore>> /\ evidence' \in Contents \cup {None}
    BY <1>4, Distinct DEF TakeEvidence, EvidenceExpires, TypeOK
  <2> QED
    BY <1>1, <1>3, <2>1 DEF TypeOK, StepsPlaced, RecoveryFree, Swapping, LogFits
<1>5. ASSUME NEW b \in Backups, Plan(b) PROVE IInv'
  <2>1. /\ backups[b].manifest \in Databases /\ backups[b].file # None
        /\ files["target"] \in Contents \cup {None}
    BY <1>5, Distinct DEF Plan, VerifyBackup, TypeOK
  <2> QED
    BY <1>1, <1>3, <1>5, <2>1
    DEF Plan, NoRestore, TypeOK, StepsPlaced, RecoveryFree, Swapping, LogFits, Planned, Moved
<1>6. ASSUME NEW r \in Recoveries, Guard(r) PROVE IInv'
  BY <1>1, <1>3, <1>6
  DEF Guard, TypeOK, StepsPlaced, RecoveryFree, Swapping, LogFits, Planned, Moved
<1>7. CASE Stage
  <2>1. backups[restore.path].file \in Contents \cup {None}
    BY <1>7 DEF Stage, StepsPlaced, TypeOK
  <2> QED
    BY <1>1, <1>3, <1>7, <2>1
    DEF Stage, TypeOK, StepsPlaced, RecoveryFree, Swapping, LogFits, Planned, Moved, Contents
<1>8. CASE RecheckDigest \/ RecheckSidecars \/ Raise
  BY <1>1, <1>3, <1>8
  DEF RecheckDigest, RecheckSidecars, Raise, TypeOK, StepsPlaced, RecoveryFree, Swapping,
      LogFits, Planned, Moved
<1>9. CASE Return \/ RestoreEnds
  BY <1>1, <1>3, <1>9
  DEF Return, RestoreEnds, NoRestore, TypeOK, StepsPlaced, RecoveryFree, Swapping, Planned, Moved
<1> QED
  BY <1>4, <1>5, <1>6, <1>7, <1>8, <1>9

(***************************************************************************)
(* The swap and its undoing.  What a step changes, file by file.           *)
(***************************************************************************)
LEMMA FilesReplaced ==
  ASSUME TypeOK, NEW from \in Names, NEW to \in Names, from # to, files' = Replaced(from, to)
  PROVE  /\ files' \in [Names -> Contents \cup {None}]
         /\ files'[to] = files[from] /\ files'[from] = None
         /\ \A n \in Names \ {from, to} : files'[n] = files[n]
BY DEF TypeOK, Replaced

LEMMA SwapKeeps ==
  ASSUME IInv, MoveAside \/ Swap \/ SetAside \/ Reinstate
  PROVE  IInv'
<1> USE DEF IInv
<1> DEFINE r == restore.recovery
<1>0. /\ UNCHANGED <<acknowledged, running, log, backups, taking, evidence>>
      /\ log = None /\ ~running /\ r \in Recoveries /\ r \in Names /\ r # "target" /\ r # "failed"
  BY Distinct
  DEF MoveAside, Swap, SetAside, Reinstate, service, LogFits, Swapping, StepsPlaced, Planned, Moved
<1>1. ASSUME files' \in [Names -> Contents \cup {None}], \A n \in Names : files'[n] # Torn,
             restore'.pc \in Moved \cup {"idle"}, TypeOK', StepsPlaced',
             \A c \in acknowledged : \E n \in Names : c \in HeldBy(n)',
             KeptAside'
      PROVE  IInv'
  <2>1. LogFits' /\ NoCommitIsLost'
    BY <1>0, <1>1 DEF LogFits, LogBelongsToTarget, Swapping, NoCommitIsLost
  <2>2. FilesWhole' /\ RecoveryFree'
    BY <1>1 DEF FilesWhole, RecoveryFree, Planned, Moved
  <2> QED
    BY <1>1, <2>1, <2>2
<1>2. CASE MoveAside
  <2>1. /\ files'[r] = files["target"] /\ files'["target"] = None
        /\ \A n \in Names \ {r, "target"} : files'[n] = files[n]
        /\ files' \in [Names -> Contents \cup {None}]
    BY <1>0, <1>2, Distinct, FilesReplaced DEF MoveAside
  <2>2. files[r] = None
    BY <1>2 DEF MoveAside, RecoveryFree, Planned
  <2>5. ASSUME NEW c \in acknowledged PROVE \E n \in Names \ {"target"} : c \in HeldBy(n)'
    <3>1. PICK n \in Names : c \in HeldBy(n)
      BY <1>0 DEF NoCommitIsLost, Logged
    <3>2. n # r
      BY <2>2, <3>1 DEF HeldBy
    <3>3. CASE n = "target"
      BY <1>0, <2>1, <3>1, <3>3 DEF HeldBy
    <3>4. CASE n # "target"
      BY <2>1, <3>1, <3>2, <3>4 DEF HeldBy
    <3> QED
      BY <3>3, <3>4
  <2>6. TypeOK' /\ StepsPlaced'
    BY <1>0, <1>2, <2>1 DEF MoveAside, TypeOK, StepsPlaced, Planned, Moved
  <2>7. \A n \in Names : files'[n] # Torn
    BY <1>0, <2>1, Distinct DEF FilesWhole
  <2> QED
    BY <1>0, <1>1, <1>2, <2>1, <2>5, <2>6, <2>7 DEF MoveAside, KeptAside, Moved
(***************************************************************************)
(* The other steps change the target and, from nothing, the failed file;   *)
(* what is held aside stays held.                                          *)
(***************************************************************************)
<1>3. CASE Swap
  <2>1. /\ restore.staged \in Databases /\ restore.pc \in Moved
        /\ files'["target"] = restore.staged
        /\ \A n \in Names \ {"target"} : files'[n] = files[n]
        /\ files' \in [Names -> Contents \cup {None}]
    BY <1>3, Distinct DEF Swap, StepsPlaced, TypeOK, Moved
  <2>2. \A n \in Names \ {"target"} : HeldBy(n)' = HeldBy(n)
    BY <2>1 DEF HeldBy
  <2>3. KeptAside'
    BY <1>0, <1>3, <2>1, <2>2 DEF KeptAside
  <2>4. TypeOK' /\ StepsPlaced'
    BY <1>0, <1>3, <2>1 DEF Swap, TypeOK, StepsPlaced, Planned, Moved
  <2>5. \A n \in Names : files'[n] # Torn
    BY <2>1, Distinct DEF FilesWhole
  <2> QED
    BY <1>0, <1>1, <1>3, <2>1, <2>2, <2>3, <2>4, <2>5 DEF Swap, KeptAside, Moved
<1>4. CASE SetAside
  <2>1. restore.pc \in Moved /\ restore'.pc = "reinstate"
    BY <1>4 DEF SetAside, TypeOK, Moved
  <2>2. CASE files' = files
    BY <1>0, <1>1, <1>4, <2>1, <2>2
    DEF SetAside, TypeOK, StepsPlaced, KeptAside, FilesWhole, HeldBy, Planned, Moved
  <2>3. CASE files' = Replaced("target", "failed") /\ files["failed"] = None
    <3>1. /\ files'["failed"] = files["target"] /\ files'["target"] = None
          /\ \A n \in Names \ {"failed", "target"} : files'[n] = files[n]
          /\ files' \in [Names -> Contents \cup {None}]
      BY <2>3, Distinct, FilesReplaced
    <3>2. \A n \in Names \ {"target"}, c \in acknowledged : c \in HeldBy(n) => c \in HeldBy(n)'
      BY <2>3, <3>1 DEF HeldBy
    <3>3. \A c \in acknowledged : \E n \in Names \ {"target"} : c \in HeldBy(n)'
      BY <2>1, <3>2 DEF KeptAside
    <3>4. TypeOK' /\ StepsPlaced'
      BY <1>0, <1>4, <3>1 DEF SetAside, TypeOK, StepsPlaced, Planned, Moved
    <3>5. \A n \in Names : files'[n] # Torn
      BY <3>1, Distinct DEF FilesWhole
    <3> QED
      BY <1>0, <1>1, <2>1, <3>1, <3>3, <3>4, <3>5 DEF KeptAside, Moved
  <2> QED
    BY <1>4, <2>2, <2>3 DEF SetAside
<1>5. CASE Reinstate
  <2>1. /\ files'["target"] = files[r] /\ files'[r] = None
        /\ \A n \in Names \ {r, "target"} : files'[n] = files[n]
        /\ files' \in [Names -> Contents \cup {None}]
    BY <1>0, <1>5, Distinct, FilesReplaced DEF Reinstate
  <2>2. ASSUME NEW c \in acknowledged PROVE \E n \in Names : c \in HeldBy(n)'
    <3>1. PICK n \in Names \ {"target"} : c \in HeldBy(n)
      BY <1>5 DEF Reinstate, KeptAside, Moved
    <3>2. CASE n = r
      BY <2>1, <3>1, <3>2, Distinct DEF HeldBy
    <3>3. CASE n # r
      BY <2>1, <3>1, <3>3 DEF HeldBy
    <3> QED
      BY <3>2, <3>3
  <2>3. restore' = NoRestore /\ TypeOK' /\ StepsPlaced'
    BY <1>0, <1>5, <2>1 DEF Reinstate, NoRestore, TypeOK, StepsPlaced, Planned, Moved
  <2>4. \A n \in Names : files'[n] # Torn
    BY <1>0, <2>1, Distinct DEF FilesWhole
  <2> QED
    BY <1>0, <1>1, <2>1, <2>2, <2>3, <2>4 DEF NoRestore, KeptAside, Moved
<1> QED
  BY <1>2, <1>3, <1>4, <1>5

LEMMA CutoverStep == IInv /\ [Next]_vars => IInv'
<1> SUFFICES ASSUME IInv, [Next]_vars PROVE IInv'
  OBVIOUS
<1>1. CASE Service
  BY <1>1, ServiceKeeps
<1>2. CASE TakeBackup
  BY <1>2, BackupKeeps
<1>3. CASE RestoreDatabase
  BY <1>3, PlanKeeps, SwapKeeps DEF RestoreDatabase
<1>4. CASE UNCHANGED vars
  BY <1>4
  DEF vars, IInv, TypeOK, StepsPlaced, LogFits, LogBelongsToTarget, Swapping, FilesWhole,
      RecoveryFree, KeptAside, NoCommitIsLost, HeldBy, Logged
<1> QED
  BY <1>1, <1>2, <1>3, <1>4 DEF Next

LEMMA Invariance == Spec => []IInv
  BY CutoverInit, CutoverStep, PTL DEF Spec

(***************************************************************************)
(* The state has its types: files, log and steps in progress are as        *)
(* service.py leaves them, and a staged copy was whole when it was checked.*)
(***************************************************************************)
THEOREM TypeCorrect == Spec => []TypeOK
<1>1. IInv => TypeOK
  BY DEF IInv
<1> QED
  BY <1>1, Invariance, PTL

(***************************************************************************)
(* Restores lose no commit, whatever fails, is killed or is repeated:      *)
(* restore_database moves the original aside before anything replaces it,  *)
(* and backs out what fails later.                                         *)
(***************************************************************************)
THEOREM CommitsAreKept == Spec => []NoCommitIsLost
<1>1. IInv => NoCommitIsLost
  BY DEF IInv
<1> QED
  BY <1>1, Invariance, PTL

(***************************************************************************)
(* No log is left beside a database it does not belong to: the checks for  *)
(* "-wal" in restore_database are enough for services that stop or die     *)
(* before the last of them.                                                *)
(***************************************************************************)
THEOREM LogsStayWithTheirDatabase == Spec => []LogBelongsToTarget
<1>1. IInv => LogBelongsToTarget
  BY DEF IInv, LogFits
<1> QED
  BY <1>1, Invariance, PTL
=============================================================================
