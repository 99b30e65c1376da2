--------------------------- MODULE SqliteCutover ---------------------------
(***************************************************************************)
(* The operator's tool that backs up the database of the service and       *)
(* replaces it by a backup.  A database is the set of commits it holds.    *)
(* The service writes commits to the log beside its database file and      *)
(* moves them into the file at a checkpoint; a clean stop does so and      *)
(* removes the log, a killed service leaves it behind.                     *)
(*                                                                         *)
(* A restore checks the backup and the target, stages a copy, checks the   *)
(* target again and swaps the files by two renames; what fails after the   *)
(* first one is backed out.  A step is one look at the disk or one change  *)
(* of it; the tool may be killed before any step and the service may be    *)
(* started, stopped and killed between the steps.  The evidence that it    *)
(* was stopped can be minutes old.                                         *)
(*                                                                         *)
(* Nobody starts the service between the last look at the log and the end  *)
(* of the swap: the tool can only ask for that.                            *)
(*                                                                         *)
(* A name with Without, Ignoring or As is a faulty variant of the          *)
(* definition that follows it.                                             *)
(***************************************************************************)
EXTENDS Naturals

CONSTANTS
  Commits,     \* transactions the service may commit
  Backups,     \* pairs of a backup path and a manifest path
  Recoveries,  \* recovery paths, <target>.pre-restore-<time>-<digest>
  None,        \* no file, no log
  Torn         \* a file that fails its integrity check

Databases == SUBSET Commits
Names == {"target", "failed"} \cup Recoveries

ASSUME CutoverAssumption ==
  /\ {"target", "failed"} \cap Recoveries = {}
  /\ None \notin Recoveries \cup Backups \cup [base : Databases, head : Databases]
  /\ Torn # None
  /\ \A d \in Databases : d \notin {None, Torn}

VARIABLES
  acknowledged,  \* the commits the service has confirmed
  running,       \* the service runs
  files,         \* the database files by name
  log,           \* the log beside the target: what it extends, and to what
  backups,       \* the backup and the manifest at each pair of paths
  taking,        \* the backup that is being taken
  evidence,      \* digest of the target in fresh evidence of a stopped service
  restore        \* the restore that is being executed

vars == <<acknowledged, running, files, log, backups, taking, evidence, restore>>
service == <<acknowledged, running, log>>

-----------------------------------------------------------------------------
(***************************************************************************)
(* A file is its content, and a digest stands for the content it is of.    *)
(***************************************************************************)
NoBackup == [pc |-> "idle", path |-> None, copy |-> None]

NoRestore ==
  [pc |-> "idle", digest |-> None, backup |-> None, staged |-> None, path |-> None, recovery |-> None]

Log(base, head) == [base |-> base, head |-> head]

(***************************************************************************)
(* os.replace: the file at the one name replaces what is at the other.     *)
(***************************************************************************)
Replaced(from, to) == [files EXCEPT ![to] = files[from], ![from] = None]

Init ==
  /\ acknowledged = {}
  /\ running = FALSE
  /\ files = [n \in Names |-> IF n = "target" THEN {} ELSE None]
  /\ log = None
  /\ backups = [b \in Backups |-> [file |-> None, manifest |-> None]]
  /\ taking = NoBackup
  /\ evidence = None
  /\ restore = NoRestore

-----------------------------------------------------------------------------
(***************************************************************************)
(* The service opens the database, in WAL mode, and creates one where      *)
(* there is none.  SQLite replays whatever log it finds beside the file,   *)
(* and another database's log ruins it.                                    *)
(***************************************************************************)
Swapping == restore.pc \in {"move", "swap", "verify", "undo", "reinstate"}

Start ==
  LET db == IF files["target"] = None THEN {} ELSE files["target"]
      found == IF log = None THEN Log(db, db) ELSE log
  IN /\ ~running /\ ~Swapping
     /\ db # Torn
     /\ running' = TRUE
     /\ files' = [files EXCEPT !["target"] = IF found.base = db THEN db ELSE Torn]
     /\ log' = found
     /\ UNCHANGED <<acknowledged, backups, taking, evidence, restore>>

Commit(c) ==
  /\ running
  /\ c \notin acknowledged
  /\ log' = [log EXCEPT !.head = @ \cup {c}]
  /\ acknowledged' = acknowledged \cup {c}
  /\ UNCHANGED <<running, files, backups, taking, evidence, restore>>

Checkpoint ==
  /\ running
  /\ files' = [files EXCEPT !["target"] = log.head]
  /\ log' = Log(log.head, log.head)
  /\ UNCHANGED <<acknowledged, running, backups, taking, evidence, restore>>

Stop ==
  /\ running
  /\ running' = FALSE
  /\ files' = [files EXCEPT !["target"] = log.head]
  /\ log' = None
  /\ UNCHANGED <<acknowledged, backups, taking, evidence, restore>>

Kill ==
  /\ running
  /\ running' = FALSE
  /\ UNCHANGED <<acknowledged, files, log, backups, taking, evidence, restore>>

-----------------------------------------------------------------------------
(***************************************************************************)
(* Taking a backup: the copy is made through a connection that takes the   *)
(* file as immutable and sees no log.  A copy that is torn because the     *)
(* service was checkpointing fails its verification, which changes nothing.*)
(***************************************************************************)
CopySource(b) ==
  /\ taking.pc = "idle"
  /\ backups[b] = [file |-> None, manifest |-> None]
  /\ files["target"] \notin {None, Torn}
  /\ taking' = [pc |-> "publish", path |-> b, copy |-> files["target"]]
  /\ UNCHANGED <<service, files, backups, evidence, restore>>

PublishBackup ==
  /\ taking.pc = "publish"
  /\ backups' = [backups EXCEPT ![taking.path].file = taking.copy]
  /\ taking' = [taking EXCEPT !.pc = "describe"]
  /\ UNCHANGED <<service, files, evidence, restore>>

WriteManifest ==
  /\ taking.pc = "describe"
  /\ backups' = [backups EXCEPT ![taking.path].manifest = taking.copy]
  /\ taking' = NoBackup
  /\ UNCHANGED <<service, files, evidence, restore>>

BackupEnds ==
  /\ taking.pc # "idle"
  /\ taking' = NoBackup
  /\ UNCHANGED <<service, files, backups, evidence, restore>>

BackupDecays(b) ==
  /\ backups[b].file \notin {None, Torn}
  /\ backups' = [backups EXCEPT ![b].file = Torn]
  /\ UNCHANGED <<service, files, taking, evidence, restore>>

-----------------------------------------------------------------------------
(***************************************************************************)
(* The operator notes that the service is stopped and which file it left;  *)
(* the note is good for _MAX_EVIDENCE_AGE, 15 minutes.                     *)
(***************************************************************************)
TakeEvidence ==
  /\ ~running
  /\ files["target"] # None
  /\ evidence' = files["target"]
  /\ UNCHANGED <<service, files, backups, taking, restore>>

EvidenceExpires ==
  /\ evidence # None
  /\ evidence' = None
  /\ UNCHANGED <<service, files, backups, taking, restore>>

-----------------------------------------------------------------------------
(***************************************************************************)
(* A restore: the plan, in the order of its checks.                        *)
(***************************************************************************)
VerifyBackup(b) == backups[b].manifest # None /\ backups[b].file = backups[b].manifest

Plan(b) ==
  /\ restore.pc = "idle"
  /\ VerifyBackup(b)
  /\ files["target"] # None
  /\ evidence = files["target"]
  /\ restore' = [NoRestore EXCEPT !.pc = "guard", !.path = b,
                                  !.digest = files["target"], !.backup = backups[b].manifest]
  /\ UNCHANGED <<service, files, backups, taking, evidence>>

GuardIgnoringRecovery(r) ==
  /\ restore.pc = "guard"
  /\ log = None
  /\ restore' = [restore EXCEPT !.pc = "stage", !.recovery = r]
  /\ UNCHANGED <<service, files, backups, taking, evidence>>

Guard(r) ==
  /\ restore.pc = "guard"
  /\ log = None
  /\ files[r] = None
  /\ restore' = [restore EXCEPT !.pc = "stage", !.recovery = r]
  /\ UNCHANGED <<service, files, backups, taking, evidence>>

StageWithoutVerification ==
  /\ restore.pc = "stage"
  /\ restore' = [restore EXCEPT !.pc = "recheck", !.staged = backups[restore.path].file]
  /\ UNCHANGED <<service, files, backups, taking, evidence>>

Stage ==
  LET copy == backups[restore.path].file
  IN /\ restore.pc = "stage"
     /\ copy # Torn
     /\ restore' = [restore EXCEPT !.pc = "recheck", !.staged = copy]
     /\ UNCHANGED <<service, files, backups, taking, evidence>>

RecheckDigest ==
  /\ restore.pc = "recheck"
  /\ files["target"] = restore.digest
  /\ restore' = [restore EXCEPT !.pc = "sidecars"]
  /\ UNCHANGED <<service, files, backups, taking, evidence>>

RecheckSidecarsIgnoringLog ==
  /\ restore.pc = "sidecars"
  /\ restore' = [restore EXCEPT !.pc = "move"]
  /\ UNCHANGED <<service, files, backups, taking, evidence>>

RecheckSidecars ==
  /\ restore.pc = "sidecars"
  /\ log = None
  /\ restore' = [restore EXCEPT !.pc = "move"]
  /\ UNCHANGED <<service, files, backups, taking, evidence>>

-----------------------------------------------------------------------------
(***************************************************************************)
(* The swap.                                                               *)
(***************************************************************************)
MoveAside ==
  /\ restore.pc = "move"
  /\ files["target"] # None
  /\ files' = Replaced("target", restore.recovery)
  /\ restore' = [restore EXCEPT !.pc = "swap"]
  /\ UNCHANGED <<service, backups, taking, evidence>>

Swap ==
  /\ restore.pc = "swap"
  /\ files' = [files EXCEPT !["target"] = restore.staged]
  /\ restore' = [restore EXCEPT !.pc = "verify", !.staged = None]
  /\ UNCHANGED <<service, backups, taking, evidence>>

Return ==
  /\ restore.pc = "verify"
  /\ files["target"] = restore.backup
  /\ restore' = NoRestore
  /\ UNCHANGED <<service, files, backups, taking, evidence>>

(***************************************************************************)
(* An exception after the first rename: the restored file is set aside,    *)
(* where no failed one is kept yet, and the original comes back.           *)
(***************************************************************************)
Raise ==
  /\ restore.pc \in {"swap", "verify"}
  /\ restore' = [restore EXCEPT !.pc = "undo"]
  /\ UNCHANGED <<service, files, backups, taking, evidence>>

SetAside ==
  /\ restore.pc = "undo"
  /\ files' = IF files["target"] # None /\ files["failed"] = None
                THEN Replaced("target", "failed") ELSE files
  /\ restore' = [restore EXCEPT !.pc = "reinstate"]
  /\ UNCHANGED <<service, backups, taking, evidence>>

Reinstate ==
  /\ restore.pc = "reinstate"
  /\ files' = Replaced(restore.recovery, "target")
  /\ restore' = NoRestore
  /\ UNCHANGED <<service, backups, taking, evidence>>

(***************************************************************************)
(* A refused plan, a dry run, an error before the first rename or while    *)
(* backing out, an interrupt or a kill; a staged copy is removed or left   *)
(* under a name nobody uses.                                               *)
(***************************************************************************)
RestoreEnds ==
  /\ restore.pc # "idle"
  /\ restore' = NoRestore
  /\ UNCHANGED <<service, files, backups, taking, evidence>>

-----------------------------------------------------------------------------
Service == Start \/ Checkpoint \/ Stop \/ Kill \/ \E c \in Commits : Commit(c)

TakeBackup ==
  \/ \E b \in Backups : CopySource(b) \/ BackupDecays(b)
  \/ PublishBackup \/ WriteManifest \/ BackupEnds

RestoreDatabase ==
  \/ TakeEvidence \/ EvidenceExpires
  \/ \E b \in Backups : Plan(b)
  \/ \E r \in Recoveries : Guard(r)
  \/ Stage \/ RecheckDigest \/ RecheckSidecars
  \/ MoveAside \/ Swap \/ Return \/ Raise \/ SetAside \/ Reinstate \/ RestoreEnds

Next == Service \/ TakeBackup \/ RestoreDatabase

Spec == Init /\ [][Next]_vars

-----------------------------------------------------------------------------
Contents == Databases \cup {Torn}

TypeOK ==
  /\ acknowledged \subseteq Commits
  /\ running \in BOOLEAN
  /\ files \in [Names -> Contents \cup {None}]
  /\ log \in [base : Databases, head : Databases] \cup {None}
  /\ backups \in [Backups -> [file : Contents \cup {None}, manifest : Databases \cup {None}]]
  /\ taking \in [pc : {"idle", "publish", "describe"}, path : Backups \cup {None},
                 copy : Databases \cup {None}]
  /\ evidence \in Contents \cup {None}
  /\ restore \in [pc : {"idle", "guard", "stage", "recheck", "sidecars", "move", "swap",
                        "verify", "undo", "reinstate"},
                  digest : Contents \cup {None}, backup : Databases \cup {None},
                  staged : Databases \cup {None}, path : Backups \cup {None},
                  recovery : Recoveries \cup {None}]

HeldBy(n) == IF files[n] \in {None, Torn} THEN {} ELSE files[n]
Logged == IF log = None THEN {} ELSE log.head

(***************************************************************************)
(* No commit the service has confirmed is lost: whatever is restored,      *)
(* fails or is killed, and however often, each is in the database, its     *)
(* log, a recovery copy or the copy set aside.  The runbook: "The restore  *)
(* tool preserves the current failed database as the recovery copy".       *)
(***************************************************************************)
NoCommitIsLost ==
  \A c \in acknowledged : c \in Logged \/ \E n \in Names : c \in HeldBy(n)

(***************************************************************************)
(* A log lies only beside the database it belongs to: no restore puts      *)
(* another file next to the log of a service that was started and killed   *)
(* after the evidence was taken, for the next start to replay.  The tool   *)
(* refuses a target with "-wal" before and after it stages the copy.       *)
(***************************************************************************)
LogBelongsToTarget == log # None => log.base = files["target"]
=============================================================================
