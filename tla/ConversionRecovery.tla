------------------------- MODULE ConversionRecovery -------------------------
(***************************************************************************)
(* Offline recovery of interrupted conversions                             *)
(* (backend/converter/recovery_service.py): per task, a durable intent     *)
(* file whose phase is advanced by atomic rewrites, between them only      *)
(* no-replace renames of the output, the archive, the markers and the      *)
(* conversion state file that all tasks share.                             *)
(*                                                                         *)
(* One recovery process holds the exclusive lock on the output root at a   *)
(* time.  It may die between any two renames or rewrites; the operator     *)
(* runs the same command again.  Every iteration of the replay loop first  *)
(* checks all evidence on disk against the intent and refuses to touch     *)
(* anything when it does not match.                                        *)
(***************************************************************************)
EXTENDS Naturals

CONSTANTS
    Task,           \* cell/task identifiers under one output root
    Scene,          \* what an interrupted conversion may have left of a task
    None,           \* a name that does not exist, no intent, no plan
    MaxCrashes,     \* bound: recovery processes that die
    MaxConversions  \* bound: conversions started between recoveries

Mode == {"rollback", "adopt-finalization", "quarantine-restart",
         "commit-verified"}
Name == {"output", "archive", "quarantine"}
Tree == {"built", "kept", "fresh"}
Kind == {"finalization", "rebuild"}

(* built, kept: the full validation of the output and of the rebuild's     *)
(* archive; armed: an armed finalization marker; journal: the phase of the *)
(* rebuild journal ("adopted": prepared, with a compatible adoption proof).*)
AnyScene ==
    {s \in [built : {"none", "passed", "failed"},
            kept : {"none", "passed", "failed"},
            armed : BOOLEAN,
            journal : {"none", "prepared", "adopted", "verified"}] :
        s.journal = "none" => s.kept = "none"}

ASSUME SceneAssumption == Scene \subseteq AnyScene
ASSUME BoundsAssumption == MaxCrashes \in Nat /\ MaxConversions \in Nat
VARIABLES
    scene,          \* scene[t], fixed when the conversion was interrupted
    dirs,           \* dirs[t][name]: the tree under that name
    marks,          \* marks[t][kind]: "absent", at its "source" or "audit" name
    canon,          \* convert_state.json
    sback, srepl,   \* per intent: the state backup and the replacement
    intent,         \* intent[t]: the active recovery intent file
    receipt,        \* receipt[t]: the published receipt
    active,         \* the task whose recovery holds the lock
    latest,         \* history: the entries convert_state.json last had
    crashes, conversions

state == <<canon, sback, srepl, latest>>
bounds == <<crashes, conversions>>
vars == <<scene, dirs, marks, state, intent, receipt, active, bounds>>

Entry == {"interrupted", "recovered", "converted", "missing"}
File == [by : Task \cup {"initial", "conversion"}, entries : [Task -> Entry]]
Plan == [orig : File, repl : File]
Phase == {"output_quarantine_pending", "archive_restore_pending",
          "candidate_verify_pending", "state_replacement_pending",
          "state_backup_pending", "state_install_pending",
          "marker_audit_pending", "receipt_pending", "receipt_durable"}
Intent == [mode : Mode, phase : Phase, out : Tree \cup {None},
           arc : Tree \cup {None}, marked : SUBSET Kind,
           plan : Plan \cup {None}]

ASSUME NoneAssumption ==
    /\ None \notin Task /\ None \notin Tree
    /\ None \notin File /\ None \notin Plan /\ None \notin Intent

TypeOK ==
    /\ scene \in [Task -> Scene]
    /\ dirs \in [Task -> [Name -> Tree \cup {None}]]
    /\ marks \in [Task -> [Kind -> {"absent", "source", "audit"}]]
    /\ canon \in File \cup {None}
    /\ sback \in [Task -> File \cup {None}]
    /\ srepl \in [Task -> File \cup {None}]
    /\ intent \in [Task -> Intent \cup {None}]
    /\ receipt \in [Task -> Intent \cup {None}]
    /\ active \in Task \cup {None}
    /\ latest \in [Task -> Entry]
    /\ crashes \in 0..MaxCrashes
    /\ conversions \in 0..MaxConversions

Left(s) ==
    [output |-> IF s.built = "none" THEN None ELSE "built",
     archive |-> IF s.kept = "none" THEN None ELSE "kept",
     quarantine |-> None]

LeftMarks(s) ==
    [finalization |-> IF s.armed THEN "source" ELSE "absent",
     rebuild |-> IF s.journal = "none" THEN "absent" ELSE "source"]

Init ==
    /\ scene \in [Task -> Scene]
    /\ dirs = [t \in Task |-> Left(scene[t])]
    /\ marks = [t \in Task |-> LeftMarks(scene[t])]
    /\ latest = [t \in Task |-> "interrupted"]
    /\ canon = [by |-> "initial", entries |-> latest]
    /\ sback = [t \in Task |-> None]
    /\ srepl = [t \in Task |-> None]
    /\ intent = [t \in Task |-> None]
    /\ receipt = [t \in Task |-> None]
    /\ active = None
    /\ crashes = 0
    /\ conversions = 0
-----------------------------------------------------------------------------
(* A fresh full validation of a tree.                                      *)
Validation(t, tree) == IF tree = "fresh" THEN "passed" ELSE scene[t][tree]

Passed(t, tree) == tree # None /\ Validation(t, tree) = "passed"

At(t, kind) == marks[t][kind] = "source"

(* What each mode demands of the inspection before an intent is written.   *)
Preconditions(t, mode) ==
    LET out == dirs[t].output
    IN  CASE mode = "rollback" ->
                 /\ At(t, "rebuild") /\ scene[t].journal \in {"prepared", "adopted"}
                 /\ out # None
                 /\ Passed(t, dirs[t].archive)
          [] mode = "adopt-finalization" ->
                 At(t, "finalization") /\ ~ At(t, "rebuild") /\ Passed(t, out)
          [] mode = "quarantine-restart" ->
                 out # None /\ Validation(t, out) = "failed"
          [] mode = "commit-verified" ->
                 /\ At(t, "rebuild") /\ scene[t].journal \in {"verified", "adopted"}
                 /\ Passed(t, out)

Quarantines == {"rollback", "quarantine-restart"}

NewIntent(t, mode) ==
    [mode |-> mode,
     phase |-> IF mode \in Quarantines THEN "output_quarantine_pending"
               ELSE "candidate_verify_pending",
     out |-> dirs[t].output,
     arc |-> IF At(t, "rebuild") THEN dirs[t].archive ELSE None,
     marked |-> {k \in Kind : At(t, k)},
     plan |-> None]

(* recover: take the lock, then create the intent (an atomic write that    *)
(* refuses to replace) or load the one of the same mode.  A new intent has *)
(* a new id, so its backup and replacement names do not exist yet.  A      *)
(* published receipt that still stands answers without changing anything.  *)
Create(t, mode) ==
    /\ active = None
    /\ intent[t] = None
    /\ Preconditions(t, mode)
    /\ intent' = [intent EXCEPT ![t] = NewIntent(t, mode)]
    /\ sback' = [sback EXCEPT ![t] = None]
    /\ srepl' = [srepl EXCEPT ![t] = None]
    /\ active' = t
    /\ UNCHANGED <<scene, dirs, marks, canon, latest, receipt, bounds>>

Resume(t, mode) ==
    /\ active = None
    /\ intent[t] # None
    /\ intent[t].mode = mode
    /\ active' = t
    /\ UNCHANGED <<scene, dirs, marks, state, intent, receipt, bounds>>
-----------------------------------------------------------------------------
(* The checks at the head of every iteration of _replay.                   *)
Early == {"state_replacement_pending", "state_backup_pending"}
Late == {"marker_audit_pending", "receipt_pending", "receipt_durable"}

MarkersStand(t) == \A k \in intent[t].marked : marks[t][k] # "absent"

(* Mutant: the check does not expect a backup that was already moved.      *)
StateUntouched(t) ==
    intent[t].plan # None /\ intent[t].phase \in Early =>
        canon = intent[t].plan.orig /\ sback[t] = None

StateStands(t) ==
    LET plan == intent[t].plan
        phase == intent[t].phase
        isOrig == canon = plan.orig
        isRepl == canon = plan.repl
    IN  plan # None =>
            /\ canon # None => isOrig \/ isRepl
            /\ sback[t] \in {None, plan.orig}
            /\ srepl[t] \in {None, plan.repl}
            /\ sback[t] # None \/ isOrig
            /\ srepl[t] # None \/ isRepl
            /\ phase \in Early => srepl[t] # None /\ isOrig # (sback[t] # None)
            /\ phase = "state_install_pending" =>
                   sback[t] # None /\ isRepl # (srepl[t] # None) /\ ~ isOrig
            /\ phase \in Late => sback[t] # None /\ isRepl /\ srepl[t] = None

Stands(t) == MarkersStand(t) /\ StateStands(t)

(* The iteration for phase p runs: the lock is held, all evidence stands.  *)
In(t, p) == active = t /\ intent[t].phase = p /\ Stands(t)

Advance(t, p) == intent' = [intent EXCEPT ![t].phase = p]

(* Mutant: a tree is copied instead of renamed.                            *)
CopyTree(t, from, to) == dirs' = [dirs EXCEPT ![t][to] = dirs[t][from]]

Rename(t, from, to) ==
    dirs' = [dirs EXCEPT ![t][from] = None, ![t][to] = dirs[t][from]]

(* _resolve_directory_move: the expected tree is at exactly one of the two *)
(* names; rename it unless an earlier attempt did.                         *)
MoveDir(t, from, to, tree) ==
    /\ dirs[t][from] = tree
    /\ dirs[t][to] = None
    /\ Rename(t, from, to)
    /\ UNCHANGED <<scene, marks, state, intent, receipt, active, bounds>>

Moved(t, from, to, tree) == dirs[t][from] = None /\ dirs[t][to] = tree

PhaseOnly == UNCHANGED <<scene, dirs, marks, state, receipt, active, bounds>>

QuarantineOutput(t) ==
    /\ In(t, "output_quarantine_pending")
    /\ intent[t].mode = "rollback" => Passed(t, intent[t].arc)
    /\ MoveDir(t, "output", "quarantine", intent[t].out)

OutputQuarantined(t) ==
    /\ In(t, "output_quarantine_pending")
    /\ intent[t].mode = "rollback" => Passed(t, intent[t].arc)
    /\ Moved(t, "output", "quarantine", intent[t].out)
    /\ Advance(t, IF intent[t].mode = "rollback" THEN "archive_restore_pending"
                  ELSE "state_replacement_pending")
    /\ PhaseOnly

RestoreArchive(t) ==
    /\ In(t, "archive_restore_pending")
    /\ MoveDir(t, "archive", "output", intent[t].arc)

ArchiveRestored(t) ==
    /\ In(t, "archive_restore_pending")
    /\ Moved(t, "archive", "output", intent[t].arc)
    /\ Advance(t, "candidate_verify_pending")
    /\ PhaseOnly

(* The candidate: the restored archive, or the output that is kept.        *)
Candidate(t) ==
    IF intent[t].mode = "rollback" THEN intent[t].arc ELSE intent[t].out

VerifyCandidate(t) ==
    /\ In(t, "candidate_verify_pending")
    /\ dirs[t].output = Candidate(t)
    /\ Passed(t, dirs[t].output)
    /\ Advance(t, "state_replacement_pending")
    /\ PhaseOnly
-----------------------------------------------------------------------------
(* The replacement of the shared state file: a copy of it in which only    *)
(* the entry of the task is reconciled.                                    *)
Derived(file, t) ==
    [by |-> t, entries |-> [file.entries EXCEPT ![t] = "recovered"]]

WriteReplacement(t) ==
    /\ In(t, "state_replacement_pending")
    /\ canon # None
    /\ srepl[t] = None
    /\ srepl' = [srepl EXCEPT ![t] = Derived(canon, t)]
    /\ UNCHANGED <<scene, dirs, marks, canon, sback, latest, intent, receipt,
                   active, bounds>>

(* Mutant: a replacement that is already there is taken as it is.          *)
PlanStaleState(t) ==
    /\ In(t, "state_replacement_pending")
    /\ canon # None
    /\ srepl[t] # None
    /\ intent' = [intent EXCEPT ![t].plan = [orig |-> canon, repl |-> srepl[t]],
                                ![t].phase = "state_backup_pending"]
    /\ PhaseOnly

(* A replacement an earlier attempt wrote must be the one derived now.     *)
PlanState(t) ==
    /\ In(t, "state_replacement_pending")
    /\ canon # None
    /\ srepl[t] # None
    /\ srepl[t].entries = Derived(canon, t).entries
    /\ intent' = [intent EXCEPT ![t].plan = [orig |-> canon, repl |-> srepl[t]],
                                ![t].phase = "state_backup_pending"]
    /\ PhaseOnly

BackUpState(t) ==
    /\ In(t, "state_backup_pending")
    /\ sback[t] = None
    /\ sback' = [sback EXCEPT ![t] = canon]
    /\ canon' = None
    /\ UNCHANGED <<scene, dirs, marks, srepl, latest, intent, receipt, active,
                   bounds>>

StateBackedUp(t) ==
    /\ In(t, "state_backup_pending")
    /\ sback[t] = intent[t].plan.orig
    /\ canon = None
    /\ Advance(t, "state_install_pending")
    /\ PhaseOnly

InstallState(t) ==
    /\ In(t, "state_install_pending")
    /\ canon = None
    /\ canon' = srepl[t]
    /\ srepl' = [srepl EXCEPT ![t] = None]
    /\ latest' = srepl[t].entries
    /\ UNCHANGED <<scene, dirs, marks, sback, intent, receipt, active, bounds>>

StateInstalled(t) ==
    /\ In(t, "state_install_pending")
    /\ canon = intent[t].plan.repl
    /\ srepl[t] = None
    /\ Advance(t, "marker_audit_pending")
    /\ PhaseOnly

(* The markers are renamed one after the other, finalization first.        *)
AuditMarker(t, k) ==
    /\ In(t, "marker_audit_pending")
    /\ k \in intent[t].marked
    /\ marks[t][k] = "source"
    /\ k = "rebuild" => marks[t]["finalization"] # "source"
    /\ marks' = [marks EXCEPT ![t][k] = "audit"]
    /\ UNCHANGED <<scene, dirs, state, intent, receipt, active, bounds>>

(* Mutant: one audited marker is enough.                                   *)
MarkerAudited(t) ==
    /\ In(t, "marker_audit_pending")
    /\ \E k \in intent[t].marked : marks[t][k] = "audit"
    /\ Advance(t, "receipt_pending")
    /\ PhaseOnly

MarkersAudited(t) ==
    /\ In(t, "marker_audit_pending")
    /\ \A k \in intent[t].marked : marks[t][k] = "audit"
    /\ Advance(t, "receipt_pending")
    /\ PhaseOnly

CompleteIntent(t) ==
    /\ In(t, "receipt_pending")
    /\ Advance(t, "receipt_durable")
    /\ PhaseOnly

(* The intent file itself is renamed to the receipt; recover returns.      *)
PublishReceipt(t) ==
    /\ In(t, "receipt_durable")
    /\ receipt' = [receipt EXCEPT ![t] = intent[t]]
    /\ intent' = [intent EXCEPT ![t] = None]
    /\ active' = None
    /\ UNCHANGED <<scene, dirs, marks, state, bounds>>

Step(t) ==
    \/ QuarantineOutput(t) \/ OutputQuarantined(t)
    \/ RestoreArchive(t) \/ ArchiveRestored(t) \/ VerifyCandidate(t)
    \/ WriteReplacement(t) \/ PlanState(t)
    \/ BackUpState(t) \/ StateBackedUp(t)
    \/ InstallState(t) \/ StateInstalled(t)
    \/ (\E k \in Kind : AuditMarker(t, k)) \/ MarkersAudited(t)
    \/ CompleteIntent(t) \/ PublishReceipt(t)

(* A check fails: RecoveryError, or FileNotFoundError on the state file.   *)
Refuse(t) ==
    /\ active = t
    /\ \/ ~ Stands(t)
       \/ /\ intent[t].phase = "state_replacement_pending"
          /\ canon # None => /\ srepl[t] # None
                             /\ srepl[t].entries # Derived(canon, t).entries
    /\ active' = None
    /\ UNCHANGED <<scene, dirs, marks, state, intent, receipt, bounds>>

Crash ==
    /\ active # None
    /\ crashes < MaxCrashes
    /\ crashes' = crashes + 1
    /\ active' = None
    /\ UNCHANGED <<scene, dirs, marks, state, intent, receipt, conversions>>
-----------------------------------------------------------------------------
(* recovery_blockers: the queue adapter converts a task only without any.  *)
Blocked(t) ==
    \/ intent[t] # None
    \/ \E k \in Kind : At(t, k)
    \/ dirs[t].output # None /\ Validation(t, dirs[t].output) = "failed"

(* The services run again between two recoveries and the converter works   *)
(* on a task: it reads the state file, or starts from an empty one, writes *)
(* the entry of the task and completes its output.                         *)
Convert(t) ==
    /\ active = None
    /\ conversions < MaxConversions
    /\ ~ Blocked(t)
    /\ conversions' = conversions + 1
    /\ latest' = [(IF canon = None THEN [u \in Task |-> "missing"]
                   ELSE canon.entries) EXCEPT ![t] = "converted"]
    /\ canon' = [by |-> "conversion", entries |-> latest']
    /\ dirs' = [dirs EXCEPT ![t].output = IF @ = None THEN "fresh" ELSE @]
    /\ UNCHANGED <<scene, marks, sback, srepl, intent, receipt, active, crashes>>

Recover(t) == \E mode \in Mode : Create(t, mode) \/ Resume(t, mode)

Next ==
    \/ \E t \in Task : Recover(t) \/ Step(t) \/ Refuse(t) \/ Convert(t)
    \/ Crash

Spec == Init /\ [][Next]_vars

(* The operator runs the command of a pending intent again, and a recovery *)
(* that can go on does.                                                    *)
LiveSpec ==
    /\ Spec
    /\ \A t \in Task : /\ WF_vars(Step(t) \/ Refuse(t))
                       /\ SF_vars(\E mode \in Mode : Resume(t, mode))
-----------------------------------------------------------------------------
(* "Recovery never removes output, archives, markers, state backups":      *)
(* every tree the interrupted conversion left is at exactly one name, no   *)
(* marker is gone, and an intent's original state file is where the        *)
(* converter or the backup has it until the replacement is installed.      *)
Places(t, tree) == {n \in Name : dirs[t][n] = tree}

NothingRemoved ==
    \A t \in Task :
        /\ \A tree \in {"built", "kept"} :
               scene[t][tree] # "none" => \E n \in Name : Places(t, tree) = {n}
        /\ \A k \in Kind : LeftMarks(scene[t])[k] = "source" => marks[t][k] # "absent"
        /\ receipt[t] # None => sback[t] = receipt[t].plan.orig

(* A published receipt tells the truth: the candidate it names is the      *)
(* output, the replaced output is preserved, every marker is audited and   *)
(* the task's entry in the shared state file is reconciled and stays so    *)
(* whatever recoveries of other tasks do before and after, until the       *)
(* services convert again.                                                 *)
ReceiptTruthful ==
    \A t \in Task : receipt[t] # None /\ conversions = 0 =>
        LET r == receipt[t]
        IN  /\ r.mode \in Quarantines => dirs[t].quarantine = r.out
            /\ dirs[t].output = CASE r.mode = "rollback" -> r.arc
                                  [] r.mode = "quarantine-restart" -> None
                                  [] OTHER -> r.out
            /\ r.mode # "quarantine-restart" => Passed(t, dirs[t].output)
            /\ \A k \in Kind : marks[t][k] # "source"
            /\ latest[t] = "recovered"

(* No update of the shared state file is lost when several recoveries are  *)
(* interrupted and resumed in any order, the services being stopped: the   *)
(* entry of a task is changed by its own recovery only.                    *)
OwnEntry(t) == active = t /\ latest'[t] = "recovered"

EntriesKept ==
    [][conversions' = 0 =>
           \A t \in Task : latest'[t] # latest[t] => OwnEntry(t)]_vars

(* The state file is no longer the one the recovery of t planned for: it   *)
(* was replaced, or taken aside, on behalf of another task.                *)
Overtaken(t) ==
    LET plan == intent[t].plan
    IN  IF plan # None
        THEN IF canon = None THEN sback[t] = None
             ELSE canon \notin {plan.orig, plan.repl}
        ELSE /\ intent[t].phase = "state_replacement_pending"
             /\ srepl[t] # None /\ canon # None
             /\ srepl[t].entries # Derived(canon, t).entries

(* "replayed from the fixed intent path after a crash": if the operator    *)
(* keeps running the command of an intent, it is eventually published,     *)
(* unless the recovery of another task got ahead of it.                    *)
RecoveryConverges ==
    \A t \in Task : intent[t] # None ~> intent[t] = None \/ Overtaken(t)
=============================================================================
