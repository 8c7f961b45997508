-------------------------- MODULE InPlaceRollback --------------------------
(***************************************************************************)
(* Dataset operations that rewrite a dataset in place: the curation        *)
(* worker runs stamp_cycles and delete jobs on one dataset directory       *)
(* through jobs/runner_helpers.py::run_in_place_with_rollback, which moves *)
(* the directory to "<name>.bak", rebuilds it and drops the backup.        *)
(*                                                                         *)
(* A directory is a function from the files it holds to their versions.    *)
(* Every file created, rewritten or removed is one step; the worker may be *)
(* killed between any two (its job is then requeued when it starts again), *)
(* the rebuild may raise, and so may the removal of a tree.                *)
(***************************************************************************)
EXTENDS Naturals, FiniteSets

CONSTANTS
    File,           \* the data files of the dataset
    Job,            \* in-place jobs, numbered in creation order
    Op,             \* Op[j]: "delete", "stamp" or "restamp" (overwrite=true)
    NoDir,          \* a path where no directory exists
    NoJob,          \* the worker has no job in hand
    MaxFaults       \* bound: worker deaths, lost reports, failing removals

ASSUME FileAssumption == File # {}
ASSUME JobAssumption ==
    /\ Job \subseteq Nat
    /\ NoJob \notin Job
    /\ Op \in [Job -> {"delete", "stamp", "restamp"}]
ASSUME FaultsAssumption == MaxFaults \in Nat

Version == [cuts : Nat, stamped : BOOLEAN]
IsDir(d) == \E S \in SUBSET File : d \in [S -> Version]
ASSUME NoDirAssumption == ~ IsDir(NoDir)

VARIABLES
    target,         \* the dataset's path
    backup,         \* the path with suffix ".bak"
    pc,             \* where the worker is in the helper
    job,            \* the job the worker has in hand
    todo,           \* files the current loop of the job has still to write
    verdict,        \* verdict[j]: the status column of job j
    applied,        \* history: how often job j finished rewriting the target
    mishap,         \* history: what the backup held when its removal raised
    faults

dirs == <<target, backup>>
vars == <<dirs, pc, job, todo, verdict, applied, mishap, faults>>

Rebuilding == {"making", "copying", "stamping", "writing"}
PC == Rebuilding \cup
    {"idle", "down", "dropping", "returned", "undoing", "restoring", "raised"}

TypeOK ==
    /\ IsDir(target) \/ target = NoDir
    /\ IsDir(backup) \/ backup = NoDir
    /\ pc \in PC
    /\ job \in Job \cup {NoJob}
    /\ todo \subseteq File
    /\ verdict \in [Job -> {"new", "queued", "running", "complete", "failed"}]
    /\ applied \in [Job -> Nat]
    /\ mishap \in {"none", "whole", "part"}
    /\ faults \in 0..MaxFaults

Edited(op, v) ==
    IF op = "delete" THEN [v EXCEPT !.cuts = @ + 1]
                     ELSE [v EXCEPT !.stamped = TRUE]

Original == [cuts |-> 0, stamped |-> FALSE]
Copies(v) == [f \in File |-> v]
EmptyDir == [f \in {} |-> Original]
Files(d) == IF d = NoDir THEN {} ELSE DOMAIN d
With(d, f, v) == [g \in DOMAIN d \cup {f} |-> IF g = f THEN v ELSE d[g]]
Without(d, f) == [g \in DOMAIN d \ {f} |-> d[g]]

(* The directory holds every file of the dataset, all in one version.      *)
Whole(d) ==
    /\ d # NoDir
    /\ DOMAIN d = File
    /\ \A f, g \in File : d[f] = d[g]

Init ==
    /\ target = Copies(Original)
    /\ backup = NoDir
    /\ pc = "idle"
    /\ job = NoJob
    /\ todo = {}
    /\ verdict = [j \in Job |-> "new"]
    /\ applied = [j \in Job |-> 0]
    /\ mishap = "none"
    /\ faults = 0
-----------------------------------------------------------------------------
(* The API accepts a job: the source must exist, and a stamp_cycles job    *)
(* has a dedupe key of the path alone (delete jobs differ in episode ids). *)
Submit(j) ==
    /\ verdict[j] = "new"
    /\ target # NoDir
    /\ Op[j] # "delete" =>
           \A i \in Job :
               verdict[i] \in {"queued", "running"} => Op[i] = "delete"
    /\ verdict' = [verdict EXCEPT ![j] = "queued"]
    /\ UNCHANGED <<dirs, pc, job, todo, applied, mishap, faults>>

(* rename(2) refuses a missing source and a destination that is not empty. *)
CanRename(from, to) == from # NoDir /\ Files(to) = {}

(* The worker claims the oldest job and moves the dataset aside.  The      *)
(* rename is before the try: when it raises nothing is undone.             *)
SetAside(j) ==
    /\ pc = "idle"
    /\ verdict[j] = "queued"
    /\ \A i \in Job : verdict[i] = "queued" => j <= i
    /\ verdict' = [verdict EXCEPT ![j] = "running"]
    /\ job' = j
    /\ IF CanRename(target, backup)
       THEN /\ backup' = target
            /\ target' = NoDir
            /\ pc' = "making"
       ELSE /\ pc' = "raised"
            /\ UNCHANGED dirs
    /\ UNCHANGED <<todo, applied, mishap, faults>>

(* fn(backup, target) creates the directory, then fills it: delete writes  *)
(* the edited files, stamping copies the tree and then stamps the copy.    *)
MakeDir ==
    /\ pc = "making"
    /\ target' = EmptyDir
    /\ todo' = DOMAIN backup
    /\ pc' = IF Op[job] = "delete" THEN "writing" ELSE "copying"
    /\ UNCHANGED <<backup, job, verdict, applied, mishap, faults>>

CopyFile(f) ==
    /\ pc = "copying"
    /\ f \in todo
    /\ target' = With(target, f, backup[f])
    /\ todo' = todo \ {f}
    /\ UNCHANGED <<backup, pc, job, verdict, applied, mishap, faults>>

(* Mutant: the check for existing cycle columns is missing.                *)
RefusedIfEmpty == DOMAIN target = {}

(* stamp_dataset_cycles refuses a copy without data files and, unless the  *)
(* job says overwrite, one where any file already has the columns.         *)
Refused == DOMAIN target = {} \/
           (Op[job] = "stamp" /\ \E f \in DOMAIN target : target[f].stamped)

CheckCopy ==
    /\ pc = "copying"
    /\ todo = {}
    /\ IF Refused
       THEN pc' = "undoing" /\ UNCHANGED todo
       ELSE pc' = "stamping" /\ todo' = DOMAIN target
    /\ UNCHANGED <<dirs, job, verdict, applied, mishap, faults>>

(* The last file written is where fn returns.                              *)
Progress(f) ==
    /\ todo' = todo \ {f}
    /\ IF todo = {f}
       THEN pc' = "dropping" /\ applied' = [applied EXCEPT ![job] = @ + 1]
       ELSE UNCHANGED <<pc, applied>>

(* One file is rewritten beside itself and put in place by os.replace.     *)
StampFile(f) ==
    /\ pc = "stamping"
    /\ f \in todo
    /\ target' = [target EXCEPT ![f] = Edited(Op[job], @)]
    /\ Progress(f)
    /\ UNCHANGED <<backup, job, verdict, mishap, faults>>

WriteFile(f) ==
    /\ pc = "writing"
    /\ f \in todo
    /\ target' = With(target, f, Edited(Op[job], backup[f]))
    /\ Progress(f)
    /\ UNCHANGED <<backup, job, verdict, mishap, faults>>

(* Mutants: the backup is dropped in a finally; the exception is swallowed.*)
RebuildRaisesDropping ==
    /\ pc \in Rebuilding
    /\ pc' = "dropping"
    /\ UNCHANGED <<dirs, job, todo, verdict, applied, mishap, faults>>

RebuildSwallowed ==
    /\ pc \in Rebuilding
    /\ pc' = "returned"
    /\ UNCHANGED <<dirs, job, todo, verdict, applied, mishap, faults>>

RebuildRaises ==
    /\ pc \in Rebuilding
    /\ pc' = "undoing"
    /\ UNCHANGED <<dirs, job, todo, verdict, applied, mishap, faults>>

(* shutil.rmtree(backup), still inside the try.                            *)
DropFile(f) ==
    /\ pc = "dropping"
    /\ f \in DOMAIN backup
    /\ backup' = Without(backup, f)
    /\ UNCHANGED <<target, pc, job, todo, verdict, applied, mishap, faults>>

(* Mutant: the removal of the backup gives up silently.                    *)
DropGivesUp ==
    /\ pc = "dropping"
    /\ pc' = "returned"
    /\ UNCHANGED <<dirs, job, todo, verdict, applied, mishap, faults>>

DropDir ==
    /\ pc = "dropping"
    /\ DOMAIN backup = {}
    /\ backup' = NoDir
    /\ pc' = "returned"
    /\ UNCHANGED <<target, job, todo, verdict, applied, mishap, faults>>

(* A tree removal that raises leaves what it has not removed.  In the try  *)
(* it enters the except branch, which trusts the backup as it now is; in   *)
(* the except branch it leaves the helper.                                 *)
DropRaises ==
    /\ pc = "dropping"
    /\ faults < MaxFaults
    /\ faults' = faults + 1
    /\ pc' = "undoing"
    /\ mishap' = IF Whole(backup) /\ mishap # "part" THEN "whole" ELSE "part"
    /\ UNCHANGED <<dirs, job, todo, verdict, applied>>

UndoRaises ==
    /\ pc = "undoing"
    /\ target # NoDir
    /\ faults < MaxFaults
    /\ faults' = faults + 1
    /\ pc' = "raised"
    /\ UNCHANGED <<dirs, job, todo, verdict, applied, mishap>>

(* except: if target.exists(): rmtree(target); backup.rename(target).      *)
UndoFile(f) ==
    /\ pc = "undoing"
    /\ f \in Files(target)
    /\ target' = Without(target, f)
    /\ UNCHANGED <<backup, pc, job, todo, verdict, applied, mishap, faults>>

UndoDir ==
    /\ pc = "undoing"
    /\ Files(target) = {}
    /\ target' = NoDir
    /\ pc' = "restoring"
    /\ UNCHANGED <<backup, job, todo, verdict, applied, mishap, faults>>

PutBack ==
    /\ pc = "restoring"
    /\ target' = backup
    /\ backup' = NoDir
    /\ pc' = "raised"
    /\ UNCHANGED <<job, todo, verdict, applied, mishap, faults>>

(* The worker's complete or fail statement.                                *)
Report ==
    /\ pc \in {"returned", "raised"}
    /\ verdict' = [verdict EXCEPT ![job] =
                       IF pc = "returned" THEN "complete" ELSE "failed"]
    /\ pc' = "idle"
    /\ job' = NoJob
    /\ UNCHANGED <<dirs, todo, applied, mishap, faults>>

(* That statement raises: the loop goes on, the row stays "running".       *)
ReportLost ==
    /\ pc \in {"returned", "raised"}
    /\ faults < MaxFaults
    /\ faults' = faults + 1
    /\ pc' = "idle"
    /\ job' = NoJob
    /\ UNCHANGED <<dirs, todo, verdict, applied, mishap>>

Crash ==
    /\ pc # "down"
    /\ faults < MaxFaults
    /\ faults' = faults + 1
    /\ pc' = "down"
    /\ job' = NoJob
    /\ UNCHANGED <<dirs, todo, verdict, applied, mishap>>

(* The container starts again and gives the interrupted jobs back.         *)
Restart ==
    /\ pc = "down"
    /\ pc' = "idle"
    /\ verdict' = [j \in Job |-> IF verdict[j] = "running" THEN "queued"
                                 ELSE verdict[j]]
    /\ UNCHANGED <<dirs, job, todo, applied, mishap, faults>>

Next ==
    \/ \E j \in Job : Submit(j) \/ SetAside(j)
    \/ \E f \in File : CopyFile(f) \/ StampFile(f) \/ WriteFile(f)
                       \/ DropFile(f) \/ UndoFile(f)
    \/ MakeDir \/ CheckCopy \/ RebuildRaises \/ DropDir \/ DropRaises
    \/ UndoRaises \/ UndoDir \/ PutBack
    \/ Report \/ ReportLost \/ Crash \/ Restart

Spec == Init /\ [][Next]_vars
-----------------------------------------------------------------------------
(* A complete copy of the dataset exists at every moment, at its path or   *)
(* beside it, whatever fails and whenever the worker dies: moving aside,   *)
(* rebuilding, dropping and undoing never leave two incomplete copies.     *)
(* The one exception is a removal of the backup that raised half-way: the  *)
(* except branch then deletes the rebuilt dataset for the torn backup.     *)
Recoverable == mishap = "part" \/ Whole(target) \/ Whole(backup)

(* What the helper's docstring promises, "restoring on failure": when it   *)
(* raises, the dataset as it was is at its path or beside it.  The code    *)
(* breaks it in the case Recoverable excepts.                              *)
RestoredOnFailure == pc = "raised" => Whole(target) \/ Whole(backup)

(* The jobs of the given operations that were reported complete.          *)
Completed(ops) == {j \in Job : verdict[j] = "complete" /\ Op[j] \in ops}

(* A completed edit is never undone, by jobs that die or fail after it, or *)
(* by an undo from a torn backup: every file there is, at the path or in   *)
(* the backup, at every moment, carries at least the deletions that        *)
(* completed and, once a stamp completed, the cycle columns.               *)
CompletedEditsStay ==
    \A d \in {target, backup} : \A f \in Files(d) :
        /\ Completed({"stamp", "restamp"}) # {} => d[f].stamped
        /\ Cardinality(Completed({"delete"})) <= d[f].cuts

(* Without overwrite a dataset is stamped by one job only, even if that    *)
(* job is executed again after its worker died.  A backup that was put     *)
(* back because its removal raised is unstamped again: from then on the    *)
(* executions say nothing about what the files went through.               *)
StampedOnce ==
    mishap # "none" \/ \A j \in Job : Op[j] = "stamp" => applied[j] <= 1

(* The copy that counts: the one at the path if it is whole.               *)
Content ==
    LET copy == IF Whole(target) THEN target ELSE backup
    IN  copy[CHOOSE f \in File : TRUE]

(* Everything the file steps do is one atomic edit of the content, until   *)
(* the removal of a backup raises.                                         *)
Atomic ==
    INSTANCE AtomicEdit WITH content <- Content, undone <- mishap # "none"
ImplementsAtomicEdit == Atomic!Spec
=============================================================================
