-------------------------- MODULE InstructionCommit --------------------------
(***************************************************************************)
(* datasets/services/episode_instruction_service.py: an instruction is     *)
(* edited in a copy of the data set, which then takes its place.  A        *)
(* manifest beside the data set names the backup and the copy, so that     *)
(* the next command can undo or finish what a stop left.                   *)
(*                                                                         *)
(* The whole commit runs on the event loop without an await: between its   *)
(* steps only other threads, a kill and a failing call can intervene.      *)
(* This module has the directories and the manifest; EpisodeAnnotations    *)
(* has the requests, and the threads that write in the data set meanwhile. *)
(***************************************************************************)
EXTENDS Naturals

CONSTANT MaxErrors      \* bound: calls that raise, and kills

VARIABLES
    root,               \* the data set, a tree
    backup,             \* the data set moved aside
    staging,            \* the copy being edited
    manifest,           \* its phase; "none": there is no file
    step,               \* the step of the commit; "idle": the loop is free
    clock,              \* the last modification time given
    late,               \* a call raised when the new data set was in place
    errors

trees == <<root, backup, staging>>
commitVars == <<trees, manifest, step, clock, late, errors>>

Gone == [half |-> FALSE, torn |-> FALSE]
Exists(t) == t # Gone

(* A data set: rows and torn of its episode file, the edition of its       *)
(* instructions, the modification time of its metadata; half: partly       *)
(* copied or partly removed.                                               *)
Tree(Rows) == [rows : Rows, torn : BOOLEAN, edition : Nat, stamp : Nat,
               half : BOOLEAN]

CommitTypeOK(Rows) ==
    /\ \A t \in {root, backup, staging} : t \in Tree(Rows) \cup {Gone}
    /\ manifest \in {"none", "prepared", "moved"}
    /\ step \in {"idle", "recover", "sweep", "preview", "prepare", "move",
                 "mark", "copy", "mutate", "promote", "unlink", "clean",
                 "undo", "discard", "restore", "forget", "answer", "raised"}
    /\ clock \in Nat /\ late \in BOOLEAN /\ errors \in 0..MaxErrors

CommitInit(rows) ==
    /\ root = [rows |-> rows, torn |-> FALSE, edition |-> 0, stamp |-> 0,
               half |-> FALSE]
    /\ backup = Gone /\ staging = Gone
    /\ manifest = "none"
    /\ step = "idle"
    /\ clock = 0 /\ late = FALSE /\ errors = 0

At(s) == step = s
Go(s) == step' = s
KeepRest == UNCHANGED <<clock, late, errors>>
-----------------------------------------------------------------------------
(* recover.  The request found the data set before it waited for its turn; *)
(* a commit that failed since may have left it aside.                      *)

(* No manifest, or one whose rename never happened.                        *)
RecoverNothing ==
    /\ At("recover")
    /\ \/ manifest = "none"
       \/ /\ manifest = "prepared" /\ ~Exists(backup)
          /\ Exists(root) /\ ~Exists(staging)
    /\ manifest' = "none"
    /\ Go("preview")
    /\ UNCHANGED trees /\ KeepRest

(* The new data set was promoted: the backup and the manifest go.          *)
RecoverPromoted ==
    /\ At("recover")
    /\ manifest = "moved" /\ Exists(backup)
    /\ Exists(root) /\ ~Exists(staging)
    /\ backup' = [backup EXCEPT !.half = TRUE]
    /\ Go("sweep")
    /\ UNCHANGED <<root, staging, manifest>> /\ KeepRest

(* Else the backup takes the place of what is there.                       *)
RecoverBack ==
    /\ At("recover")
    /\ manifest # "none" /\ Exists(backup)
    /\ manifest = "moved" => ~Exists(root) \/ Exists(staging)
    /\ root' = backup /\ backup' = Gone /\ staging' = Gone
    /\ Go("sweep")
    /\ UNCHANGED manifest /\ KeepRest

Sweep ==
    /\ At("sweep")
    /\ IF Exists(backup)
       THEN backup' = Gone /\ UNCHANGED <<manifest, step>>
       ELSE manifest' = "none" /\ Go("preview") /\ UNCHANGED backup
    /\ UNCHANGED <<root, staging>> /\ KeepRest

(* instruction_recovery_required.                                          *)
RecoverRefuses ==
    /\ At("recover")
    /\ manifest # "none" /\ ~Exists(backup)
    /\ manifest = "prepared" => ~Exists(root) \/ Exists(staging)
    /\ Go("raised")
    /\ UNCHANGED <<trees, manifest>> /\ KeepRest

(* preview: an unreadable file, a conflict, a stale fingerprint raise; a   *)
(* commit that changes nothing returns.                                    *)
Preview ==
    /\ At("preview")
    /\ \/ Go("raised")
       \/ /\ Exists(root) /\ ~root.torn /\ ~root.half
          /\ step' \in {"prepare", "answer"}
    /\ UNCHANGED <<trees, manifest>> /\ KeepRest
-----------------------------------------------------------------------------
(* commit.  Its backup and its copy have new names: what an earlier commit *)
(* left under old ones is nobody's any more.                               *)

(* Mutant: the first manifest is not written.                              *)
PrepareUnsaid ==
    /\ At("prepare")
    /\ backup' = Gone /\ staging' = Gone
    /\ Go("move")
    /\ UNCHANGED <<root, manifest>> /\ KeepRest

Prepare ==
    /\ At("prepare")
    /\ manifest' = "prepared"
    /\ backup' = Gone /\ staging' = Gone
    /\ Go("move")
    /\ UNCHANGED root /\ KeepRest

Move ==
    /\ At("move")
    /\ backup' = root /\ root' = Gone
    /\ Go("mark")
    /\ UNCHANGED <<staging, manifest>> /\ KeepRest

Mark ==
    /\ At("mark")
    /\ manifest' = "moved"
    /\ Go("copy")
    /\ UNCHANGED trees /\ KeepRest

Copy ==
    /\ At("copy")
    /\ staging' = [backup EXCEPT !.half = TRUE]
    /\ Go("mutate")
    /\ UNCHANGED <<root, backup, manifest>> /\ KeepRest

(* _mutate: it cannot read a file that was copied while it was written.    *)
Mutate ==
    /\ At("mutate")
    /\ ~staging.torn
    /\ clock' = clock + 1
    /\ staging' = [staging EXCEPT !.half = FALSE, !.edition = @ + 1,
                                  !.stamp = clock + 1]
    /\ Go("promote")
    /\ UNCHANGED <<root, backup, manifest, late, errors>>

Promote ==
    /\ At("promote")
    /\ root' = staging /\ staging' = Gone
    /\ Go("unlink")
    /\ UNCHANGED <<backup, manifest>> /\ KeepRest

Unlink ==
    /\ At("unlink")
    /\ manifest' = "none"
    /\ Go("clean")
    /\ UNCHANGED trees /\ KeepRest

Clean ==
    /\ At("clean")
    /\ IF backup.half
       THEN backup' = Gone /\ Go("answer")
       ELSE backup' = [backup EXCEPT !.half = TRUE] /\ UNCHANGED step
    /\ UNCHANGED <<root, staging, manifest>> /\ KeepRest
-----------------------------------------------------------------------------
(* except Exception. *)

Unreadable ==
    /\ At("mutate") /\ staging.torn
    /\ Go("undo")
    /\ UNCHANGED <<trees, manifest>> /\ KeepRest

Raises ==
    /\ errors < MaxErrors
    /\ errors' = errors + 1
    /\ \/ /\ step \in {"move", "mark", "copy", "mutate", "promote"}
          /\ Go("undo") /\ UNCHANGED late
       \/ /\ step \in {"unlink", "clean"}
          /\ Go("undo") /\ late' = TRUE
       \/ /\ step \in {"sweep", "prepare", "undo", "discard", "restore",
                       "forget"}
          /\ Go("raised") /\ UNCHANGED late
    /\ UNCHANGED <<trees, manifest, clock>>

(* What stands in the place of a data set that was moved is removed.       *)
Undo ==
    /\ At("undo")
    /\ IF Exists(backup) /\ Exists(root)
       THEN /\ root' = IF root.half THEN Gone ELSE [root EXCEPT !.half = TRUE]
            /\ UNCHANGED step
       ELSE Go("discard") /\ UNCHANGED root
    /\ UNCHANGED <<backup, staging, manifest>> /\ KeepRest

Discard ==
    /\ At("discard")
    /\ staging' = Gone
    /\ Go("restore")
    /\ UNCHANGED <<root, backup, manifest>> /\ KeepRest

Restore ==
    /\ At("restore")
    /\ IF Exists(backup) THEN root' = backup /\ backup' = Gone
       ELSE UNCHANGED <<root, backup>>
    /\ Go("forget")
    /\ UNCHANGED <<staging, manifest>> /\ KeepRest

Forget ==
    /\ At("forget")
    /\ manifest' = "none"
    /\ Go("raised")
    /\ UNCHANGED trees /\ KeepRest

Working ==
    \/ RecoverNothing \/ RecoverPromoted \/ RecoverBack \/ Sweep
    \/ RecoverRefuses \/ Preview
    \/ Prepare \/ Move \/ Mark \/ Copy \/ Mutate \/ Unlink \/ Clean
    \/ Unreadable \/ Undo \/ Discard \/ Restore \/ Forget
-----------------------------------------------------------------------------
(* A whole data set is in its place, or aside and named by the manifest:   *)
(* no kill, no failing call and no write by another thread leaves only     *)
(* halves (commit, recover).  A call that raises when the new data set is  *)
(* in place and the manifest is being removed makes the exception handler  *)
(* remove the new one for a backup that may be half removed already.       *)
DataSetKept ==
    \/ late
    \/ Exists(root) /\ ~root.half
    \/ Exists(backup) /\ ~backup.half /\ manifest # "none"
=============================================================================
