-------------------------- MODULE ViewReplacement --------------------------
(***************************************************************************)
(* scripts/split_raw_task_by_metadata.py,                                  *)
(* materialize_symlink_view_as_hardlinks: a raw task that is a view of     *)
(* symlinks is replaced, under its own path, by plain directories of hard  *)
(* links.  A command reads the manifest, goes on where an earlier one was  *)
(* interrupted, builds a staging root beside the task, moves the view      *)
(* aside and the root into its place.                                      *)
(*                                                                         *)
(* The command may be killed anywhere (Stop), and any call it makes may    *)
(* raise (Raise): then its own error handling runs, which moves the view   *)
(* back and the staging root into quarantine.  An exclusive lock admits    *)
(* one command at a time.  The manifest is replaced atomically; the copy   *)
(* in memory is changed before it is written, and a write may fail.        *)
(***************************************************************************)
EXTENDS Naturals

CONSTANTS
    Recording,      \* the recordings of the view, each of two files or more
    UmaskStrips,    \* mkdir gives a recording fewer permissions than asked for
    MaxRoots,       \* bound: staging roots that are ever reserved
    MaxStops,       \* bound: kills of a command
    MaxErrors       \* bound: calls that raise

ASSUME RecordingAssumption == Recording # {}
ASSUME UmaskAssumption == UmaskStrips \in BOOLEAN
ASSUME BoundsAssumption ==
    MaxRoots \in Nat \ {0} /\ MaxStops \in Nat /\ MaxErrors \in Nat

(* Each reservation token stands for the directory made for it.            *)
Root == 1..MaxRoots

VARIABLES
    view,           \* where the view is: at the task's path or set aside
    root,           \* root[r]: the directory reserved r-th
    log,            \* the manifest on disk; phase "none": there is no file
    mem,            \* the command's copy of it
    save,           \* write_manifest is under way
    pc, ctx,        \* the command: its step, and whether it is in the try
                    \* block of the roll-forward or in its error handling
    stops, errors

disk == <<view, root>>
manifest == <<log, mem, save>>
command == <<pc, ctx>>
faults == <<stops, errors>>
vars == <<disk, manifest, command, faults>>

(* The loader wants these without the identity of a staging root.          *)
Unbound == {"none", "reserved", "staging_replacing", "rolled_back"}
Phase == Unbound \cup
    {"staging_quarantining", "preparing", "prepared", "view_archived",
     "committed", "rollback_failed", "recovery_failed"}

Manifest == [phase : Phase, token : Root, bound : BOOLEAN, quar : SUBSET Root]

Place == {"none", "construction", "staging", "source", "quarantine"}

(* "bare": created, its permissions not yet set; "part": not all its files *)
(* are linked yet.                                                         *)
Built == {"none", "bare", "part", "whole"}

Directory == [at : Place, marked : BOOLEAN, made : [Recording -> Built]]

TypeOK ==
    /\ view \in {"source", "rollback"}
    /\ root \in [Root -> Directory]
    /\ log \in Manifest /\ mem \in Manifest
    /\ save \in BOOLEAN
    /\ pc \in {"idle", "ensure", "look", "quarantine", "build", "archive",
               "install", "commit", "undo", "ending"}
    /\ ctx \in {"enter", "try", "undo"}
    /\ stops \in 0..MaxStops /\ errors \in 0..MaxErrors

Init ==
    /\ view = "source"
    /\ root = [r \in Root |->
          [at |-> "none", marked |-> FALSE, made |-> [x \in Recording |-> "none"]]]
    /\ log = [phase |-> "none", token |-> 1, bound |-> FALSE, quar |-> {}]
    /\ mem = log
    /\ save = FALSE
    /\ pc = "idle" /\ ctx = "enter"
    /\ stops = 0 /\ errors = 0
-----------------------------------------------------------------------------
(* What the command sees. *)

At(r, place) == root[r].at = place
Occupied(place) == \E r \in Root : At(r, place)

Empty(r) == \A x \in Recording : root[r].made[x] = "none"
Whole(r) == \A x \in Recording : root[r].made[x] = "whole"

(* A recording whose permissions are not the source's.                     *)
Misfit(r) == UmaskStrips /\ \E x \in Recording : root[r].made[x] = "bare"

(* _classify_materialization_tree, of the root at a place.                 *)
Tree(place) ==
    IF ~ Occupied(place) THEN "missing"
    ELSE IF ~ (mem.bound /\ At(mem.token, place) /\ root[mem.token].marked)
            \/ Misfit(mem.token)
         THEN "foreign"
    ELSE IF Whole(mem.token) THEN "hardlink" ELSE "partial"

(* _materialization_states: the task's path and the staging path.          *)
SourceState == IF view = "source" THEN "view" ELSE Tree("source")
StagingState == Tree("staging")

(* _load_materialization_manifest accepts it.                              *)
Loadable(m) == m.bound <=> m.phase \notin Unbound

(* _validate_materialization_quarantines finds every root where it should; *)
(* the root of a quarantine under way may not have been moved yet.         *)
Quarantined(m) ==
    \A r \in m.quar :
        \/ At(r, "quarantine")
        \/ m.phase = "staging_quarantining" /\ r = m.token

(* No artifact may exist without a manifest.                               *)
NoOrphans == view = "source" /\ \A r \in Root : At(r, "none")

(* The manifest is changed in memory, and written, before the next step.   *)
Write(m) == mem' = m /\ save' = TRUE /\ UNCHANGED log
Keep == UNCHANGED manifest
Go(to, how) == pc' = to /\ ctx' = how
Doing(step) == pc = step /\ ~ save

(* The command returns or raises: its copy is gone.                        *)
End ==
    /\ mem' = log
    /\ save' = FALSE
    /\ pc' = "idle" /\ ctx' = "enter"
    /\ UNCHANGED log

Save ==
    /\ save
    /\ log' = mem
    /\ save' = FALSE
    /\ UNCHANGED <<disk, mem, command, faults>>
-----------------------------------------------------------------------------
(* The command begins: it plans and reserves, or takes up the manifest.    *)
Start ==
    /\ Doing("idle")
    /\ Go("ensure", "enter")
    /\ IF log.phase = "none"
       THEN /\ NoOrphans
            /\ Write([log EXCEPT !.phase = "reserved"])
       ELSE /\ Loadable(log) /\ Quarantined(log)
            /\ mem' = log
            /\ UNCHANGED <<log, save>>
    /\ UNCHANGED <<disk, faults>>

(* _ensure_materialization_staging_identity: finish a quarantine that is   *)
(* under way; a bound root needs nothing.                                  *)
Ensured ==
    /\ Doing("ensure")
    /\ \/ mem.phase = "staging_quarantining" /\ Go("quarantine", ctx)
       \/ /\ mem.phase # "staging_quarantining"
          /\ mem.bound
          /\ Go(IF ctx = "enter" THEN "look" ELSE "build", ctx)
    /\ UNCHANGED <<disk, manifest, faults>>

Publishing ==
    Doing("ensure") /\ ~ mem.bound /\ mem.phase # "staging_quarantining"

(* _prepare_staging_construction: the directory, then its marker.          *)
MakeConstruction ==
    /\ Publishing
    /\ At(mem.token, "none") /\ ~ Occupied("staging")
    /\ root' = [root EXCEPT ![mem.token].at = "construction"]
    /\ UNCHANGED <<view, manifest, command, faults>>

CreateMarker ==
    /\ Publishing
    /\ At(mem.token, "construction") /\ Empty(mem.token)
    /\ ~ root[mem.token].marked
    /\ root' = [root EXCEPT ![mem.token].marked = TRUE]
    /\ UNCHANGED <<view, manifest, command, faults>>

(* _publish_reserved_staging_root, after the construction is ready.        *)
Publish ==
    /\ Publishing
    /\ At(mem.token, "construction") /\ root[mem.token].marked
    /\ ~ Occupied("staging")
    /\ root' = [root EXCEPT ![mem.token].at = "staging"]
    /\ UNCHANGED <<view, manifest, command, faults>>

(* Mutant: the identity is bound with the phase left as it is.             *)
BindSilently ==
    /\ Publishing
    /\ At(mem.token, "staging") /\ root[mem.token].marked /\ Empty(mem.token)
    /\ Write([mem EXCEPT !.bound = TRUE])
    /\ UNCHANGED <<disk, command, faults>>

(* The published root is bound, also one that an earlier command published *)
(* and did not live to bind.                                               *)
Bind ==
    /\ Publishing
    /\ At(mem.token, "staging") /\ root[mem.token].marked /\ Empty(mem.token)
    /\ Write([mem EXCEPT !.bound = TRUE, !.phase = "preparing"])
    /\ UNCHANGED <<disk, command, faults>>
-----------------------------------------------------------------------------
(* _roll_forward_materialization looks at the paths and decides. *)

Recognised == "foreign" \notin {SourceState, StagingState}

(* The task's path holds the finished tree already.                        *)
Installed ==
    /\ Doing("look") /\ Recognised
    /\ view = "rollback" /\ SourceState = "hardlink" /\ StagingState = "missing"
    /\ IF mem.phase = "committed"
       THEN End
       ELSE Go("commit", "enter") /\ Keep
    /\ UNCHANGED <<disk, faults>>

(* Mutant: a root with something in it is neither used nor replaced.       *)
ForwardFresh ==
    /\ Doing("look") /\ Recognised
    /\ view = "source"
    /\ StagingState = "partial" /\ Empty(mem.token)
    /\ Go("build", "try") /\ Keep
    /\ UNCHANGED <<disk, faults>>

(* The view is in place: build, or build anew, or use what is built.       *)
Forward ==
    /\ Doing("look") /\ Recognised
    /\ view = "source"
    /\ \/ StagingState = "partial" /\ Empty(mem.token) /\ Go("build", "try") /\ Keep
       \/ StagingState = "partial" /\ ~ Empty(mem.token) /\ Go("quarantine", "try") /\ Keep
       \/ /\ StagingState = "hardlink"
          /\ Go("archive", "try")
          /\ Write([mem EXCEPT !.phase = "prepared"])
       \/ StagingState = "missing" /\ Go("undo", "undo") /\ Keep
    /\ UNCHANGED <<disk, faults>>

(* The view is aside and nothing is in its place.  The code would also     *)
(* bring the view back if the root were not whole: NeverEmptyHanded says   *)
(* that this cannot be.                                                    *)
Resume ==
    /\ Doing("look") /\ Recognised
    /\ view = "rollback" /\ SourceState = "missing" /\ StagingState = "hardlink"
    /\ Go("install", "try")
    /\ Write([mem EXCEPT !.phase = "view_archived"])
    /\ UNCHANGED <<disk, faults>>

(* "foreign filesystem state": the command raises.                         *)
Refuse ==
    /\ Doing("look") /\ ~ Recognised
    /\ End
    /\ UNCHANGED <<disk, faults>>

(* _build_materialization_staging: one recording after the other.          *)
Between(r) == \A x \in Recording : root[r].made[x] \in {"none", "whole"}

Make(x, from, to) ==
    /\ Doing("build")
    /\ At(mem.token, "staging")
    /\ root[mem.token].made[x] = from
    /\ from = "none" => Between(mem.token)
    /\ root' = [root EXCEPT ![mem.token].made[x] = to]
    /\ UNCHANGED <<view, manifest, command, faults>>

(* Mutant: every recording is there, no one looks for its files.           *)
PreparedUnverified ==
    /\ Doing("build")
    /\ \A x \in Recording : root[mem.token].made[x] \in {"part", "whole"}
    /\ Go("archive", ctx)
    /\ Write([mem EXCEPT !.phase = "prepared"])
    /\ UNCHANGED <<disk, faults>>

Prepared ==
    /\ Doing("build")
    /\ StagingState = "hardlink"
    /\ Go("archive", ctx)
    /\ Write([mem EXCEPT !.phase = "prepared"])
    /\ UNCHANGED <<disk, faults>>

(* _move_owned_materialization_view moves the view aside.                  *)
Archive ==
    /\ Doing("archive")
    /\ view = "source"
    /\ view' = "rollback"
    /\ Go("install", ctx)
    /\ Write([mem EXCEPT !.phase = "view_archived"])
    /\ UNCHANGED <<root, faults>>

Install ==
    /\ Doing("install")
    /\ view = "rollback" /\ ~ Occupied("source") /\ At(mem.token, "staging")
    /\ root' = [root EXCEPT ![mem.token].at = "source"]
    /\ Go("commit", ctx)
    /\ UNCHANGED <<view, manifest, faults>>

(* _commit_materialization_with_pinned_source: check, write, check.        *)
Commit ==
    /\ Doing("commit")
    /\ SourceState = "hardlink" /\ view = "rollback"
    /\ IF mem.phase = "committed"
       THEN End
       ELSE Write([mem EXCEPT !.phase = "committed"]) /\ UNCHANGED command
    /\ UNCHANGED <<disk, faults>>

(* A check before or after the write fails.                                *)
CommitFails ==
    /\ Doing("commit")
    /\ errors < MaxErrors
    /\ errors' = errors + 1
    /\ Go("ending", ctx)
    /\ Write([mem EXCEPT !.phase = "recovery_failed"])
    /\ UNCHANGED <<disk, stops>>

(* The last write of a command that raises.                                *)
Ended ==
    /\ Doing("ending")
    /\ End
    /\ UNCHANGED <<disk, faults>>
-----------------------------------------------------------------------------
(* _quarantine_materialization_staging: announce, move, reserve anew.      *)
Announce ==
    /\ Doing("quarantine")
    /\ mem.phase # "staging_quarantining"
    /\ mem.bound /\ At(mem.token, "staging") /\ root[mem.token].marked
    /\ Write([mem EXCEPT !.phase = "staging_quarantining",
                         !.quar = @ \cup {mem.token}])
    /\ UNCHANGED <<disk, command, faults>>

Quarantine ==
    /\ Doing("quarantine")
    /\ mem.phase = "staging_quarantining"
    /\ At(mem.token, "staging")
    /\ root' = [root EXCEPT ![mem.token].at = "quarantine"]
    /\ UNCHANGED <<view, manifest, command, faults>>

ReserveAnew ==
    /\ Doing("quarantine")
    /\ mem.phase = "staging_quarantining"
    /\ At(mem.token, "quarantine")
    /\ mem.token < MaxRoots
    /\ Go(IF ctx = "undo" THEN "undo" ELSE "ensure", ctx)
    /\ Write([mem EXCEPT !.phase = "staging_replacing", !.bound = FALSE,
                         !.token = @ + 1])
    /\ UNCHANGED <<disk, faults>>
-----------------------------------------------------------------------------
(* _rollback_materialization_after_error. *)

(* Where the command goes on when a call raises: an error in the try block *)
(* is undone, unless a quarantine is under way or the commit has failed; an *)
(* error while undoing is recorded; any other just ends the command.       *)
Caught ==
    IF ctx = "try" /\ mem.phase \notin {"recovery_failed", "staging_quarantining"}
    THEN Go("undo", "undo") /\ save' = FALSE /\ UNCHANGED <<log, mem>>
    ELSE IF ctx = "undo" /\ pc \in {"undo", "quarantine"}
         THEN Go("ending", ctx) /\ Write([mem EXCEPT !.phase = "rollback_failed"])
         ELSE End

(* A call of the command raises, a write of the manifest included.         *)
Raise ==
    /\ pc # "idle"
    /\ errors < MaxErrors
    /\ errors' = errors + 1
    /\ Caught
    /\ UNCHANGED <<disk, stops>>

Undoing == Doing("undo")

(* Mutant: the view is put back although the tree is installed.            *)
CommitAnywayNot ==
    /\ Undoing
    /\ SourceState = "hardlink"
    /\ view' = "source"
    /\ root' = [root EXCEPT ![mem.token].at = "staging"]
    /\ UNCHANGED <<manifest, command, faults>>

(* The tree was installed: then the error does not count.                  *)
CommitAnyway ==
    /\ Undoing
    /\ view = "rollback" /\ SourceState = "hardlink"
    /\ Go("commit", "undo")
    /\ UNCHANGED <<disk, manifest, faults>>

PutBack ==
    /\ Undoing
    /\ view = "rollback" /\ SourceState = "missing" /\ StagingState # "foreign"
    /\ view' = "source"
    /\ UNCHANGED <<root, manifest, command, faults>>

(* The staging root is not deleted but set aside.                          *)
SetAside ==
    /\ Undoing
    /\ view = "source" /\ StagingState \in {"partial", "hardlink"}
    /\ Go("quarantine", ctx)
    /\ UNCHANGED <<disk, manifest, faults>>

(* Mutant: rolled back, wherever the view is.                              *)
RolledBackAtOnce ==
    /\ Undoing
    /\ StagingState = "missing"
    /\ Go("ending", ctx)
    /\ Write([mem EXCEPT !.phase = "rolled_back"])
    /\ UNCHANGED <<disk, faults>>

RolledBack ==
    /\ Undoing
    /\ view = "source" /\ StagingState = "missing"
    /\ Go("ending", ctx)
    /\ Write([mem EXCEPT !.phase = "rolled_back"])
    /\ UNCHANGED <<disk, faults>>

(* "filesystem state is not safely rollbackable".                          *)
GiveUp ==
    /\ Undoing
    /\ "foreign" \in {SourceState, StagingState}
    /\ Go("ending", ctx)
    /\ Write([mem EXCEPT !.phase = "rollback_failed"])
    /\ UNCHANGED <<disk, faults>>

(* The command is killed. *)
Stop ==
    /\ pc # "idle"
    /\ stops < MaxStops
    /\ stops' = stops + 1
    /\ End
    /\ UNCHANGED <<disk, errors>>

Step ==
    \/ Save \/ Start \/ Ensured
    \/ MakeConstruction \/ CreateMarker \/ Publish \/ Bind
    \/ Installed \/ Forward \/ Resume \/ Refuse
    \/ \E x \in Recording : \/ Make(x, "none", "bare")
                            \/ Make(x, "bare", "part")
                            \/ Make(x, "part", "whole")
    \/ Prepared \/ Archive \/ Install \/ Commit \/ Ended
    \/ Announce \/ Quarantine \/ ReserveAnew
    \/ CommitAnyway \/ PutBack \/ SetAside \/ RolledBack \/ GiveUp

Next == Step \/ CommitFails \/ Raise \/ Stop

Spec == Init /\ [][Next]_vars

(* The command is given again until it succeeds.                           *)
LiveSpec == Spec /\ WF_vars(Step)
-----------------------------------------------------------------------------
(* The durable phase tells where things are, at every moment of every      *)
(* command, of its error handling and after every kill: a committed task   *)
(* is the finished tree with the view kept beside it, and up to the phase  *)
(* "prepared" the view is untouched under the task's path.                 *)
PhaseTruthful ==
    /\ log.phase = "committed" =>
           view = "rollback" /\ At(log.token, "source") /\ Whole(log.token)
    /\ log.phase \in Unbound \cup {"staging_quarantining", "preparing"} =>
           view = "source" /\ ~ Occupied("source")

(* The view leaves the task's path only when a whole tree stands ready to  *)
(* take it, recorded in the durable manifest: whatever fails, the task is  *)
(* a single rename from the one or the other.                              *)
NeverEmptyHanded ==
    view = "rollback" =>
        /\ log.bound
        /\ root[log.token].at \in {"staging", "source"}
        /\ Whole(log.token)

(* Every root that was ever published is in the durable manifest, as the   *)
(* current one or among the quarantined, so none is lost or left unowned.  *)
RootsTracked ==
    \A r \in Root :
        /\ root[r].at \in {"staging", "source"} => r = log.token
        /\ At(r, "quarantine") => r \in log.quar

(* There is no way back once the tree is installed, although errors raised *)
(* from then on run the error handling too                                 *)
(* (test_materialize_does_not_roll_back_after_commit_point).               *)
InstalledStays ==
    [][\A r \in Root : At(r, "source") => root'[r] = root[r] /\ view' = view]_vars

(* What a manifest must be for any later command to go on with it.         *)
Usable(m) == Loadable(m) /\ Quarantined(m)

(* Kills at any points, or one error, leave a manifest that the next       *)
(* command goes on with.                                                   *)
Resumable == errors = 0 \/ stops + errors = 1 => Usable(log)

(* A command that is given again until it succeeds does succeed, unless    *)
(* errors in the error handling left a manifest nothing can use, or a      *)
(* recording was left with permissions the code does not recognise.        *)
Converges ==
    <>[](log.phase = "committed" \/ ~ Usable(log) \/ Misfit(log.token))

=============================================================================
