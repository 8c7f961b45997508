---------------------------- MODULE DetachedView ----------------------------
(***************************************************************************)
(* scripts/split_raw_task_by_metadata.py,                                  *)
(* materialize_link_view_detached_as_hardlinks: plain directories of hard  *)
(* links to the recordings of a view are built at a new path, in a private *)
(* parent directory, while view and backing stay as they are.              *)
(*                                                                         *)
(* A command may be killed anywhere (Kill); the next one goes on from the  *)
(* manifest.  Any exception (Raise, and every check that fails) makes the  *)
(* command write the phase "recovery_failed", which no command leaves.     *)
(* An exclusive lock admits one command at a time, and nothing else writes *)
(* in the private parent.  The manifest is replaced atomically; the copy   *)
(* in memory is changed before it is written.                              *)
(***************************************************************************)
EXTENDS Naturals

CONSTANTS
    Recording,      \* the recordings of the view
    UmaskStrips,    \* mkdir gives a recording fewer permissions than asked for
    MaxStops,       \* bound: kills of a command
    MaxErrors       \* bound: calls that raise

ASSUME RecordingAssumption == Recording # {}
ASSUME UmaskAssumption == UmaskStrips \in BOOLEAN
ASSUME BoundsAssumption == MaxStops \in Nat /\ MaxErrors \in Nat

VARIABLES
    root,           \* the destination and its reservation marker
    made,           \* made[x]: what is built of recording x
    intact,         \* view and backing are as they were planned
    log,            \* the manifest on disk; phase "none": there is no file
    mem,            \* the command's copy of it
    save,           \* write_manifest is under way
    pc,             \* the step of the command
    stops, errors

disk == <<root, made>>
manifest == <<log, mem, save>>
faults == <<stops, errors>>
vars == <<disk, intact, manifest, pc, faults>>

Phase == {"none", "reserved", "preparing", "finalizing", "committed",
          "recovery_failed"}

(* root and recs: what has its identity in the manifest.                   *)
Manifest == [phase : Phase, root : BOOLEAN, recs : SUBSET Recording]

(* "bare": created, its permissions not yet set; "part": not all its files *)
(* are linked yet.                                                         *)
Built == {"none", "bare", "part", "whole"}

TypeOK ==
    /\ root \in {"none", "made", "marked", "plain"}
    /\ made \in [Recording -> Built]
    /\ intact \in BOOLEAN
    /\ log \in Manifest /\ mem \in Manifest
    /\ save \in BOOLEAN
    /\ pc \in {"idle", "plan", "check", "root", "look", "build", "verify",
               "finalize", "commit", "after", "ending"}
    /\ stops \in 0..MaxStops /\ errors \in 0..MaxErrors

Init ==
    /\ root = "none"
    /\ made = [x \in Recording |-> "none"]
    /\ intact = TRUE
    /\ log = [phase |-> "none", root |-> FALSE, recs |-> {}]
    /\ mem = log
    /\ save = FALSE
    /\ pc = "idle"
    /\ stops = 0 /\ errors = 0
-----------------------------------------------------------------------------
(* What the command sees. *)

Misfit(x) == UmaskStrips /\ made[x] = "bare"

(* Nothing is there that the manifest does not know.                       *)
Known ==
    /\ mem.root
    /\ \A x \in Recording : made[x] # "none" => x \in mem.recs /\ ~Misfit(x)

(* _detached_destination_state, with or without the marker.                *)
Tree(mark) ==
    IF root = "none" THEN "missing"
    ELSE IF root # mark \/ ~Known THEN "foreign"
    ELSE IF \A x \in Recording : made[x] = "whole" THEN "complete"
    ELSE "partial"

Doing(step) == pc = step /\ ~save
Go(step) == pc' = step
Write(m) == mem' = m /\ save' = TRUE /\ UNCHANGED log
Keep == UNCHANGED manifest

(* The command returns, raises for good or dies: its copy is gone.         *)
End ==
    /\ mem' = log
    /\ save' = FALSE
    /\ Go("idle")
    /\ UNCHANGED log

(* write_manifest: a temporary file takes the place of the manifest.       *)
Save ==
    /\ save
    /\ log' = mem
    /\ save' = FALSE
    /\ UNCHANGED <<disk, intact, mem, pc, faults>>

(* _mark_detached_recovery_failed.                                         *)
Fail ==
    /\ Write([mem EXCEPT !.phase = "recovery_failed"])
    /\ Go("ending")
-----------------------------------------------------------------------------
(* A first command plans from the view as it is and reserves; a later one  *)
(* takes up the manifest, unless it has failed.                            *)
Start ==
    /\ Doing("idle")
    /\ \/ /\ log.phase = "none"
          /\ root = "none"
          /\ intact' = TRUE
          /\ Write([mem EXCEPT !.phase = "reserved"])
          /\ Go("plan")
       \/ /\ log.phase \notin {"none", "recovery_failed"}
          /\ mem' = log
          /\ Go("check")
          /\ UNCHANGED <<intact, log, save>>
    /\ UNCHANGED <<disk, faults>>

Planned ==
    /\ Doing("plan")
    /\ Go("check") /\ Keep
    /\ UNCHANGED <<disk, intact, faults>>

(* The sources are looked at, then the phase tells where to go on.         *)
Check ==
    /\ Doing("check")
    /\ LET sound == /\ intact
                    /\ mem.phase = "reserved" => root = "none"
                    /\ mem.phase = "committed" => Tree("plain") = "complete"
       IN  \/ sound /\ mem.phase = "reserved" /\ Go("root") /\ Keep
           \/ sound /\ mem.phase = "preparing" /\ Go("look") /\ Keep
           \/ sound /\ mem.phase = "finalizing" /\ Go("finalize") /\ Keep
           \/ sound /\ mem.phase = "committed" /\ End
           \/ ~sound /\ Fail
    /\ UNCHANGED <<disk, intact, faults>>

(* The destination, its permissions and its marker, and then the binding.  *)
MakeRoot ==
    /\ Doing("root") /\ root = "none"
    /\ root' = "made"
    /\ UNCHANGED <<made, intact, manifest, pc, faults>>

MarkRoot ==
    /\ Doing("root") /\ root = "made"
    /\ root' = "marked"
    /\ UNCHANGED <<made, intact, manifest, pc, faults>>

BindRoot ==
    /\ Doing("root") /\ root = "marked"
    /\ Write([mem EXCEPT !.phase = "preparing", !.root = TRUE])
    /\ Go("look")
    /\ UNCHANGED <<disk, intact, faults>>

(* Mutant: a tree in which something is built is not gone on with.         *)
LookFresh ==
    /\ Doing("look")
    /\ CASE Tree("marked") = "partial" /\ mem.recs = {} -> Go("build") /\ Keep
         [] Tree("marked") = "complete" -> Go("verify") /\ Keep
         [] OTHER -> Fail
    /\ UNCHANGED <<disk, intact, faults>>

(* A tree that is not the command's own, or not as bound, is not touched.  *)
Look ==
    /\ Doing("look")
    /\ CASE Tree("marked") = "partial" -> Go("build") /\ Keep
         [] Tree("marked") = "complete" -> Go("verify") /\ Keep
         [] OTHER -> Fail
    /\ UNCHANGED <<disk, intact, faults>>
-----------------------------------------------------------------------------
(* _build_detached_destination: one recording after the other is created,  *)
(* bound, given its permissions and filled.                                *)
Between == \A x \in Recording : made[x] \in {"none", "whole"}

Create(x) ==
    /\ Doing("build")
    /\ x \notin mem.recs /\ Between
    /\ made' = [made EXCEPT ![x] = "bare"]
    /\ UNCHANGED <<root, intact, manifest, pc, faults>>

(* Mutant: a recording is bound before it exists.                          *)
BindUnmade(x) ==
    /\ Doing("build")
    /\ x \notin mem.recs
    /\ Write([mem EXCEPT !.recs = @ \cup {x}])
    /\ UNCHANGED <<disk, intact, pc, faults>>

Bind(x) ==
    /\ Doing("build")
    /\ made[x] = "bare" /\ x \notin mem.recs
    /\ Write([mem EXCEPT !.recs = @ \cup {x}])
    /\ UNCHANGED <<disk, intact, pc, faults>>

(* Then its permissions are set, and its files linked.                     *)
Fill(x) ==
    /\ Doing("build")
    /\ x \in mem.recs
    /\ \/ made[x] = "bare" /\ made' = [made EXCEPT ![x] = "part"]
       \/ made[x] = "part" /\ made' = [made EXCEPT ![x] = "whole"]
    /\ UNCHANGED <<root, intact, manifest, pc, faults>>

BuildDone ==
    /\ Doing("build")
    /\ \A x \in Recording : made[x] = "whole"
    /\ Go("verify") /\ Keep
    /\ UNCHANGED <<disk, intact, faults>>

(* Tree and sources are looked at once more.                               *)
Verify ==
    /\ Doing("verify")
    /\ IF intact /\ Tree("marked") = "complete"
       THEN Write([mem EXCEPT !.phase = "finalizing"]) /\ Go("finalize")
       ELSE Fail
    /\ UNCHANGED <<disk, intact, faults>>

(* Mutant: a marker that is gone already is an error.                      *)
FinalizeOnce ==
    /\ Doing("finalize")
    /\ IF Tree("marked") = "complete"
       THEN root' = "plain" /\ Go("commit") /\ Keep
       ELSE Fail /\ UNCHANGED root
    /\ UNCHANGED <<made, intact, faults>>

(* The marker goes; it may be gone already.                                *)
Finalize ==
    /\ Doing("finalize")
    /\ \/ /\ Tree("marked") = "complete"
          /\ root' = "plain"
          /\ Go("commit") /\ Keep
       \/ /\ Tree("marked") # "complete" /\ Tree("plain") = "complete"
          /\ Go("commit") /\ Keep
          /\ UNCHANGED root
       \/ /\ "complete" \notin {Tree("marked"), Tree("plain")}
          /\ Fail
          /\ UNCHANGED root
    /\ UNCHANGED <<made, intact, faults>>

Commit ==
    /\ Doing("commit")
    /\ IF intact /\ Tree("plain") = "complete"
       THEN Write([mem EXCEPT !.phase = "committed"]) /\ Go("after")
       ELSE Fail
    /\ UNCHANGED <<disk, intact, faults>>

(* A last look after the commit, which may still be taken back.            *)
After ==
    /\ Doing("after")
    /\ IF intact /\ Tree("plain") = "complete" THEN End ELSE Fail
    /\ UNCHANGED <<disk, intact, faults>>

Ended ==
    /\ Doing("ending")
    /\ End
    /\ UNCHANGED <<disk, intact, faults>>
-----------------------------------------------------------------------------
(* A call raises.  The first write and the last are not in the try block.  *)
Raise ==
    /\ pc # "idle"
    /\ errors < MaxErrors
    /\ errors' = errors + 1
    /\ IF pc \in {"plan", "ending"} THEN End ELSE Fail
    /\ UNCHANGED <<disk, intact, stops>>

Kill ==
    /\ pc # "idle"
    /\ stops < MaxStops
    /\ stops' = stops + 1
    /\ End
    /\ UNCHANGED <<disk, intact, errors>>

(* Someone changes the view or the backing.                                *)
SourceChanges ==
    /\ intact
    /\ intact' = FALSE
    /\ UNCHANGED <<disk, manifest, pc, faults>>

Step ==
    \/ Save \/ Start \/ Planned \/ Check
    \/ MakeRoot \/ MarkRoot \/ BindRoot \/ Look
    \/ \E x \in Recording : Create(x) \/ Bind(x) \/ Fill(x)
    \/ BuildDone \/ Verify \/ Finalize \/ Commit \/ After \/ Ended

Next == Step \/ Raise \/ Kill \/ SourceChanges

Spec == Init /\ [][Next]_vars
-----------------------------------------------------------------------------
WholeAndBound ==
    /\ log.root /\ log.recs = Recording
    /\ \A x \in Recording : made[x] = "whole"

(* The phase on disk is true at every moment, whatever was interrupted     *)
(* where: nothing is built before the reservation; while it is prepared,   *)
(* what the manifest knows exists and at most one recording is not known   *)
(* yet; from finalizing on the tree is whole and known, and once committed *)
(* it holds nothing but the recordings.                                    *)
PhaseTruthful ==
    /\ log.phase \in {"none", "reserved"} =>
           /\ ~log.root /\ log.recs = {}
           /\ \A x \in Recording : made[x] = "none"
    /\ log.phase = "none" => root = "none"
    /\ log.phase = "preparing" => log.root /\ root = "marked"
    /\ \A x \in log.recs : made[x] # "none"
    /\ \A x, y \in Recording \ log.recs :
           made[x] # "none" /\ made[y] # "none" => x = y
    /\ log.phase = "finalizing" => WholeAndBound /\ root \in {"marked", "plain"}
    /\ log.phase = "committed" => WholeAndBound /\ root = "plain"

(* A destination or a recording was created and not bound, or bound and    *)
(* not given its permissions.                                              *)
Stray ==
    \/ ~log.root /\ root # "none"
    \/ \E x \in Recording : made[x] # "none" /\ x \notin log.recs
    \/ \E x \in Recording : Misfit(x)

(* An attempt is given up, for good, only if a call raised, or the sources *)
(* changed, or a command was killed between creating a directory and       *)
(* recording it or, under such a umask, setting its permissions.  A kill   *)
(* anywhere else is got over by giving the command again.                  *)
FailedForCause ==
    log.phase = "recovery_failed" => errors > 0 \/ ~intact \/ Stray

LiveSpec == Spec /\ WF_vars(Step)

(* A command that is given again commits, but for the same causes.         *)
Converges ==
    <>[](log.phase = "committed" \/ errors > 0 \/ ~intact \/ Stray)
=============================================================================
