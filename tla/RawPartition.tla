---------------------------- MODULE RawPartition ----------------------------
(***************************************************************************)
(* scripts/partition_raw_by_contract.py: the recordings of one raw task    *)
(* are distributed over sibling tasks, one for each digest of a contract   *)
(* manifest, by renaming recording directories on one filesystem.          *)
(*                                                                         *)
(* A command, "apply" or "rollback", reads the journal, goes on where an   *)
(* earlier one stopped and appends the journal's next state before it      *)
(* relies on it.  It may stop anywhere: it is killed, a write fails, or    *)
(* one of its checks meets something foreign.  Commands run one at a time, *)
(* under the lock of the source task and with the services stopped.        *)
(*                                                                         *)
(* A rename is atomic here and durable when it returns.  A record of the   *)
(* state log that was cut short has no newline: it is not read, and the    *)
(* next append truncates it, so a stop before an append stands for it.     *)
(***************************************************************************)
EXTENDS Integers, FiniteSets

CONSTANTS
    Recording,      \* the recordings of the manifest
    Groups,         \* how many digests go to a destination of their own
    Part,           \* the part of each recording: a destination, or Source
    MaxStops,       \* bound: how often a command stops halfway
    MaxSwitches     \* bound: how often the operator changes direction

Source == 0         \* the source task, which keeps the recordings of keep_digest
Group == 1..Groups  \* the destinations, in the order of the journal
Place == {Source} \cup Group

ASSUME PartAssumption == Part \in [Recording -> Place]
ASSUME BoundsAssumption ==
    Groups \in Nat /\ MaxStops \in Nat /\ MaxSwitches \in Nat

VARIABLES
    at,             \* where each recording is
    dir,            \* the destination directories on disk
    boot,           \* how far the two files of the journal have been created
    log,            \* the last state record of the journal, once there is one
    asked,          \* the command the operator gives, and gives again
    pc, mem,        \* the running command: its step, its copy of the journal,
    todo, open,     \* the destinations left to its loop, the marker it writes
    stops, switches

disk == <<at, dir>>
journal == <<boot, log>>
command == <<mem, todo, open>>
operator == <<asked, switches>>
vars == <<disk, journal, pc, command, stops, operator>>

Phase == {"reserved", "applying", "finalizing", "committed",
          "rolling_back", "rolled_back"}

Boot == {"none", "log", "bootstrapped", "base", "written", "durable"}

Mode == {"working", "committed"}

Journal == [phase : Phase, bound : SUBSET Group, mode : [Group -> Mode]]

Directory == [name : {"none", "construction", "published"},
              marker : {"none", "torn", "whole"}, mode : Mode]

PC == {"idle", "bootstrap", "prepare", "moves", "finalize"}

TypeOK ==
    /\ at \in [Recording -> Place]
    /\ dir \in [Group -> Directory]
    /\ boot \in Boot
    /\ log \in Journal /\ mem \in Journal
    /\ asked \in {"apply", "rollback"}
    /\ pc \in PC
    /\ todo \subseteq Group /\ open \subseteq Group
    /\ stops \in 0..MaxStops /\ switches \in 0..MaxSwitches

Reserved == [phase |-> "reserved", bound |-> {},
             mode |-> [g \in Group |-> "working"]]

Init ==
    /\ at = [r \in Recording |-> Source]
    /\ dir = [g \in Group |->
                 [name |-> "none", marker |-> "none", mode |-> "working"]]
    /\ boot = "none"
    /\ log = Reserved /\ mem = Reserved
    /\ asked = "apply"
    /\ pc = "idle"
    /\ todo = {} /\ open = {}
    /\ stops = 0 /\ switches = 0
-----------------------------------------------------------------------------
(* _validate_live_state: what is on disk must fit the phase.               *)
LiveState(phase) ==
    /\ \A g \in mem.bound :
           /\ dir[g].name = "published"
           /\ phase \in {"reserved", "applying"} =>
                  dir[g].mode = "working" /\ dir[g].marker = "whole"
           /\ phase \in {"committed", "rolled_back"} =>
                  dir[g].mode = "committed" /\ dir[g].marker = "none"
    /\ \A g \in Group \ mem.bound : dir[g].name # "published"
    /\ \A r \in Recording : at[r] \in {Source, Part[r]}

Split == \A r \in Recording : at[r] = Part[r]

Restored == \A r \in Recording : at[r] = Source

(* The destination the loop over the destinations is at.                   *)
First(g) == g \in todo /\ \A h \in todo : g <= h

(* _write_journal: the command's copy becomes the last state record.       *)
Append(phase) ==
    /\ mem' = [mem EXCEPT !.phase = phase]
    /\ log' = mem'
    /\ UNCHANGED boot

-----------------------------------------------------------------------------
(* The operator turns to the other command.                                *)
Switch ==
    /\ pc = "idle"
    /\ switches < MaxSwitches
    /\ switches' = switches + 1
    /\ asked' = IF asked = "apply" THEN "rollback" ELSE "apply"
    /\ UNCHANGED <<disk, journal, pc, command, stops>>

(* Mutant: a journal that was begun is not taken over.                     *)
StartFresh ==
    /\ pc = "idle"
    /\ boot = "none"
    /\ asked = "apply"
    /\ pc' = "bootstrap"
    /\ UNCHANGED <<disk, journal, command, stops, operator>>

(* There is no complete journal: apply makes one, or ends the one that was *)
(* begun; a rollback can only end it, from the plan of its first line.     *)
Start ==
    /\ pc = "idle"
    /\ boot # "durable"
    /\ asked = "rollback" => boot \notin {"none", "log"}
    /\ pc' = "bootstrap"
    /\ UNCHANGED <<disk, journal, command, stops, operator>>

(* The state log, its bootstrap line, the journal file, its content, and   *)
(* the header with the first state record, each durable before the next.   *)
Bootstrap ==
    /\ pc = "bootstrap"
    /\ boot # "durable"
    /\ boot' = CASE boot = "none" -> "log"
                 [] boot = "log" -> "bootstrapped"
                 [] boot = "bootstrapped" -> "base"
                 [] boot = "base" -> "written"
                 [] boot = "written" -> "durable"
    /\ UNCHANGED <<disk, log, pc, command, stops, operator>>

Adoptable(g) == g \notin log.bound /\ dir[g].name # "none"

(* Mutant: apply resumes a journal that is being rolled back.              *)
OpenAnyDirection ==
    /\ pc \in {"idle", "bootstrap"}
    /\ boot = "durable"
    /\ mem' = log
    /\ \/ /\ asked = "apply" /\ log.phase # "committed"
          /\ log.phase # "finalizing"
          /\ pc' = "prepare" /\ todo' = Group
       \/ /\ asked = "apply" /\ log.phase = "finalizing"
          /\ pc' = "finalize" /\ todo' = log.bound
       \/ /\ asked = "rollback" /\ log.phase # "rolled_back"
          /\ pc' = "prepare" /\ todo' = {g \in Group : Adoptable(g)}
    /\ UNCHANGED <<disk, journal, open, stops, operator>>

(* The journal is read, and tells where to go on.  Nothing is left to do   *)
(* for an apply that is committed and a rollback that is rolled back; an   *)
(* apply does not turn a rollback round.                                   *)
Open ==
    /\ pc \in {"idle", "bootstrap"}
    /\ boot = "durable"
    /\ mem' = log
    /\ \/ /\ asked = "apply" /\ log.phase \in {"reserved", "applying"}
          /\ pc' = "prepare" /\ todo' = Group
       \/ /\ asked = "apply" /\ log.phase = "finalizing" /\ Split
          /\ pc' = "finalize" /\ todo' = log.bound
       \/ /\ asked = "rollback" /\ log.phase # "rolled_back"
          /\ pc' = "prepare" /\ todo' = {g \in Group : Adoptable(g)}
    /\ UNCHANGED <<disk, journal, open, stops, operator>>

-----------------------------------------------------------------------------
(* _prepare_destination, for apply and for a rollback that adopts what an  *)
(* apply left behind.                                                      *)
Preparing(g) == pc = "prepare" /\ First(g)

Rest == UNCHANGED <<at, journal, pc, mem, todo, stops, operator>>

MakeDirectory(g) ==
    /\ Preparing(g)
    /\ dir[g].name = "none"
    /\ dir' = [dir EXCEPT ![g] = [name |-> "construction", marker |-> "none",
                                  mode |-> "working"]]
    /\ UNCHANGED open
    /\ Rest

CreateMarker(g) ==
    /\ Preparing(g)
    /\ dir[g].name = "construction" /\ dir[g].marker = "none"
    /\ dir' = [dir EXCEPT ![g].marker = "torn"]
    /\ open' = {g}
    /\ Rest

FillMarker(g) ==
    /\ Preparing(g)
    /\ g \in open /\ dir[g].name = "construction"
    /\ dir' = [dir EXCEPT ![g].marker = "whole"]
    /\ open' = {}
    /\ Rest

Publish(g) ==
    /\ Preparing(g)
    /\ dir[g].name = "construction" /\ dir[g].marker = "whole"
    /\ dir' = [dir EXCEPT ![g].name = "published"]
    /\ UNCHANGED open
    /\ Rest

(* The identity of a fresh destination is taken into the command's copy of *)
(* the journal; that of a bound one is compared.                           *)
Bind(g) ==
    /\ Preparing(g)
    /\ dir[g] = [name |-> "published", marker |-> "whole", mode |-> "working"]
    /\ g \in mem.bound \/ \A r \in Recording : at[r] # g
    /\ mem' = [mem EXCEPT !.bound = @ \cup {g}, !.mode[g] = "working"]
    /\ todo' = todo \ {g}
    /\ UNCHANGED <<disk, journal, pc, open, stops, operator>>

Prepared == pc = "prepare" /\ todo = {}

(* Mutant: the destinations are not journaled before the moves begin.      *)
BeginMovesUnjournaled ==
    /\ Prepared
    /\ asked = "apply"
    /\ mem' = [mem EXCEPT !.phase = "applying"]
    /\ pc' = "moves"
    /\ UNCHANGED <<disk, journal, todo, open, stops, operator>>

BeginMoves ==
    /\ Prepared
    /\ asked = "apply"
    /\ Append("applying")
    /\ LiveState("applying")
    /\ pc' = "moves"
    /\ UNCHANGED <<disk, todo, open, stops, operator>>

(* A rollback journals the destinations it adopted ...                     *)
Adopted ==
    /\ Prepared
    /\ asked = "rollback"
    /\ mem # log
    /\ Append(mem.phase)
    /\ UNCHANGED <<disk, pc, todo, open, stops, operator>>

(* Mutant: the direction is not journaled before the moves back begin.     *)
TurnBackUnjournaled ==
    /\ Prepared
    /\ asked = "rollback"
    /\ mem = log
    /\ LiveState(mem.phase)
    /\ pc' = "moves"
    /\ UNCHANGED <<disk, journal, mem, todo, open, stops, operator>>

(* ... and then its direction.                                             *)
TurnBack ==
    /\ Prepared
    /\ asked = "rollback"
    /\ mem = log
    /\ LiveState(mem.phase)
    /\ Append("rolling_back")
    /\ pc' = "moves"
    /\ UNCHANGED <<disk, todo, open, stops, operator>>

-----------------------------------------------------------------------------
(* _rename_recording_noreplace compares both directories with the journal, *)
(* their modes included.                                                   *)
RootMatches(g) ==
    /\ g \in mem.bound
    /\ dir[g].name = "published"
    /\ dir[g].mode = mem.mode[g]

MoveTo(r, place) ==
    /\ at' = [at EXCEPT ![r] = place]
    /\ UNCHANGED <<dir, journal, pc, command, stops, operator>>

Move(r) ==
    /\ pc = "moves"
    /\ asked = "apply"
    /\ at[r] = Source /\ Part[r] # Source
    /\ RootMatches(Part[r])
    /\ MoveTo(r, Part[r])

MoveBack(r) ==
    /\ pc = "moves"
    /\ asked = "rollback"
    /\ at[r] # Source
    /\ RootMatches(at[r])
    /\ MoveTo(r, Source)

Moved ==
    /\ pc = "moves"
    /\ asked = "apply"
    /\ Split
    /\ Append("finalizing")
    /\ pc' = "finalize"
    /\ todo' = mem.bound
    /\ UNCHANGED <<disk, open, stops, operator>>

MovedBack ==
    /\ pc = "moves"
    /\ asked = "rollback"
    /\ Restored
    /\ pc' = "finalize"
    /\ todo' = mem.bound
    /\ UNCHANGED <<disk, journal, mem, open, stops, operator>>

(* _finalize_destinations: the marker goes, then the mode is set.          *)
Unmark(g) ==
    /\ pc = "finalize" /\ First(g)
    /\ dir[g].marker # "none"
    /\ dir' = [dir EXCEPT ![g].marker = "none"]
    /\ UNCHANGED open
    /\ Rest

SetMode(g) ==
    /\ pc = "finalize" /\ First(g)
    /\ dir[g].marker = "none"
    /\ dir' = [dir EXCEPT ![g].mode = "committed"]
    /\ mem' = [mem EXCEPT !.mode[g] = "committed"]
    /\ todo' = todo \ {g}
    /\ UNCHANGED <<at, journal, pc, open, stops, operator>>

Settle ==
    /\ pc = "finalize"
    /\ todo = {}
    /\ LET phase == IF asked = "apply" THEN "committed" ELSE "rolled_back"
       IN  LiveState(phase) /\ Append(phase)
    /\ pc' = "idle"
    /\ UNCHANGED <<disk, todo, open, stops, operator>>

End ==
    /\ pc' = "idle"
    /\ mem' = log
    /\ todo' = {} /\ open' = {}

Stop ==
    /\ pc # "idle"
    /\ stops < MaxStops
    /\ stops' = stops + 1
    /\ End
    /\ UNCHANGED <<disk, journal, operator>>

(* A marker that a stopped command only created: its content is not the    *)
(* one the journal announces.                                              *)
TornMarker(g) == dir[g].marker = "torn" /\ g \notin open

(* A destination whose mode was set after the journal last recorded it.    *)
Misrecorded(g) == dir[g].mode # log.mode[g]

(* The command raises: it has met one of the two.                          *)
Refuse ==
    /\ \/ pc = "prepare" /\ \E g \in Group : First(g) /\ TornMarker(g)
       \/ /\ pc = "moves"
          /\ asked = "rollback"
          /\ ~ Restored
          /\ \A r \in Recording : at[r] # Source => ~ RootMatches(at[r])
    /\ End
    /\ UNCHANGED <<disk, journal, stops, operator>>

Step ==
    \/ Start \/ Bootstrap \/ Open
    \/ \E g \in Group :
           \/ MakeDirectory(g) \/ CreateMarker(g) \/ FillMarker(g)
           \/ Publish(g) \/ Bind(g) \/ Unmark(g) \/ SetMode(g)
    \/ BeginMoves \/ Adopted \/ TurnBack
    \/ \E r \in Recording : Move(r) \/ MoveBack(r)
    \/ Moved \/ MovedBack \/ Settle
    \/ Refuse

Next == Step \/ Switch \/ Stop

Spec == Init /\ [][Next]_vars

(* The operator repeats a command that stopped, without changing it, and a *)
(* command that runs goes on (docs/operations/conversion-recovery.md:55).  *)
LiveSpec == Spec /\ WF_vars(Step)
-----------------------------------------------------------------------------
(* The journal's phase tells where every recording is, at every moment of  *)
(* every command, so whoever trusts a committed journal (the state         *)
(* reconciliation does, and a later apply or rollback) finds the contract  *)
(* realised, and a rolled back one the source as it was: the phase is      *)
(* appended after the moves that make it true and before those that end it.*)
PhaseTruthful ==
    /\ boot # "durable" \/ log.phase \in {"reserved", "rolled_back"} => Restored
    /\ log.phase \in {"finalizing", "committed"} => Split
    /\ log.phase \in {"committed", "rolled_back"} =>
           \A g \in log.bound :
               dir[g] = [name |-> "published", marker |-> "none",
                         mode |-> "committed"]

(* A recording is only ever away from the source in the destination of its *)
(* contract, and only when the durable journal has that destination's      *)
(* identity: a later command can bring it back whatever stopped this one.  *)
WriteAhead ==
    \A r \in Recording : at[r] # Source =>
        at[r] = Part[r] /\ at[r] \in log.bound /\ dir[at[r]].name = "published"

(* A visible destination is marked with the plan's token, or bound in a    *)
(* journal that is past the moves: no other task sees a half-made one, and *)
(* no command has to guess whose it is.                                    *)
VisibleIsOwned ==
    \A g \in Group : dir[g].name = "published" =>
        \/ dir[g].marker = "whole"
        \/ g \in log.bound /\ log.phase \notin {"reserved", "applying"}

(* A rollback that has begun is not turned round: whichever commands are   *)
(* given and stopped afterwards, its phase stays and no recording leaves   *)
(* the source.                                                             *)
Back == {"rolling_back", "rolled_back"}

OneWay ==
    [][log.phase \in Back =>
           /\ log'.phase \in Back
           /\ \A r \in Recording : at[r] = Source => at'[r] = Source]_vars

(* A command that is repeated until it succeeds does succeed, whatever     *)
(* stopped it before, except where a stop left something the code does not *)
(* get over: a marker created but not written, or, for a rollback with     *)
(* recordings to bring back, a mode set but not journaled.                 *)
Blocked ==
    \/ \E g \in Group : TornMarker(g)
    \/ IF asked = "apply" THEN log.phase \in Back
       ELSE \/ boot \in {"none", "log"}
            \/ \E r \in Recording : at[r] # Source /\ Misrecorded(at[r])

Converges ==
    <>[](\/ boot = "durable" /\ pc = "idle"
            /\ log.phase = (IF asked = "apply" THEN "committed" ELSE "rolled_back")
         \/ Blocked)

=============================================================================
