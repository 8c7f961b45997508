---------------------------- MODULE BronzeSilver ----------------------------
(***************************************************************************)
(* The bronze-to-silver batch                                              *)
(* (backend/datasets/services/bronze_silver_pipeline.py): one database     *)
(* transaction around the moves of many recordings from data_root/bronze   *)
(* to data_root/silver_label_data.  The rows are rolled back when any      *)
(* statement raises or the worker dies; the moves are not.                 *)
(*                                                                         *)
(* An advisory lock of the transaction admits one batch at a time; a batch *)
(* that does not get it returns without a step of its own.                 *)
(***************************************************************************)
EXTENDS Naturals, FiniteSets

CONSTANTS
    Serial,         \* serial numbers: the primary key of the state table
    Place,          \* cell/task directories, numbered in path order
    Limit,          \* the limits a job may ask for, if it asks for one
    NoRow,          \* the table has no row
    MaxArrivals,    \* bound: recordings uploaded to bronze
    MaxRollbacks    \* bound: batches that are rolled back

Recording == [serial : Serial, place : Place]
Dir == {"absent", "partial", "whole"}
State == {"bronze_detected", "silver_processing", "silver_ready",
          "silver_failed"}
Row == [place : Place, state : State]

(* Any directories found have a last one in path order.                    *)
ASSUME PlaceAssumption ==
    /\ Place \subseteq Nat
    /\ \A found \in (SUBSET Place) \ {{}} :
           \E p \in found : \A q \in found : q <= p
ASSUME LimitAssumption == Limit \subseteq Nat
ASSUME RowAssumption == NoRow \notin Row
ASSUME BoundsAssumption == MaxArrivals \in Nat /\ MaxRollbacks \in Nat

VARIABLES
    bronze, silver, \* the directories of the recordings
    row,            \* row[s]: episode_curation_states, as committed
    registered,     \* recordings with a committed dataset and serial row
    txRow, txReg,   \* the same as the running batch sees them
    pc,             \* where the batch is
    cur,            \* the recording it moves
    todo,           \* the eligible serials it has still to process
    moved,          \* the recordings it has moved so far
    undone,         \* history: moved by a batch that was rolled back
    arrived,        \* history: the recordings that were ever uploaded
    arrivals, rollbacks

dirs == <<bronze, silver>>
committed == <<row, registered>>
tx == <<txRow, txReg>>
history == <<undone, arrived, arrivals, rollbacks>>
vars == <<dirs, committed, tx, pc, cur, todo, moved, history>>

PC == {"idle", "next", "moving", "copying", "removing", "moved"}

TypeOK ==
    /\ bronze \in [Recording -> Dir]
    /\ silver \in [Recording -> Dir]
    /\ row \in [Serial -> Row \cup {NoRow}]
    /\ txRow \in [Serial -> Row \cup {NoRow}]
    /\ registered \subseteq Recording
    /\ txReg \subseteq Recording
    /\ pc \in PC
    /\ cur \in Recording \cup {NoRow}
    /\ pc \in {"moving", "copying", "removing", "moved"} => cur \in Recording
    /\ todo \subseteq Serial
    /\ \A s \in todo : txRow[s] \in Row
    /\ moved \subseteq Recording
    /\ undone \subseteq Recording
    /\ arrived \subseteq Recording
    /\ arrivals \in 0..MaxArrivals
    /\ rollbacks \in 0..MaxRollbacks

Init ==
    /\ bronze = [x \in Recording |-> "absent"]
    /\ silver = [x \in Recording |-> "absent"]
    /\ row = [s \in Serial |-> NoRow]
    /\ registered = {}
    /\ txRow = row
    /\ txReg = {}
    /\ pc = "idle"
    /\ cur = NoRow
    /\ todo = {}
    /\ moved = {}
    /\ undone = {}
    /\ arrived = {}
    /\ arrivals = 0
    /\ rollbacks = 0
-----------------------------------------------------------------------------
Exists(d, x) == d[x] # "absent"

(* A recorder's upload: external to the pipeline, at any time.             *)
Arrive(x) ==
    /\ ~ Exists(bronze, x)
    /\ arrivals < MaxArrivals
    /\ bronze' = [bronze EXCEPT ![x] = "whole"]
    /\ arrivals' = arrivals + 1
    /\ arrived' = arrived \cup {x}
    /\ UNCHANGED <<silver, committed, tx, pc, cur, todo, moved, undone,
                   rollbacks>>

(* Mutant: the upsert without its WHERE.                                   *)
DetectedAnyState(s, places) ==
    IF places = {} THEN row[s]
    ELSE [place |-> CHOOSE p \in places : \A q \in places : q <= p,
          state |-> IF row[s] = NoRow THEN "bronze_detected" ELSE row[s].state]

(* The row of a serial after the upserts for the directories found, in     *)
(* path order: a row that was only detected moves to the last of them.     *)
Detected(s, places) ==
    IF places # {} /\ (row[s] = NoRow \/ row[s].state = "bronze_detected")
    THEN [place |-> CHOOSE p \in places : \A q \in places : q <= p,
          state |-> "bronze_detected"]
    ELSE row[s]

Stale == {s \in Serial : row[s] # NoRow /\ row[s].state = "silver_processing"}

InBronze(s) == {p \in Place : Exists(bronze, [serial |-> s, place |-> p])}

Eligible(rows) ==
    {s \in Serial : rows[s] # NoRow /\ rows[s].state = "bronze_detected"}

(* The transaction begins: rows that have been processing for too long are *)
(* given up, bronze is listed and upserted, the eligible rows are read,    *)
(* all of them or as many as the job's limit.                              *)
Begin ==
    /\ pc = "idle"
    /\ \E aged \in SUBSET Stale :
           txRow' = [s \in Serial |->
               IF s \in aged THEN [row[s] EXCEPT !.state = "silver_failed"]
               ELSE Detected(s, InBronze(s))]
    /\ todo' \in SUBSET Eligible(txRow')
    /\ todo' = Eligible(txRow') \/ Cardinality(todo') \in Limit
    /\ txReg' = registered
    /\ pc' = "next"
    /\ moved' = {}
    /\ UNCHANGED <<dirs, committed, cur, history>>

SetState(s, state) == txRow' = [txRow EXCEPT ![s].state = state]

(* Mutant: an existing output is refused before the input is looked at.    *)
ProcessOutputFirst(s) ==
    /\ pc = "next"
    /\ s \in todo
    /\ todo' = todo \ {s}
    /\ LET x == [serial |-> s, place |-> txRow[s].place]
       IN  /\ cur' = x
           /\ \/ /\ Exists(bronze, x) /\ ~ Exists(silver, x)
                 /\ SetState(s, "silver_processing")
                 /\ pc' = "moving"
              \/ /\ Exists(silver, x) \/ ~ Exists(bronze, x)
                 /\ SetState(s, "silver_failed")
                 /\ UNCHANGED pc
    /\ UNCHANGED <<dirs, committed, txReg, moved, history>>

(* The next eligible row is marked and its directories are looked at.      *)
Process(s) ==
    /\ pc = "next"
    /\ s \in todo
    /\ todo' = todo \ {s}
    /\ LET x == [serial |-> s, place |-> txRow[s].place]
       IN  /\ cur' = x
           /\ \/ /\ Exists(bronze, x) /\ ~ Exists(silver, x)
                 /\ SetState(s, "silver_processing")
                 /\ pc' = "moving"
              \/ /\ ~ Exists(bronze, x) /\ Exists(silver, x)
                 /\ SetState(s, "silver_processing")
                 /\ pc' = "moved"
              \/ /\ Exists(bronze, x) <=> Exists(silver, x)
                 /\ SetState(s, "silver_failed")
                 /\ UNCHANGED pc
    /\ UNCHANGED <<dirs, committed, txReg, moved, history>>

(* shutil.move: a rename, or across filesystems a copy and a removal.      *)
Rest == UNCHANGED <<committed, tx, cur, todo, history>>

Moved == moved' = moved \cup {cur}

Rename ==
    /\ pc = "moving"
    /\ bronze' = [bronze EXCEPT ![cur] = "absent"]
    /\ silver' = [silver EXCEPT ![cur] = "whole"]
    /\ pc' = "moved"
    /\ Moved
    /\ Rest

(* Mutant: the files of the recording are moved one by one.                *)
StartCopyDraining ==
    /\ pc = "moving"
    /\ bronze' = [bronze EXCEPT ![cur] = "partial"]
    /\ silver' = [silver EXCEPT ![cur] = "partial"]
    /\ pc' = "copying"
    /\ Moved
    /\ Rest

StartCopy ==
    /\ pc = "moving"
    /\ silver' = [silver EXCEPT ![cur] = "partial"]
    /\ pc' = "copying"
    /\ Moved
    /\ UNCHANGED bronze
    /\ Rest

FinishCopy ==
    /\ pc = "copying"
    /\ silver' = [silver EXCEPT ![cur] = "whole"]
    /\ pc' = "removing"
    /\ UNCHANGED <<bronze, moved>>
    /\ Rest

RemoveSource ==
    /\ pc = "removing"
    /\ \/ bronze' = [bronze EXCEPT ![cur] = "partial"] /\ UNCHANGED pc
       \/ bronze' = [bronze EXCEPT ![cur] = "absent"] /\ pc' = "moved"
    /\ UNCHANGED <<silver, moved>>
    /\ Rest

(* Mutant: a failed move is marked like a finished one.                    *)
MoveFailsReady ==
    /\ pc \in {"moving", "copying", "removing"}
    /\ SetState(cur.serial, "silver_ready")
    /\ txReg' = txReg \cup {cur}
    /\ pc' = "next"
    /\ UNCHANGED <<dirs, committed, cur, todo, moved, history>>

(* mkdir or shutil.move raises: the row fails, the batch goes on.          *)
MoveFails ==
    /\ pc \in {"moving", "copying", "removing"}
    /\ SetState(cur.serial, "silver_failed")
    /\ pc' = "next"
    /\ UNCHANGED <<dirs, committed, txReg, cur, todo, moved, history>>

MarkReady ==
    /\ pc = "moved"
    /\ SetState(cur.serial, "silver_ready")
    /\ txReg' = txReg \cup {cur}
    /\ pc' = "next"
    /\ UNCHANGED <<dirs, committed, cur, todo, moved, history>>

Commit ==
    /\ pc = "next"
    /\ todo = {}
    /\ row' = txRow
    /\ registered' = txReg
    /\ pc' = "idle"
    /\ UNCHANGED <<dirs, tx, cur, todo, moved, history>>

(* A statement raises, the commit included, or the worker dies.            *)
Rollback ==
    /\ pc # "idle"
    /\ rollbacks < MaxRollbacks
    /\ rollbacks' = rollbacks + 1
    /\ undone' = undone \cup moved
    /\ todo' = {}
    /\ pc' = "idle"
    /\ UNCHANGED <<dirs, committed, tx, cur, moved, arrived, arrivals>>

BatchStep ==
    \/ \E s \in Serial : Process(s)
    \/ Begin \/ Rename \/ StartCopy \/ FinishCopy \/ RemoveSource
    \/ MoveFails \/ MarkReady \/ Commit

Next ==
    \/ \E x \in Recording : Arrive(x)
    \/ BatchStep
    \/ Rollback

Spec == Init /\ [][Next]_vars

(* A batch goes on, and when it has ended another one is submitted.        *)
LiveSpec == Spec /\ WF_vars(BatchStep)
-----------------------------------------------------------------------------
(* A recording that was uploaded is never lost: whatever interrupts the    *)
(* moves, and however often, the whole of it is in bronze or in silver.    *)
NothingLost ==
    \A x \in arrived : bronze[x] = "whole" \/ silver[x] = "whole"

(* A row that says silver_ready tells the truth, also when it took several *)
(* batches, some of them rolled back, to get there: the whole recording is *)
(* in silver, where the row says, and is registered.                       *)
ReadyTruthful ==
    \A s \in Serial : row[s] # NoRow /\ row[s].state = "silver_ready" =>
        LET x == [serial |-> s, place |-> row[s].place]
        IN  silver[x] = "whole" /\ x \in registered

(* Between two batches every directory in silver has a row that names it   *)
(* and is ready or failed, unless a batch that moved it was rolled back:   *)
(* later batches list bronze only, so a directory whose row was rolled     *)
(* back with the move stays in silver unknown.                             *)
TrackedUnlessUndone ==
    pc = "idle" => \A x \in Recording : Exists(silver, x) =>
        \/ /\ row[x.serial] # NoRow
           /\ row[x.serial].place = x.place
           /\ row[x.serial].state \in {"silver_ready", "silver_failed"}
        \/ x \in undone

(* A move whose batch was rolled back is taken over: as long as a row      *)
(* still waits for it, a later batch marks the moved recording ready, no   *)
(* matter how many more batches die on the way, and does not fail it for   *)
(* being where it should be.  Excepted: the same recording is uploaded     *)
(* again, or the row is moved to another directory of the serial that is   *)
(* in bronze, and the moved one is forgotten.                              *)
Waiting(x) ==
    /\ row[x.serial] = [place |-> x.place, state |-> "bronze_detected"]
    /\ silver[x] = "whole"
    /\ ~ Exists(bronze, x)

UndoneMovesTakenOver ==
    \A x \in Recording :
        Waiting(x) ~>
            \/ row[x.serial] = [place |-> x.place, state |-> "silver_ready"]
            \/ row[x.serial] # NoRow /\ row[x.serial].place # x.place
            \/ Exists(bronze, x)
=============================================================================
