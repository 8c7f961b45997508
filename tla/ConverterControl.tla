-------------------------- MODULE ConverterControl --------------------------
(***************************************************************************)
(* converter/service.py and converter/router.py: retry-failed rewrites     *)
(* convert_state.json in a thread and queues a job, the status polls show  *)
(* a progress snapshot that a background scan refreshes, and the converter *)
(* (external) rewrites the same file while a job runs.                     *)
(*                                                                         *)
(* Every retry writes the same temporary file and renames it onto the      *)
(* state.  A writer has the file it opened in hand, wherever a rename of   *)
(* another one takes it.                                                   *)
(***************************************************************************)
EXTENDS StateFile, Naturals

CONSTANTS
    Request,        \* the retry requests
    MaxErrors,      \* bound: scans that fail
    MaxStops        \* bound: kills of the API process

ASSUME BoundsAssumption == {MaxErrors, MaxStops} \subseteq Nat

VARIABLES
    tmp,            \* convert_state.json.tmp
    req,            \* the retry requests
    job,            \* the convert job with the dedupe key of the task
    cache,          \* _progress_cache
    scan,           \* the refresh task and the state it has read
    errors, stops

progress == <<cache, scan>>
ghosts == <<overlap, crossed>>
bounds == <<errors, stops>>
vars == <<file, tmp, req, job, progress, ghosts, bounds>>

(* What the state file says of a recording; "again": in transient_failed.  *)
Said == {"new", "failed", "again", "done"}
State == [Serial -> Said]

(* A file; part: it was opened for writing and is not filled.              *)
File == [says : State, part : BOOLEAN]
NoFile == [part |-> FALSE]

(* read_state: a file that cannot be parsed reads as an empty one.         *)
Empty == <<>>
ReadState == IF file.part THEN Empty ELSE file.says

NoCache == [fresh |-> FALSE]
NoScan == [on |-> FALSE]

TypeOK ==
    /\ file \in File /\ tmp \in File \cup {NoFile}
    /\ req \in [Request ->
           [pc : {"new", "read", "open", "filled", "moved", "cleared", "ended"},
            on : {"none", "tmp", "file", "gone"}, copy : State \cup {Empty}]]
    /\ job \in {"none", "queued", "running"}
    /\ cache \in [fresh : BOOLEAN, shows : State \cup {Empty}] \cup {NoCache}
    /\ scan \in [on : {TRUE}, read : State \cup {Empty}] \cup {NoScan}
    /\ {overlap, crossed} \subseteq BOOLEAN
    /\ errors \in 0..MaxErrors /\ stops \in 0..MaxStops

At(pc) == [pc |-> pc, on |-> "none", copy |-> Empty]

Init ==
    /\ file \in [says : [Serial -> {"new", "failed"}], part : {FALSE}]
    /\ tmp = NoFile
    /\ req = [r \in Request |-> At("new")]
    /\ job = "none"
    /\ cache = NoCache /\ scan = NoScan
    /\ overlap = FALSE /\ crossed = FALSE
    /\ errors = 0 /\ stops = 0
-----------------------------------------------------------------------------
(* mark_failed_recordings_retryable, in a thread. *)

(* Mutant: the serials of the whole entry, not of failed_serials.          *)
EveryRecording(state) == Serial

Failures(state) == {s \in Serial : state[s] = "failed"}

Retryable(state) ==
    [s \in Serial |-> IF s \in Failures(state) THEN "again" ELSE state[s]]

Ended(r) == req[r].pc \in {"new", "ended"}
Rewriting(r) == req[r].pc \in {"read", "open", "filled"}
Mid(r, pc) == req[r].pc = pc
To(r, rec) == req' = [req EXCEPT ![r] = rec]

(* No entry: 404; nothing failed: 409.                                     *)
Read(r) ==
    /\ Mid(r, "new")
    /\ IF ReadState = Empty \/ Failures(file.says) = {}
       THEN To(r, At("ended")) /\ UNCHANGED overlap
       ELSE /\ To(r, [At("read") EXCEPT !.copy = Retryable(file.says)])
            /\ overlap' = (overlap \/ \E q \in Request : Rewriting(q))
    /\ UNCHANGED <<file, tmp, job, progress, crossed, bounds>>

(* Mutant: the state file is written in place.                             *)
OpenInPlace(r) ==
    /\ Mid(r, "read")
    /\ file' = [says |-> req[r].copy, part |-> TRUE] /\ tmp' = file'
    /\ To(r, [req[r] EXCEPT !.pc = "open", !.on = "file"])
    /\ UNCHANGED <<job, progress, ghosts, bounds>>

(* _write_state: the temporary file is emptied, or made.                   *)
Open(r) ==
    /\ Mid(r, "read")
    /\ tmp' = [says |-> req[r].copy, part |-> TRUE]
    /\ To(r, [req[r] EXCEPT !.pc = "open", !.on = "tmp"])
    /\ UNCHANGED <<file, job, progress, ghosts, bounds>>

(* Two who fill one file may leave a mixture.                              *)
Fill(r) ==
    /\ Mid(r, "open")
    /\ \E mixed \in IF overlap THEN BOOLEAN ELSE {FALSE} :
        LET others == \E q \in Request \ {r} : /\ Mid(q, "open")
                                               /\ req[q].on = req[r].on
            filled == [says |-> req[r].copy, part |-> others \/ mixed]
        IN  \/ req[r].on = "tmp" /\ tmp' = filled /\ UNCHANGED file
            \/ req[r].on = "file" /\ file' = filled /\ UNCHANGED tmp
            \/ req[r].on = "gone" /\ UNCHANGED <<file, tmp>>
    /\ To(r, At("filled"))
    /\ UNCHANGED <<job, progress, ghosts, bounds>>

(* A file renamed takes its writers along; those of the one it replaces    *)
(* write into nothing.                                                     *)
Carried == [q \in Request |-> [req[q] EXCEPT
    !.on = CASE @ = "tmp" -> "file" [] @ = "file" -> "gone" [] OTHER -> @]]
Renamed == file' = tmp /\ tmp' = NoFile

(* os.replace: another retry may have renamed the file already.            *)
Replace(r) ==
    /\ Mid(r, "filled")
    /\ IF tmp = NoFile
       THEN To(r, At("ended")) /\ UNCHANGED <<file, tmp>>
       ELSE Renamed /\ req' = [Carried EXCEPT ![r] = At("moved")]
    /\ UNCHANGED <<job, progress, ghosts, bounds>>

(* _clear_progress_cache. *)
ClearProgress(r) ==
    /\ Mid(r, "moved")
    /\ cache' = NoCache
    /\ To(r, At("cleared"))
    /\ UNCHANGED <<file, tmp, job, scan, ghosts, bounds>>

(* retry_failed: the task is queued, or is queued or running already (409  *)
(* although its recordings are retryable now).                             *)
Enqueue(r) ==
    /\ Mid(r, "cleared")
    /\ job' = IF job = "none" THEN "queued" ELSE job
    /\ To(r, At("ended"))
    /\ UNCHANGED <<file, tmp, progress, ghosts, bounds>>

(* start and stop; the jobs are those of module JobQueue.                  *)
JobMoves(from, to) == job = from /\ job' = to

Jobs ==
    /\ \/ JobMoves("none", "queued")        \* POST start
       \/ JobMoves("queued", "running")     \* claimed
       \/ JobMoves("queued", "none")        \* POST stop
       \/ JobMoves("running", "none")       \* complete, failed or cancelled
    /\ UNCHANGED <<file, tmp, req, progress, ghosts, bounds>>

(* The converter records the outcome of a recording in a new file that     *)
(* takes the place of the one it has read.                                 *)
Convert(s) ==
    /\ job = "running"
    /\ ~file.part /\ file.says[s] \in {"new", "again"}
    /\ \E outcome \in {"done", "failed"} :
        file' = [file EXCEPT !.says[s] = outcome]
    /\ crossed' = (crossed \/ \E r \in Request : Rewriting(r))
    /\ req' = [r \in Request |-> IF req[r].on = "file"
                                 THEN [req[r] EXCEPT !.on = "gone"] ELSE req[r]]
    /\ UNCHANGED <<tmp, job, progress, overlap, bounds>>
-----------------------------------------------------------------------------
(* _cached_progress and _refresh_progress; GET progress keeps nothing.     *)

(* Mutant: a snapshot is refreshed only once it was cleared.               *)
DueOnceCleared == cache = NoCache

Due == ~cache.fresh

(* A poll starts the one refresh if the snapshot is old or missing.        *)
Poll ==
    /\ Due /\ ~scan.on
    /\ scan' = [on |-> TRUE, read |-> ReadState]
    /\ UNCHANGED <<file, tmp, req, job, cache, ghosts, bounds>>

(* The result is installed, whatever was cleared since it was read.        *)
Install ==
    /\ scan.on
    /\ cache' = [fresh |-> TRUE, shows |-> scan.read]
    /\ scan' = NoScan
    /\ UNCHANGED <<file, tmp, req, job, ghosts, bounds>>

(* A scan that fails installs the old snapshot again, or an empty one.     *)
ScanFails ==
    /\ scan.on /\ errors < MaxErrors
    /\ errors' = errors + 1
    /\ cache' = [fresh |-> TRUE, shows |-> IF cache = NoCache THEN Empty
                                           ELSE cache.shows]
    /\ scan' = NoScan
    /\ UNCHANGED <<file, tmp, req, job, ghosts, stops>>

(* _PROGRESS_TTL passes. *)
Expire ==
    /\ cache.fresh
    /\ cache' = [cache EXCEPT !.fresh = FALSE]
    /\ UNCHANGED <<file, tmp, req, job, scan, ghosts, bounds>>

(* The API process is killed: files and jobs stay as they are.             *)
Stop ==
    /\ stops < MaxStops
    /\ stops' = stops + 1
    /\ req' = [r \in Request |-> IF Ended(r) THEN req[r]
                                 ELSE At("ended")]
    /\ cache' = NoCache /\ scan' = NoScan
    /\ UNCHANGED <<file, tmp, job, ghosts, errors>>

Retry(r) == \/ Read(r) \/ Open(r) \/ Fill(r) \/ Replace(r)
            \/ ClearProgress(r) \/ Enqueue(r)

Next ==
    \/ \E r \in Request : Retry(r)
    \/ Jobs
    \/ \E s \in Serial : Convert(s)
    \/ Poll \/ Install \/ ScanFails \/ Expire
    \/ Stop

Spec == Init /\ [][Next]_vars

(* Tabs poll, scans end, and time passes.                                  *)
LiveSpec == Spec /\ WF_vars(Poll) /\ WF_vars(Install) /\ WF_vars(Expire)
-----------------------------------------------------------------------------
(* The progress shown settles on what the state file says, though a scan   *)
(* begun before a change may install its result after it and a failed scan *)
(* brings an old snapshot back (_cached_progress).                         *)
ProgressSettles == <>[](cache # NoCache /\ cache.shows = ReadState)
=============================================================================
