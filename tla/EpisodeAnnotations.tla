------------------------- MODULE EpisodeAnnotations -------------------------
(***************************************************************************)
(* datasets/services/episode_service.py, dataset_registry.py and           *)
(* routers/episodes.py: the annotations of the episodes of one data set,   *)
(* with one episode file.                                                  *)
(*                                                                         *)
(* Requests run on one event loop: between two awaits a request is alone,  *)
(* at an await any other may go on.  Reading and writing the episode file  *)
(* happens in threads.  A row of the database is durable; the contexts,    *)
(* their caches and locks are the process's (Stop loses them).             *)
(*                                                                         *)
(* A row is named by its number: 0, there is none; 1, it came from the     *)
(* sidecar; from 2 on, each save takes the next.  Its tags are named by    *)
(* the save that gave them, and grade and reason by the row's number.      *)
(***************************************************************************)
EXTENDS InstructionCommit, Sequences, FiniteSets

CONSTANTS
    Request,        \* the HTTP requests
    Episode,        \* the episodes of the data set
    Ask,            \* what the requests ask: functions to [kind, on]
    Sidecar,        \* the episodes the legacy sidecar file annotates, of
                    \* those that have a serial number
    MaxAnswers,     \* bound: commits answered before one is asked for again
    MaxStops        \* bound: kills of the process

VARIABLES
    db,             \* the annotation of each episode
    stats,          \* dataset_stats: the rows its counts were made from
    registry,       \* the current context, and the current lock dictionary
    contexts,       \* all contexts: fingerprint, lock dictionary, cache
    req,            \* the requests
    marks,          \* what happened that a property excepts
    stops

memory == <<registry, contexts>>
vars == <<commitVars, db, stats, memory, req, marks, stops>>

Row == [save : Nat, tags : Nat]
NoRow == [save |-> 0, tags |-> 0]
NoRows == <<>>
Rows == [Episode -> Row]
Saves(rows) == [e \in Episode |-> rows[e].save]

Kind == {"none", "list", "tag", "grade", "bulk", "instruct"}
ASSUME AskAssumption ==
    \A ask \in Ask : DOMAIN ask \subseteq Request /\ \A r \in DOMAIN ask :
        /\ ask[r] \in [kind : Kind, on : Seq(Episode)]
        /\ ask[r].kind \in {"tag", "grade"} => Len(ask[r].on) = 1
        /\ ask[r].kind = "bulk" => ask[r].on # <<>>
ASSUME RequestAssumption == IsFiniteSet(Request)
ASSUME SidecarAssumption == Sidecar \subseteq Episode
ASSUME BoundsAssumption == {MaxAnswers, MaxStops, MaxErrors} \subseteq Nat

(* The request keeps: the rows it has read (got: to answer or for the tags *)
(* it keeps), the rows for the statistics, the episode file as it read it, *)
(* the episodes left to save, and what the answers given before it began,  *)
(* and its own saves, oblige it to show (floor).                           *)
Fresh(s) == [kind |-> s.kind, on |-> s.on, pc |-> "new", for |-> "answer",
             ctx |-> 0, left |-> <<>>, got |-> NoRows, rows |-> NoRows,
             sum |-> NoRows, file |-> NoRows,
             floor |-> [e \in Episode |-> 0]]

PC == {"new", "count", "insert", "mstats", "mwstats", "file", "save",
       "stats", "wstats", "lock", "table", "towrite", "write", "clear",
       "commit", "committing", "done", "failed"}

(* A context for each request, and the current one.                        *)
Context == 1 .. Cardinality(Request) + 1
NoContext == [stamp |-> 0, dict |-> 0, cache |-> NoRows]

RequestRecord ==
    [kind : Kind, on : Seq(Episode), pc : PC,
     for : {"tags", "edit", "answer"}, ctx : Context \cup {0},
     left : Seq(Episode), got : Rows \cup {NoRows}, rows : Rows \cup {NoRows},
     sum : [Episode -> Nat] \cup {NoRows},
     file : Tree([Episode -> Nat]) \cup {NoRows}, floor : [Episode -> Nat]]

TypeOK ==
    /\ CommitTypeOK([Episode -> Nat])
    /\ db \in Rows /\ stats \in [Episode -> Nat]
    /\ registry \in [ctx : Context \cup {0}, dict : Nat]
    /\ contexts \in [Context -> [stamp : Nat, dict : Nat,
                                cache : Rows \cup {NoRows}]]
    /\ req \in [Request -> RequestRecord]
    /\ marks \subseteq {"skipped", "forked", "cut", "overtaken", "crossed",
                       "unrefreshed"}
    /\ stops \in 0..MaxStops

Init ==
    /\ CommitInit([e \in Episode |-> 0])
    /\ db = [e \in Episode |-> NoRow]
    /\ stats = [e \in Episode |-> 0]
    /\ registry = [ctx |-> 0, dict |-> 1]
    /\ contexts = [i \in Context |-> NoContext]
    /\ \E ask \in Ask :
        req = [r \in Request |-> Fresh(IF r \in DOMAIN ask THEN ask[r]
                                        ELSE [kind |-> "none", on |-> <<>>])]
    /\ marks = {} /\ stops = 0
-----------------------------------------------------------------------------
Ended(r) == req[r].pc \in {"new", "done", "failed"}
Edits(r) == req[r].kind \in {"tag", "grade", "bulk"}
On(r) == {req[r].on[i] : i \in DOMAIN req[r].on}

(* A segment of r between two awaits; the commit of an instruction has the *)
(* loop for itself.                                                        *)
Segment(r, pc) == req[r].pc = pc /\ At("idle")
Thread(r, pc) == req[r].pc = pc
To(r, rec) == req' = [req EXCEPT ![r] = rec]
Then(r, pc) == To(r, [req[r] EXCEPT !.pc = pc])
Failed(r) == [Fresh(req[r]) EXCEPT !.pc = "failed"]
Fail(r) == To(r, Failed(r))
Note(set) == marks' = marks \cup set

(* The answers given oblige later requests.                                *)
Owed == [e \in Episode |->
    LET given == {req[r].floor[e] : r \in {q \in Request : req[q].pc = "done"}}
    IN  CHOOSE n \in given \cup {0} : \A k \in given : n >= k]

Writing == \E r \in Request : req[r].pc = "write"

(* The asyncio lock of the episode file, shared through the dictionary.    *)
Holds(r) == req[r].pc \in {"table", "towrite", "write", "clear"}

(* Mutant: every context has a lock of its own.                            *)
HeldInContext(i) == \E r \in Request : Holds(r) /\ req[r].ctx = i

Held(i) == \E r \in Request :
    Holds(r) /\ contexts[req[r].ctx].dict = contexts[i].dict

(* DatasetRegistry.get: the context if the fingerprint is still the same,  *)
(* else a new one with the registry's locks, if the files can be read.     *)
Current == registry.ctx # 0 /\ contexts[registry.ctx].stamp = root.stamp
Loadable == ~root.torn /\ ~root.half

(* A place for a new context: neither a request nor the registry, which    *)
(* gives its own up, has the one there.                                    *)
Free == CHOOSE i \in Context : \A r \in Request : Ended(r) \/ req[r].ctx # i
New(dict) == [stamp |-> root.stamp, dict |-> dict, cache |-> NoRows]

(* get_episodes or get_episode when the rows are there.                    *)
Reached(rec, rows) ==
    IF rec.for = "answer"
    THEN [rec EXCEPT !.got = rows, !.rows = NoRows, !.pc = "done", !.ctx = 0]
    ELSE [rec EXCEPT !.got = rows, !.rows = NoRows, !.for = "edit",
                     !.pc = "count"]

(* Their first segment: the cache, or the way through the database.        *)
Entered(rec, cache) ==
    IF rec.for # "edit" /\ cache # NoRows THEN Reached(rec, cache)
    ELSE [rec EXCEPT !.pc = "count"]

(* PATCH without tags reads the episode for them first.                    *)
Asked(r, ctx) == [req[r] EXCEPT !.ctx = ctx, !.left = req[r].on,
    !.for = CASE req[r].kind = "grade" -> "tags"
              [] req[r].kind \in {"tag", "bulk"} -> "edit"
              [] OTHER -> "answer",
    !.floor = Owed]

Arrived(rec, cache) ==
    IF rec.kind = "instruct" THEN [rec EXCEPT !.pc = "commit"]
    ELSE Entered(rec, cache)

Begin(r) ==
    /\ Segment(r, "new") /\ req[r].kind # "none"
    /\ \/ /\ Exists(root) /\ Current
          /\ To(r, Arrived(Asked(r, registry.ctx),
                           contexts[registry.ctx].cache))
          /\ UNCHANGED memory
       \/ /\ Exists(root) /\ ~Current /\ Loadable
          /\ contexts' = [contexts EXCEPT ![Free] = New(registry.dict)]
          /\ registry' = [registry EXCEPT !.ctx = Free]
          /\ To(r, Arrived(Asked(r, Free), NoRows))
       \/ /\ Exists(root) => ~Current /\ (~Loadable \/ Writing)
          /\ Fail(r)
          /\ UNCHANGED memory
    /\ UNCHANGED <<commitVars, db, stats, marks, stops>>
-----------------------------------------------------------------------------
(* _ensure_migrated: the sidecar is copied if no episode has a row yet, in *)
(* one transaction, never over a row.  A row once counted stays, so that a *)
(* count that finds one is taken together with the statement after it.     *)

Unmigrated == Sidecar # {} /\ \A e \in Episode : db[e] = NoRow
Loads(r) == req[r].for # "edit" \/ req[r].kind = "bulk"
Counted(r) == Segment(r, "count") /\ ~Unmigrated

Count(r) ==
    /\ Segment(r, "count") /\ Unmigrated
    /\ Then(r, "insert")
    /\ UNCHANGED <<commitVars, db, stats, memory, marks, stops>>

(* A refresh of the statistics is due: rows were saved, or inserted.  A    *)
(* request that ends then leaves them as they are.                         *)
RefreshDue(r) == \/ req[r].pc \in {"stats", "wstats", "mstats", "mwstats"}
                 \/ req[r].pc = "save" /\ Len(req[r].left) < Len(req[r].on)
Unrefreshed(set) == IF \E r \in set : RefreshDue(r) THEN {"unrefreshed"} ELSE {}

(* A save meets a refresh of the statistics that has read and not written. *)
Overtaken(r) == IF \E q \in Request \ {r} : req[q].pc \in {"wstats", "mwstats"}
                THEN {"overtaken"} ELSE {}

Migrated(e) == e \in Sidecar /\ db[e] = NoRow

Insert(r) ==
    /\ Segment(r, "insert")
    /\ db' = [e \in Episode |-> IF Migrated(e) THEN [save |-> 1, tags |-> 1]
                                ELSE db[e]]
    /\ Note(Overtaken(r))
    /\ Then(r, "mstats")
    /\ UNCHANGED <<commitVars, stats, memory, stops>>

(* _refresh_dataset_stats: the counts are read, and written later; between *)
(* the two a thread reads the episode file, if any row counts.             *)
ReadStats(r) ==
    /\ \/ Segment(r, "stats") /\ To(r, [req[r] EXCEPT !.pc = "wstats",
                                                      !.sum = Saves(db)])
       \/ Segment(r, "mstats") /\ To(r, [req[r] EXCEPT !.pc = "mwstats",
                                                       !.sum = Saves(db)])
    /\ UNCHANGED <<commitVars, db, stats, memory, marks, stops>>

WriteStats(r) ==
    /\ \/ Segment(r, "wstats") /\ To(r, [req[r] EXCEPT !.pc = "lock",
                                                       !.sum = NoRows])
       \/ /\ Segment(r, "mwstats")
          /\ To(r, [req[r] EXCEPT !.pc = "count", !.sum = NoRows])
    /\ stats' = req[r].sum
    /\ UNCHANGED <<commitVars, db, memory, marks, stops>>

(* It cannot read a file that is being written, or has been moved aside:   *)
(* the request ends, the rows stay saved.                                  *)
RefreshFails(r) ==
    /\ Thread(r, "wstats") \/ Thread(r, "mwstats")
    /\ Exists(root) => root.torn
    /\ Note(Unrefreshed({r}))
    /\ Fail(r)
    /\ UNCHANGED <<commitVars, db, stats, memory, stops>>

(* _load_annotations_from_db, to read or for the tags bulk_grade keeps.    *)
Load(r) ==
    /\ Counted(r) /\ Loads(r)
    /\ To(r, [req[r] EXCEPT !.rows = db,
                !.pc = IF req[r].for = "edit" THEN "save" ELSE "file"])
    /\ UNCHANGED <<commitVars, db, stats, memory, marks, stops>>

(* The episode file is read in a thread, without its lock; get_episodes    *)
(* then installs the cache.                                                *)
File(r) ==
    /\ Segment(r, "file")
    /\ Exists(root) /\ ~root.torn
    /\ To(r, Reached(req[r], req[r].rows))
    /\ contexts' = IF req[r].kind = "list"
                   THEN [contexts EXCEPT ![req[r].ctx].cache = req[r].rows]
                   ELSE contexts
    /\ UNCHANGED <<commitVars, db, stats, registry, marks, stops>>

FileFails(r) ==
    /\ Thread(r, "file")
    /\ Exists(root) => root.torn
    /\ Fail(r)
    /\ UNCHANGED <<commitVars, db, stats, memory, marks, stops>>
-----------------------------------------------------------------------------
(* update_episode and bulk_grade. *)

NextSave(e) == IF db[e].save = 0 THEN 2 ELSE db[e].save + 1

(* The tags: those given, those read before, or (bulk) those loaded.       *)
TagsOf(r, e) == CASE req[r].kind = "tag" -> NextSave(e)
                  [] req[r].kind = "grade" -> req[r].got[e].tags
                  [] OTHER -> req[r].rows[e].tags

(* Mutant: the statistics are not refreshed.                               *)
AfterSaveNoRefresh(left) == IF left = <<>> THEN "lock" ELSE "save"

(* The statistics are refreshed once, after the last save.                 *)
AfterSave(left) == IF left = <<>> THEN "stats" ELSE "save"

Saving(r) == Segment(r, "save") \/ (Counted(r) /\ ~Loads(r))

(* The episodes r has saved and is yet to mirror; a save meets another     *)
(* request's of the same episode that is not mirrored yet.                 *)
Unmirrored(r) == {e \in On(r) :
    /\ req[r].pc \in {"save", "stats", "wstats", "lock"}
    /\ \A i \in DOMAIN req[r].left : req[r].left[i] # e}
Crossed(r) == IF \E q \in Request \ {r} : Head(req[r].left) \in Unmirrored(q)
              THEN {"crossed"} ELSE {}

Save(r) ==
    /\ Saving(r)
    /\ LET e == Head(req[r].left)
           left == Tail(req[r].left)
       IN  /\ db' = [db EXCEPT ![e] = [save |-> NextSave(e),
                                       tags |-> TagsOf(r, e)]]
           /\ To(r, [req[r] EXCEPT
                !.left = left,
                !.floor[e] = NextSave(e),
                !.got = IF left = <<>> THEN NoRows ELSE @,
                !.rows = IF left = <<>> THEN NoRows ELSE @,
                !.pc = AfterSave(left)])
    /\ Note(Overtaken(r) \cup Crossed(r))
    /\ UNCHANGED <<commitVars, stats, memory, stops>>

(* The serial number is in no row, and not to be read from the episode     *)
(* file either: the request ends, bulk_grade before its refresh.           *)
SaveFails(r) ==
    /\ Saving(r)
    /\ Note(Unrefreshed({r}))
    /\ Fail(r)
    /\ UNCHANGED <<commitVars, db, stats, memory, stops>>

(* _write_annotations_to_parquet: the lock of the file is taken and the    *)
(* file read, in a thread.                                                 *)
Acquire(r) ==
    /\ Segment(r, "lock")
    /\ ~Held(req[r].ctx)
    /\ Exists(root) /\ ~root.torn
    /\ To(r, [req[r] EXCEPT !.pc = "table", !.file = root])
    /\ UNCHANGED <<commitVars, db, stats, memory, marks, stops>>

Annotated(r) == [e \in Episode |->
    IF e \in On(r) THEN req[r].floor[e] ELSE req[r].file.rows[e]]

Build(r) ==
    /\ Segment(r, "table")
    /\ To(r, [req[r] EXCEPT !.pc = "towrite", !.file.rows = Annotated(r)])
    /\ UNCHANGED <<commitVars, db, stats, memory, marks, stops>>

(* pq.write_table truncates the file it opens and fills it.                *)
Truncate(r) ==
    /\ Thread(r, "towrite")
    /\ Exists(root)
    /\ clock' = clock + 1
    /\ root' = [root EXCEPT !.torn = TRUE, !.stamp = clock + 1]
    /\ Then(r, "write")
    /\ UNCHANGED <<backup, staging, manifest, step, late, errors,
                   db, stats, memory, marks, stops>>

(* The file is in the data set, or moved aside with it, or removed; two    *)
(* writers of one file may leave a mixture.                                *)
Written(r) ==
    /\ Thread(r, "write")
    /\ clock' = clock + 1
    /\ \E mixed \in IF "forked" \in marks THEN BOOLEAN ELSE {FALSE} :
        LET other == \E q \in Request \ {r} : req[q].pc = "write"
            filled(t) == IF Exists(t) /\ t.torn
                THEN [t EXCEPT !.torn = other \/ mixed, !.stamp = clock + 1,
                               !.rows = req[r].file.rows,
                               !.edition = req[r].file.edition]
                ELSE t
        IN  root' = filled(root) /\ backup' = filled(backup)
    /\ To(r, [req[r] EXCEPT !.pc = "clear", !.file = NoRows])
    /\ UNCHANGED <<staging, manifest, step, late, errors,
                   db, stats, memory, marks, stops>>

(* PermissionError: the mirror is skipped.                                 *)
Skip(r) ==
    /\ Thread(r, "towrite")
    /\ Note({"skipped"})
    /\ To(r, [req[r] EXCEPT !.pc = "clear", !.file = NoRows])
    /\ UNCHANGED <<commitVars, db, stats, memory, stops>>

(* Every other error ends the request: the row stays saved, and the cache  *)
(* is not cleared.                                                         *)
MirrorFails(r) ==
    /\ \/ /\ Thread(r, "lock") /\ ~Held(req[r].ctx)
          /\ Exists(root) => root.torn
          /\ UNCHANGED <<errors, marks>>
       \/ Thread(r, "towrite") /\ ~Exists(root) /\ UNCHANGED <<errors, marks>>
       \/ /\ Thread(r, "write") /\ errors < MaxErrors
          /\ errors' = errors + 1 /\ Note({"cut"})
    /\ Fail(r)
    /\ UNCHANGED <<trees, manifest, step, clock, late,
                   db, stats, memory, stops>>

(* Mutant: the cache is left.                                              *)
ClearedNothing(i) == contexts

Cleared(i) == [contexts EXCEPT ![i].cache = NoRows]

(* The cache is cleared; update_episode answers with the episode.          *)
Clear(r) ==
    /\ Segment(r, "clear")
    /\ contexts' = Cleared(req[r].ctx)
    /\ To(r, IF req[r].kind = "bulk"
             THEN [req[r] EXCEPT !.pc = "done", !.ctx = 0]
             ELSE Entered([req[r] EXCEPT !.for = "answer"],
                          contexts'[req[r].ctx].cache))
    /\ UNCHANGED <<commitVars, db, stats, registry, marks, stops>>
-----------------------------------------------------------------------------
(* commit_instruction. *)

Enter(r) ==
    /\ Segment(r, "commit")
    /\ Go("recover")
    /\ Then(r, "committing")
    /\ UNCHANGED <<trees, manifest, clock, late, errors,
                   db, stats, memory, marks, stops>>

CommitWorks ==
    /\ Working
    /\ UNCHANGED <<db, stats, memory, req, marks, stops>>

(* An edit under way has, or will take, a lock that the requests after the *)
(* commit do not share.                                                    *)
Fork == IF \E r \in Request : ~Ended(r) /\ Edits(r) THEN {"forked"} ELSE {}

CommitPromotes ==
    /\ Promote
    /\ Note(Fork)
    /\ UNCHANGED <<db, stats, memory, req, stops>>

CommitRaises ==
    /\ Raises
    /\ UNCHANGED <<db, stats, memory, req, marks, stops>>

(* invalidate drops the context and its lock dictionary; the data set is   *)
(* loaded anew for the answer.                                             *)
Leave(r) ==
    /\ req[r].pc = "committing"
    /\ step \in {"answer", "raised"}
    /\ Go("idle")
    /\ IF At("answer")
       THEN LET dict == registry.dict + 1
                load == Exists(root) /\ Loadable
            IN  /\ Note(Fork)
                /\ registry' = [ctx |-> IF load THEN Free ELSE 0, dict |-> dict]
                /\ IF load
                   THEN /\ contexts' = [contexts EXCEPT ![Free] = New(dict)]
                        /\ To(r, [req[r] EXCEPT !.ctx = Free, !.pc = "count"])
                   ELSE Fail(r) /\ UNCHANGED contexts
       ELSE Fail(r) /\ UNCHANGED <<memory, marks>>
    /\ UNCHANGED <<trees, manifest, clock, late, errors, db, stats, stops>>
-----------------------------------------------------------------------------
(* The environment. *)

(* A commit that was refused is asked for again.                           *)
Resend(r) ==
    /\ Segment(r, "failed") /\ req[r].kind = "instruct"
    /\ registry.dict <= MaxAnswers
    /\ To(r, Fresh(req[r]))
    /\ UNCHANGED <<commitVars, db, stats, memory, marks, stops>>

(* Other data sets push the context out; the registry keeps the locks.     *)
Evict ==
    /\ At("idle")
    /\ registry.ctx # 0
    /\ registry' = [registry EXCEPT !.ctx = 0]
    /\ UNCHANGED <<commitVars, db, stats, contexts, req, marks, stops>>

(* The process is killed, and starts again.                                *)
Stop ==
    /\ stops < MaxStops /\ errors < MaxErrors
    /\ stops' = stops + 1 /\ errors' = errors + 1
    /\ \E r \in Request : ~Ended(r)
    /\ Go("idle")
    /\ registry' = [ctx |-> 0, dict |-> 1] /\ contexts' = [i \in Context |-> NoContext]
    /\ Note((IF Writing THEN {"cut"} ELSE {}) \cup Unrefreshed(Request))
    /\ req' = [r \in Request |-> IF Ended(r) THEN req[r] ELSE Failed(r)]
    /\ UNCHANGED <<trees, manifest, clock, late, db, stats>>

Edit(r) == \/ Save(r) \/ SaveFails(r) \/ Acquire(r) \/ Build(r) \/ Truncate(r)
           \/ Written(r) \/ MirrorFails(r) \/ Clear(r)
Reading(r) == \/ Count(r) \/ Insert(r) \/ ReadStats(r) \/ WriteStats(r)
              \/ RefreshFails(r) \/ Load(r) \/ File(r) \/ FileFails(r)
Advance(r) == Reading(r) \/ Edit(r) \/ Enter(r) \/ Leave(r)

Next ==
    \/ \E r \in Request : Begin(r) \/ Advance(r) \/ Skip(r) \/ Resend(r)
    \/ CommitWorks \/ CommitPromotes \/ CommitRaises
    \/ Evict \/ Stop

Spec == Init /\ [][Next]_vars

(* The loop and its threads run what can run; the client repeats a commit. *)
LiveSpec ==
    /\ Spec
    /\ \A r \in Request : WF_vars(Advance(r)) /\ WF_vars(Begin(r) \/ Resend(r))
    /\ WF_vars(CommitWorks \/ CommitPromotes)
-----------------------------------------------------------------------------
(* A request never shows, and a PATCH never keeps the tags of, an older    *)
(* row than an edit answered before it began had saved, nor an edit an     *)
(* older one than its own: neither the cache, installed by a reader that   *)
(* began before an edit and ended after it, nor the sidecar brings an      *)
(* older row back (episodes_cache, _ensure_migrated).  Where the mirror    *)
(* could not be written, or went into a data set that a late failure of    *)
(* its commit took back, the fingerprint does not change, and such a cache *)
(* stays.                                                                  *)
AnswersFresh ==
    \/ "skipped" \in marks \/ late
    \/ \A r \in Request : req[r].got # NoRows =>
        \A e \in (IF Edits(r) THEN On(r) ELSE Episode) :
            req[r].got[e].save >= req[r].floor[e]

(* The episode file is readable unless someone is writing it, and for      *)
(* every answered edit it has the row that edit saved, or a newer one,     *)
(* though requests of older and newer contexts write other rows of it at   *)
(* the same time and a commit may copy it (get_file_lock, _path_locks).    *)
(* Excepted: a write that was cut off, a mirror that was skipped, an edit  *)
(* under way when a commit replaces the file and drops the locks, and two  *)
(* edits of one episode of which the second saved before the first took    *)
(* the lock: they may mirror their own values in the other order.          *)
FileTruthful ==
    \/ marks \cap {"cut", "forked"} # {}
    \/ /\ Exists(root) /\ root.torn => Writing
       /\ \/ marks \cap {"skipped", "crossed"} # {}
          \/ ~Exists(root) \/ root.half \/ root.torn
          \/ \A r \in Request : (req[r].pc = "done" /\ Edits(r)) =>
                \A e \in On(r) : root.rows[e] >= req[r].floor[e]

(* The statistics are those of the rows, or a refresh is due, unless a     *)
(* save came between a refresh's reading and its writing, or a request     *)
(* ended between its saves and its refresh: it was killed, a serial number *)
(* was missing, or the refresh met an episode file it could not read.      *)
StatsCurrent ==
    \/ stats = Saves(db)
    \/ marks \cap {"overtaken", "unrefreshed"} # {}
    \/ \E r \in Request : RefreshDue(r)

(* "Crash-recoverable task-instruction mutations": a data set a kill left  *)
(* moved aside is put back by the commits that follow.                     *)
CrashRecoverable == (~Exists(root) /\ At("idle")) ~> Exists(root)
=============================================================================
