----------------------------- MODULE JobQueue -----------------------------
(***************************************************************************)
(* The unified jobs queue: the Postgres table "jobs", the API calls that   *)
(* enqueue and cancel (backend/jobs/repo.py, backend/jobs/lifecycle.py)    *)
(* and the worker processes that claim, execute and finish jobs            *)
(* (backend/workers/runtime.py), and the desired state an operator sets    *)
(* for each worker (backend/workers/service.py).                           *)
(*                                                                         *)
(* Every SQL statement that changes or locks rows is one step (each runs   *)
(* in its own transaction, except claim_next, whose SELECT ... FOR UPDATE  *)
(* SKIP LOCKED and UPDATE are two steps with the row locked in between).   *)
(* Everything may happen between two steps, worker crashes and failed      *)
(* statements included.                                                    *)
(***************************************************************************)
EXTENDS Naturals, FiniteSets

CONSTANTS
    Job,            \* rows of the table, numbered in creation order
    Type,           \* job types
    Key,            \* dedupe keys
    NoKey,          \* dedupe_key IS NULL
    CancelAware,    \* the types whose handler polls check_cancel
    Conversion,     \* the types the operator hold disables
    Proc,           \* worker processes
    WorkerId,       \* worker ids
    Id,             \* Id[p]: the worker_id process p runs under
    Handles,        \* Handles[w]: the types in the HANDLERS of worker id w
    NoWorker,       \* worker_id IS NULL
    NoJob,          \* a process that works on no job
    Client,         \* concurrent API requests
    Canceller,      \* those that may be a cancel as well as an enqueue
    Posts,          \* what enqueue calls ask for
    NoRequest,      \* an API request that enqueues nothing
    MaxCrashes,     \* bound: crashes of worker processes
    MaxDbFailures   \* bound: worker statements that raise

Request == [type : Type, key : Key \cup {NoKey}]

ASSUME JobAssumption == Job \subseteq Nat
ASSUME BoundsAssumption == MaxCrashes \in Nat /\ MaxDbFailures \in Nat
ASSUME WorkerAssumption ==
    /\ Id \in [Proc -> WorkerId]
    /\ Handles \in [WorkerId -> SUBSET Type]
ASSUME NullAssumption ==
    /\ NoKey \notin Key
    /\ NoWorker \notin WorkerId
    /\ NoJob \notin Job
    /\ NoRequest \notin Request
ASSUME ClientAssumption == Canceller \subseteq Client /\ Posts \subseteq Request

VARIABLES
    \* the table
    status,         \* status[j], or "absent" while there is no such row
    request,        \* request[j]: its type and dedupe_key
    owner,          \* owner[j]: the worker_id column
    attempts,       \* attempts[j]
    outcome,        \* outcome[j]: which of the columns result, error are set
    \* the worker processes
    pc,             \* pc[p]: where process p is in run_forever / tick
    held,           \* held[p]: the job p has locked, claimed or executes
    desired,        \* desired[w]: the column desired_state of worker id w
    \* the API requests
    at,             \* at[c]: which statement request c runs next
    wants,          \* wants[c]: what an enqueue call wants to insert
    target,         \* target[c]: the job a cancel call is about
    \* observation and bounds
    claims,         \* claims[j]: how often job j was claimed
    usurped,        \* jobs requeued while a process still worked on them
    orphaned,       \* jobs whose process died, until they are requeued
    forgotten,      \* jobs let go by a failed statement, until requeued
    crashes, dbFailures

table == <<status, request, owner, attempts, outcome>>
workers == <<pc, held, desired>>
clients == <<at, wants, target>>
history == <<claims, usurped, orphaned, forgotten, crashes, dbFailures>>
vars == <<table, workers, clients, history>>

Terminal == {"complete", "failed", "cancelled"}
Active == {"queued", "running", "cancel_requested"}
InHand == {"running", "cancel_requested"}
Status == Active \cup Terminal \cup {"absent"}

(* What a handler can give back to tick: a mapping, None, an exception, or *)
(* CancelledNormally.                                                      *)
Return == {"mapping", "none", "exception", "cancelled_normally"}

(* "executing" is in the heartbeat that names the job, or in the handler;  *)
(* "stopping" in a handler whose check_cancel said yes; "blind" in one     *)
(* whose check_cancel raised.                                              *)
Busy == {"executing", "stopping", "blind"}
PC == {"down", "paused", "idle", "locked"} \cup Busy

(* tick only compares with "running": "held" is paused, draining, stopped. *)
Desired == {"running", "held"}

TypeOK ==
    /\ status \in [Job -> Status]
    /\ request \in [Job -> Request \cup {NoRequest}]
    /\ owner \in [Job -> WorkerId \cup {NoWorker}]
    /\ attempts \in [Job -> Nat]
    /\ outcome \in [Job -> SUBSET {"result", "error"}]
    /\ pc \in [Proc -> PC]
    /\ held \in [Proc -> Job \cup {NoJob}]
    /\ \A p \in Proc : held[p] = NoJob <=> pc[p] \in {"down", "paused", "idle"}
    /\ desired \in [WorkerId -> Desired]
    /\ at \in [Client -> {"idle", "insert", "mark"}]
    /\ wants \in [Client -> Request \cup {NoRequest}]
    /\ \A c \in Client : at[c] = "insert" => wants[c] \in Request
    /\ target \in [Client -> Job \cup {NoJob}]
    /\ \A c \in Client : at[c] = "mark" => target[c] \in Job
    /\ claims \in [Job -> Nat]
    /\ usurped \subseteq Job /\ orphaned \subseteq Job /\ forgotten \subseteq Job
    /\ crashes \in Nat
    /\ dbFailures \in Nat

Init ==
    /\ status = [j \in Job |-> "absent"]
    /\ request = [j \in Job |-> NoRequest]
    /\ owner = [j \in Job |-> NoWorker]
    /\ attempts = [j \in Job |-> 0]
    /\ outcome = [j \in Job |-> {}]
    /\ pc = [p \in Proc |-> "down"]
    /\ held = [p \in Proc |-> NoJob]
    /\ desired = [w \in WorkerId |-> "running"]
    /\ at = [c \in Client |-> "idle"]
    /\ wants = [c \in Client |-> NoRequest]
    /\ target = [c \in Client |-> NoJob]
    /\ claims = [j \in Job |-> 0]
    /\ usurped = {} /\ orphaned = {} /\ forgotten = {}
    /\ crashes = 0
    /\ dbFailures = 0

-----------------------------------------------------------------------------
(* Helpers on the table. *)

(* Mutant: a duplicate whose cancellation was requested does not count.    *)
DuplicatesNotCancelling(r) ==
    {j \in Job : status[j] \in {"queued", "running"} /\ r.key # NoKey /\ request[j] = r}

(* The active rows with the type and the dedupe key of request r.          *)
Duplicates(r) ==
    {j \in Job : status[j] \in Active /\ r.key # NoKey /\ request[j] = r}

(* A row locked by the open transaction of some claim_next.                *)
RowLocked(j) == \E p \in Proc : pc[p] = "locked" /\ held[p] = j

(* Mutant: SELECT without FOR UPDATE SKIP LOCKED. *)
ClaimableLocked(p) ==
    {j \in Job : status[j] = "queued" /\ request[j].type \in Handles[Id[p]]}

(* The rows the SELECT of claim_next may take for process p.               *)
Claimable(p) ==
    {j \in Job : /\ status[j] = "queued"
                 /\ request[j].type \in Handles[Id[p]]
                 /\ ~RowLocked(j)}

(* Mutants: requeue nothing; revive cancelling jobs. *)
AbandonedNone(p) == {}

AbandonedInHand(p) == {j \in Job : status[j] \in InHand /\ owner[j] = Id[p]}

(* The rows requeue_abandoned updates for process p: only running ones.    *)
Abandoned(p) ==
    {j \in Job : /\ status[j] = "running"
                 /\ owner[j] = Id[p]
                 /\ request[j].type \in Handles[Id[p]]}

(* A live process works on job j. *)
InWork(j) == \E p \in Proc : pc[p] \in Busy /\ held[p] = j

-----------------------------------------------------------------------------
(* POST /api/jobs: enqueue looks for an active duplicate, inserts, and     *)
(* when the unique index rejects the row looks for the duplicate again.    *)

EnqueueCheck(c, r) ==
    /\ at[c] = "idle"
    /\ Duplicates(r) = {}
    /\ at' = [at EXCEPT ![c] = "insert"]
    /\ wants' = [wants EXCEPT ![c] = r]
    /\ UNCHANGED <<table, workers, target, history>>

EndCall(c) ==
    /\ at' = [at EXCEPT ![c] = "idle"]
    /\ wants' = [wants EXCEPT ![c] = NoRequest]
    /\ target' = [target EXCEPT ![c] = NoJob]

EnqueueInsert(c, j) ==
    /\ at[c] = "insert"
    /\ Duplicates(wants[c]) = {}
    /\ status[j] = "absent"
    /\ \A i \in Job : i < j => status[i] # "absent"
    /\ status' = [status EXCEPT ![j] = "queued"]
    /\ request' = [request EXCEPT ![j] = wants[c]]
    /\ EndCall(c)
    /\ UNCHANGED <<owner, attempts, outcome, workers, history>>

(* idx_jobs_active_dedupe rejects the row; the SELECT that follows only    *)
(* chooses between DuplicateDedupe and the violation itself.               *)
EnqueueViolation(c) ==
    /\ at[c] = "insert"
    /\ Duplicates(wants[c]) # {}
    /\ EndCall(c)
    /\ UNCHANGED <<table, workers, history>>

(* Any other error of the INSERT: a 500, and no row. *)
EnqueueFails(c) ==
    /\ at[c] = "insert"
    /\ EndCall(c)
    /\ UNCHANGED <<table, workers, history>>

-----------------------------------------------------------------------------
(* POST /api/jobs/{id}/cancel: two guarded UPDATEs; the SELECT after them  *)
(* only chooses between LookupError, AlreadyTerminal and a 202 that names  *)
(* the present status.  An UPDATE waits for a row lock.                    *)

CancelQueued(c, j) ==
    /\ at[c] = "idle"
    /\ ~RowLocked(j)
    /\ \/ /\ status[j] = "queued"
          /\ status' = [status EXCEPT ![j] = "cancelled"]
          /\ UNCHANGED <<at, target>>
       \/ /\ status[j] # "queued"
          /\ at' = [at EXCEPT ![c] = "mark"]
          /\ target' = [target EXCEPT ![c] = j]
          /\ UNCHANGED status
    /\ UNCHANGED <<request, owner, attempts, outcome, workers, wants, history>>

CancelRunning(c) ==
    /\ at[c] = "mark"
    /\ \/ /\ status[target[c]] = "running"
          /\ status' = [status EXCEPT ![target[c]] = "cancel_requested"]
       \/ /\ status[target[c]] # "running"
          /\ UNCHANGED status
    /\ EndCall(c)
    /\ UNCHANGED <<request, owner, attempts, outcome, workers, history>>

-----------------------------------------------------------------------------
(* A worker process: run_forever, then tick after tick. *)

Goto(p, where) == pc' = [pc EXCEPT ![p] = where]

LetGo(p) == held' = [held EXCEPT ![p] = NoJob]

NextAttempt(j) == attempts[j] + 1

(* run_forever begins with requeue_abandoned.                              *)
Start(p) ==
    /\ pc[p] = "down"
    /\ status' = [j \in Job |-> IF j \in Abandoned(p) THEN "queued" ELSE status[j]]
    /\ owner' = [j \in Job |-> IF j \in Abandoned(p) THEN NoWorker ELSE owner[j]]
    /\ attempts' = [j \in Job |->
                        IF j \in Abandoned(p) THEN NextAttempt(j) ELSE attempts[j]]
    /\ outcome' = [j \in Job |->
                        IF j \in Abandoned(p) THEN outcome[j] \ {"error"} ELSE outcome[j]]
    /\ usurped' = usurped \cup {j \in Abandoned(p) : InWork(j)}
    /\ orphaned' = orphaned \ Abandoned(p)
    /\ forgotten' = forgotten \ Abandoned(p)
    /\ Goto(p, "idle")
    /\ UNCHANGED <<request, held, desired, clients, claims, crashes, dbFailures>>

(* Started with conversion mutations disabled, a worker with a conversion  *)
(* handler neither requeues nor claims until it is restarted.              *)
StartPaused(p) ==
    /\ pc[p] = "down"
    /\ Handles[Id[p]] \cap Conversion # {}
    /\ Goto(p, "paused")
    /\ UNCHANGED <<table, held, desired, clients, history>>

(* tick goes on to claim_next only when it has read that its worker id is  *)
(* desired running.  That read is a statement of its own; a change of the  *)
(* desired state between it and the SELECT is one made just after both.    *)
ClaimSelect(p, j) ==
    /\ pc[p] = "idle"
    /\ desired[Id[p]] = "running"
    /\ j \in Claimable(p)
    /\ \A i \in Claimable(p) : j <= i
    /\ Goto(p, "locked")
    /\ held' = [held EXCEPT ![p] = j]
    /\ UNCHANGED <<table, desired, clients, history>>

ClaimUpdate(p) ==
    /\ pc[p] = "locked"
    /\ status' = [status EXCEPT ![held[p]] = "running"]
    /\ owner' = [owner EXCEPT ![held[p]] = Id[p]]
    /\ claims' = [claims EXCEPT ![held[p]] = @ + 1]
    /\ Goto(p, "executing")
    /\ UNCHANGED <<request, attempts, outcome, held, desired, clients>>
    /\ UNCHANGED <<usurped, orphaned, forgotten, crashes, dbFailures>>

(* The handler polls check_cancel and finds the request. *)
ObserveCancel(p) ==
    /\ pc[p] = "executing"
    /\ request[held[p]].type \in CancelAware
    /\ status[held[p]] = "cancel_requested"
    /\ Goto(p, "stopping")
    /\ UNCHANGED <<table, held, desired, clients, history>>

(* What the handler may give back, depending on what it has seen.          *)
Returns(p) ==
    CASE pc[p] = "executing" -> {"mapping", "none", "exception"}
      [] pc[p] = "stopping" -> {"cancelled_normally", "exception"}
      [] pc[p] = "blind" -> {"exception"}

-----------------------------------------------------------------------------

(* complete, fail and cancel_normally are guarded by the status alone.     *)

Finalise(j, s, columns) ==
    /\ \/ /\ status[j] \in InHand
          /\ status' = [status EXCEPT ![j] = s]
          /\ outcome' = [outcome EXCEPT ![j] = @ \cup columns]
       \/ /\ status[j] \notin InHand
          /\ UNCHANGED <<status, outcome>>
    /\ UNCHANGED <<request, owner, attempts>>

(* complete and fail turn a requested cancel into cancelled and then leave *)
(* result and error alone.                                                 *)
Unless(j, s) == IF status[j] = "cancel_requested" THEN "cancelled" ELSE s
OnlyRunning(j, columns) == IF status[j] = "running" THEN columns ELSE {}

(* Mutant: complete is called only for a handler that returned a mapping. *)
CompleteMappingOnly(p, columns) ==
    IF columns = {}
        THEN UNCHANGED table
        ELSE Finalise(held[p], Unless(held[p], "complete"),
                      OnlyRunning(held[p], columns))

Complete(p, columns) ==
    Finalise(held[p], Unless(held[p], "complete"), OnlyRunning(held[p], columns))

Fail(p) == Finalise(held[p], Unless(held[p], "failed"), OnlyRunning(held[p], {"error"}))

CancelNormally(p) == Finalise(held[p], "cancelled", {"error"})

(* The handler's return is the worker's own step and seen by nobody before *)
(* the UPDATE: what it gives back is chosen there.                         *)
FinishTick(p) ==
    /\ pc[p] \in Busy
    /\ \E r \in Returns(p) :
          \/ r = "mapping" /\ Complete(p, {"result"})
          \/ r = "none" /\ Complete(p, {})
          \/ r = "exception" /\ Fail(p)
          \/ r = "cancelled_normally" /\ CancelNormally(p)
    /\ Goto(p, "idle")
    /\ LetGo(p)
    /\ UNCHANGED <<desired, clients, history>>

-----------------------------------------------------------------------------
(* Faults. *)

(* The process dies: its open transaction is rolled back. *)
Crash(p) ==
    /\ crashes < MaxCrashes
    /\ pc[p] # "down"
    /\ Goto(p, "down")
    /\ LetGo(p)
    /\ orphaned' = orphaned \cup {j \in Job : pc[p] \in Busy /\ j = held[p]}
    /\ crashes' = crashes + 1
    /\ UNCHANGED <<table, desired, clients, claims, usurped, forgotten, dbFailures>>

(* A statement of tick raises: the claim is rolled back, or the tick ends  *)
(* with the job left as it is (run_forever logs and goes on); a failed     *)
(* check_cancel ends the watch and makes the handler raise in the end.     *)
DbFailure(p) ==
    /\ dbFailures < MaxDbFailures
    /\ \/ pc[p] = "locked" /\ Goto(p, "idle") /\ LetGo(p) /\ UNCHANGED forgotten
       \/ /\ pc[p] \in Busy
          /\ Goto(p, "idle")
          /\ LetGo(p)
          /\ forgotten' = forgotten \cup {held[p]}
       \/ /\ pc[p] = "executing"
          /\ request[held[p]].type \in CancelAware
          /\ Goto(p, "blind")
          /\ UNCHANGED <<held, forgotten>>
    /\ dbFailures' = dbFailures + 1
    /\ UNCHANGED <<table, desired, clients, claims, usurped, orphaned, crashes>>

-----------------------------------------------------------------------------
(* PATCH /api/workers/{id}.  The transition is checked against a row read  *)
(* in an earlier statement, so two operators may make any change between   *)
(* them.                                                                   *)
SetDesired(w, d) ==
    /\ desired' = [desired EXCEPT ![w] = d]
    /\ UNCHANGED <<table, pc, held, clients, history>>

-----------------------------------------------------------------------------
ClientNext(c) ==
    \/ \E r \in Posts : EnqueueCheck(c, r)
    \/ \E j \in Job : EnqueueInsert(c, j)
    \/ EnqueueViolation(c)
    \/ EnqueueFails(c)
    \/ c \in Canceller /\ \E j \in Job : CancelQueued(c, j)
    \/ CancelRunning(c)

(* What a running process does of its own accord. *)
WorkerStep(p) ==
    \/ \E j \in Job : ClaimSelect(p, j)
    \/ ClaimUpdate(p)
    \/ FinishTick(p)

Next ==
    \/ \E c \in Client : ClientNext(c)
    \/ \E w \in WorkerId, d \in Desired : SetDesired(w, d)
    \/ \E p \in Proc :
          \/ Start(p)
          \/ StartPaused(p)
          \/ WorkerStep(p)
          \/ ObserveCancel(p)
          \/ Crash(p)
          \/ DbFailure(p)

Spec == Init /\ [][Next]_vars

-----------------------------------------------------------------------------
(* Safety. *)

(* idx_jobs_active_dedupe together with the check-then-insert of enqueue   *)
(* and with every status change, requeue included: never two active jobs   *)
(* of one type with one dedupe key.                                        *)
OneActivePerKey ==
    \A i, j \in Job :
        /\ i # j
        /\ status[i] \in Active /\ status[j] \in Active
        /\ request[i].key # NoKey
        => request[i] # request[j]

(* Every row names what it is a request for. *)
RowsFilled == \A j \in Job : status[j] # "absent" => request[j] \in Request

(* FOR UPDATE SKIP LOCKED: between the SELECT and the UPDATE of claim_next *)
(* the chosen row is still queued, unowned, and chosen by no one else,     *)
(* whatever replicas and cancelling clients do meanwhile.                  *)
ClaimIsExclusive ==
    \A p \in Proc : pc[p] = "locked" =>
        /\ status[held[p]] = "queued" /\ owner[held[p]] = NoWorker
        /\ \A q \in Proc : pc[q] = "locked" /\ held[q] = held[p] => q = p

(* No two processes execute one job, and the job a process executes is     *)
(* recorded as its own, unless requeue_abandoned took the job from a live  *)
(* process of the same worker id.  With one process per id it never does:  *)
(* a restart requeues only what its predecessor has really dropped.        *)
SingleExecution ==
    \A p \in Proc : pc[p] \in Busy /\ held[p] \notin usurped =>
        /\ owner[held[p]] = Id[p]
        /\ status[held[p]] \in InHand \cup Terminal
        /\ \A q \in Proc : pc[q] \in Busy /\ held[q] = held[p] => q = p

(* attempts counts the executions an operator cannot see any more: a job   *)
(* was claimed once for every attempt given back, and once more while (or  *)
(* since) some worker owns it.                                             *)
ClaimsAccounted ==
    \A j \in Job :
        claims[j] = attempts[j] + (IF owner[j] = NoWorker THEN 0 ELSE 1)

(* The columns a client reads agree with the status: a result only on a    *)
(* complete job, an error on every failed job, none on a job that is yet   *)
(* to run or that completed after an earlier, interrupted attempt.         *)
OutcomeTruthful ==
    \A j \in Job :
        /\ "result" \in outcome[j] => status[j] = "complete"
        /\ status[j] = "failed" => "error" \in outcome[j]
        /\ "error" \in outcome[j] => status[j] \in {"failed", "cancelled"}

(* A job in hand that no process works on is the trace of a fault of its   *)
(* own since it was last claimed: the death of its worker, or a statement  *)
(* that failed under it.                                                   *)
StrandedByFault ==
    \A j \in Job :
        status[j] \in InHand =>
            \/ InWork(j)
            \/ j \in orphaned \cup forgotten

(* An ended job is never touched again: not by a late finish of a second   *)
(* execution, not by a requeue, not by a cancel that lost the race.        *)
TerminalFrozen ==
    [][\A j \in Job : status[j] \in Terminal =>
          /\ status'[j] = status[j] /\ owner'[j] = owner[j]
          /\ attempts'[j] = attempts[j] /\ outcome'[j] = outcome[j]]_vars

(* A cancel that was answered "cancel_requested" sticks: the job can only  *)
(* end cancelled, and never with a result, though its handler may succeed  *)
(* or raise later and though its worker may restart in between.            *)
CancelSticks ==
    [][\A j \in Job : status[j] = "cancel_requested" =>
          /\ status'[j] \in {"cancel_requested", "cancelled"}
          /\ "result" \notin outcome'[j]]_vars

(* The statuses, as a client sees them, are a behaviour of JobLifecycle.   *)
Lifecycle == INSTANCE JobLifecycle WITH phase <- status, tries <- attempts
ImplementsLifecycle == Lifecycle!Spec

-----------------------------------------------------------------------------
(* Liveness. *)

(* Docker restarts a dead worker and a started worker keeps polling.       *)
Fairness == \A p \in Proc : WF_vars(Start(p)) /\ WF_vars(WorkerStep(p))
LiveSpec == Spec /\ Fairness

(* The operator holds a worker that could run the job back: by its desired *)
(* state, or with the conversion mutations disabled.                       *)
OnHold(j) ==
    /\ status[j] # "absent"
    /\ \E p \in Proc :
          /\ request[j].type \in Handles[Id[p]]
          /\ pc[p] = "paused" \/ desired[Id[p]] = "held"

(* Every job leaves the queue for good: although its worker may crash, it  *)
(* ends, or a client has asked to cancel it, unless an operator holds its  *)
(* worker back or a statement failed under it and left it running with no  *)
(* process.                                                                *)
JobsSettle ==
    \A j \in Job : status[j] \in {"queued", "running"} ~>
        \/ status[j] \in Terminal \cup {"cancel_requested"}
        \/ OnHold(j)
        \/ j \in forgotten

=============================================================================
