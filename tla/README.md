# A verification project for robodata

TLA+ models of the parts of this repository that keep durable state and are hard to
test: the jobs queue and its workers, the commands and services that move robot
recordings and data sets about on disk, and the requests that edit them. Each part has a
module, TLC configurations that check it on a small instance, and, for its safety
properties, proofs that TLAPS checks for every value of the constants.

- `<Module>.tla` models a component: variables, `Init`, one action per operation
  or step, `Next`, `Spec`, its properties. Operators under a comment that begins
  with "Mutant" are plausible bugs of the definition that follows them. The
  specification does not use them; they are there to show that the properties
  notice.
- `MC<Module>.tla` and the `.cfg` files instantiate it for TLC.
- `<Module>Proofs.tla` holds the theorems.
- `PROJECT.json` maps every definition to the source lines it models and lists
  runs, mutants, hazards, findings and theorems.

Run `tlc -config X.cfg M` for a run and `tlapm M.tla` for a proof module, in
this directory. Paths below are relative to the repository.

## The system

The curation tool is a FastAPI backend over a Postgres database, two worker
processes, and a directory tree on a NAS. Recordings arrive as *raw* (rosbag)
directories, are converted by an external converter into LeRobot data sets,
graded and edited in the browser, and cut, stamped, split or merged by jobs.
Operators run a few scripts on the stopped system when a conversion was
interrupted or a raw task has to be redistributed.

### Components, their state and operations

| Component | State | Operations |
|---|---|---|
| jobs queue (`backend/jobs/repo.py`, `lifecycle.py`) | table `jobs`: status, worker_id, attempts, result, error, dedupe_key, with a partial unique index over active rows (`docker/db/init.sql:140`) | enqueue, request_cancel, claim_next, requeue_abandoned, heartbeat, complete, fail, cancel_normally |
| worker runtime (`backend/workers/runtime.py`) | the job in hand of each process; heartbeat rows | run_forever, tick; handlers poll `check_cancel` |
| worker control (`backend/workers/service.py`) | desired state of each worker id, which `tick` reads before it claims | patch_desired_state |
| in-place operations (`jobs/runner_helpers.py`, `cycle_stamp_service.py`, `dataset_ops_engine.py`) | the data set's directory and its `.bak` | delete and stamp jobs through run_in_place_with_rollback |
| conversion recovery (`converter/recovery_service.py`) | intent and receipt files, outputs, archives and markers of each task; the shared `convert_state.json`, its backups and replacements | authorize, replay, resume after a crash |
| bronze to silver (`bronze_silver_pipeline.py`) | recording directories; tables episode_curation_states, datasets, episode_serials | one batch in one transaction |
| raw partition (`scripts/partition_raw_by_contract.py`) | recordings, destination directories and their markers, a journal and its state log | apply, rollback |
| state reconcile (`scripts/reconcile_partition_convert_state.py`) | entries of a partitioned task in `convert_state.json`, one backup per plan | apply, rollback |
| split and views (`scripts/split_raw_task_by_metadata.py`) | destination tasks, symlink views, staging directories, phase files | split, view, replace a view in place, build a detached tree |
| episode annotations (`episode_service.py`, `dataset_registry.py`) | annotation rows, statistics, the mirror in the episode files, contexts with caches and locks | list, PATCH, bulk grade, migrate, evict, invalidate |
| episode instructions (`episode_instruction_service.py`) | a data set, its backup and staging copy, a manifest | preview, commit, recover |
| converter control (`converter/service.py`, `router.py`) | `convert_state.json` and its temporary file, the convert job, progress snapshot | start, stop, retry failed, poll |

The remaining parts (queries over data sets, video and scalar routes, the
frontend, image analysis, repository automation) keep no state of their own;
`PROJECT.json` lists each one with the reason it is left out.

### Interactions

- The API inserts and cancels rows of `jobs`; workers claim and finish them.
  Nothing but the table connects them, and each SQL statement is a transaction
  of its own, except `claim_next` (a locked SELECT and an UPDATE).
- Two kinds of worker, `converter` and `curation-worker`, each run as one
  container with a fixed worker id and `restart: unless-stopped`
  (`docker/compose.yml`). A process that starts gives back the running jobs of
  its id.
- The curation worker calls the in-place operations, the converter worker the
  bronze-to-silver batch (`converter/queue_adapter.py:405`), as job handlers, so a
  worker's death interrupts those half-way and the requeued job meets what they left.
- An operator sets the desired state of a worker through the API; a worker whose
  state is not `running` goes on polling but claims nothing
  (`workers/runtime.py:58-64`). It finishes the job it has.
- The converter, the recovery command and the reconcile command read and write
  one `convert_state.json` that holds an entry for every task. The commands run
  under an exclusive lock with the services stopped, but may die half-way, and
  the services may be started again before they are resumed.
- The reconcile command trusts the journal of a committed partition.
- The API process rewrites the same `convert_state.json` when failed recordings are
  retried, while the converter works.
- Requests of the API share one event loop and, per data set, a context with a
  cache and a lock dictionary. An instruction commit replaces the whole data set
  under the requests that are editing it.

### What is hard here

Interleavings of replicas, restarts and cancels between single statements;
deaths between a file operation and its record; a database transaction around
file moves that cannot be rolled back; a file shared by tasks that are recovered
separately; commands that are stopped and reversed at any point; requests that
go on after an await with what they read before it. `hazards` in `PROJECT.json`
lists these places by line with the properties that watch them. Where a property
excepts part of a hazard, the hazard's note says which; the four without a property say
what covers them instead, or why no promise is broken.

### What makes each component correct

- *Jobs*: one active job per dedupe key, one claimant per row, one execution at
  a time, ended jobs frozen, requested cancels kept, jobs that eventually end.
- *In-place edits*: a whole copy of the data set exists; an edit happens entirely or
  not at all; a completed edit stays; a stamp happens once; a helper that raises has
  put back what it set aside. A removal of the backup that raises breaks the last of
  these, and with it the first.
- *Recovery*: nothing the conversion left is removed; the published receipt is
  true; other tasks' state entries survive; the replay ends.
- *Bronze to silver*: no recording that arrived is lost; ready rows are true;
  whatever lies in silver is known to the database; a move that was rolled back is
  taken over later.
- *Partition*: the journaled phase is true; recordings are only where the
  durable journal says they may be; a rollback is not turned round; a repeated
  command ends.
- *State reconcile*: what the converter wrote survives; a backup always leads back
  to before its plan; a repeated command ends with what it was asked for.
- *View replacement*: a task is always there or one rename away; the phase is
  true; every staging root is accounted for; an installed tree stays; the
  manifest remains one a later command can use.
- *Detached view*: the phase is true; an attempt is given up only for a cause; a
  repeated command commits.
- *Annotations*: an answer is never behind an earlier one; the episode file is
  readable and has, of every answered edit, the row it saved or a newer one; the
  statistics are those of the rows.
- *Instructions*: a whole data set is in its place, or aside and named by the
  manifest.
- *Converter control*: the state file can be read at every moment; recorded
  outcomes stay; the progress shown settles.

## Modules

### JobLifecycle and JobQueue

`JobQueue` has one action per SQL statement that writes or locks a row. API requests
are processes with a program counter `at` (`idle`, `insert`, `mark`): the look for a
duplicate and the insert of `enqueue`, the two guarded UPDATEs of `request_cancel`.
The SELECT that ends either call only chooses its answer and is part of the step
before it. Worker processes have a program counter `pc`: `down`, `paused` (conversion
mutations disabled), `idle`, `locked` (the SELECT of `claim_next` ran), `executing`,
`stopping` (the handler saw a cancel), `blind` (its poll failed). What the handler
gives back is chosen in `FinishTick`, with the terminal statement, since nobody sees it
earlier. `Crash` rolls an open claim back; `DbFailure` makes a worker's statement raise.
`outcome` says which of the columns `result` and `error` are set; their contents are
left out. `Proc` and `WorkerId` are separate constants, so a specification with several
processes of one id models replicas.

`desired` is the desired state of each worker id, as far as `tick` tells it apart:
`running` or `held` (paused, draining, stopped). `SetDesired` changes it at any moment,
and `ClaimSelect` needs it to be running. The read of it and the SELECT are one step:
a change that comes between them is the same as one that comes just after. A job in
hand goes on when its worker is held. `Posts` and `Canceller` say what the requests may
ask for. Three histories note what happened to a job: `usurped` (requeued while a live
process worked on it), `orphaned` (its process died) and `forgotten` (a statement failed
under it), the last two until it is requeued.

`JobLifecycle` is what a client may rely on: the life of one job as its status
and attempts show it. `JobQueue` implements it with the columns themselves as
the refinement mapping (`ImplementsLifecycle`).

### AtomicEdit and InPlaceRollback

A data set is a function from files to versions (how often cut, stamped or not).
`InPlaceRollback` creates, writes and removes single files, so a death, an
exception of the rebuild, or an exception of `rmtree` may come between any two.
`DropRaises` is the removal of the backup, which is inside the `try` and enters the
`except` branch; `UndoRaises` is the removal of the target in that branch, and leaves the
helper. `mishap` remembers whether the backup was whole when its removal raised.
The queue is reduced to what the helper sees of it: jobs are claimed in creation
order, the report may be lost, a restart requeues the running job.
`AtomicEdit` is a content that jobs change in one step, until an edit is `undone`
because what it replaced could not be removed; from then on it promises nothing. The
mapping takes the copy at the data set's path if it is whole, else the backup.

### ConversionRecovery

Per task an intent with its phase, the directories under three names, two
markers; shared by all tasks the state file. The actions follow `_replay`: every
iteration first checks the evidence (`Refuse` where the code raises), then does
one rename or one rewrite of the intent. `Scene` enumerates what an interrupted
conversion can have left. Whole-tree fingerprints are abstracted to the identity
of the tree, and the full validation to its verdict, fixed per tree. `Convert` is
the external converter, reduced to its rewriting of the shared state file, and
is refused for blocked tasks as the queue adapter does (`recovery_blockers`).

### BronzeSilver

The rows as committed and as the running batch sees them, the directories on
both sides (absent, partial, whole). A move is a rename or, between file systems,
a copy and a removal, each of which may be cut off. `Rollback` undoes rows, not
moves. `arrived` remembers which recordings were ever uploaded. The advisory lock
admits one batch, so a second one has no step.

### RawPartition

The recordings' places, the destination directories (name, marker, mode), the
journal's bootstrap and its last durable record `log`, and the running command's
copy `mem` of it. Each effect on disk and each append is a step; `Stop` may come
between any two and stands for a kill, a failing write and every check that
finds something foreign. The operator repeats a command or, `Switch`, changes
between apply and rollback. Assumed: a rename is atomic and durable when it
returns; a torn last record is a stop before the append, since a reader ignores
an unterminated line and the next append truncates it; the committed mode
differs from the working mode 0700.

### PartitionState and StateReconcile

A plan is one partition: its source, and what it gives each task. `raw` and
`partition` are what `RawPartition` leaves, committed and reversed as a whole. An
entry of the state file has its converted recordings, its failures, and a stamp
that stands for `last_updated`: a number for what the converter wrote, the plan for
what a plan wrote. A command reads everything under the lock (`FirstApply`,
`Again`), then writes the backup in two steps and installs in one. `Kill` leaves
what is there; `Raise` removes a torn backup. Between commands the converter may
work, another plan may split a task again, or the operator may turn to the other
command. Assumed, as the wrapper script has it: one command at a time, and the
converter stopped while it runs.

### ViewReplacement

`materialize_symlink_view_as_hardlinks`, which replaces a task's view of symlinks under
its own path (the tests and the library use it; the command line offers only the
detached variant). The disk is the place of the view and, per reservation token, a
directory with a place, a marker and what is built of each recording. A recording has
three steps (made with the permissions `mkdir` gives it, given its own, filled), so
every interruption of the builder is there. `log` is the manifest on disk and `mem` the
copy the command changes first; `save` says that `write_manifest` is under way. `Stop`
is a kill. `Raise` is an exception of any call, a failing write included: it enters the
command's own error handling, which goes on with a `mem` that may be ahead of `log`.
`ctx` says whether the command is before, inside or in the handler of the `try` block. A
write that raises after `os.replace` took effect is a `Save` followed by a `Raise`. A
failed write of `committed` ends the command, where the code tries that write once more:
the command given again does the same. Assumed: nothing else touches the task's
directories, and renames are atomic.

### DetachedView

`materialize_link_view_detached_as_hardlinks`, the variant the command line offers.
The destination is absent, made, marked, or plain once its marker is gone; a
recording is created, bound in the manifest, given its permissions and filled, one
after the other. `log`, `mem` and `save` are as in `ViewReplacement`. `Raise` and
every check that fails write `recovery_failed`; `Kill` leaves the manifest as it
is. `SourceChanges` lets someone else change view or backing. The private parent
is assumed to hold nothing else, which the command checks at every turn.

### InstructionCommit and EpisodeAnnotations

`InstructionCommit` has the data set, its backup and its copy as trees, the
manifest, and one action for each call of `recover`, `preview` and `commit`,
including every branch of the exception handler. A removal of a tree leaves half
of it first; `recover` removes a half-made tree and renames the backup in one step. The
commit runs on the event loop without an await, so requests wait, but threads, kills and
failing calls do not.

`EpisodeAnnotations` extends it with the requests on the same data set, as segments
between awaits: `Begin` takes or loads a context (fingerprint, lock dictionary, cache),
`Count` to `Load` go through the database, `File` reads the episode file in a thread and
installs the cache, `Save` to `Clear` are an edit. `Truncate` and `Written` are the two
ends of `pq.write_table`: the file is torn between them and may be moved aside or
replaced meanwhile. A request may also end early: `SaveFails` is the serial number that
is neither in a row nor to be read from the file, which ends a bulk grade after some of
its saves, and `RefreshFails` the refresh that cannot read the episode file, which
leaves the row saved and the statistics old. Rows are numbered by save, so an answer can
be compared with earlier ones (`floor`). `marks` notes what a property excepts: `cut`,
`forked` and `skipped` writes, `overtaken` and `unrefreshed` statistics, and `crossed`
edits, of which one saved an episode that another had saved and not yet mirrored. Left
out: reasons and durations, raw data sets, errors of the database, and the lock that
orders instruction requests before they reach `recover` (the model lets them come in any
order).

### StateFile and ConverterControl

`mark_failed_recordings_retryable` in its thread as reading, opening, filling and
renaming the shared temporary file; a writer keeps the file it opened wherever a
rename takes it (`on`). The convert job is none, queued or running, as `JobQueue`
has it. `Poll`, `Install`, `ScanFails` and `Expire` are the progress snapshot.
`Convert` is the external converter, which replaces the state file by one made
from what it read.

## Runs

| Run | Instance | Shows |
|---|---|---|
| `jobs` | two processes of the converter's id, two requests with one dedupe key, one of which may cancel, two jobs, a desired state that changes at will, one death, one failing statement | claim, dedupe key, single execution, stranding only by a fault, the lifecycle, and the end of every job |
| `inplace_crashes` | two files, three jobs (delete, stamp, overwriting stamp), three faults | safety of in-place edits and the refinement of AtomicEdit |
| `inplace_rmtree` | the same with one fault | *finding*: a removal of the backup that raises half-way costs both copies |
| `recovery` | two tasks, five scenes, two deaths, one conversion | recovery's safety and convergence |
| `bronze_silver` | two serials in two places, batches of all waiting rows or of one, three uploads, two rollbacks | no recording lost, ready rows true, silver tracked, undone moves taken over |
| `partition` | one kept recording, two and one moved, four stops, three changes of direction | journal, moves and rollback safe; repeated commands end |
| `view_replacement` | two recordings, two kills, two exceptions, five staging roots, a umask that strips permissions | phase and the task itself safe in every error path; a repeated command ends |
| `state_reconcile` | two plans over three tasks, the second splitting a destination of the first; three recordings, one conversion, one kill or error | the converter's entries and the backups safe whatever is applied, rolled back and repeated; a repeated command ends |
| `detached_view` | three recordings, three kills, two errors, changing sources, a umask that strips permissions | phase true, failures only for a cause, the rest commits |
| `episode_annotations` | two episodes; a PATCH without tags between two readers, and beside an edit; a bulk grade and an edit; an instruction beside an edit, and two; two faults, at most one of them a kill | answers, episode file, statistics and data set |
| `instruction_unrecovered` | one instruction, one kill | *finding*: a data set moved aside by a killed commit is never put back |
| `converter_control` | two recordings, two retries, one failing scan, one kill | state file readable, outcomes kept, progress settles |

Why the bounds suffice. Every error the queue can make needs at most two
processes and two jobs: claims, dedupe and execution are about pairs. The two processes
share an id, since processes of different ids have no job type in common and meet only
in the table. One request that cancels is enough beside one that only enqueues: a cancel
does not depend on another cancel but through the status of the job. A request without
a key is one that never meets a duplicate. One death lets a job be requeued and
executed again, and so does the start of the sibling; a second death repeats that with
a larger `attempts`. In-place edits need two files to be half done, three jobs so
that one follows a leftover of the other two, and three faults to die in the
first attempt, in its retry, and once more. Two recoveries share one state file
pairwise, and two deaths interrupt one inside the other. In the partition, a
destination with two recordings can be half moved while another has its own; four
stops allow two in each direction. Three uploads put one serial in both places.
In a view replacement two recordings let a root be partly built, two kills let the
recovery of one be interrupted by the other, and two exceptions let the second
hit the handling of the first; four faults quarantine at most four roots, so the
fifth is always enough. A detached tree needs three recordings so that one is
built, one is in hand and one is not begun. Reconciling needs a plan that splits
what another gave away, one conversion between the commands and one interruption of
either. Stale answers need a reader, a PATCH that ends under it and a reader
that comes after both; two faults reach the handler of a commit and its own failure, which a
second commit then meets. Two retries are enough to share a temporary file.
The theorems below remove the bounds from the safety properties.

`CHECK_DEADLOCK FALSE` stands in the configurations of systems that may stop: an
operator has no command left to give, all jobs are reported, or every bounded
event has happened.

### Fairness

- `JobQueue!LiveSpec`: weak fairness of a worker's start and of its own steps.
  `restart: unless-stopped` starts a dead container again, and `run_forever`
  polls without end; handlers are assumed to return. A held worker has no claim to
  make, so fairness asks nothing of it. Nothing is assumed of clients, of crashes, or
  of an operator who holds or releases a worker.
- `BronzeSilver!LiveSpec`: weak fairness of a batch that is running and of submitting
  another: batches are jobs that clients of the API go on posting, with a limit of at
  least one. Nothing is assumed of uploads and rollbacks.
- `ConversionRecovery!LiveSpec`: weak fairness of a running recovery and strong
  fairness of resuming a pending one, which is what the hold instructions ask of
  the operator.
- `RawPartition`, `ViewReplacement`, `StateReconcile` and `DetachedView`, `LiveSpec`:
  weak fairness of steps: the instructions tell the operator to give an interrupted
  command again (`docs/operations/conversion-recovery.md:55`). Kills and exceptions are
  not fair, and `Converges` of `StateReconcile` asks for it only once the operator stays
  with one command.
- `ConverterControl!LiveSpec`: open tabs poll, a scan ends, the time to live of a
  snapshot passes.
- `EpisodeAnnotations!LiveSpec` is used only for the finding: the loop and its
  threads run what can run, and the client sends its commit again. With all of this
  the data set still stays away.

### What the liveness properties except, and other known behaviour

Each exception is a named definition, so a reader can see what it covers.

- `JobsSettle` excepts `OnHold`, a job one of whose workers is held by its desired state
  or has the conversion mutations disabled, and `forgotten`: a terminal statement that
  raises leaves the job running until its worker is restarted. It ends at
  `cancel_requested`, since such a job can stay so: `requeue_abandoned` gives back running
  jobs only (`lifecycle.py:52`), and a job whose worker died after its cancel was requested
  keeps its dedupe key (`docker/db/init.sql:142`), although `CONTEXT.md:11` gives every job
  an end. `StrandedByFault` shows no more than that a stranded job is the trace of such a
  death or failure.
- Two replicas of one worker kind share its id, so one that starts requeues the job
  its sibling is executing and both execute it. `CONTEXT.md:90-91` calls replicas
  safe; `SingleExecution` excepts these jobs (`usurped`), and the theorem
  `SingletonsUsurpNothing` shows that one process per id, which is what
  `docker/compose.yml` deploys, has none.
- A job requeued between the two UPDATEs of `request_cancel` matches neither:
  the caller gets the status `queued` and the request has no effect.
- A poll of `check_cancel` that fails ends the watcher, and its exception surfaces
  when the conversion is over: a finished conversion is reported failed.
- While a recovery that died between the two renames of `convert_state.json` is pending,
  the file is missing. `recovery_blockers` looks at one task only
  (`recovery_service.py:1013`), so another task is converted from an empty state and the
  other entries are lost, although `docs/operations/conversion-recovery-hold.md:59-60`
  lets the services be resumed when unfinished tasks are blocked. `EntriesKept` speaks
  of the time before such a conversion.
- `RecoveryConverges` excepts `Overtaken`: once another task's recovery has
  rewritten the shared state file, a recovery that planned its replacement from
  the older one refuses for good.
- `Converges` excepts `Blocked`: a destination marker that was created but not
  written blocks apply and rollback; and a rollback with recordings to bring back
  cannot get over a mode that was set but not journaled: `_finalize_destinations`
  sets it at line 2101, the journal learns it with `committed`, and
  `_matches_directory` then refuses every move back, while apply refuses the
  direction. `docs/operations/conversion-recovery.md:55-57` promises a rollback.
- A worker that dies between moving a data set aside and finishing the edit leaves
  a state the requeued job cannot start from: it fails, with the path missing or
  half rebuilt and the backup whole (`runner_helpers.py:15`). `Recoverable` says
  exactly this much.
- `shutil.rmtree(backup)` is inside the `try` (`runner_helpers.py:18`): when it raises
  half-way, the handler removes the finished result and puts half a backup in its
  place, against `runner_helpers.py:13` and `CONTEXT.md:98-99`. That is the finding of
  `inplace_rmtree` (`RestoredOnFailure`). `Recoverable` excepts exactly a removal that
  raised with part of the backup gone (`mishap = "part"`), `StampedOnce` and the refinement
  any removal of a backup that raised: if the backup was still whole, the data set is put
  back as it was, so that a finished stamp is taken off again. `CompletedEditsStay` excepts
  nothing.
- A delete job whose worker dies after the edit and before the report is requeued and
  removes episodes a second time, by indices that have moved. `CompletedEditsStay` is a
  lower bound, and `AtomicEdit` lets such a job edit again.
- `Converges` of `ViewReplacement` excepts `Misfit`, a kill between `mkdir` and
  `fchmod` of a recording under a umask that strips bits: the recording then looks
  foreign and the command refuses. It also excepts a manifest that is not `Usable`,
  and `Resumable` says when that can happen: only if an error was raised besides
  another fault. Three such histories exist: after a kill while building, an
  error between publishing the replacement root and binding it writes
  `rollback_failed` without an identity; an error in the handler's quarantine,
  before its rename, writes `rollback_failed` with a quarantine that does not
  exist, and, after its rename, leads the next command to write `rolled_back` with
  an identity. The loader refuses each of them for good, although the view is
  untouched under the task's path.
- A rolled-back bronze-to-silver batch leaves directories in silver (`undone`). While a
  committed row still waits for one, a later batch takes it over
  (`UndoneMovesTakenOver`, which excepts a recording uploaded again and a row that was
  moved to another directory of its serial); without such a row no later batch looks for
  it, which `TrackedUnlessUndone` excepts. A failed row is never tried again; the branch
  that times out rows in processing has nothing to find, since that state is never
  committed.
- `Converges` of `StateReconcile` excepts a torn backup, which a kill leaves and both
  commands refuse; authority that is gone; and tasks that were converted, or split
  again, since the backup was taken.
- `FailedForCause` and `Converges` of `DetachedView` except `Stray`: a kill between
  creating a directory and binding it, after which the next command refuses to adopt
  it and writes `recovery_failed`. `docs/operations/conversion-recovery.md:124-126`
  counts an interrupted command as resumable. A committed manifest, too, becomes
  `recovery_failed` when the command is given again after the sources changed.
- `AnswersFresh` excepts a skipped mirror (`PermissionError`): the fingerprint then
  stays, and with it a cache that a reader installed after the edit had cleared it; a
  later PATCH without tags writes its tags back. It also excepts `late`: an edit written
  into a promoted data set that the handler then takes back leaves the old fingerprint,
  too. Edits that overlap are promised nothing: a PATCH without tags and a bulk grade
  write back tags they read before.
- `FileTruthful` excepts a cut write, after which the episode file is torn and the data
  set cannot be loaded; a skipped mirror; an edit under way when a commit replaces the
  data set: `invalidate` drops the locks (`dataset_registry.py:237`), and a writer that
  read the file before brings the old instruction back; and `crossed` edits: of two that
  save one episode, the second before the first has its mirror, each mirrors its own
  values, and the lock does not say in which order. The row in the database is then newer
  than the file, which the code calls a compatibility mirror (`episode_service.py:656`).
- `StatsCurrent` excepts a save that meets a refresh (`overtaken`): of two overlapping
  refreshes the older counts may be written last. It also excepts a request that ends
  between its saves and its refresh (`unrefreshed`): killed, or by a serial number that is
  missing half-way through a bulk grade (`episode_service.py:416-420`, called at 686), or by
  a refresh that meets an episode file it cannot read (466-476). The row is saved and the
  statistics stay behind until the next refresh.
- `DataSetKept` excepts `late`: a call that raises when the new data set is in place
  makes the handler remove it for a backup that may be half gone
  (`episode_instruction_service.py:267-271`). And a kill between the removal of the
  backup, or its renaming, and `manifest.unlink` makes `recover` refuse for good
  (`instruction_recovery_required`).
- `StateReadable` and `OutcomesKept` except two retries at once and a retry that
  crosses an outcome: the file is then that of the last rename, and one read while it
  is being filled counts as empty. A retry that finds its task queued or running is
  answered 409 although its recordings are retryable from then on.

## Proofs

Every theorem holds for all values of the constants that satisfy the named assumptions
of its module. Each safety proof has the same shape: an inductive invariant, `Init`
implies it, every action preserves it (one step per action), it implies the property,
and a last temporal step. The type invariants are left to the theorems `TypeCorrect`
(for the reconcile command `ReconcileTypeCorrect`, for the converter control
`ControlTypeCorrect`), which need no run.

| Module | Theorems | Inductive invariant and why it is needed |
|---|---|---|
| `JobQueueProofs` | `TypeCorrect`, `ClaimsAreExclusive`, `DedupeKeysAreUnique`, `ExecutionIsSingle`, `SingletonsUsurpNothing`, `OutcomesAreTruthful`, `TerminalJobsAreFrozen`, `RequestedCancelsStick`, `ClaimsAreAccounted`, `StrandingNeedsFault`, `QueueImplementsLifecycle` | `ClaimInv`: rows are filled, queued rows have no owner, and a locked row is queued and locked once. Exclusiveness alone is not inductive, because a requeue must be known not to touch a locked row. The refinement also needs `CancelSeen`: a handler that stopped for a cancel really has one. `SingleExecution` and `StrandedByFault` are inductive by themselves, given the claims. Only `SingletonsUsurpNothing` assumes one process per worker id, as deployed; it is false without. |
| `InPlaceRollbackProofs` | `TypeCorrect`, `NothingIsLost`, `StampsAreSingle`, `EditsStay`, `EditsAreAtomic` | `CopyInv`: which of the two directories is whole at each place of the helper, unless a removal of the backup raised half-way. `InHand` ties the job in hand to its verdict; `StampInv` says what the copy that counts carries, and `CutInv` counts the completed deletions (`FiniteSetTheorems`). `KeptInv` says the same of every single file, so that it survives a torn backup, where no copy is whole. The refinement of `AtomicEdit` also needs `SameInv`: while the target is unfinished the backup is the content, and a target that happens to be whole does not differ from it. `FullInv` puts them together, each under the mishaps it does not survive. No theorem assumes anything of the removals. |
| `ConversionRecoveryProofs` | `TypeCorrect`, `UpdatesAreNotLost`, `EvidenceIsKept`, `ReceiptsAreTrue`; of the converter control `ControlTypeCorrect`, `StateIsReadable`, `OutcomesAreKept` | `EntryInv`: a planned replacement is derived from the planned original, and, while no conversion has run, the three steps of the swap keep the latest entries in the file, the backup or the replacement. `RecInv`: for each task, where its trees and markers are at each phase of the intent, and what a published receipt rests on; `Reconciled` carries the receipt past the recoveries of other tasks. The converter control, the other writer of the same file, needs `RetryInv`: where no two retries overlapped, the one that rewrites has the temporary file to itself and the state file is whole; where no outcome crossed it either, its copy is as good as the file. |
| `BronzeSilverProofs` | `TypeCorrect`, `RecordingsAreKept`, `ReadyRowsAreTrue`, `SilverIsTracked` | `IInv`: where the recording in hand is at each place of the batch (`MoveInv`), that nothing lies in silver that never arrived (`NothingStray`), and the truth of ready rows both as committed and as the running batch sees them. `TrackInv`: while a batch runs, what it moved and has not committed is kept apart, since a rollback turns exactly that into `undone`. |
| `RawPartitionProofs` | `TypeCorrect`, `PhasesAreTruthful`, `MovesAreJournaled`, `DestinationsAreOwned`, `RollbacksAreOneWay`; of the state reconcile `ReconcileTypeCorrect`, `ConverterEntriesKept`, `BackupsPrecede` | `CommandInv` (the command's copy of the journal agrees with the last record at each place), `JournalInv` (bound destinations are published; from the moves on all are bound; no unbound leftovers). The three safety properties are proved together, because each relies on the others. The reconcile command, which trusts a committed journal, needs `LiveInv`: for each task a set of stamps that are still current, which tells what backups may yet be put back; `PastInv` and `OwnInv` say what a backup holds of the converter and of its own plan. Without them an old backup of one plan could undo what a later plan or the converter wrote. |
| `ViewReplacementProofs` | `TypeCorrect`, `PhasesAreTruthful`, `TaskIsNeverLost`, `RootsAreTracked`, `InstalledTreesStay`, `ViewsAreResumable` | `SyncInv`: outside the error handling, and whenever a quarantine is under way, the copy in memory is the manifest on disk; `AsideInv`, `StepInv` and `DiskInv` say what each step relies on and hold the two copies to the same claims. The error handling may write a manifest that is ahead of the disk's, so the claims have to be shown of the copy before it is written. For `Resumable` the history matters: `CleanInv` says that before the first fault no root is quarantined, so that the one error finds a bound root; `PathInv` and `FewInv` say that both copies keep a form the next command accepts. |
| `DetachedViewProofs` | `TypeCorrect`, `PhasesTruthful`, `FailuresCaused` | `Good` of both copies of the manifest: a kill keeps the one on disk and a write the one in memory, so each must be true of the tree; `StepInv` says what is known at each step. |
| `EpisodeAnnotationsProofs` | `TypeCorrect`, `DataSetIsKept`, `StatsAreCurrent`, `FileIsTruthful`, `AnswersAreFresh` | `RequestsInv` says what a request knows at each await, and that it has saved, or has left to save, each of its episodes. `DiskInv` adds, for each step of a commit, which of the three trees exist (`StepInv`) and that the one that counts is whole (`WholeInv`). `StatsInv`: what a refresh has read is current, or a save came between, and whoever saved has its refresh before it or is noted. For the file, `LockInv` (edits under way share the registry's locks, one holds the lock), `TornInv` (only the file being written is torn, where it is), `OrderInv` (until it is mirrored, a request has the newest row of each episode it saved, unless edits crossed) and `SaidInv` (of every edit that has been mirrored, its row or a newer one is in each tree that may become the data set, and in each table about to be written). For the answers, see below. |

`AnswersAreFresh` is the longest argument. A cache is filled by a reader that took its
rows before an edit and installs them after the edit has cleared it, so a cache may well
be stale; what must hold is that nobody uses it. `CacheInv` says that the rows of a
cache, and of a reader on its way to install one, either reach every obligation (the
saves of answered requests, and of edits that are in the file) or are `Below`: the data
set, wherever it is and in the copy a commit is about to put in its place, is newer
than the context's fingerprint. It rests on `WriteInv` (a file being written is torn
where it is, and so is a copy taken of it), `StampInv` (no fingerprint is ahead of the
clock), `FloorInv` (what a request is obliged to show is its own save or that of an
answered one) and `KnowsInv` (whose rows it has). A write then puts the data set ahead
of all caches at once, and a request that finds its context current cannot meet a stale
one.

That proof found a mistake in the property as it was first stated. An edit that goes into
the promoted data set, followed by a call that raises in the same commit, is taken back
with the old tree and its old fingerprint, so that a stale cache stays in use; three
requests are too few to see it, and `AnswersFresh` now excepts `late`.

To stay within the reach of a theorem that names it, a property of two components is
stated in a module that both extend: `StateFile` holds `StateReadable` and `OutcomesKept`
with the constants and variables they speak of, `PartitionState` holds `ConverterKept`
and `BackupPrecedes`.

Only model-checked: liveness (`JobsSettle`, `UndoneMovesTakenOver`, `RecoveryConverges`,
the `Converges` of four commands, `ProgressSettles`, and the violated
`CrashRecoverable`), which the prover does not do under fairness. Every other property
of a passing run is a theorem; `RestoredOnFailure` is violated. Proved and in no run:
the type invariants, `OutcomeTruthful`, `TerminalFrozen`, `CancelSticks`,
`ClaimsAccounted`, `VisibleIsOwned`, `RootsTracked`.

## Not modelled

`PROJECT.json` gives the status of every part. Of the modelled ones these pieces are
left out: the scans that compute plans and fingerprints, the validation of payloads,
split and merge jobs (they write to a fresh path), `apply_split` (a loop of renames
without a journal), which transitions `patch_desired_state` allows (any change of the
desired state is a step), raw data sets in the annotation services, and the validation
service, whose checks only read.

Worth doing next: the annotation requests with two episode files; a composition of the
retry of failed recordings with a pending recovery of the same task.

Out of reach or without state of their own: the converter and LeRobot (submodules
whose sources are not in the repository), image analysis of camera flicker,
queries, the frontend, one-off scripts and repository automation.
