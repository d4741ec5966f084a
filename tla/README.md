# CinePulse: TLA+ models, checks and proofs

CinePulse (`src/cinepulse`) is a desktop program that renders and enhances video
for hours at a time on one machine. What makes it hard is not the pixels but
everything around them: a Tk window and a render thread that share flags, files
that several processes may touch, work that must survive a power cut, and
commands, leases, journals and backups that exist only for that. This directory
models that part of the program in TLA+, checks it with TLC and proves the most
important facts with TLAPS.

Paths below are relative to the repository (`src/cinepulse/job_lease.py` is the
file `PROJECT.json` calls `src/src/cinepulse/job_lease.py`). `PROJECT.json` maps
every definition to the lines it stands for, and lists components, runs, mutants,
hazards, findings and theorems.

Contents: 1 inventory, 2 modules and how they correspond to the code, 3 runs,
4 fairness, 5 proofs, 6 properties that do not hold, 7 what is left out, 8 plan.

## 1. Inventory

### Components that carry the program's own logic

| Component (files) | State it keeps | Operations | Interacts with | What is hard, and what makes it correct |
|---|---|---|---|---|
| **Job lease** (`job_lease.py`) | `lease.json` (pid, start token, nonce, heartbeat, subprocess pids), its guard file, the nonce in memory | `acquire`, `heartbeat`, `release`, `is_stale`, guard entry with stealing | render worker, Studio, history, recovery service: all acquire it before they touch a job | several processes, crashes, recycled pids, slow processes, files another process holds open. One owner at a time; taken only from the dead; always takeable from the dead |
| **Manifest store** (`job_store.py`, `render_job.py`, `path_transaction.py`) | `manifest.json`, `.bak`; a machine-wide mutex | `create`, `load` (repairs), `peek` (does not), `update`, `save` with a revision check | worker, history, recovery service | crash between two file operations, damage at rest, full disk, stale callers. No lost update; backup at most one revision behind; never nothing readable |
| **Stage commit protocol** (`stage_adapter.py`, `stage_checkpoint.py`, `media_stage_adapter.py`) | per unit: state in the checkpoint, partial and final file | `execute_unit`, `reconcile`, `record` | lease (one owner), worker, RIFE recovery | crash between promotion and its record, bad or missing output, deleted files. Nothing unvalidated committed, nothing committed redone or lost, everything recoverable |
| **Render worker and commands** (`render_worker.py`, `worker_protocol.py`) | manifest state, lease, inbox/processing/done files, `pause`/`cancel` flags in memory | `run`, `checkpoint`, `poll_commands`, `recover_processing`, handlers of pause, cancel, failure | store, lease, a launcher, any sender of commands | commands racing boundaries, crash between reply and filing, command files that cannot be read, exceptions while a pause is recorded. Commands handled once, none lost but the unreadable; a job left alone is at rest |
| **Studio** (`studio.py`, `app.py`) | queue (saved to a file), item states, `_busy`, `_queue_running`, `_active_queue_item`, `_cancelled`, timers, events from the worker | queue editing, start, cancel, polling, recovery dialogs, launch, the render thread | safe output, lease, history, every media module | two threads and a chain of timers sharing flags; exits at any step. Item states tell the truth; the window comes to rest; nothing rendered is lost |
| **Atomic output and render journal** (`safe_output.py`) | partial file, final file, `render.json` | `prepare`, `commit`, `discard`; `claim`, `write`, `read`, `clear` | Studio's worker and its recovery dialogs | crash between promotion and clearing; a second run over an interrupted one. Every partial is the one the journal names; only verified files replace an output |
| **RIFE chunks, recovery, black repair** (`_interpolate_rife` in `studio.py`, `rife_engine.py`, `rife_recovery.py`, `rife_black_repair.py`) | segment files, leftover work directories, `recovery-state.json`, the master, the recovery's partial, `job.json` | validate, resume from segments, audit and repair black frames, join, encode with a fallback, publish; a stop file | Studio leaves the segments; an operator runs the programs | segments whose length is not what the plan said, kills at any step, an FFmpeg that outlives its parent. Every frame covered exactly once, no finished segment lost, only whole files delivered |
| **RIFE safe runner** (`rife_safe_runner.py`) | the concurrency in use and the one remembered | run a chunk, retry under less pressure, retime, publish the frames | process control, `_interpolate_rife` | retries must end; what an exhausted memory taught must not be forgotten at the next chunk |
| **Render plan** (`render_plan.py`, colour contract, `estimate_storage`) | none | which stages run, in which cadence and colour, how much scratch | the worker reads the plan and works parts of it out again | plan and worker must agree; boundaries where a stage is planned and then not done |
| **Render pipeline** (`_worker` in `studio.py`) | the file in hand, its start, rate and colour; scratch files; cached masters | one stage after another, each reading a file, writing one and releasing the one it consumed | plan, AI cache, neural loops, safe output | fallbacks, skipped and cached stages change what the next one is given. No stage reads a released file; nothing is cut, converted or interpolated twice |
| **Neural chunk loops** (`_enhance_clip_ai`, `_interpolate_rife`, `pipeline_runtime.py`) | frames of three chunks, background commands, packed segments | extract ahead, process, pack behind, retry | pipeline, RIFE runner, evidence | commands working beside the loop; the end of a file that is shorter than announced. Every frame once, in order |
| **Staging** (`staging.py`, `storage_resilience.py`) | partial copy, checkpoint | resumable copy, verify, promote | none yet: only its tests call it | a kill between a block and its record; the source edited underneath |
| **Render history, shadow manifest, recovery at start** (`render_history.py`, `recovery_*.py`) | `job.json`, plan, contracts, the manifest in its shadow, the rollout ring | `start`, transitions, `finish`; migrate, discover, classify | manifest store, Studio | a history that fails must not fail the render, nor claim what did not happen |
| **Application state** (`state_store.py`) | queue and presets: a JSON file and a backup | load with recovery, save, save at closing | Studio | the backup is copied from a primary that may be damaged or of another version |
| **Media cache** (`storage_engine.py`, AI master and stems in `studio.py`) | enhanced masters, stems, mixes | publish by rename, displace, prune to a quota | renders of several processes | evicting what somebody reads; two renders publishing one directory |
| **Measured evidence** (`*_tuning.py`, `gpu_media.py`, `gpu_encode.py`, `tensorrt_preview.py`) | policies by exact key | benchmark, record, look up, withdraw | every accelerated stage | a failed policy that a concurrent writer brings back |
| **Process control** (`process_control.py`) | none; the system's process table | terminate a command and what it started | every command of the program | processes that start others while they are being killed |
| **Hardware telemetry** (`hardware_telemetry.py`) | samples and marks of a render | start, mark, stop, write the document | Studio's worker | a sampler that hangs in `nvidia-smi`; samples at the boundary of two stages |
| **Updates** (`update_manager.py`, `Apply-CinePulseUpdate.ps1`) | package, descriptor, backup | check, download, hand off, apply, roll back | Studio, launcher | a kill between removing and copying; a start beside the applier |
| **Optional components** (`experimental_components.py`, `component_manager.py`, `Start-CinePulse.ps1`) | partial download, tree, previous tree, marker | download with resumption, verify, swap, roll back | installer, Studio | a kill between the two renames of the swap; a catalogue that has moved on |
| **Instance guard** (`runtime_distribution.py`) | a lock file with pid and start token | acquire, take over, release | program start | stealing a lock that is no longer the one that was judged |
| **Composer: export and window** (`composer_*.py`, `ui/composer_view.py`) | preview and export threads, dialogs, decoders, CUDA evidence | edit, preview, export on a route, fall back, close | evidence, safe output | stale previews, late failures of the fast route, closing under an export |
| **Restoration export** (`restoration_export.py`, `restoration_temporal_export.py`, `ui/restoration_export_view.py`) | rolling window, two commands, a watcher, a temporary file | export, cancel, validate, publish | FFmpeg | blocking pipes that only a kill unblocks; the ends of the window |
| **Classic mode** (`loop_engine.py`, `aurora.py`) | `_busy`, `_cancelled`, the handle of the running command, temporary files | convert, cancel, close | FFmpeg, Real-ESRGAN | a thread's last block runs beside the next conversion |

### Components that are I/O, numerics or layout

Scheduling and adaptive performance (constants since 1.2.4: fixed envelopes, observers
whose samples nothing acts on), hardware inventory and diagnostics, media quality,
colour and effects (numerical processing, run by the stages as opaque steps), layout and
preview of the composer, the other views under `ui/`, the installer and release scripts.

### How the parts interact

* **Window and render thread.** `_launch_worker` takes the render lease, claims the
  journal and starts a thread. The thread reports one terminal event (`done`,
  `cancelled`, `error`) through a queue that `_poll_events` drains on a timer;
  `_poll_events` in turn starts the timer (100 or 250 ms) of the next item.
  `_cancelled`, `_busy` and `_active_queue_item` are read and written on both sides.
* **Lease, then everything else.** Whoever starts, resumes, recovers or records a job
  takes `lease.json` first. The manifest store does not rely on it: it has its own
  machine-wide transaction and compares revisions.
* **Files as messages.** Commands travel through directories (`inbox`, `processing`,
  `done`), results through renames (`.partial` to final), progress through the stage
  checkpoint. A later process learns what an earlier one did only from these files.

The behaviours that are hard to test, each at its line, are the `hazards` of
`PROJECT.json`.

## 2. Modules and their correspondence to the code

| Module | Models | Abstract specification |
|---|---|---|
| `JobLease` | `job_lease.py` | `Ownership` |
| `RenderJob` | states and transitions of `render_job.py` | |
| `JobStore` (extends `RenderJob`) | `job_store.py`, `path_transaction.py` | `ManifestHistory` |
| `StageAdapter` | `stage_adapter.py`, `stage_checkpoint.py`, `media_stage_adapter.py` | |
| `RenderWorker` (extends `RenderJob`) | `render_worker.py`, `worker_protocol.py` | |
| `SafeOutput` | `safe_output.py`, as operators on the disk | |
| `RifeSchedule` | frame and chunk arithmetic of `rife_engine.py`, `rife_recovery.py` and `_interpolate_rife` | |
| `RifeRecovery` (extends `RifeSchedule`) | `_interpolate_rife`, `rife_recovery.py`, `rife_black_repair.py` | |
| `Studio` (extends `SafeOutput`) | queue, timers, render thread and recovery of `studio.py` | |
| `RenderPlan` | the plan, the colour contract and the storage estimate, as operators | |
| `RenderPipeline` (extends `RenderPlan`) | `_worker`: the stages, the files between them, the AI cache | |
| `NeuralChunks` | the chunk loops of both neural stages, `pipeline_runtime.py` | |
| `RifeSafeRunner` | `rife_safe_runner.py` and what `studio.py` remembers of it | |
| `ComposerExport`, `ComposerWindow` | export routes and decoders; window, preview and export threads | |
| `RestorationExport` | both routes of the restoration export and its panel | |
| `LoopEngine` | the classic mode | |
| `ProcessTree` | `process_control.py` | |
| `Telemetry` | a session of `hardware_telemetry.py` | |
| `MediaCache` | quota, enhanced master, stems, mix | |
| `EvidenceStore` | the six stores of measurements and their transaction | |
| `Staging` | `ResumableStager.copy` | |
| `Updates`, `ComponentInstall`, `InstanceGuard` | portable update, optional components, file lock | |
| `JobHistory` (extends `RenderJob`) | history, shadow manifest, migration, discovery at start | |
| `ApplicationState` | queue and presets between sessions | |
| `Components` | instances of the sixteen modules from `NeuralChunks` on, one specification and its properties | |
| `MC...` | constants of the TLC instances | |
| `...Proofs` | theorems | |

Operators marked "Mutant" in a comment are plausible bugs of the definition that
follows. They are not part of any specification; `PROJECT.json` says which property
catches which.

### JobLease

A *worker* is one incarnation of a process, a pid together with its start time; two
workers may have the same pid, one after the other. Every file operation of
`acquire`, `heartbeat`, `release` and `_mutation_guard` that another process could
observe is an action: exclusive create of the guard, its write, the judgement of a
guard found there, the rename of a stale one, the read of the lease, its eviction,
creation, write, renewal, retirement, the re-read of the guard's nonce and its
unlink. `status`, `guard`, `lease` are what the machine knows; `holds` is the nonce
in the memory of a `JobLease` object; `op` and `pc` say where a call stands.

Nonces are represented by the worker that wrote them, ages by what the code derives
from them (`fresh`: younger than 30 s for a guard, 45 s for a lease), recorded
subprocesses by whether one of them still runs (`kids`). Reading the lease and judging
it is one step, since within the guard the judgement depends on nothing else that
changes. After `LeaseOwnershipLost` the caller no longer counts as an owner (`holds`
becomes FALSE); after a mere `LeaseError` it still does. `Faults` turns on running
processes held up for 30 s inside the guard (`slow`), failing writes (`disk`: of the
guard, of a new lease, of a renewal), and files that another program holds open
(`sharing`): the guard cannot be unlinked, the rename of a stale one is refused and tried
again (`StealGuardFails`), an eviction, renewal or release cannot replace the lease
(`ChangeLeaseFails`).

`Ownership` is the promise: at most one owner, and the job changes hands only through
a moment without one. `owners` is refined by the set of workers that hold.

### RenderJob, JobStore

A manifest is its revision, its state and the process that wrote that revision, which
stands for every other field. The store has a step per file operation of `create`,
`load`, `peek`, `update` and `save`: read, set aside the damaged primary, restore from
the backup, compare revisions, write the backup, promote, re-read. `mutex` is
`path_mutation_transaction`, which the kernel releases when its holder dies. `base` is
the manifest a caller derives from, `draft` the one it wants to store. The atomic write
(temporary file, fsync, replace) is one step and may fail before its replace.
`DamagePrimary` and `DamageBackup` damage a file at rest, never the second before the
first has been repaired: two files damaged together are beyond what one backup promises.

`ManifestHistory` is the promise: one current manifest that moves on by one legal
revision, only when the revision it leaves is covered; a loss falls back to what is
covered. `current` is refined by what a reader gets, `covered` by the readable backup.

### StageAdapter

A stage is a set of units. `state` is the checkpoint, `final` and `partial` the files,
`pc` and `unit` where an owner is in `execute_unit` or `reconcile`. `Recordable` is the
transition table of `StageCheckpointStore.record`; every `record` is one step that
succeeds, is refused by the table, or fails. Producers yield a good file, a bad one or
none. Faults of every sort share the budget `MaxFaults`. `owners` is the set of those
who hold the job or believe to: with `Exclusive` the lease keeps the second one out.

### RenderWorker

One job, successive workers, commands as files in `inbox`, `processing` or `done`;
`rejected` is `done` under the name `*.invalid.json`.
`Launch` acquires the lease, `Recover` is `recover_processing`, `Heartbeat` to
`Boundary` is `checkpoint`; `Claim`, `ReadCommand` or `Reject`, `Handle`, `Reply` and
`Finish` are `poll_commands`. A command in `Unreadable` may fail to be read at any
attempt: its file is damaged, its text is no command of this job, or another program has
it open at that moment. `next` then moves it to `rejected` and its exception goes through
to the `except` clause of `run`; `recover_processing` moves it there and goes on. Either
way nobody answers it and nobody looks at it again (`tests/test_worker_protocol.py:100`
and `:112` assert it). `MarkPaused`, `MarkCancelled` and `MarkFailed` are the `except`
clauses of `run`, and `Release` its `finally`. The manifest is its state: the store is
modelled on its own in `JobStore`, and every write of the worker goes through
`update`. The interface of the current version does not start this worker yet
(`docs/RECOVERY_PHASE2_WORKER_OWNERSHIP.md:42`); the module models it as written.

### SafeOutput, Studio

The disk is the journal, the partial of every output and life, and the final files.
`AtomicOutput.for_path` puts the process id in the partial's name, so a partial is
known by its output and the *life* (process) that wrote it. A final file is
`previous` when a run starts, `delivered` when a complete file has been promoted, and
`broken` when anything else has.

A Tk callback is one action, the dialogs it opens included: `AddToQueue`, `MoveItem`,
`RetryItem`, `RemoveItems`, `StartQueue`, `StartByHand`, `Cancel`,
`RecoverInterrupted` (350 ms after start), `RunNext` (`_run_next_queue_item` on its
timer), `PollDone`, `PollCancelled`, `PollError`. What a user answers is a choice.
The render thread takes one step per effect: `SetUp`, `Plan` (prepare and journal),
`Encode`, `FinishEncode`, `FallBack` (GPU to CPU, once), `Verify`, `Commit`,
`ClearJournal`, `TellDone`, the handlers `Discard`, `TellCancelled`, `TellError`, and
`CleanUp` (temporary files, lease). All media stages of the worker are one encode that
completes, fails, falls back or sees a cancellation; `RenderPipeline` opens them. `Restart` ends the process at any
point and starts the next life: `_load_queue` puts what was being rendered back to
waiting, and the rest of the memory is gone.

Since the queue is saved in the callback that changes it, the file is not a variable;
a save that fails is not modelled. `Impatient` says whether a user starts a run in the
moment (100 to 350 ms) in which a queue timer or the recovery timer is still pending.

### RifeSchedule, RifeRecovery

`RifeSchedule` is pure arithmetic: how the source frames are cut into chunks
(`Chunks`, `End`; `MCRifeRecovery` checks them against the loop of the code), what a
chunk gets in a first run and in a resumed one (`Share`), what the plan refuses
(`Feasible`), and which counts the validation takes (`Acceptable`). Ratios are exact
rationals, where the code uses floats.

In `RifeRecovery` a segment is its number of frames, whether one of them is black,
and whether FFmpeg has closed the file. `work` is the work directories left behind,
`checkpoint` the two numbers of `recovery-state.json`, `base` the same two at the
moment the current plan was made (chunk `k` then gets `Share(base.segments,
base.target, k)`), `partial` and `orphan` the file of the final encode and the FFmpeg
that may still write it. Studio's part ends with a kill: a render that ends by itself
deletes its chunks, and nothing is left to recover. The initial states are a render
about to start and, with `Legacy`, the segments of a version that rounded every chunk by
itself.

The two identical passes of the validation are one step. A launch that is refused
(counts, a plan that is not feasible, a stop file before a repair) changes nothing and
is no step. Programs run one at a time, as the runbook asks; nothing in the code
enforces it. A partial that an orphan holds open cannot be renamed, as on Windows, the
program's platform. Only the FFmpeg of the final encode and that of Studio's merge
outlive their parent.

### RenderPlan, RenderPipeline

`RenderPlan` has the operators the plan is made of: which stages a project asks for,
in which cadence and colour each hands its file on, and the peak of the scratch space
estimated for them. A project is a record of the choices that change the course.

`RenderPipeline` is one render after another through those stages. `next` is the stage,
`phase` where in it. What `_worker` *believes* of the file in its hand is `video`,
`consumed`, `seek`, `rate` and `converted`; what each file *really* holds is `clip`:
how many times the start of the loop was cut off it (`at`), its cadence, how often its
colour was converted, the passes of RIFE it has been through (`neural`), and whether it
lasts as long as the project (`long`). `files` are the
scratch files that exist, `cache` the enhanced masters kept from earlier renders. The
actions follow the code: `Color`; `Enhance`, `Hit`, `JoinEnhanced`, `Promote` and
`KeepEnhanced` (a promotion to the cache that fails); `Interpolate`, `Take`,
`NothingToAdd`, `FallBackToFfmpeg`; `Master`, `Transition` or `KeepMaster`;
`VfxIntoFile` or `VfxIntoDelivery`; `Release` of the consumed file; `Encode`, `Deliver`
or `Refuse`; `Fail`, `Cancel`; `Again` for the next render, with the loop switched in
between if `Edits`. `astray` remembers the faults that changed the course, so that a
property can say which deviation it excuses.

### NeuralChunks, RifeSafeRunner

`NeuralChunks` is the loop of `_enhance_clip_ai` and `_interpolate_rife` frame by frame:
`prefetch` and `pack` are the background commands of `pipeline_runtime.py`, each working
on the directory of a chunk (`incoming`) while the loop does something else, and
`chunks` the segments appended so far. A job says how many frames the clip announces
and how many can be decoded. `RifeSafeRunner` is one chunk after another through the
runner: `policy` is the concurrency in use, `fallback` what `studio.py` remembers from
one chunk to the next, `publish` the folder of frames as a reader finds it.

### ComposerExport, ComposerWindow

`ComposerExport` selects a route (`resident`, `plain`, CPU) by evidence, composes the
frames with one sequential decoder per animated layer (`stream`, `next`, `cached`), and
falls back when a CUDA route fails; `product` is what is in the temporary file, `output`
what the user has. `ComposerWindow` is the user interface: edits, a preview thread, an
export thread, a queue of answers pumped by a timer, and modal questions, which run the
interface inside the handler that opened them (`modal`).

### RestorationExport

The panel starts an export, cancels it, or the program is closed; the worker takes one
step per look at the event and one per blocking read or write, because it is between
them that the watcher kills both FFmpegs. The rolling window is `first .. decoded - 1`;
what is given to the encoder is which frame was made from which neighbours (`written`).
The end of the stream, the `finally` blocks, the contract on the finished file, the
replacement and the unlinking of the temporary file are steps. `Quit` ends the worker
and leaves the commands alone, as the daemon thread of the code does.

### LoopEngine

One command after another for each conversion; `handle` is the command a cancellation
finds, stored after the start of the process and forgotten in the thread's last block,
which runs when `busy` is already false: two threads may be in the module at once.

### ProcessTree, Telemetry, MediaCache, EvidenceStore

`ProcessTree`: a table of processes that spawn and exit while `terminate` scans it;
`tracked` is what the scans have seen, `told` that the log names a survivor or says that
the termination failed. On POSIX a group that cannot be signalled leaves the command alone
to be ended (`Fallback`, `KillDirectly`); a killed process may not go (`unkillable`).
`Telemetry`:
ticks of a clock, a sampler that may hang, stage marks, `stop` with its bounded `join`,
and the `document` with its sums. `MediaCache`: each render publishes by rename,
displaces a directory in its way, reads what it holds and prunes the oldest beyond the
quota; renders are killed anywhere. `EvidenceStore`: six stores over one JSON
transaction, whose bar (what is "better"), key and treatment of failures differ by
`kind`.

### Staging, Updates, ComponentInstall, InstanceGuard, JobHistory, ApplicationState

`Staging`: blocks of a partial, each the version of the source it was read from, a
checkpoint that may be a block behind. `Updates`: the payload is a set of parts, each
`old`, `new` or `gone`; check, download, hand-off, and the applier part by part, killed
anywhere. `ComponentInstall`: download by ranges, unpack, the two renames of the swap,
the marker. `InstanceGuard`: the file lock of systems other than Windows, with pids used
again, files that vanish between `FileExistsError` and the read, and records that cannot
be written. `JobHistory`: the render thread's records, the manifest in their shadow, and what
migration, discovery and rollout make of both at the next start. `ApplicationState`: one
JSON file, its backup, and the save at closing.

### Components

These sixteen modules share nothing but files of different kinds, so one behaviour is
about one of them: `subject` is chosen initially, `v1`, `v2`, ... are the variables of
that component in the order of its `vars`, and `Next` is the sum of their next-state
relations. It is one run because it is one set of questions asked of each: is every
frame there and only whole things delivered, is success true, is there something to go
back to, is nothing thrown away or left behind, and does everything end. Each property
of `Components` is the conjunction of what the components state of their own, and their
modules say why it matters and cite the lines. The constants of all sixteen are
constants of `Components`, with their assumptions; `MCComponents` and `components.cfg`
give them values. To check a component alone, take its module as the root with those
values and `CHECK_DEADLOCK FALSE`.

## 3. Runs

| Run | Shows | Bounds and why they are enough | States |
|---|---|---|---|
| `lease_takeover` | With crashes of one process, a recycled pid, failing writes, slow processes, refused renames and guards that cannot be deleted: one owner at a time (`OwnershipHolds`), which is the one on disk (`OwnerHasLease`), evicted only when dead (`TakeoverOnlyFromDead`), and reclaimed while somebody retries (`WrittenLeaseReclaimed`) | Two contenders and a process that takes over the dead one's pid: every pair of locations of two calls, and every answer of the liveness probe, occurs. A third contender is what `lease_two_owners` adds | 39 k |
| `lease_two_owners` | `OneLiveOwner` is violated: see finding below | Three contenders, one crash | |
| `store_stale_saver` | What a `save` or `update` replaces is the manifest it was derived from, through crashes and full disks | Two processes holding manifests of any age up to three revisions: a stale saver, a saver one behind, and a saver at the bound | 227 k |
| `store_damage` | `HistoryHolds`, `OneRevisionBack`: damage, repairs, crashes inside repairs | Two processes, four revisions: a repair falls back one revision and the store moves on twice after it | 60 k |
| `stage_faults` | No unvalidated commit, nothing lost or redone, cleanup only after commit, and all units end up committed | Two owners in turn, two units, three faults: a crash, a fault in the recovery from it, and a fault in the recovery from that | 23 k |
| `worker` | With pause, cancel and shutdown sent at any time: no command that can be read is filed unanswered, nobody leaves a job that only an owner can move on (`AnsweredAndAtRest`), no command is executed twice (`HandledOnce`), an answered cancel cancels (`CancelKept`), a recorded pause pauses (`PauseKept`). The answering and `HandledOnce` hold through crashes, failing writes and unreadable commands; the rest promises nothing once a worker has died, a write has failed, or a command could not be read while a cancel or a recorded pause was still to be carried out (`hurt`) | Two workers used again and again, one command of each kind, so that each kind meets each boundary and each other kind; crashes and failing writes without bound; the cancel and the shutdown may be unreadable at any attempt, before and behind the pause, which is always readable | 716 k |
| `studio_queue` | Across restarts: a partial on disk is the one the journal names (`PartialReferenced`), no final file is ever half a render (`NeverBroken`), an item called done has been delivered (`DoneIsDelivered`), and the window comes to rest (`Settles`) | Two items and a render by hand, one restart: order changes, removal of an item beside a running one, recovery of another life's partial. Items beyond two only wait; lives beyond two see a disk a second life has seen | 170 k |
| `rife_resume` | Through kills of the render, of a resume, of a repair and of the final encode: plans are exact (`PlanIsExact`), finished segments stay (`CommittedStays`), the state file is no reason to refuse them (`CheckpointAgrees`), only whole files are delivered (`OnlyWholeDelivered`), and what the validation keeps accepting is brought to its end (`Completes`) | Four chunks: a first, two in the middle, a last, so that a resume makes both one chunk and several. Three faults: an interruption, one of the recovery from it, and one after that. Chunks of three frames at 6/5, so that rounding by itself and by shares differ | 41 k |
| `rife_refused` | `Resumable` is violated: see finding | Three chunks, one kill | |
| `render_pipeline` | No stage reads a file that has been released, but for the two cases `InputPresentIfRegular` names; what reaches the verification is as planned: at the target rate, as long as the project, cut once, converted and interpolated as often as the plan says (`PartialAsPlanned`); stages that want SDR get it (`SdrStagesSeeSdr`); scratch stays within the estimate (`ScratchBounded`) | Every project the choices of the interface can make, two renders in a row so that the second finds the first one's cache, every fault at every stage. The sizes have no two equal sums, so a wrong file counted cannot cancel out | 111 k |
| `pipeline_short_clip` | `InputPresent` is violated: see finding | Clips to which the interpolation has nothing to add; one render, no fault | |
| `components` | Twelve properties of sixteen components (section 2, Components) | Per component, in `components.cfg` and `MCComponents`: clips of one to four frames in chunks of two (a first, a middle, a last, and an end a frame early or late); three layers' cadences over five frames; two exports, so that the second meets what the first left; two or five frames with radius one (a window that never slides and one that does); two conversions beside each other; four processes and two scans; three ticks, two samples; two renders and a quota that holds one of each thing, with a third start so that two meet in the displacement; two crashes (one in the recovery from the other) for staging, updates and components; two processes and four starts, so that a pid returns; two keys and two processes for evidence | 575 k |

Deadlock is checked where the system goes on for ever. It is off in the two runs of
`RifeRecovery` (a torn segment that the validation refuses is refused for ever), the two
of `RenderPipeline` and `components`: after the last render, export or start the bounds
allow, those systems really stop.

Findings:

* **Two owners** (`job_lease.py:296`). After a crash inside the guard, `b` and `c`
  judge the dead guard stale. `b` renames it, makes its own and evicts the dead lease;
  `c`, slower, renames *`b`'s* live guard, enters as well and evicts the lease `b`
  has just written. `docs/RECOVERY_TEST_MATRIX.md:142` (RT-065) expects one owner.
* **A refused resume** (`rife_recovery.py:590`). A resume gives its
  chunks shares of *what is left*; the validation accepts the rounding
  of the chunk by itself, one more, or the share of an uninterrupted render. The two
  differ (25 to 60 fps in chunks of 12: a resumed chunk gets 28 frames where 29 or 30
  are accepted), so the next invocation refuses a segment the previous one committed,
  where the docstring (`rife_recovery.py:5-6`) says that it resumes from there.
* **A short clip** (`studio.py:4942`). `_interpolate_rife` returns the path it was given
  when there is nothing to add; the worker then releases the file it consumed, which is
  the one it goes on with, and the next stage fails.
  `storage_engine.py:384-385` says that a stage's *input* is released once the stage has
  produced its output (also `docs/CORE_INTEGRITY_PHASE6_STORAGE_ENGINE.md:68`).

## 4. Fairness

* `JobLease!FairSpec`: a running process goes on with its operation (`Progress`), files
  grow old, a process that can start does. A guard that can be stolen or written again
  and again is at last, and so is a lease that can be evicted or filled again and again
  (strong fairness of `StealGuard` or `WriteGuard`, and of `EvictLease` or `FillLease`):
  whoever holds a file open closes it, and a disk is not full for ever. `RetrySpec` adds a launcher that keeps trying to
  acquire. Nothing obliges an owner to release, a child to exit, a user to call.
* `StageAdapter!FairSpec`: a running owner goes on; a job without an owner gets one; an
  uncommitted unit is begun again if it can be again and again (strong fairness: the
  caller loops over its units). Faults are bounded, not fair.
* `MCRenderWorker!MCSpec`, as `RenderWorker!FairSpec`: a running worker goes on and a job
  without one gets one. Neither crashes nor failing writes nor unreadable files are fair,
  and the liveness properties stop promising anything once one has hurt the workers.
* `Studio!FairSpec`: Tk fires its timers and polls while the window lives, and the
  render thread keeps running: its media processes are bounded by the watchdogs that
  turn a hang into a failure. No button is ever pressed out of fairness, a cancellation
  included.
* `RifeRecovery!FairSpec`: a running program goes on, an orphan ends, the render is
  killed in the end. The operator is strongly fair: who can resume, repair or remove the
  stop file again and again does so. `Completes` is conditional on the validation
  accepting the segments again and again, which the finding shows is not always so.
* `Components!Spec`: `Progress` is the component's own work: a step of its loop,
  thread, applier, sampler's clock or termination. For the window of the composer it
  is split, since the export thread, the preview thread and the timer of the interface
  run on their own; a modal notice or question is answered in the end. Media processes
  end because watchdogs end them; nothing makes a user edit, export, cancel, close or
  quit, and nothing makes a fault happen. Of the chunk loop only the steps that are not
  a fault are fair (`Steadily`). The instance guard, the media cache, the histories,
  evidence, application state and components promise safety only.
* `RenderPipeline` promises safety only: each stage ends by the arguments of the
  components it calls.

## 5. Proofs

`tlapm` checks eight modules; each theorem holds for all values of the constants that
meet the named assumptions.

| Module | Theorems | Assumptions |
|---|---|---|
| `JobLeaseProofs` | `Typing`; `OwnerHasLeaseHolds`, `LeaseImplementsOwnership`; `OwnershipThroughCrashes`, `TakeoverOnlyFromDeadHolds` | none; `Calm`; `OneMachine` and, of the behaviour, `StolenFromTheDead` |
| `JobStoreProofs` | `StoreTyping`; `OneRevisionBackHolds`; `UpdatesAreCurrent`; `StoreImplementsHistory` | none; none; `OnlyUpdates`; `OnlyUpdates` |
| `StageAdapterProofs` | `StageTyping`; `CommittedIsGoodHolds`; `CommittedForeverHolds`; `CleanedIsCommittedHolds`; `AdoptableHolds`; `ProduceOnlyMissingHolds` | none (four); `Exclusive` (two) |
| `RifeProofs` | `PlanReachesTarget`; `LongEnoughIsFeasible`; `CutIsLongEnough`; `RenderIsFeasible`; `MasterIsTheJoin`; `DeliveryIsWhole`; `FinishedSegmentsStay`; `PlanIsExactHolds`; `CheckpointAgreesHolds` | `ScheduleAssumption` and `RecoveryAssumption` |
| `RenderWorkerProofs` | `WorkerTyping`; `AnsweredOrRejectedHolds`; `HandledOnceHolds`; `AnsweredAndAtRestHolds` | `IsFiniteSet(Commands)`; none; `~Takeover`; `~Takeover` |
| `RenderPipelineProofs` | `PipelineTyping`; `InputPresentIfRegularHolds`; `SdrStagesSeeSdrHolds`; `PartialAsPlannedHolds`; `ScratchBoundedHolds` | `MaxRenders` positive; none; none; `~Edits`; none |
| `StudioProofs` | `PartialReferencedHolds`; `RenderingIsActiveHolds`; `NeverBrokenHolds`; `DoneIsDeliveredHolds` | `~Impatient` |
| `ComponentProofs` | `TypesAreOK`, `SomethingIsKept`, `DeliveriesAreWhole`; `NoFrameIsLost`, `SuccessIsWhole`, `NothingIsThrownAway`, `OneInstanceAtATime`, `RecordsAreTrue`, `FasterOnlyIfEarned`, `NothingOutlivesItsOwner` | those of `Components`; for the first three also no `"rollback"` in `UpdateFaults` |

* **Lease.** `Calm` is: no crashes, one host, start tokens readable. It is exactly what
  the finding `lease_two_owners` and the remote case take away, and any number of
  processes, slowness, failing writes and undeletable guards stay in. The surprise is
  that mutual exclusion of the guard is *not* part of the argument: two processes may be
  inside it. `CalmInv` says instead that the lease on disk always belongs to a running
  process, so that nobody judges it stale or gets to evict it; that a process at `fill`
  has the unwritten lease; and that a process between the check and the write of
  `heartbeat` or `release` has the written one. Exclusive creation does the rest.

  With crashes the guard is needed. `OneMachine` keeps one host and readable start
  tokens; `StolenFromTheDead` says of a behaviour that no guard is renamed away while the
  process that made it runs. That happens in two ways: the guard judged stale and the
  guard renamed are two different files (the finding), or its maker was held up for 30 s
  before it wrote its payload, and an unreadable guard is judged by its age. `GuardedInv` is the invariant: a process inside the
  critical section is the one the guard names, so there is one of them; hence the lease
  `acquire` judged stale is still the one it evicts, and the one a `heartbeat` checked
  is still the one it replaces. From it follow exclusion through any crashes, failing
  writes, recycled pids and undeletable guards, and that a lease is taken only from a
  dead process. So those two thefts are the only way in which this lease fails on one
  machine.
* **Store.** `StoreInv` is `OneRevisionBack` together with, for each process inside the
  transaction, what it knows at its location about primary, backup and draft (`Knows`).
  It is needed because `OneRevisionBack` alone says nothing of a promotion that is one
  step away. `DerivedInv` adds, when nobody calls `save` with a manifest read earlier,
  that `base` equals the primary from the read to the promotion. All callers in the
  repository use `update`.
* **Stage.** `GoodInv` ties a promotion to a validated partial and holds with any number
  of owners at once; so does `CleanInv`, by which whoever reaches the cleanup works on a
  committed unit. `AloneInv` ties the recorded state of a unit to the location of its
  one owner, and fails without exclusion. `CleanedIsCommitted` and `ProduceOnlyMissing`
  are proved and in no run of `PROJECT.json`.
* **Worker.** `OnceInv` says that whoever is inside `run` owns the lease (`Alone`, which
  is where `~Takeover` comes in), and that a command being handled is in `processing`
  and has not been answered; so an answered one is never executed again, whoever dies.
  `CalmInv` is what holds until the workers are hurt: a job without an owner is at rest,
  the manifest's state goes with the owner's location and flags, a command in
  `processing` is in its worker's hands, and none that was answered has been rejected.
  `AnsweredOrRejectedHolds` needs no assumption: only a failed read rejects, and only an
  answer, seen on the disk or given by this worker, files a command as done.
* **Pipeline.** `HandedInv`: the file in hand, if it is a scratch file, was written by a
  stage before this one (`Rank`), and exists unless the release named in
  `InputPresentIfRegular` has taken it. `CourseInv` adds, stage by stage, how what the
  worker believes of that file (seek, rate, converted) relates to what it really holds
  (`OnCourse`): until the master has run, a seek is pending exactly when the start has
  not been cut off yet; the believed rate is the real one; the colour is converted
  exactly when it is marked so. The property says nothing of the belief and is not
  inductive without it. `Cached` says the
  same of the masters kept for later renders; it fails with `Edits` (`RightLoop` in
  section 6), which is why the theorem assumes that the loop is not switched.
  `Space` is about how much there is: between two stages no scratch file exists but the
  one in hand, within a stage that one and what the stage writes, and every file fits
  in what the plan's estimate keeps for the stages from here on (`Before`, `Within`). The
  sum of the files' sizes is then a sum over at most two files. A brief transition is the
  one case in which a file is larger than what is kept for it (`Spared`), and it is
  the last file that is made.
* **Studio.** `StudioInv` is `Types`, `Flow` (how flags, timers, events and the render
  thread's location exclude each other), `RenderingIsActive` and `Files` (which partial
  may exist at which location, and that a lease in this life's name means its thread is
  or was running). `Delivery` adds that a pending `done` is about the active item, whose
  final file is the delivered one. Any number of items and restarts.
* **Schedule.** The cumulative share is exact at both ends and `Round` is monotone, so
  the shares add up to the contract and a chunk of at least two source frames, when
  there are more target than source frames, gets at least two: the plan of an
  uninterrupted render is never refused, whatever the frame rates and the chunk.
* **RIFE.** `SegsInv`: the segments are a sequence, and the one FFmpeg is writing is
  not closed. `MasterInv`: once there is a master, no action changes the segments it
  joins. `DeliveryInv`: while an orphan writes the partial, nobody encodes into it or
  publishes it (`OneWriter`). The number of chunks and of faults is arbitrary.
  `PlanInv` is the one of the plan: what a run follows was feasible where it began, and
  the frames there by now are what was there then and the cumulative share of the chunks
  made since (`Planned`); while Studio renders, each segment but the one being merged has
  its own share (`Rendered`); the state file counts no more segments than there are, and
  agrees when it counts them all. `PlanIsExact` follows because the shares still planned
  telescope to what is left of the contract. The sums are the community modules' folds:
  that such a recursive function exists, and that it adds an element's value, is shown
  in the same module (`SumsExist`, `SumsRemove`, `TotalAdd`, `Telescope`).
* **Components.** Each of the sixteen modules ends with its inductive invariant `Inv`,
  the conjunction of its properties and what they rest on; `ComponentsInv` says that the
  component under consideration keeps its own. What each adds to its properties:
  - *chunk loop*: where the loop stands determines which chunks are packed, which one is
    being packed and which is extracted ahead (`Course`, `Ahead`, `Behind`, `Packing`),
    and no directory has frames but those (`OnlyTheirs`), so the joined clip is an
    initial piece of the clip in order;
  - *composer*: each layer's decoder has read exactly up to the frame on show (`Aligned`),
    and a product of a fast route was made by the route that is proven;
  - *restoration*: the rolling window holds the neighbours of the frame to come
    (`Rolling`); *history*: manifest and history are in step (`InStep`);
  - *updates*: unless the applier was killed, the tree is whole before the removal and
    the backup is whole after it (`Sane`). If the roll-back itself can fail (`"rollback"`)
    neither needs to be, and the updater promises nothing: hence the assumption;
  - *staging*: unless something interfered, every block of the partial is of the version
    the state file names (`Pure`); *cache*: only whole things have a name a reader
    takes (`Complete`); *guard*: what a process has read was once written (`Records`).
  Durations, samples, copied blocks and levels of the process tree need sums and walks of
  any length; they are recursive functions, proved to exist and to add up by induction.

Induction over data is done with sets: every non-empty set of natural numbers has a least
element (`LeastNatural`, from the well-foundedness of `<`), hence a set with 0 that is
closed under successor has them all (`NaturalInduction`). The library's own induction
theorems take an operator as a parameter, which the provers cannot instantiate.

Every safety invariant that a run checks is proved. Only model-checked: liveness
(`WrittenLeaseReclaimed`, `Converges`, `CancelKept`, `PauseKept`, `Settles`, `Completes`,
`PreviewSettles`, `EverythingEnds`), which needs fairness and ENABLED, out of the
prover's reach; that nobody steals a running process's guard when there are only two
contenders, which is why `TakeoverOnlyFromDead` and `OwnershipHolds` hold in
`lease_takeover` without that assumption and fail with a third; `Studio!TypeOK`,
whose conjunct on the order of the queue needs an induction over `SelectSeq`; and
`RifeRecovery!TypeOK`, which bounds a legacy segment by the contract and so depends on the
ratio that an instance gives to both. The two are stated for the reader and checked by
hand, not by a run of `PROJECT.json`.

## 6. Properties that do not hold, and when

These are stated in the modules or hold only under the parameters of the runs. Each is
reproduced by making it the property of a run with the named constants; those of the
components with the component's module as the root and `CHECK_DEADLOCK FALSE`.

| Property | False with | What happens |
|---|---|---|
| `JobLease!LeaseReclaimed` | `RetrySpec`, `Workers` = `Contenders` = {a, b}, `OneHost`, `OwnPids`, `MayCrash` {a} | a dies between the creation and the write of `lease.json`: the file is unreadable and `acquire` raises before it looks at its age (`job_lease.py:389`, RT-010) |
| `JobLease!TakeoverOnlyFromDead` | `HostOf <- TwoHosts` | on another host liveness cannot be probed: a heartbeat late by 45 s is enough |
| `JobStore!StaleSaverRejected` | `Savers` {a, b}, `Rot` {"primary"}, `MayCrash` {}, `DiskFull` FALSE, `MaxRev` 3 | after a repair the revision number is issued a second time, and a `save` that holds the lost one passes the check |
| `StageAdapter!Adoptable` | `Exclusive` FALSE, `MaxFaults` 0, one unit | one owner announces the unit again while the other promotes it |
| `RenderWorker!CancelHonoured` | `worker.cfg` | a cancel is answered with `ok` and filed while the request exists only in memory (`render_worker.py:63`); a crash before the next boundary, or, with `MayCrash` and `DiskFull` FALSE, a later command that cannot be read, loses it and the next worker finishes the job. `worker_protocol.py:136-139` says commands are recovered without losing or repeating them |
| `RenderWorker!FreeJobAtRest` | `worker.cfg` | a write fails while `pause_requested` is recorded, or, with `MayCrash` and `DiskFull` FALSE, the next command cannot be read; the handler does not turn that into `blocked` |
| `RenderWorker!PauseCompletes` | `worker.cfg` | a worker dies with `pause_requested` recorded or, with `MayCrash` and `DiskFull` FALSE, cannot read the next command; no later worker may enter that state |
| `RenderWorker!OnlyOwnerMoves` | `worker.cfg`, `Takeover` TRUE | the handler of a worker that has lost its lease still writes the manifest (it takes `lease_two_owners` or a remote takeover first) |
| `Studio!CancelKeepsFinal` | `FairSpec`, one item, one life | the flag is read last before the final verification (`studio.py:7118`), which in deep mode decodes the whole file; a cancellation during it is forgotten, the previous output is replaced and the queue goes on (`docs/AUDITORIA_COMPLETA_2026-08-13.md:78`, and the message at `studio.py:7883`) |
| `Studio!RenderingIsActive` | `Impatient` TRUE | a run by hand that fails in the gap starts a second chain of timers; an item stays "Renderizando" |
| `Studio!PartialReferenced` | `Impatient` TRUE | the recovery timer clears the journal of a run that has no partial yet |
| `Studio!DoneIsDelivered` | `Impatient` TRUE | a terminal event is charged to another item |
| `Studio!StopsForAReason` | `Spec`, one life, two items | the worker posts its terminal event before `finally` releases the lease; the timer of the next item meets `LeaseBusy`, the item goes back to "Aguardando" and the queue stops without a word |
| `RenderPipeline!RightLoop` | `render_pipeline.cfg`, `Asked <- HdrClips`, `Edits` TRUE, `Faults` {} | the key of an enhanced master names the user's source (`studio.py:4906`) and the start the worker still has to seek, which is zero once the colour pre-pass has cut the loop: for HDR sources a master enhanced from one excerpt is found for another of the same length (`ai_cache_identity.py:24` calls it the identity of the cache) |
| `Updates!StillUsable` | as in `components.cfg` | the hand-off fails, the user asks again, the folder of the package is emptied and the download fails: the descriptor of the first attempt names a package that is gone, and the launcher refuses to start the program (`docs/ONE_CLICK_UPDATER_ACCEPTANCE.md:17`) |
| `Updates!QuietInstall` | as in `components.cfg` | the program is started a second time while it runs with a prepared update: the launcher applies it underneath (`docs/ONE_CLICK_UPDATER_SECURITY.md:5`) |
| `InstanceGuard!SingleInstance` | two processes, `MaxStarts` 4 | two processes judge the same dead record; the second moves the first one's fresh lock aside (`runtime_distribution.py:74`) |
| `ComposerWindow!ConfirmedCloses` | as in `components.cfg` | the export ends while the question of closing is open; its answer then waits for an end that has passed (`docs/RELEASE_1_2_2.md:24`) |
| `EvidenceStore!FallsBack` | `Kinds` {"encode"}, `Faults` {"gpu"} | the resident encoder falls back only for what looks like a failure of the GPU and raises the rest (`studio.py:5331`), where `gpu_failure.py:27-29` says that every exception leads to the conservative path |
| `ProcessTree!TreeGone` | four pids, two scans, `Faults` {} | a process starts another and exits between two scans: no scan connects the child with the tree |
| `MediaCache!WinnerStays` | `Quota` 3, `MaxStarts` 3, `Faults` {} | a complete directory of stems published between the check and the rename is displaced and removed, where the docstring says that the winner is preserved (`studio.py:234`) |
| `ApplicationState!NeverDowngraded` | `Faults` {"newer"} | a queue of a newer version is refused at start and overwritten at closing (`docs/AUDIT_1_1_2.md:21`, `docs/RELEASE_1_1_2.md:13`) |
| `LoopEngine!CancelReaches`, `ClosedIsQuiet` | `MaxRuns` 2, `Faults` {} | a cancellation, or the closing of the window, between the start of the command and the storing of its handle kills nothing |
| `RestorationExport!SaysCancelled` | `Counts` {2}, `Radius` 1, `MaxExports` 1, `Faults` {} | the kill leaves a part of a frame in the pipe, which is reported as a failure |
| `RestorationExport!CancelPublishesNothing` | the same | a cancellation after the last look at the event is announced and the file published |

`RifeRecovery!Resumable` is false as well (section 3), and so is `Completes` without its
premise: Studio writes a segment under its final name, so that a kill leaves a torn file
where the recovery looks for finished ones, and the validation refuses it at each launch.

`Settles` admits one case, `Mute`: an exception before the worker's `try`
(`studio.py:4636`), or a `discard` that raises in a handler (`studio.py:5413`), ends
the thread without a terminal event; the window stays busy until it is closed.

`Staging!RefusedForCause` holds as stated, because it counts a torn block (a kill between
a block and its checkpoint) as a cause: such a copy is refused at every later call,
where `docs/RECOVERY_PHASE5_STORAGE_RESILIENCE.md:47` lets it resume.

Observations made while modelling, in the modules' terms or beside them:

* A command that cannot be read, were it only because a scanner holds the new file for a
  moment, is never answered and never tried again (`worker_protocol.py:203-213`,
  `:142-156`): the tests mean malformed files, the handler takes every exception, and the
  docstring (`:133-140`) has commands without a reply return to the inbox. The sender has
  to notice that no reply comes.
* `_enhance_clip_ai` hands back the name of the file it has just moved into the cache
  when the bookkeeping after the move raises (`studio.py:6497-6512`, the fault `late`).
* A RIFE fallback after the join, and a failed promotion to the cache, keep a file that
  `estimate_storage` does not count; `ScratchBounded` therefore ends with the first fault.
* The last chunk of an enhancement takes any short extraction by the CPU as the end of
  the clip (`NeuralChunks!AcceptEnd`); an FFmpeg that stops early with exit code 0 would
  cut the clip short unnoticed, which the model does not count among its faults.
* Cancelling a `BackgroundCommand` kills the process before the poll has seen the flag,
  so that the stage may report an error instead of a cancellation.
* A component's partial download of exactly the expected size is asked to go on past
  its end and refused at every attempt; a swap after a kill discards `.previous` first.
* An applier killed in the destructive phase lets the next one back up a mixed tree:
  `OneVersionKept` promises nothing from then on.
* A failed record of `running` leaves a delivered job in `preflight` in the history.
* A benchmark that began before a failure withdrew a policy may record it again.
* The quota of the cache also prunes `hardware/*.json` and other renders' partials.
* The classic mode writes its output in place (`-y`): a cancelled conversion leaves a
  broken file where a good one may have been.
* Closing the program under a running restoration leaves its temporary file and both
  FFmpegs; nothing asks about it.

## 7. What is not modelled

* The components of the second group in the inventory (`not_modelled` in
  `PROJECT.json`): I/O, numerics, layout. Their outcome is a choice where a modelled
  component calls them.
* Pixels, samples and codecs everywhere: a frame is its position, a file what was put
  in it. The audio graph, the geometry of crops and layers and the arguments of FFmpeg
  are left out.
* In the modelled components: previews and their side outputs, the AI component
  installer's windows, presets, editing of an item's settings, a second instance of the
  program beside Studio's queue, recycled process ids for partials, failing writes of the queue file (`studio.py:7803`);
  damage to both manifest files at once, or inside a transaction; torn atomic writes
  (the code uses fsync and replace for that).
* In the RIFE programs: their self-test, the checks of tool identity and free space, the
  staging of the master on another disk, two programs started at once, segments lost
  because they were never synced, FFmpegs of a recovery's chunk or join that outlive it.
  Nor a recovery or repair started while the FFmpeg of the killed render still writes its
  segment: `StudioKilled` decides what it leaves at the kill. Were it to close the segment
  after a repair has counted the open file, `CheckpointAgrees` would fail until the next
  program counts again; plans, committed segments and deliveries would not change.
* In the lease: a failing write whose cleanup cannot unlink the file either
  (`WriteGuardFails` and `FillLeaseFails` always remove it). What stays behind then
  looks, to whoever finds it, like the unwritten guard or lease that a crash at the same
  place leaves.
* In the components of `MCComponents`: Windows' named mutex as instance guard (the
  kernel's), the signature and layout checks of an update package (pure), the
  composition of sharing components with each other (the cache's renders with the
  pipeline's, the histories' starts with Studio's).
* Three hazards no module covers and `PROJECT.json` does not list: `create` over a
  surviving backup (`job_store.py:138`), a cleanup that failed and is not run again
  (`stage_adapter.py:98`), and `_save_queue` raising inside `_poll_events`
  (`studio.py:7803`).
* Time: only the order of events and whether a deadline has passed; `Telemetry` alone
  counts ticks.

## 8. Plan

Built: the lease, the store, the stage protocol, the worker, the window with its output
and journal, the chunked RIFE render with its recovery, the pipeline of stages with its
plan, and sixteen components from the neural loops to the classic mode.

What would come next, most important first:

1. `RenderPipeline` as the refinement of the one encode of `Studio`, with the worker's
   cancel points at every stage, and `JobHistory` composed with both.
2. The lease on two hosts, where an owner late with its heartbeat is evicted although
   it runs.
3. Type correctness of `Studio` (an induction over `SelectSeq`, with `NaturalInduction`)
   and of `RifeRecovery` (the bound of a legacy segment as an assumption on the ratio).
4. The window with an impatient user (`Impatient`), once the three properties it breaks
   are settled in the code: until then there is nothing to check there but the traces of
   section 6.
5. The audit of a preserved job, which the recovery service offers by name only today.
6. Pure algorithms beside the schedule of RIFE: loop schedules, delivery and pipeline
   budgets, against reference definitions on bounded inputs.
