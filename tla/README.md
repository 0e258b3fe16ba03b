# Mado-Mata in TLA+

Mado-Mata is a desktop application that runs automation scripts against another
program's window.  A Tauri shell (`apps/desktop/src-tauri`) with a WebView front
end (`apps/desktop/src`) edits packages, profiles and recognition assets and
starts runs; the runner (`tools/runtime-comparison`) executes each run in a child
process of its own, which recognises images and dispatches input.

This directory is the verification project of that code: specifications, TLC
configurations and TLAPS proofs.  Every definition that models code is listed in
`PROJECT.json` under `map` with the lines it stands for.

## 1. Inventory

### Runner (`tools/runtime-comparison/src`)

| Component | State | Operations | Interacts with |
|---|---|---|---|
| `Control` (`model.rs`) | atomic cause word, transition word, admission flag, admission gate, native stage clock, absolute deadline | `stop`, `inherit_stop`, `check`, `admit_launch`, `admit_recovery`, `queue_transition`, `admit_transition`, `native_transition`, `settle_native`, `with_input_admission` | shared by every thread of a run, an attempt's control refers to its owner |
| Supervisor (`runner/supervision.rs`) | pending probe, stop time, settlement and terminal record, protocol fault, milestones | `supervise`: drain events, poll the probe, reap, stop, kill, final drain, publish | child through two pipes, startup probe thread, `Control` |
| Startup link (`runner/startup.rs`) | parent: one worker slot and its result; child: request sequence and reply | `request`, `poll`, `settle`, `receive`, `take` | supervisor, child |
| Child (`runner/child.rs`) | verdict of the supervisor, primary fault, settlement, terminal record | control reader, watchdog, runtime entry, termination, parking | supervisor, Host |
| Host (`host.rs`, `host/*`) and engine (`engine.rs`) | handles, sequences, receipts, observations, pressed input, capture session, query worker | `observe`, `recognize`, `query`, `submit`, `dispatch`, `settle`, `finish` | scripts, `Control`, the recognition SDK |
| Script adapters (`lua.rs`, `javascript.rs`, `typescript.rs`) | module stack, jobs and promises; a compiler process with its reader threads | load, readiness, workflow, compile | Host, inventory |
| Evidence (`runner/evidence.rs`) and operation logs | live channel, retained lines, drop counters, display queue | `log`, `progress`, merge, `poll` | supervisor, desktop controller |
| Image payloads (`images.rs`, `runner/payload.rs`) | one counter of bytes | reserve, grow, clone, hand to a child, release | every reader of images |
| Preparation (`environment.rs`, `inventory*`, `desktop/operation.rs`) | captured bytes and stamps | capture, verify, inspect | files other programs may edit |
| Desktop controller (`desktop/operation.rs`) | phase, active worker, visible run, closed flag, progress channel | `reserve`, `start`, `stop`, `poll`, `shutdown`, worker `run_attempts` | shell, supervisor |
| Native capture worker (`authoring_capture*`) | handle, supervision thread, child, authority per frame | discover, select, capture, settle, stop | shell, capture SDK |

### Shell (`apps/desktop/src-tauri/src`)

| Component | State | Operations | Interacts with |
|---|---|---|---|
| Restore journal (`restore.rs`) | journal directory, completion marker, managed files | `publish`, `recover`, `apply`, `finish` | store, bootstrap, editors outside |
| Bootstrap (`bootstrap.rs`) | session, snapshot, holder of the configuration | inspect, set up, replace, recover, shut down | restore journal, Application |
| Storage and workspaces (`storage*`, `application/workspaces.rs`, `recovery.rs`) | Tabs, profiles, selections, recovery context | inspect, bind, save, recover | packages on disk |
| Application (`application.rs`, `application/operations.rs`) | command mutex, `closing`, operation owner, native latch | `start`, `check_environment`, `collect`, `poll`, `prepare_reconstruction`, `shutdown` | controller, every slot below |
| Edit lease (`application/authoring*`) | owner, revision, candidate, containment, discovery, recognition run; the stop slot beside it | enter, save, refresh, duplicate, validate, trial, discovery, recognition, exit, Stop | publication, controller |
| Native capture, preview, observation | session generations, picker, one preview window, one observation slot | select, capture, pick, open, close, observe | capture worker, operating system |
| Resource setup (`application/ocr_setup.rs`, `ocr_setup*`) | job, cancellation, retained failure; resources of one data directory | start, cancel, join, download, publish, remove | downloads, other instances |
| Package transfer (`application/distribution.rs`, `distribution*`) | active attempt, review, containment; installed releases | prepare, publish, cancel, pick, import, export | archives, other instances |
| Publication (`authoring/publication.rs`) | publication journal | publish, recover | package directory, editors outside |
| Capture cache, logs | files below a bound; queues | persist, evict, reload; write, rotate, flush | the user's file manager |
| Plugin management (`plugin_management*`) | lock, marker, the other program's installation | review, install, replace, remove | child processes |
| Collaboration (`collaboration*`, `authoring-controller.ts`, `integrations/omp`) | tickets, drafts and versions, notices, pending requests | describe, edit, save, cancel, reply | window, external agent |

What is hard here: an operator's Stop, a deadline and the natural end of a run
race each other in two processes that talk through bounded pipes; threads and
processes stay owned by somebody after a failure; answers arrive after the one
who asked was replaced; durable changes of many files may be interrupted anywhere
while other programs edit the same files.  `PROJECT.json` lists these as
`hazards`, each at its line, with the properties that cover it.

What makes each component correct:

* `Control`: the first cause wins, one-shot admissions are one-shot, a stop and
  an input effect exclude each other, no lock order blocks.
* Supervisor and child: the published record says what happened, nothing is left
  running, no command is lost, both processes agree on the reason, it ends.
* Controller: one operation at a time, a stop reaches the run it names, a
  shutdown that reports success leaves nothing, the view is true.
* Host, engine, adapters: each call has one true receipt, what is pressed is
  owned and released once, nothing is dispatched after the end, a failure cannot
  become a success.
* Preparation: what is launched is what was captured, at most one application is
  launched, and it is the approved one.
* Restore journal, publication, installed releases, resources, cache: the files
  are one generation or there is evidence to make them one; what others wrote
  survives.
* Application and authoring: work registered in different slots excludes each
  other; Stop and cancellations reach work that is just being registered; a late
  answer changes nothing; a shutdown that reports success left nothing, and ends.
* Collaboration: an agent is told one true outcome, and edits only what it read.

## 2. Modules

| Module | Models | Checked in |
|---|---|---|
| `Control` | `Control` with its callers in the Host and the child | `control`, `child`, `control_inherit` |
| `Supervision` | `supervise`, `NativePreparation`, `StartupLink`, `child`, the pipes | `supervision` |
| `Reservation` | abstract: one slot, held by one operation, closed for good | `controller` |
| `Controller` | `DesktopController` with its worker and two attempts; implements `Reservation` | `controller` |
| `AtomicSwap` | abstract: two generations, decided once | `child` |
| `RestoreJournal` | the restore transaction on the file system; implements `AtomicSwap` | `child` |
| `Application` | command admission, the Edit lease and its runs, setup, package transfer, pickers, closing, shutdown | `application*` |
| `ScriptHost`, `Engine`, `ScriptRuntime`, `CompilerWorker`, `ScriptLogs`, `PayloadBudget`, `RecognitionTrial`, `RunPreparation`, `TargetPreparation` | one execution | `execution` |
| `Workspaces`, `Bootstrap`, `RecognitionDraft`, `TargetObservation`, `NativeCapture`, `CaptureWorker`, `PreviewWindow` | the authoring side | `authoring`, `capture_settle` |
| `InstalledReleases`, `PackageArchive`, `PackageCapture`, `SourcePublication`, `CropAssets`, `CaptureCache`, `DraftCollaboration`, `CollaborationHost`, `CollaborationAgent`, `PluginManagement`, `ResourceSetup`, `NativeClosure`, `ApplicationLog` | what crosses the disk, processes and programs | `exchange` |
| `MCControl`, `MCChild`, `MCExecution`, `MCAuthoring`, `MCExchange` | instances for TLC (`Supervision`, `Controller` and `Application` are given their constants by the configurations) | |
| `*_proofs`, and the last sections of `Workspaces`, `Bootstrap` and `MCAuthoring` | theorems | TLAPS |

`MCExecution`, `MCAuthoring` and `MCExchange` each hold several components that
share no state: a behaviour picks one (`part`) in its initial state and runs it
in the registers `x1, x2, ...`, the others being left at zero.  Their properties
are conjunctions with one member per component (`part = "logs" =>
Logs!LinesAreAccounted`, and so on), so that one run checks what would otherwise
be a dozen small ones.  `MCChild` does the same with `Control` and
`RestoreJournal`.  A component may appear under several parts with different
constants, one per question.  Constants of an instantiated module are given by
substitution; what they must satisfy is a definition of that module (`...Bounds`,
`...Assumption`) that the MC module assumes.

Definitions marked `Mutant:` beside an operator are its broken forms, with which
the properties are tested; nothing else uses them.  `PROJECT.json` lists at least
one per property, and one per member of the larger conjunctions.

### Control

One action is one atomic access of the Rust code: a compare-and-swap, a store, a
lock acquisition or one reading of the clock.  `th[t]` is the thread: its program
counter, its call, the latch it is settling and its continuation.  `cause[c]` is
the set of bits of `Control::cause`; `gate[c]` is `admission_gate`, `clock[c]`
and `clockLock[c]` the native stage clock behind its mutex, which a refused
`check` takes once more (`ReadStage`) to name the stage that expired.  `late` stands for
the absolute outer deadline, which an owner and its attempts share; an attempt's
control is nested at most one deep, as the code creates them
(`ControlAssumption`).  `Close` writes the words of `settle` in one step because
no operation reads two of them.  `verdict` and `report` belong to the child:
`settled_primary` publishes a provisional timeout only after the control reader
has adopted the supervisor's verdict.

### Supervision

One supervisor thread, the probe thread it owns, the command writer, the event
pipe and the child with its control reader, watchdog and main thread.  The
supervisor's loop is cut into its phases (drain, poll, reap, stop, overdue); one
pass is the actions between `Drain` and `Pass`, in the order of the code.  Time
is a set of bounds that may pass at any point of the pass in which the code reads
the clock.  Frames carry an event and what the supervisor's decisions depend on;
sequence numbers of requests are kept, payloads are not.  A child may crash at
any step and may stop making progress; a killed child may leave an unfinished
frame behind.  `sup.cut` says whether the operator's Stop is sent as a command or
by closing the pipe; the second one exists in the harness only.

Facts the model makes visible and that a reader of the code should know: a Stop
whose command meets a pipe the child has already closed gives a transport fault,
so that a run which returned is published as failed; a probe request behind the
settlement frame is a protocol fault, but a terminal primary fault masks it; the
stage deadline that a child finds by itself is final, only the outer deadline is
provisional.

### Controller and Reservation

`slot` of `Reservation` is the promise: at most one operation holds it, it is
released only when the operation has settled, and `closed` is for good.
`Controller` keeps `State` (phase, active, visible run, closed), the worker of
each run with its two attempts, the progress channel and the closers that are in
`shutdown`.  Every command takes the state's mutex once, so a command is one
action; `refresh` runs inside each of them.  The refinement maps the slot to the
run whose worker has not been collected.

### Application

`Callers` are threads that carry a command of the window.  `commands` is the
holder of the command mutex, which is only tried; `ws` is what the mutex
`workspaces` protects (operation owner, Edit lease, picker flag, native latch),
`stop` the Edit owner's stop slot behind `authoring_stop`, `setup` and `package`
the two slots with mutexes of their own, `shut` the thread in `shutdown`.  One
action is one critical section.  A command that needs two of them, or works in
between without a lock, is cut there: `pc[c]` says where, `call[c]` what it
captured (owner, revision, run, token), which is what may have become stale.
`collect` is folded into every command that calls it (`Collected`,
`CollectedStop`) and is also an action of its own for the log bridge.

The runner is the `Controller` seen from outside: it runs one operation, a stop
names a run, an outcome is clean, unclean (reaped, cleanup failed) or lost (the
child may still live), and its evidence stays there until it is collected.
`closing` is read before and again under the command mutex; it never falls, so
the second reading decides.  Sources are numbered (`sources`), a revision is the
number of the source, a candidate is the revision that could be read back.

`seen` is history: which runs a Stop was answered for, which package tokens were
cancelled and published, which cleanup failures nobody was told of.

One run is expected to fail.  `shutdown` says that a cleanup failure its command
never returned is still reported; `own_recognition_run` replaces the record of
the previous recognition run, and a second command can be admitted between the
collection of the first run and the next poll of its command.  The failure is
then in no answer: the first command says it is stale, shutdown says success.

### RestoreJournal and AtomicSwap

One action is one durable change of the directory tree.  `journal` is
`.restore-journal` with its record, its preimages and the displaced files,
`marker` is `.restore-completion`.  The process may crash between two actions,
any action may fail, and somebody may edit the files: the store's lock excludes
writers of this process only (`docs/adr/0005`).  Inspecting one file and renaming
it is one step.  The refinement to `AtomicSwap` maps the stored generation to
what the marker says, to the old one while the journal is open, and else to what
the files nobody edited hold.

### Execution

* `ScriptHost` is the controlled lane of the Host.  The state mutex makes a
  handler a few atomic sections; what a call reads in one and uses in the next is
  in `caller`.  Metrics, counters, log texts and scan zones decide nothing and
  are left out; session and geometry are one generation.  An observation that
  races `finish` may leave a handle behind, which the model shows and no promise
  of the code forbids.
* `Engine` is the native lane, with `host/startup.rs`.  A call holds the engine's
  mutex from admission to result; `finish` only tries it.  The SDK is external: an
  error without a receipt leaves nothing pressed (its contract).  Postconditions
  and validations that change nothing are choices; a failed `prepare_capture`
  fails the attempt.
* `ScriptRuntime` runs an arbitrary script in the Lua or the JavaScript engine:
  the interrupt may come at any later instruction.  `CompilerWorker` is one
  compilation: two requests to a child, three threads per request, one poll loop;
  asking for its exit, killing it and waiting for it may each fail, and only a
  failed containment lets a report leave the child behind.
* `ScriptLogs` follows a log line through the stream, the record and the display
  queue; a byte bound is reached when the number of lines is.
* `PayloadBudget` counts image bytes in units; a reservation is made before its
  memory and travels with the finished buffer.
* `RecognitionTrial`: what native libraries print into the pipe is `noise`; a
  crash with a good status after an unclean terminal gives no primary and an
  unclean cleanup.
* `RunPreparation` captures and verifies files that another program changes at any
  moment; `TargetPreparation` is one attempt to find or launch the approved
  application among processes that exit and reuse identifiers.  Settling has no
  timeout; Windows never launches; a script path on macOS returns the executable
  without a process proof; signing and bundle inspection are "unchanged since".

### Authoring

* `Workspaces`: one package per Tab, commands exclude each other, the outside
  (package edits, saved files, the end of the process) comes between two store
  steps.  The signer is continuous from installed to installed only; legacy
  import, renaming a profile and the Edit lease's recovery context are left out.
* `Bootstrap`: the configuration is one value, how its files are replaced is
  `RestoreJournal`; the settings in its status are a view.  An Application whose
  shutdown failed (`left`) takes no command any more but may still be at work.
* `RecognitionDraft`: a fingerprint is of what the draft holds for a crop, without
  the definition's kind; the preview's generation is the flag `current`; a stale or
  failed trial is `NoTrial`; sample trials never verify anything.
* `NativeCapture` and `CaptureWorker`: the session in the shell and the worker
  with its supervision thread and child, which may fail to start its transport.
  Shutdown raises `closing` first and cancels the session in a later step.  A stop
  that is noticed right after an
  event was written makes the child leave without a Terminal, which is an unclean
  settlement.  One run is expected to fail: the report that a killed child could
  not be reaped is consumed by the command before, so `settle` waits for the child
  itself, whatever its bound.
* `PreviewWindow`: a failed close resets the `closing` flag another closer relied
  on; a failed `native_finish` leaves its session closing; a destroyed window can
  be found until its event arrives.
* `TargetObservation`: one slot, one uninterruptible read, a publication that must
  still fit the owner, the declaration and the record.

### Exchange

* `InstalledReleases`, `PackageArchive`: importers of several processes under one
  file lock; archives are runs of cells with a directory.
* `PackageCapture`: two passes over a directory that may be edited; modification
  times are assumed to change with the entries.
* `SourcePublication`, `CropAssets`: journal, staging, replacement one by one (a
  journal that cannot be retired fails a recovery, not a publication); which crops
  a Save keeps.
* `CaptureCache`: a `.pending` file a crash left refuses every later persist; two
  accepted frames may be persisted out of order, because persisting runs after the
  state lock was dropped; a folder that was moved away is not put back.
* `DraftCollaboration`, `CollaborationHost`, `CollaborationAgent`: the authority
  of the window, the ticket of one request, and the fences of the client.  Exit and
  Duplicate are one pending command, which ends in `Close` and, of the copy, `Open`.
* `PluginManagement`: another program's client is run behind a lock and a marker;
  it may take effect or not, whatever it reports.
* `ResourceSetup`, `NativeClosure`: shared staging, leases and removal, a rename
  that an empty directory of another program does not stop; the libraries a library
  loads, agreed by every loader context.
* `ApplicationLog`: display queue, file queue, rotation, a writer that never
  recovers from an error.

## 3. Runs

| Run | Question | Distinct states |
|---|---|---|
| `control` | the supervising process (operator, runner and two probes race for one launch) and the controlled harness (its own stop races effects and the report of its fault) | 1.2 M |
| `child` | reader, main thread and dispatcher of a child: verdicts, publication, every call returns, a stop settles; or the restore transaction with three faults and an outside edit: a safe transaction, an atomic swap, evidence that goes away | 0.14 M |
| `control_inherit` | expected violation: the inherited stop is not ordered against effects | |
| `supervision` | one attempt with two startup requests: what the record may say, what still runs, who may recover, and that the supervisor returns | 1.8 M |
| `controller` | two runs, a closer, every command; the view is true; a stopped run settles in the view; implements `Reservation` | 0.42 M |
| `application` | the Edit lease with every kind of run, or ordinary runs, setup and pickers, against Stop, closing and shutdown | 1.4 M |
| `application_packages` | reviews, discovery and setup against cancel, save and shutdown, which is complete and ends | 0.42 M |
| `application_cleanup` | expected violation: a replaced recognition run takes its cleanup failure with it | |
| `execution` | nine components of one execution: calls accounted, reports true, nothing after the end | 2.2 M |
| `authoring` | thirteen parts of the authoring side: fences, late answers, replacements | 2.4 M |
| `exchange` | eighteen parts of what crosses disk and processes: whole files, fenced agents, true resources, others' bytes kept | 2.0 M |
| `capture_settle` | expected violation: settle waits for a child that cannot be reaped | |

Properties that are conjunctions: `AdmissionHolds` (one-shot admissions; effect
and stop exclude each other), `TransactionIsSafe` (never a mixed configuration
without evidence, the evidence of a recovery, foreign bytes kept), `ViewIsTrue`
(the view is consistent; an accepted Stop stays visible), `VerdictIsJust` (a pass
is clean, both processes attribute alike, a quiet run has no fault, no derived
timeout is published), `WorkIsExclusive`, `ReviewsAreCurrent`, and those of the
composed runs.  Each member has a mutant of its own.

Bounds.

* `Control`: `Budgets` bounds the calls of a thread, one vector per instance; two
  calls of the runner are enough to put each of its operations before or after
  each stop, and one launch per probe is enough because the code starts one per
  attempt.
* `Supervision`: two startup requests (the second one is the first that can be
  out of sequence) and a command channel of two, as in the code; the bounds that
  may pass are the deadline and the containment bound.  An attempt is stopped by a
  command, with startup requests, or by dropping the pipe, without.
* `Controller`: two runs (a predecessor and a successor), a closer and a bound on
  the progress events of an attempt.
* `RestoreJournal`: one file per kind of change, three faults (an interruption of
  the transaction, of its recovery, and of the recovery of that) and one file that
  is edited, to any content, any number of times.
* `Application`: two callers, because at most one holds the command mutex and one
  more is enough to meet it from outside (with Stop, the workers, the bridge and
  shutdown, which are no callers); each run admits the commands its question is
  about (the largest one in two groups, by the action constraint `InGroup`: those
  around the Edit lease, and those of the other slots), with two runs where a run has a successor, two Edit owners where a lease
  is replaced, and the revisions and tokens that save, duplicate, review and
  publication use up.
* Composed runs: two threads, two owners or two processes where the question is
  about another one coming between; one edit or fault more than the code checks
  for; queues and budgets that hold one item less than is offered.  Plans, scripts
  and requests (`MCExecution`) are chosen situations of an otherwise arbitrary
  client: each isolates one race and keeps the product small.

Symmetry is used where the values are interchangeable and only safety is checked
(threads of the Host and the budget, probes that are alike, owners and users).
Runs with `CHECK_DEADLOCK FALSE` end on purpose: calls are bounded, an attempt
and its record end, operators stop asking.

## 4. Fairness

* `Control`: a thread inside a call goes on (no operation waits for an event
  except the publication of a provisional timeout), and the control reader gets
  a frame or the end of its pipe.
* `Supervision`: the supervisor's loop, the command writer and the passing of
  time are weakly fair; a probe physically returns (its client is an operating
  system query with a bound of its own); nothing is assumed of the child.
* `Controller`: windows poll every 50 ms (`docs/desktop.md`, the log bridge), and
  the worker of each run goes on, which is what `supervision` shows of the code
  the worker calls.
* `Application`: only the thread in shutdown, its deadline and the critical
  sections are fair (`ShutdownSpec`): commands, discoveries, setup and package
  workers may hang.
* `RestoreJournal`: a running transaction goes on and the operator retries both
  recovery commands while they are offered; strong fairness because each attempt
  disables the other command while it runs.
* `CaptureWorker`: the host's threads and the supervision thread go on; nothing is
  assumed of the child or the SDK.

The other modules state safety only.

## 5. Proofs

TLC shows a property of one small instance; the theorems below hold for every
number of runs, threads, controls, probes, callers, Edit owners, package attempts,
Tabs, profiles, configurations, files, crashes and edits.  Each invariant was checked by TLC on the instances of section 3 before it was proved.
All of them are of the shape `Init => IInv`, `IInv /\ [Next]_vars => IInv'`,
`IInv => P`; the invariants are conjunctions of named parts and each action has a
step (or a lemma) of its own.

| Module | Theorem | States | Hypothesis |
|---|---|---|---|
| `Controller_proofs` | `TypeCorrect` | `[]TypeOK` | |
| | `SlotIsCovered` | two runs are never unsettled at once | |
| | `ShutdownIsClean` | `[]CleanShutdown` | |
| | `StopsAreNamed` | `[]StopIsNamed` | |
| | `RecoveryIsGated` | `RecoveryIsAdmitted` | |
| | `ViewShowsTruth` | `ViewIsTrue` | |
| | `SlotIsImplemented` | `ImplementsReservation` | |
| `Supervision_proofs` | `TypeCorrect` | `[]TypeOK` | |
| | `NothingIsDetached` | `[]NothingDetached` | |
| | `NothingIsLost` | `[]NoCommandLost` | `CmdCapacity >= 2` |
| | `RecoveryIsSettled` | `[]RecoverOnlySettled` | `CmdCapacity >= 2` |
| | `VerdictsAreJust` | `[]VerdictIsJust` | `CmdCapacity >= 2` |
| `Control_proofs` | `TypeCorrect` | `[]TypeOK` | |
| | `AdmitsOnce` | `[]OneShot` | |
| | `CausesAreFinal` | `FirstCauseWins` | |
| | `LaunchesPrecedeStops` | `LaunchBeforeStop` | `AdoptsApart` |
| | `AdmissionIsSafe` | `[]AdmissionHolds` | `NoAdoption` |
| | `PrimaryIsFinal` | `[]PrimaryMatchesVerdict` | `OneVerdict` |
| `Application_proofs` | `TypeCorrect` | `[]TypeOK` | |
| | `WorkExclusive` | `[]WorkIsExclusive` | |
| | `StopReaches` | `[]StopReachesTheRun` | |
| | `RunsAreContained` | `ContainmentHolds` | |
| | `ReviewsCurrent` | `[]ReviewsAreCurrent` | |
| | `ShutdownComplete` | `[]ShutdownIsComplete` | |
| `RestoreJournal_proofs` | `TypeCorrect` | `[]TypeOK` | `RestoreAssumption` |
| | `TransactionsAreSafe` | `TransactionIsSafe` | `RestoreAssumption` |
| | `SwapIsImplemented` | `ImplementsSwap` | `RestoreAssumption`, `Distinct` |
| `Bootstrap` | `SessionCorrect` | `[]IInv`, types among it | `BootstrapBounds` |
| | `SessionStaysOne` | `[]OneSession` | `BootstrapBounds` |
| | `ReplacementPreserves` | `ReplacedIsPreserved` | `BootstrapBounds` |
| `Workspaces` | `StoreCorrect` | `[]IInv`, types among it | `StoreBounds` |
| | `WorkspacesStayAgreed` | `[]WorkspacesAgree` | `StoreBounds` |
| | `ReplacementStaysSafe` | `ReplacementIsSafe` | `StoreBounds` |
| `MCAuthoring` | `OneSessionHere` | `[]OneSession` | |
| | `WorkspacesAgreeHere` | `[]WorkspacesAgree` | |
| | `ReplacementsAreSafeHere` | `ReplacementsAreSafe` | |

The assumptions on constants are `ControllerAssumption`, `SupervisionAssumption`,
`ControlAssumption` and, of `Application`, `CallersAssumption`, `BoundsAssumption`
and `KindsAssumption` (finitely many callers, natural bounds, commands the window
knows), which TLC evaluates on every run of those modules, and
`RestoreAssumption`, `BootstrapBounds` and `StoreBounds`, which `MCChild` and
`MCAuthoring` assume of their instances: callers and configurations are not called
like the markers for "none", a configuration that loads is neither absent, empty
nor undecodable, and there are finitely many Tabs.

**Controller.**  `IInv` is `TypeOK /\ SlotCoversWork /\ ActiveHasWork /\
ClosersAreRight`: every unsettled run is the one the slot holds, the slot holds a
run that was started, and a shutdown that reported success found it empty.  None
of the safety properties is inductive without the first two, because `refresh`
releases the slot in whatever command happens to look.  `RecoveryIsGated` adds
`GapIsQuiet` (between two attempts nothing of the first one is left), `ViewShowsTruth`
adds `ViewIsConsistent /\ TerminalIsFinished`.  `SlotIsImplemented` maps a look at
the worker to a release or a stutter of `Reservation`, and a worker's step to the
settlement of its run or a stutter.

**Supervision.**  The queues are dealt with by four operators (`Has`, `Only`, `Once`,
`Ordered`) and what `Append`, `Head` and `Tail` do to them; nothing in the proofs
is about an index.  The invariant's parts:

* `Types` and `Phases`: which thread is where; what the supervisor still owns in
  each phase of its pass.  This alone gives `NothingDetached`.
* `OneRequest`: at most one startup request is anywhere between the child, the
  event pipe, the supervisor and the reply on its way back.  `Roomy` follows: the
  command channel never holds more than one reply and one stop.  The code sends
  both with `try_send` into a channel of two (`runner/supervision.rs`), which is
  the hypothesis `CmdCapacity >= 2`; with one place a stop behind a reply is lost.
* `Frames`: what the event pipe says is true of the child and comes in the order
  it was written.  `Probing`: what a reply says is what the probe found.
* `Causes`: who stopped whom, in both processes; `Calm`: an undisturbed run has
  given nobody a reason to fault it; `Recorded`: the published record is computed
  from what the other parts say.

**Control.**  One thread's step is described once (`Goes`, `Checks`, `Settles`: the
forms its record can take) and each action is shown to have one of those forms,
so that the invariants are proved about forms instead of about twenty-three actions.

* `Places`: where a call can be, and which latch it is settling.  `Gated`: who
  holds the gates of an attempt and of its owner.
* `Claims`: every admission is granted at most once, and a call that is about to be
  granted is the only one that swapped the word.
* `Sources` and `Watching`: an explicit Stop reaches a latch through a holder of
  its gate, an adopted verdict, or the owner; a launch that read its owner under
  the owner's gate may rely on that reading until it has swapped.  `Unstopped` says the
  same of an effect past its check.
* `Verdicts` and `Attribution`: a latch holds one reason, only a timeout is
  provisional, and a captured fault that is still to be published agrees with the
  latch or waits for the verdict.

The hypotheses name facts about who calls what, which are not facts about
`Control`.  `AdoptsApart`: the only caller of `inherit_stop` is the control reader
of a child (`runner/child.rs`), whose control owns no attempt.  `NoAdoption`: the
process that supervises, and the one that hosts the controlled harness, have no
such reader at all; in a child the statement is false, which is what
`control_inherit` shows.  `OneVerdict`: a child has one control reader, and it
leaves its loop with the first verdict.  The instances satisfy their hypotheses.

**Application.**  The theorems hold for any callers carrying any commands at once,
and without the grouping of commands that the largest run needs.  Every command
first collects a terminal run and then judges what that left, so an invariant of
`ws` alone is not enough: each part of `IInv` is a predicate of the lease's state,
the stop slot and the history, `Fits(w, s, h)`.  The lemmas `Collected...` show that
whatever holds of the state holds of what `collect` makes of it; each command is
then followed from there, once for the caller that acts, once for the others.  The
parts:

* `StepsFit`: the command mutex belongs to the one caller whose step keeps it, and
  the package slot to the one whose attempt it is.
* `LeaseFits`: between two critical sections a caller that reserved the lease finds
  everything quiet, its lease unchanged and room for what it will add; the stop slot
  and the lease have one owner.  `DiscoveryFits`: a lease reserved for discovery has
  exactly one discoverer, whose control is in the stop slot and whose revision is
  current, although it holds no mutex.
* `SlotsFit`: what excludes what, including a review that was taken but whose attempt
  is not registered yet.
* `RunFits`: the runner's run is the operation's, or is being recorded; the stop
  slot names it.  Together with `StopFree` (Stop takes the mutex the starter holds)
  this is why a Stop cannot fall between start and record (`AskedFits`).
* `ContainmentFits`: a lost child is still in the runner uncollected, contained in
  the lease, or in the hands of the caller who waits for it; an unclean native
  target is remembered or still to be collected.
* `TokensFit`, `ExportFits`: a token is cancelled or published or neither, the
  review in the slot is neither, and no revision changes while a publisher holds the
  command mutex.
* `ShutFits`: what each step of a shutdown that has not failed has established, and
  that no command admitted before `closing` can undo it.  The second round of
  cancellations is where setup and packages become quiet for good; before it, only
  the runner and the lease are.

**RestoreJournal.**  `Placed` ties the place the code is at to what is on disk (the
journal is complete and nothing is committed while files are converged; behind
the commit everything runs in the marker's direction), `Agreed` carries what
`Verify` saw to `Commit`, between which files may be edited.  With `NeverMixed` and
`RecoveryHasItsEvidence` these are inductive, for any number of faults: no step
relies on how often it was interrupted.  The refinement reads the stored
generation off the files once the journal is gone; `Distinct` (fewer files are
edited than the generations differ in) is needed for exactly that, since somebody
who edits every such file by hand has changed the generation himself.

**Bootstrap.**  `OneSession` counts the Applications at work, those included whose
shutdown failed, and nothing in the code counts them: that there is at most one follows from who may hold the
configuration.  `IInv` says that a caller is in the middle of an action exactly when
it holds `Bootstrap.actions`, that between the retirement of an Application and the
publication of the next one nothing is published (`Retired`), and that whatever is
at work is the published one or the one its holder is about to publish (`Builds`).
Two at work would then need two holders (`OneAtWork`), and none is at work where
files are put in place (`NothingAtWork`).  The receipt that `RestoreCheck` compared
is still the same when `Install` looks at the files again, because only actions that
hold the configuration change it; what commands of the retired Application may still
write, `Install` finds out by itself.

**Workspaces.**  An inspection is several steps between which the outside edits
packages, profiles and Tab records, or the process ends.  `ContextFits` is what makes
a repair context good however late it is used: it is a relocation unless it is about
the source it was made from, and its signer was settled when it was made.
`InspectionFits` ties the context of a running inspection, or of a retry, to the
source its Tab names, so that a Tab whose source is replaced was asked for its
profiles (`OnlyBind`).  `SpaceFits` allows a Workspace and its Tab to disagree
about the source only between the binding and its publication.  Open Tabs are counted
with the unreadable ones (`SlotTaken`), which is why a Tab that turns readable again
cannot exceed the limit.

`MCAuthoring` transfers these theorems to the run that checks them: a step of a
behaviour is a step of the part it is of (`PartSteps`).

What the proofs corrected: the attempt to prove the types of `Control` showed that
its `Advance` let `enter_workflow` move the native clock past its last phase in
instances with larger budgets than TLC's; `native_transition` returns there.

What stays with TLC:

* liveness (`StopSettles`, `CallsReturn`, `SupervisionEnds`, `RecoveryEnds`,
  `ShutdownEnds`, `SettleReturns`): fairness and `ENABLED` are beyond the provers;
* the components of section 2 without a theorem, whose invariants are checked on
  their instances only;
* what recursive operators over data compute (`NativeClosure` follows a closure;
  others fold over small sets).

## 6. Not modelled

* Panics of the probe, limits of evidence records and failures to emit them,
  metrics, formats, wording; power loss that reorders writes (`fsync` is taken at
  its word); the window between reading one file and renaming it (the hazard at
  `restore.rs:588` that no property covers); emptied containers and the plugin
  ledger that recovery refuses to cross.
* Of the application: the enrollment of a signing key, and errors of the store
  inside a command, which refuse like any other reason.
* Image processing, OCR and the SDK's matching (a choice of results); language
  runtimes; process groups and job objects (`Supervision` uses their contract);
  archive compression and signatures (a file verifies or not).
* WebView pages and the editors that share no state with another actor; the
  Doctor, which reads only; continuous integration.

Components with status `not_modelled` in `PROJECT.json` carry their reason.

## 7. Plan

1. The other members of the composed properties: `RecognitionDraft` (a copy that may
   be published was tried on what it holds) and `CaptureWorker` (late frames are
   inert), then the same for the runs `execution` and `exchange`, whose small modules
   (`PayloadBudget`, `InstalledReleases`, `SourcePublication`) come first.
2. The window between reading and renaming one file in `RestoreJournal`.
