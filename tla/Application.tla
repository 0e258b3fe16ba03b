---------------------------- MODULE Application ----------------------------
(***************************************************************************)
(* The shell's Application: which operations its commands admit, and how   *)
(* shutdown takes everything back.                                         *)
(*                                                                         *)
(* Commands are admitted one at a time by the mutex `commands`, which is   *)
(* only tried.  A command that needs time either keeps it (edits, package  *)
(* transfer, validation) or registers its work in a slot and releases it:  *)
(* the operation owner with the shared runner, the reservation of the Edit *)
(* lease by function discovery, the resource setup worker, a package       *)
(* attempt, a picker.  Stop and the cancellations take none of the command *)
(* locks; shutdown cancels what is registered, waits, and cancels again.   *)
(*                                                                         *)
(* One action is one critical section of the mutex `workspaces`, or of the *)
(* slot it names.  Workspaces, their selections and documents are          *)
(* abstracted; the runner is Controller's, seen through its commands.      *)
(***************************************************************************)
EXTENDS Naturals, FiniteSets

CONSTANTS Callers,      \* threads that carry a command of the window
          Kinds,        \* the commands they may carry
          NONE,
          MaxRuns,      \* bounds: runs of the runner,
          MaxSessions,  \*   Edit owners,
          MaxRevision,  \*   source revisions,
          MaxTokens     \*   package attempts

ASSUME CallersAssumption == IsFiniteSet(Callers) /\ NONE \notin Callers
ASSUME BoundsAssumption == {MaxRuns, MaxSessions, MaxRevision, MaxTokens} \subseteq Nat

LeaseRuns == {"trial", "validate", "recognize"}
Edits == {"save", "refresh", "duplicate"}
AllKinds == LeaseRuns \cup Edits \cup
    {"start", "check", "open", "exit", "discover", "setup", "pick", "import", "export",
     "publish", "pickPackage", "close", "reconstruct", "capture"}
ASSUME KindsAssumption == Kinds \subseteq AllKinds

VARIABLES commands,  \* holder of the command mutex
          closing,
          pc, call,  \* each caller's step and what its command captured
          ws,        \* behind `workspaces`: operation owner, Edit lease, picker, native latch
          stop,      \* behind `authoring_stop`: the Edit owner, its run, its discovery
          runner,    \* the shared runner and the worker of its last run
          setup,     \* the resource setup job
          package,   \* the distribution slot
          shut,      \* the thread in shutdown
          seen       \* history: what callers asked and were told

vars == <<commands, closing, pc, call, ws, stop, runner, setup, package, shut, seen>>

NoOperation == [run |-> 0, kind |-> "start", native |-> FALSE, lease |-> 0, terminal |-> TRUE]
NoRecognition == [run |-> 0, settled |-> FALSE, unclean |-> FALSE]
NoLease == [owner |-> 0, revision |-> 0, candidate |-> 0, contained |-> FALSE,
            discovery |-> FALSE, recovery |-> 0, recognition |-> NoRecognition]
NoContext == [by |-> NONE, cancelled |-> FALSE]
NoStop == [owner |-> 0, run |-> 0, context |-> NoContext]
NoAttempt == [by |-> NONE, token |-> 0, cancelled |-> FALSE]
NoReview == [token |-> 0, owner |-> 0, revision |-> 0]
NoCall == [kind |-> "capture", owner |-> 0, revision |-> 0, run |-> 0, token |-> 0, native |-> FALSE,
           recovery |-> 0]

Outcomes == {"clean", "unclean", "lost"}  \* cleanup clean; incomplete but reaped; unconfirmed

Steps == {"idle", "admitted", "opening", "editing", "starting", "recording", "waiting",
          "discovering", "discovered", "forgetting", "preparing", "taken",
          "publishing", "committing", "ended", "picking", "panicked"}
ShutSteps == {"open", "context", "setup", "packages", "runner", "join", "settle",
              "resetup", "waitSetup", "repackage", "waitPackage", "bridge", "done"}

Run == 0..MaxRuns
Owner == 0..MaxSessions
Revision == 0..MaxRevision
Token == 0..MaxTokens

CallType == [kind : AllKinds, owner : Owner, revision : Revision, run : Run, token : Token,
             native : BOOLEAN, recovery : Revision]
OperationType == [run : Run, kind : LeaseRuns \cup {"start", "check"}, native : BOOLEAN,
                  lease : Owner, terminal : BOOLEAN]
RecognitionType == [run : Run, settled : BOOLEAN, unclean : BOOLEAN]
LeaseType == [owner : Owner, revision : Revision, candidate : Revision, contained : BOOLEAN,
              discovery : BOOLEAN, recovery : Revision, recognition : RecognitionType]
WsType == [operation : OperationType, lease : LeaseType, picker : BOOLEAN, dirty : BOOLEAN,
           sessions : Owner, sources : Revision]
ContextType == [by : Callers \cup {NONE}, cancelled : BOOLEAN]
StopType == [owner : Owner, run : Run, context : ContextType]
RunnerType == [run : Run, state : {"idle", "running", "terminal"}, outcome : Outcomes,
               stopped : BOOLEAN, closed : BOOLEAN, owner : Owner, native : BOOLEAN]
SetupType == [state : {"none", "running", "returned", "joined"}, cancelled : BOOLEAN,
              cleanup : BOOLEAN]
AttemptType == [by : Callers \cup {NONE}, token : Token, cancelled : BOOLEAN]
ReviewType == [token : Token, owner : Owner, revision : Revision]
PackageType == [active : AttemptType, review : ReviewType, contained : BOOLEAN, next : Token]
ShutType == [step : ShutSteps, failed : BOOLEAN, late : BOOLEAN]
SeenType == [asked : SUBSET Run, cancelled : SUBSET Token, published : SUBSET Token,
             unreturned : SUBSET Run, unreconciled : BOOLEAN]

TypeOK ==
    /\ commands \in Callers \cup {NONE}
    /\ closing \in BOOLEAN
    /\ pc \in [Callers -> Steps]
    /\ call \in [Callers -> CallType]
    /\ ws \in WsType
    /\ stop \in StopType
    /\ runner \in RunnerType
    /\ setup \in SetupType
    /\ package \in PackageType
    /\ shut \in ShutType
    /\ seen \in SeenType

Init ==
    /\ commands = NONE
    /\ closing = FALSE
    /\ pc = [c \in Callers |-> "idle"]
    /\ call = [c \in Callers |-> NoCall]
    /\ ws = [operation |-> NoOperation, lease |-> NoLease, picker |-> FALSE, dirty |-> FALSE,
             sessions |-> 0, sources |-> 0]
    /\ stop = NoStop
    /\ runner = [run |-> 0, state |-> "idle", outcome |-> "clean", stopped |-> FALSE,
                 closed |-> FALSE, owner |-> 0, native |-> FALSE]
    /\ setup = [state |-> "none", cancelled |-> FALSE, cleanup |-> FALSE]
    /\ package = [active |-> NoAttempt, review |-> NoReview, contained |-> FALSE, next |-> 0]
    /\ shut = [step |-> "open", failed |-> FALSE, late |-> FALSE]
    /\ seen = [asked |-> {}, cancelled |-> {}, published |-> {}, unreturned |-> {}, unreconciled |-> FALSE]

-----------------------------------------------------------------------------
\* Locks.  A caller between two steps of one critical section holds its mutexes.

WorkspacesFree == \A c \in Callers : pc[c] \notin {"starting", "recording", "taken"}
Unlocked == TRUE
StopFree == \A c \in Callers : pc[c] \notin {"starting", "recording"}

Goto(c, step) == pc' = [pc EXCEPT ![c] = step]
Leave(c) ==
    /\ pc' = [pc EXCEPT ![c] = "idle"]
    /\ call' = [call EXCEPT ![c] = NoCall]
    /\ commands' = IF commands = c THEN NONE ELSE commands

-----------------------------------------------------------------------------
\* The runner, as its commands answer (module Controller).

Starts(owner, native) ==
    /\ ~runner.closed /\ runner.state # "running" /\ runner.run < MaxRuns
    /\ runner' = [runner EXCEPT !.run = @ + 1, !.state = "running", !.stopped = FALSE,
                                !.owner = owner, !.native = native]

RunnerStop(run) ==
    runner' = IF runner.state = "running" /\ runner.run = run
              THEN [runner EXCEPT !.stopped = TRUE] ELSE runner

WorkerEnds ==
    /\ runner.state = "running"
    /\ \E outcome \in Outcomes :
          /\ runner' = [runner EXCEPT !.state = "terminal", !.outcome = outcome]
          /\ seen' = [seen EXCEPT !.unreconciled = @ \/ (runner.native /\ outcome # "clean")]
    /\ UNCHANGED <<commands, closing, pc, call, ws, stop, setup, package, shut>>

-----------------------------------------------------------------------------
\* collect: the critical section that ends the ownership of a terminal run.

Settles == ~ws.operation.terminal /\ runner.state = "terminal"

\* Native cleanup that is not clean must be reconciled before another native run.
ReconcileLost == ws.operation.native /\ runner.outcome = "lost"
Reconcile == ws.operation.native /\ runner.outcome # "clean"

\* Which outcomes contain the Edit lease: unconfirmed ownership, and for a trial
\* also an unreconciled native target.
Contains ==
    \/ ws.operation.kind = "recognize" /\ runner.outcome = "lost"
    \/ /\ ws.operation.kind = "trial" /\ ws.lease.owner = ws.operation.lease
       /\ runner.outcome = "lost" \/ Reconcile

SettlesRecognition ==
    ws.operation.kind = "recognize" /\ ws.lease.recognition.run = ws.operation.run

Collected ==
    IF ~Settles THEN ws
    ELSE [ws EXCEPT
            !.operation.terminal = TRUE,
            !.dirty = @ \/ Reconcile,
            !.lease.contained = ws.lease.owner # 0 /\ (@ \/ Contains),
            !.lease.recognition = IF SettlesRecognition
                                  THEN [@ EXCEPT !.settled = TRUE, !.unclean = runner.outcome # "clean"]
                                  ELSE @]

\* release_trial_stop
CollectedStop ==
    IF /\ Settles /\ ws.operation.kind = "trial"
       /\ stop.owner = ws.operation.lease /\ stop.run = ws.operation.run
    THEN [stop EXCEPT !.run = 0] ELSE stop

CollectedSeen ==
    IF Settles /\ SettlesRecognition /\ runner.outcome # "clean"
    THEN [seen EXCEPT !.unreturned = @ \cup {ws.operation.run}] ELSE seen

\* The log bridge and every poll of a window.
Collect ==
    /\ WorkspacesFree /\ Settles
    /\ ws' = Collected /\ stop' = CollectedStop /\ seen' = CollectedSeen
    /\ UNCHANGED <<commands, closing, pc, call, runner, setup, package, shut>>

-----------------------------------------------------------------------------
\* Admission.

\* setup_idle joins a worker that has returned.
Reaped == IF setup.state = "returned" THEN [setup EXCEPT !.state = "joined"] ELSE setup
SetupClean == ~setup.cleanup
SetupIdle == setup.state # "running" /\ ~setup.cleanup
PackageIdle == package.active.by = NONE /\ ~package.contained

Discovering(w) == w.lease.discovery
NotReserved(w) == ~w.lease.contained /\ ~Discovering(w) /\ ~w.picker
WorkIdle(w) == ~w.lease.contained /\ ~Discovering(w) /\ w.operation.terminal /\ ~w.picker
Idle(w) == w.lease.owner = 0 /\ WorkIdle(w)
NativeReady(w) == ~w.dirty
ImportIdle(w) == w.lease.owner = 0 /\ ~w.picker
SessionsLeft == ws.sessions < MaxSessions
Current(w) == w.lease.owner # 0 /\ w.lease.candidate = w.lease.revision

\* Preserving the configuration only needs the command mutex.
Admit(c, kind) ==
    /\ pc[c] = "idle" /\ commands = NONE
    /\ kind = "capture" \/ ~closing
    /\ commands' = c
    /\ Goto(c, "admitted")
    /\ call' = [call EXCEPT ![c] = [NoCall EXCEPT !.kind = kind]]
    /\ UNCHANGED <<closing, ws, stop, runner, setup, package, shut, seen>>

Admitted(c, kind) == pc[c] = "admitted" /\ call[c].kind = kind /\ WorkspacesFree

\* command_state and the collect that follows it.
Commands(c, kind) ==
    /\ Admitted(c, kind)
    /\ SetupIdle /\ PackageIdle
    /\ setup' = Reaped

\* A refusal, for the state or for what the request says.
Refuse(c) ==
    /\ pc[c] = "admitted" /\ WorkspacesFree
    /\ Leave(c)
    /\ UNCHANGED <<closing, ws, stop, runner, setup, package, shut, seen>>

Capturing(c) ==
    /\ Admitted(c, "capture") /\ SetupIdle /\ PackageIdle
    /\ Leave(c)
    /\ setup' = Reaped
    /\ UNCHANGED <<closing, ws, stop, runner, package, shut, seen>>

-----------------------------------------------------------------------------
\* Ordinary runs.

Operation(kind, native, lease) ==
    [run |-> runner.run + 1, kind |-> kind, native |-> native, lease |-> lease, terminal |-> FALSE]

BeginRun(c, kind, native) ==
    /\ Commands(c, kind)
    /\ Idle(Collected)
    /\ native => NativeReady(Collected)
    /\ Starts(0, native)
    /\ ws' = [Collected EXCEPT !.operation = Operation(kind, native, 0)]
    /\ stop' = CollectedStop /\ seen' = CollectedSeen
    /\ Leave(c)
    /\ UNCHANGED <<closing, package, shut>>

Start(c) == \E native \in BOOLEAN : BeginRun(c, "start", native)
CheckEnvironment(c) == BeginRun(c, "check", FALSE)

Stop ==
    /\ runner.state = "running" /\ RunnerStop(runner.run)
    /\ UNCHANGED <<commands, closing, pc, call, ws, stop, setup, package, shut, seen>>

-----------------------------------------------------------------------------
\* The Edit lease.

Enter(c) ==
    /\ Commands(c, "open")
    /\ Idle(Collected)
    /\ SessionsLeft /\ ws.sources < MaxRevision
    /\ ws' = Collected /\ stop' = CollectedStop /\ seen' = CollectedSeen
    /\ Goto(c, "opening")
    /\ UNCHANGED <<commands, closing, call, runner, package, shut>>

Opened(c) ==
    /\ pc[c] = "opening" /\ WorkspacesFree
    /\ LET owner == ws.sessions + 1
           source == ws.sources + 1
       IN /\ ws' = [ws EXCEPT !.sessions = owner, !.sources = source,
                       !.lease = [NoLease EXCEPT !.owner = owner, !.revision = source,
                                                 !.candidate = source]]
          /\ stop' = [NoStop EXCEPT !.owner = owner]
    /\ Leave(c)
    /\ UNCHANGED <<closing, runner, setup, package, shut, seen>>

\* Save, refresh and duplicate work on the source without the state's mutex.
Edit(c, kind) ==
    /\ Commands(c, kind)
    /\ Collected.lease.owner # 0 /\ WorkIdle(Collected)
    /\ kind # "refresh" => Current(Collected)
    /\ ws.sources < MaxRevision /\ (kind = "duplicate" => SessionsLeft)
    /\ ws' = Collected /\ stop' = CollectedStop /\ seen' = CollectedSeen
    /\ Goto(c, "editing")
    /\ call' = [call EXCEPT ![c].owner = ws.lease.owner, ![c].revision = ws.lease.revision]
    /\ UNCHANGED <<commands, closing, runner, package, shut>>

\* `expect("command retains authoring lease")` and its kind.
Panic(c) ==
    /\ Goto(c, "panicked")
    /\ UNCHANGED <<commands, closing, call, ws, stop, runner, setup, package, shut, seen>>

\* A save whose candidate could not be read again leaves the old candidate.
Edited(c) ==
    /\ pc[c] = "editing" /\ WorkspacesFree
    /\ LET source == ws.sources + 1
           next == ws.sessions + 1
           saved(candidate) == [ws EXCEPT !.sources = source, !.lease.revision = source,
                                          !.lease.candidate = candidate, !.lease.recovery = 0]
       IN IF ws.lease.owner = 0 THEN Panic(c)
          ELSE /\ \/ /\ call[c].kind = "save"
                     /\ \E candidate \in {source, ws.lease.candidate} : ws' = saved(candidate)
                     /\ UNCHANGED stop
                  \/ /\ call[c].kind = "refresh"
                     /\ ws' \in {saved(source), [ws EXCEPT !.lease.candidate = ws.lease.revision,
                                                           !.lease.recovery = 0]}
                     /\ UNCHANGED stop
                  \/ /\ call[c].kind = "duplicate"
                     /\ ws' = [saved(source) EXCEPT !.sessions = next, !.lease.owner = next,
                                                    !.lease.recognition = NoRecognition]
                     /\ stop' = [NoStop EXCEPT !.owner = next]
               /\ Leave(c)
               /\ UNCHANGED <<closing, runner, setup, package, shut, seen>>

\* The source could not be captured, published or read.
WorkFails(c) ==
    /\ pc[c] \in {"opening", "editing"}
    /\ Leave(c)
    /\ UNCHANGED <<closing, ws, stop, runner, setup, package, shut, seen>>

ExitsAnyway(w) == w.lease.owner # 0
MayExit(w) == w.lease.owner # 0 /\ WorkIdle(w)

Exit(c) ==
    /\ Commands(c, "exit")
    /\ MayExit(Collected)
    /\ ws' = [Collected EXCEPT !.lease = NoLease]
    /\ stop' = NoStop /\ seen' = CollectedSeen
    /\ Leave(c)
    /\ UNCHANGED <<closing, runner, package, shut>>

-----------------------------------------------------------------------------
\* Runs of the lease: they record the run for Stop under Stop's own mutex.

TakeStop(c, kind) ==
    /\ Commands(c, kind)
    /\ Current(Collected) /\ WorkIdle(Collected)
    /\ runner.run < MaxRuns
    /\ \E native \in IF kind = "trial" THEN BOOLEAN ELSE {FALSE} :
          /\ native => NativeReady(Collected)
          /\ call' = [call EXCEPT ![c].owner = ws.lease.owner, ![c].revision = ws.lease.revision,
                                  ![c].native = native, ![c].run = runner.run + 1]
    /\ ws' = Collected /\ stop' = CollectedStop /\ seen' = CollectedSeen
    /\ Goto(c, "starting")
    /\ UNCHANGED <<commands, closing, runner, package, shut>>

StartLeaseRun(c) ==
    /\ pc[c] = "starting"
    /\ \/ Starts(call[c].owner, call[c].native) /\ Goto(c, "recording") /\ UNCHANGED <<commands, call>>
       \/ runner.closed /\ Leave(c) /\ UNCHANGED runner
    /\ UNCHANGED <<closing, ws, stop, setup, package, shut, seen>>

\* `expect("command retains authoring stop slot")`.  Only a trial returns here;
\* validation keeps the command mutex until it settles.
RecordRun(c) ==
    /\ pc[c] = "recording"
    /\ IF stop.owner = 0 THEN Panic(c)
       ELSE LET kind == call[c].kind
            IN /\ stop' = [stop EXCEPT !.run = call[c].run]
               /\ ws' = [ws EXCEPT
                     !.operation = [run |-> call[c].run, kind |-> kind, native |-> call[c].native,
                                    lease |-> call[c].owner, terminal |-> FALSE],
                     !.lease.recognition = IF kind = "recognize"
                                           THEN [NoRecognition EXCEPT !.run = call[c].run] ELSE @]
               /\ \/ kind = "trial" /\ Leave(c)
                  \/ kind = "validate" /\ Goto(c, "waiting") /\ UNCHANGED <<commands, call>>
                  \/ kind = "recognize" /\ Goto(c, "waiting") /\ commands' = NONE /\ UNCHANGED call
               /\ UNCHANGED <<closing, runner, setup, package, shut, seen>>

Validated(c) ==
    /\ pc[c] = "waiting" /\ call[c].kind = "validate" /\ WorkspacesFree
    /\ Collected.operation.terminal
    /\ IF stop.owner = 0 \/ ws.lease.owner = 0 THEN Panic(c)
       ELSE /\ ws' = [Collected EXCEPT !.lease.contained = (runner.outcome = "lost")]
            /\ stop' = [CollectedStop EXCEPT !.run = 0]
            /\ seen' = CollectedSeen
            /\ Leave(c)
            /\ UNCHANGED <<closing, runner, setup, package, shut>>

\* settle_recognition_run: the first caller that still finds its run takes the outcome.
Recognized(c) ==
    /\ pc[c] = "waiting" /\ call[c].kind = "recognize" /\ WorkspacesFree
    /\ \/ /\ ws.lease.owner = call[c].owner
          /\ Collected.lease.recognition.run = call[c].run
          /\ Collected.lease.recognition.settled
          /\ ws' = [Collected EXCEPT !.lease.recognition = NoRecognition]
          /\ stop' = IF stop.run = call[c].run THEN [stop EXCEPT !.run = 0] ELSE stop
          /\ seen' = [CollectedSeen EXCEPT !.unreturned = @ \ {call[c].run}]
       \/ /\ ws.lease.owner # call[c].owner \/ ws.lease.recognition.run # call[c].run
          /\ UNCHANGED <<ws, stop, seen>>
    /\ Leave(c)
    /\ UNCHANGED <<closing, runner, setup, package, shut>>

\* authoring_stop waits for no other mutex.
AuthoringStop(owner) ==
    /\ StopFree /\ stop.owner = owner /\ owner # 0
    /\ stop' = [stop EXCEPT !.context.cancelled = stop.context.by # NONE]
    /\ IF stop.run = 0 THEN UNCHANGED runner ELSE RunnerStop(stop.run)
    /\ seen' = IF runner.state = "running" /\ runner.owner = owner
               THEN [seen EXCEPT !.asked = @ \cup {runner.run}] ELSE seen
    /\ UNCHANGED <<commands, closing, pc, call, ws, setup, package, shut>>

-----------------------------------------------------------------------------
\* Function discovery: reserves the lease and releases the command.

Discover(c) ==
    /\ Commands(c, "discover")
    /\ Current(Collected) /\ WorkIdle(Collected)
    /\ ws' = [Collected EXCEPT !.lease.discovery = TRUE]
    /\ stop' = [CollectedStop EXCEPT !.context = [by |-> c, cancelled |-> FALSE]]
    /\ seen' = CollectedSeen
    /\ call' = [call EXCEPT ![c].owner = ws.lease.owner, ![c].revision = ws.lease.revision,
                            ![c].recovery = ws.lease.recovery]
    /\ commands' = NONE
    /\ Goto(c, "discovering")
    /\ UNCHANGED <<closing, runner, package, shut>>

\* What it retains for repairs belongs to the revision it read; what an earlier
\* discovery retained is kept.
Discovered(c) ==
    /\ pc[c] = "discovering" /\ WorkspacesFree
    /\ IF ws.lease.owner = 0 THEN Panic(c)
       ELSE /\ \E recovery \in IF call[c].recovery # 0 THEN {call[c].recovery}
                             ELSE {0, call[c].revision} :
                  ws' = [ws EXCEPT !.lease.recovery = recovery]
            /\ call' = [call EXCEPT ![c].recovery = 0]
            /\ Goto(c, "discovered")
            /\ UNCHANGED <<commands, closing, stop, runner, setup, package, shut, seen>>

\* Discovery::drop, in its two critical sections, however discovery ended.
DropDiscovery(c) ==
    /\ pc[c] \in {"discovering", "discovered"} /\ WorkspacesFree
    /\ ws' = IF ws.lease.owner = call[c].owner THEN [ws EXCEPT !.lease.discovery = FALSE] ELSE ws
    /\ call' = [call EXCEPT ![c].recovery = 0]
    /\ Goto(c, "forgetting")
    /\ UNCHANGED <<commands, closing, stop, runner, setup, package, shut, seen>>

ForgetContext(c) ==
    /\ pc[c] = "forgetting" /\ StopFree
    /\ stop' = IF stop.context.by = c THEN [stop EXCEPT !.context = NoContext] ELSE stop
    /\ Leave(c)
    /\ UNCHANGED <<closing, ws, runner, setup, package, shut, seen>>

-----------------------------------------------------------------------------
\* Resource setup.

SetupStart(c) ==
    /\ Admitted(c, "setup") /\ SetupIdle /\ PackageIdle
    /\ Idle(Collected)
    /\ setup' = [state |-> "running", cancelled |-> FALSE, cleanup |-> FALSE]
    /\ ws' = Collected /\ stop' = CollectedStop /\ seen' = CollectedSeen
    /\ Leave(c)
    /\ UNCHANGED <<closing, runner, package, shut>>

SetupReturns ==
    /\ setup.state = "running"
    /\ \E cleanup \in BOOLEAN : setup' = [setup EXCEPT !.state = "returned", !.cleanup = cleanup]
    /\ UNCHANGED <<commands, closing, pc, call, ws, stop, runner, package, shut, seen>>

SetupPoll ==
    /\ setup.state = "returned"
    /\ setup' = Reaped
    /\ UNCHANGED <<commands, closing, pc, call, ws, stop, runner, package, shut, seen>>

CancelledSetup == [setup EXCEPT !.cancelled = setup.state # "none"]

SetupCancel ==
    /\ setup.state = "running"
    /\ setup' = CancelledSetup
    /\ UNCHANGED <<commands, closing, pc, call, ws, stop, runner, package, shut, seen>>

-----------------------------------------------------------------------------
\* Package transfer: prepare a review, publish it once.

Attempt(c, token) == [by |-> c, token |-> token, cancelled |-> FALSE]

Prepare(c, kind) ==
    /\ Commands(c, kind)
    /\ \/ kind = "import" /\ ImportIdle(Collected)
       \/ kind = "export" /\ Current(Collected) /\ WorkIdle(Collected)
    /\ package.next < MaxTokens
    /\ LET token == package.next + 1
       IN /\ package' = [package EXCEPT !.active = Attempt(c, token), !.next = token,
                                        !.review = NoReview]
          /\ call' = [call EXCEPT ![c].token = token, ![c].owner = ws.lease.owner,
                                  ![c].revision = ws.lease.revision]
    /\ ws' = Collected /\ stop' = CollectedStop /\ seen' = CollectedSeen
    /\ Goto(c, "preparing")
    /\ UNCHANGED <<commands, closing, runner, shut>>

\* The last look at the cancellation and the review are one critical section.
LookedEarlier == TRUE
NotCancelled == ~package.active.cancelled

ReviewReady(c) ==
    /\ pc[c] = "preparing" /\ WorkspacesFree
    /\ call[c].kind = "export" => Current(ws) /\ ws.lease.owner = call[c].owner
                                  /\ ws.lease.revision = call[c].revision
    /\ NotCancelled
    /\ package' = [package EXCEPT !.review = [token |-> call[c].token, owner |-> call[c].owner,
                                              revision |-> call[c].revision]]
    /\ Goto(c, "ended")
    /\ UNCHANGED <<commands, closing, call, ws, stop, runner, setup, shut, seen>>

PrepareFails(c) ==
    /\ pc[c] = "preparing"
    /\ Goto(c, "ended")
    /\ UNCHANGED <<commands, closing, call, ws, stop, runner, setup, package, shut, seen>>

AnyRevision(w) == TRUE
ReviewFits(w) == package.review.owner = 0 \/ package.review.revision = w.lease.revision

\* take_distribution_review: once, and only for the owner and revision it shows.
TakeReview(c) ==
    /\ Commands(c, "publish")
    /\ package.review.token # 0
    /\ \/ package.review.owner = 0 /\ ImportIdle(Collected)
       \/ /\ package.review.owner # 0 /\ WorkIdle(Collected)
          /\ Current(Collected) /\ Collected.lease.owner = package.review.owner
    /\ package' = [package EXCEPT !.review = NoReview]
    /\ ws' = Collected /\ stop' = CollectedStop /\ seen' = CollectedSeen
    /\ IF ~ReviewFits(Collected)
       THEN Leave(c)
       ELSE /\ Goto(c, "taken")
            /\ call' = [call EXCEPT ![c].token = package.review.token,
                                    ![c].owner = package.review.owner,
                                    ![c].revision = package.review.revision]
            /\ UNCHANGED commands
    /\ UNCHANGED <<closing, runner, shut>>

BeginPublish(c) ==
    /\ pc[c] = "taken"
    /\ IF package.active.by = NONE /\ package.next < MaxTokens
       THEN /\ package' = [package EXCEPT !.active = Attempt(c, package.next + 1), !.next = @ + 1]
            /\ Goto(c, "publishing")
            /\ UNCHANGED <<commands, call>>
       ELSE Leave(c) /\ UNCHANGED package
    /\ UNCHANGED <<closing, ws, stop, runner, setup, shut, seen>>

\* The last look at the cancellation, then the rename that publishes.
Checkpoint(c) ==
    /\ pc[c] = "publishing" /\ ~package.active.cancelled
    /\ Goto(c, "committing")
    /\ UNCHANGED <<commands, closing, call, ws, stop, runner, setup, package, shut, seen>>

\* distribution_outcome: retained cleanup contains every later command.
Ends(c, published) ==
    /\ \E cleanup \in BOOLEAN : package' = [package EXCEPT !.contained = @ \/ cleanup]
    /\ seen' = [seen EXCEPT !.published = @ \cup published]
    /\ Goto(c, "ended")
    /\ UNCHANGED <<commands, closing, call, ws, stop, runner, setup, shut>>

Commit(c) == pc[c] = "committing" /\ Ends(c, {call[c].token})
PublishFails(c) == pc[c] \in {"publishing", "committing"} /\ Ends(c, {})

\* Attempt::drop and DistributionPickerGuard::drop.
DropAttempt(c) ==
    /\ pc[c] = "ended" \/ (pc[c] = "picking" /\ call[c].kind = "pickPackage")
    /\ package' = IF package.active.by = c THEN [package EXCEPT !.active = NoAttempt] ELSE package
    /\ Leave(c)
    /\ UNCHANGED <<closing, ws, stop, runner, setup, shut, seen>>

\* The file dialog holds the slot without the command mutex.
PickPackage(c) ==
    /\ Commands(c, "pickPackage")
    /\ ImportIdle(Collected) \/ (Collected.lease.owner # 0 /\ WorkIdle(Collected))
    /\ package' = [package EXCEPT !.active = Attempt(c, 0)]
    /\ ws' = Collected /\ stop' = CollectedStop /\ seen' = CollectedSeen
    /\ commands' = NONE
    /\ Goto(c, "picking")
    /\ UNCHANGED <<closing, call, runner, shut>>

CancelledPackage ==
    [package EXCEPT !.active.cancelled = package.active.by # NONE, !.review = NoReview]

\* The caller is told that the preparation or the review it named is gone.
PackageCancel ==
    /\ package.active.by # NONE \/ package.review.token # 0
    /\ package' = CancelledPackage
    /\ seen' = [seen EXCEPT !.cancelled = @ \cup
          (({package.review.token} \cup {call[c].token : c \in {d \in Callers : pc[d] = "preparing"}})
             \ {0})]
    /\ UNCHANGED <<commands, closing, pc, call, ws, stop, runner, setup, shut>>

-----------------------------------------------------------------------------
\* Pickers of a target or an image: work must be idle while one is open.

Pick(c) ==
    /\ Commands(c, "pick")
    /\ WorkIdle(Collected)
    /\ ws' = [Collected EXCEPT !.picker = TRUE]
    /\ stop' = CollectedStop /\ seen' = CollectedSeen
    /\ commands' = NONE
    /\ Goto(c, "picking")
    /\ UNCHANGED <<closing, call, runner, package, shut>>

Picked(c) ==
    /\ pc[c] = "picking" /\ call[c].kind = "pick" /\ WorkspacesFree
    /\ ws' = [ws EXCEPT !.picker = FALSE]
    /\ Leave(c)
    /\ UNCHANGED <<closing, stop, runner, setup, package, shut, seen>>

-----------------------------------------------------------------------------
\* Closing and shutdown.

\* With an Edit owner that has resolved its drafts, no command is waited for.
PrepareClose ==
    /\ ~closing /\ StopFree /\ stop.owner # 0
    /\ closing' = TRUE
    /\ UNCHANGED <<commands, pc, call, ws, stop, runner, setup, package, shut, seen>>

Close(c) ==
    /\ Admitted(c, "close")
    /\ ws.lease.owner = 0
    /\ closing' = TRUE /\ setup' = CancelledSetup
    /\ Leave(c)
    /\ UNCHANGED <<ws, stop, runner, package, shut, seen>>

PrepareReconstruction(c) ==
    /\ Commands(c, "reconstruct")
    /\ Idle(Collected) /\ NativeReady(Collected)
    /\ closing' = TRUE
    /\ ws' = Collected /\ stop' = CollectedStop /\ seen' = CollectedSeen
    /\ Leave(c)
    /\ UNCHANGED <<runner, package, shut>>

Advance(from, to) ==
    shut.step = from /\ shut' = [shut EXCEPT !.step = to]
Advances(from, to, failed) ==
    shut.step = from /\ shut' = [shut EXCEPT !.step = to, !.failed = @ \/ failed]

ShutdownBegins ==
    /\ Advance("open", "context")
    /\ closing' = TRUE
    /\ UNCHANGED <<commands, pc, call, ws, stop, runner, setup, package, seen>>

CancelContext ==
    /\ StopFree /\ Advance("context", "setup")
    /\ stop' = [stop EXCEPT !.context.cancelled = stop.context.by # NONE]
    /\ UNCHANGED <<commands, closing, pc, call, ws, runner, setup, package, seen>>

CancelSetup ==
    /\ Advance("setup", "packages") \/ Advance("resetup", "waitSetup")
    /\ setup' = CancelledSetup
    /\ UNCHANGED <<commands, closing, pc, call, ws, stop, runner, package, seen>>

CancelPackage ==
    /\ Advance("packages", "runner") \/ Advance("repackage", "waitPackage")
    /\ package' = CancelledPackage
    /\ UNCHANGED <<commands, closing, pc, call, ws, stop, runner, setup, seen>>

CloseRunner ==
    /\ Advance("runner", "join")
    /\ runner' = [runner EXCEPT !.closed = TRUE, !.stopped = @ \/ runner.state = "running"]
    /\ UNCHANGED <<commands, closing, pc, call, ws, stop, setup, package, seen>>

\* The runner's own shutdown gives up on a worker that does not return.
JoinRunner ==
    /\ Advances("join", "settle", runner.state = "running")
    /\ UNCHANGED <<commands, closing, pc, call, ws, stop, runner, setup, package, seen>>

\* The loop's pass that gets the command mutex and finds no discovery.
SettleLease ==
    /\ commands = NONE /\ WorkspacesFree /\ ~Discovering(ws)
    /\ LET lease == Collected.lease
           fails == lease.contained \/ (lease.recognition.settled /\ lease.recognition.unclean)
       IN /\ Advances("settle", "resetup", fails)
          /\ IF lease.contained \/ shut.failed
             THEN ws' = Collected /\ stop' = CollectedStop
             ELSE ws' = [Collected EXCEPT !.lease = NoLease] /\ stop' = NoStop
    /\ seen' = CollectedSeen
    /\ UNCHANGED <<commands, closing, pc, call, runner, setup, package>>

\* Mutant: a pass that finds a discovery instead of a busy command never gives up.
SettleLateCommand ==
    /\ shut.late /\ commands # NONE
    /\ Advances("settle", "resetup", TRUE)
    /\ UNCHANGED <<commands, closing, pc, call, ws, stop, runner, setup, package, seen>>

SettleLate ==
    /\ shut.late /\ (commands # NONE \/ Discovering(ws))
    /\ Advances("settle", "resetup", TRUE)
    /\ UNCHANGED <<commands, closing, pc, call, ws, stop, runner, setup, package, seen>>

\* Mutant: a setup that is still running at the deadline is not counted as a failure.
WaitSetupUntilLate ==
    /\ setup.state # "running" \/ shut.late
    /\ Advances("waitSetup", "repackage", setup.cleanup)
    /\ setup' = Reaped
    /\ UNCHANGED <<commands, closing, pc, call, ws, stop, runner, package, seen>>

WaitSetup ==
    /\ setup.state # "running" \/ shut.late
    /\ Advances("waitSetup", "repackage", ~SetupIdle)
    /\ setup' = Reaped
    /\ UNCHANGED <<commands, closing, pc, call, ws, stop, runner, package, seen>>

PackageBusy == package.active.by # NONE \/ commands # NONE

WaitPackage ==
    /\ LET busy == PackageBusy
       IN /\ ~busy \/ shut.late
          /\ Advances("waitPackage", "bridge", busy \/ package.contained)
    /\ UNCHANGED <<commands, closing, pc, call, ws, stop, runner, setup, package, seen>>

JoinBridge ==
    /\ WorkspacesFree /\ Advance("bridge", "done")
    /\ ws' = Collected /\ stop' = CollectedStop /\ seen' = CollectedSeen
    /\ UNCHANGED <<commands, closing, pc, call, runner, setup, package>>

Deadline ==
    /\ shut.step \notin {"open", "done"} /\ ~shut.late
    /\ shut' = [shut EXCEPT !.late = TRUE]
    /\ UNCHANGED <<commands, closing, pc, call, ws, stop, runner, setup, package, seen>>

-----------------------------------------------------------------------------
Accepts(c) ==
    \/ Capturing(c)
    \/ Start(c) \/ CheckEnvironment(c)
    \/ Enter(c) \/ Exit(c)
    \/ \E kind \in Edits : Edit(c, kind)
    \/ \E kind \in LeaseRuns : TakeStop(c, kind)
    \/ Discover(c) \/ SetupStart(c)
    \/ \E kind \in {"import", "export"} : Prepare(c, kind)
    \/ TakeReview(c) \/ PickPackage(c) \/ Pick(c)
    \/ Close(c) \/ PrepareReconstruction(c)

Works(c) ==
    \/ Opened(c) \/ Edited(c) \/ WorkFails(c)
    \/ StartLeaseRun(c) \/ RecordRun(c) \/ Validated(c) \/ Recognized(c)
    \/ Discovered(c) \/ DropDiscovery(c) \/ ForgetContext(c)
    \/ ReviewReady(c) \/ PrepareFails(c) \/ BeginPublish(c)
    \/ Checkpoint(c) \/ Commit(c) \/ PublishFails(c) \/ DropAttempt(c) \/ Picked(c)

Shutdown ==
    \/ CancelContext \/ CancelSetup \/ CancelPackage \/ CloseRunner \/ JoinRunner
    \/ SettleLease \/ SettleLate \/ WaitSetup \/ WaitPackage \/ JoinBridge

Next ==
    \/ \E c \in Callers, kind \in Kinds : Admit(c, kind)
    \/ \E c \in Callers : Accepts(c) \/ Refuse(c) \/ Works(c)
    \/ \E owner \in 1..MaxSessions : AuthoringStop(owner)
    \/ Stop \/ WorkerEnds \/ Collect
    \/ SetupReturns \/ SetupPoll \/ SetupCancel \/ PackageCancel
    \/ PrepareClose \/ ShutdownBegins \/ Shutdown \/ Deadline

Spec == Init /\ [][Next]_vars

\* What lets shutdown end: nobody keeps a mutex for good, its own thread runs, and
\* its deadline passes.  Commands, workers and discoveries may hang.
ShutdownSpec ==
    /\ Spec
    /\ \A c \in Callers : WF_vars(~WorkspacesFree /\ Works(c))
    /\ WF_vars(Shutdown) /\ WF_vars(Deadline)

-----------------------------------------------------------------------------
\* The largest instance (MCApplication.cfg): its commands are of two groups, those
\* around the Edit lease, with one run, and those of the other slots, with two.
\* Commands at work together are of one group, and so are those that follow the
\* first lease, run or setup.

LeaseKinds == LeaseRuns \cup Edits \cup {"open", "exit", "discover"}
SlotKinds == {"start", "check", "setup", "pick", "close", "reconstruct", "capture", "pickPackage"}

SameGroup(kind, other) == kind \in LeaseKinds <=> other \in LeaseKinds
Admits(c) == pc[c] = "idle" /\ pc'[c] = "admitted"

InGroup ==
    \A c \in Callers : Admits(c) =>
      LET kind == call'[c].kind IN
        /\ \A o \in Callers : pc[o] # "idle" => SameGroup(kind, call[o].kind)
        /\ ws.sessions > 0 => kind \in LeaseKinds
        /\ ws.sessions = 0 /\ (runner.run > 0 \/ setup.state # "none") => kind \in SlotKinds
        /\ kind \in LeaseRuns => runner.run = 0

-----------------------------------------------------------------------------
\* Properties.

SetupBusy == setup.state \in {"running", "returned"}
Transfers == package.active.by # NONE
LeaseWorks == ws.lease.discovery \/ \E c \in Callers : pc[c] \in {"opening", "editing"}
LeaseRunning == ~ws.operation.terminal /\ ws.operation.kind \in LeaseRuns

(* Work registered in different slots, behind different mutexes, never runs
   together: resource setup excludes everything, edits and discovery exclude
   runs and package transfer, a run of the lease excludes package transfer, an
   open picker excludes runs. *)
SlotsExclude ==
    /\ SetupBusy => ws.operation.terminal /\ ws.lease.owner = 0 /\ ~Transfers /\ ~ws.picker
    /\ LeaseWorks => ws.operation.terminal /\ ~Transfers /\ ~SetupBusy /\ ~ws.picker
    /\ LeaseRunning => ~Transfers
    /\ ws.picker => ws.operation.terminal /\ ~LeaseWorks

(* A Stop of the Edit owner that arrives while a run of that owner is running
   reaches that run, even if it arrives while the run is being started. *)
StopReachesTheRun ==
    runner.state = "running" /\ runner.run \in seen.asked => runner.stopped

(* Whoever worked without the state's mutex finds the lease and its
   cancellation slot again, although Exit, duplicate and shutdown clear them: no
   `expect` fails.  While the lease is reserved for discovery, Stop and shutdown
   have its control, and the revision it reads is the revision of the lease; what
   it retains never outlives that revision. *)
WorkKeepsItsLease ==
    /\ \A c \in Callers : pc[c] # "panicked"
    /\ ws.lease.discovery =>
         \E c \in Callers :
            /\ pc[c] \in {"discovering", "discovered"}
            /\ call[c].owner = ws.lease.owner /\ call[c].revision = ws.lease.revision
            /\ stop.context.by = c
    /\ ws.lease.recovery \in {0, ws.lease.revision}

(* The two: what the reservations promise to whoever works under one. *)
WorkIsExclusive == SlotsExclude /\ WorkKeepsItsLease

(* A shutdown that reports success leaves no run, no lease, no worker, no
   attempt, no review that could still be published and no caller at work,
   although commands admitted before `closing` may register work after the
   first round of cancellations. *)
ShutdownIsComplete ==
    shut.step = "done" /\ ~shut.failed =>
        /\ runner.closed /\ runner.state # "running" /\ ws.operation.terminal
        /\ ws.lease.owner = 0 /\ stop.owner = 0
        /\ setup.state \in {"none", "joined"} /\ ~setup.cleanup
        /\ package.active.by = NONE /\ package.review.token = 0 /\ ~package.contained
        /\ \A c \in Callers : pc[c] \in {"idle", "waiting", "forgetting"}
                              \/ call[c].kind \in {"pick", "capture"}

(* What the operator cancelled while it was prepared or reviewed is never
   published: a review that is cancelled while it becomes ready does not come
   back. *)
CancelledIsNotPublished == seen.cancelled \cap seen.published = {}

(* A published export is the revision that the lease still has: a review of an
   earlier revision, or of another owner, is refused. *)
ExportIsCurrent ==
    \A c \in Callers :
        pc[c] = "committing" /\ call[c].owner # 0 =>
            ws.lease.owner = call[c].owner /\ ws.lease.revision = call[c].revision

(* The two: only what the operator has reviewed and still wants leaves the
   application. *)
ReviewsAreCurrent == CancelledIsNotPublished /\ ExportIsCurrent

(* After a run whose child may still live, no run of that lease, and after the
   lease could not be left, no run at all; no run after setup or package cleanup
   failed; no native run after one whose cleanup was not clean.  The evidence may
   still be in the runner, uncollected, when the next command arrives. *)
ContainmentHolds ==
    [][runner'.run # runner.run =>
          /\ ~(runner.owner # 0 /\ runner.state = "terminal" /\ runner.outcome = "lost")
          /\ ~setup.cleanup /\ ~package.contained
          /\ ~(runner'.native /\ seen.unreconciled)]_vars

(* "Reaped ownership has settled, but a cleanup failure its command never
   returned is still reported" (operations.rs, shutdown). *)
CleanupIsReported ==
    shut.step = "done" /\ ~shut.failed => seen.unreturned = {}

(* Shutdown ends within its deadline, although a command, a worker or a discovery
   may never return. *)
ShutdownEnds == (shut.step = "context") ~> (shut.step = "done")
=============================================================================
