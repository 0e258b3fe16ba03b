---------------------------- MODULE NativeCapture ----------------------------
(***************************************************************************)
(* Native capture under an Edit lease: the retained worker of a window     *)
(* selection, the visual picker, the captures made through it, and the     *)
(* Stop path that must reach the worker at any moment.                     *)
(*                                                                         *)
(* A command holds the command mutex from its admission to its result and  *)
(* gives the workspaces mutex back while it waits for the worker; Poll,    *)
(* the preview's close and the picker's end come in then.  Stop takes only *)
(* the authoring_stop mutex.  The worker itself is CaptureWorker; here it  *)
(* answers, ends or is reported unreaped.                                  *)
(***************************************************************************)
EXTENDS Naturals, FiniteSets

CONSTANTS MaxSessions,  \* bound: workers spawned
          MaxOwners,    \* bound: Edit leases
          MaxCaptures   \* bound: frames requested

SessionBounds == {MaxSessions, MaxOwners, MaxCaptures} \subseteq Nat \ {0}

VARIABLES native,    \* NativeState of the lease
          lease,     \* the lease: owner, revision, containment
          control,   \* authoring_stop.native
          cancelled, \* sessions whose cancellation flag is set
          worker,    \* the worker of each session
          revoked,   \* captures whose authority was cancelled
          command,   \* the command that holds the command mutex
          release,   \* a preview release or close
          picker,    \* the visual picker's window
          frame,     \* the published frame and the captures asked for
          closing    \* Application.closing, and whether the shutdown has sent its stops

captureVars == <<native, lease, control, cancelled, worker, revoked, command, release, picker, frame, closing>>

Sessions == 1..MaxSessions
NoNative == [generation |-> 0, session |-> 0, active |-> FALSE, picker |-> FALSE, worker |-> 0, cancel |-> 0,
             source |-> FALSE, selected |-> FALSE, closed |-> TRUE]
NoControl == [session |-> 0, generation |-> 0, worker |-> 0, authority |-> 0]
NoCommand == [op |-> "none", at |-> "none", session |-> 0, then |-> "none", saved |-> FALSE, good |-> FALSE, capture |-> 0]
NoRelease == [at |-> "none", owner |-> 0, generation |-> 0]
NoPicker == [at |-> "none", owner |-> 0, generation |-> 0]

Init ==
    /\ native = NoNative /\ control = NoControl /\ cancelled = {} /\ revoked = {}
    /\ lease = [owner |-> 1, last |-> 1, sessions |-> 0, contained |-> FALSE]
    /\ worker = [s \in Sessions |-> [at |-> "none", cancelled |-> FALSE, told |-> FALSE, reaped |-> FALSE, clean |-> FALSE]]
    /\ command = NoCommand /\ release = NoRelease /\ picker = NoPicker
    /\ frame = [session |-> 0, capture |-> 0, asked |-> 0]
    /\ closing = "no"

Occupied == native.active \/ native.picker \/ native.worker # 0 \/ native.cancel # 0
Revoked == native.session \in cancelled
OperationActive == native.active \/ native.picker \/ (Occupied /\ Revoked)
\* The status and the error that the view shows are left out.
Retire(n) == [n EXCEPT !.worker = 0, !.cancel = 0, !.source = FALSE, !.selected = FALSE, !.active = FALSE]
Unclean(w) == ~w.reaped \/ ~w.clean

\* The workspaces mutex is free but for the publication of a frame.
StateFree == command.at \notin {"preparing", "committing"}
Closing == closing # "no"
Lock == command = NoCommand /\ ~Closing /\ lease.owner # 0

\* NativeControl.cancel: flag, authority, worker.
CancelControl(k) ==
    /\ cancelled' = cancelled \cup ({k.session} \ {0})
    /\ revoked' = revoked \cup ({k.authority} \ {0})
    /\ worker' = IF k.worker = 0 THEN worker ELSE [worker EXCEPT ![k.worker].cancelled = TRUE]
Stop ==
    /\ control.session \notin cancelled \cup {0}
    /\ CancelControl(control)
    /\ UNCHANGED <<native, lease, control, command, release, picker, frame, closing>>

\* collect_native: a worker that ended by itself is retired; one that cannot be reaped stays, contained.
Settlement == native.cancel # 0 /\ worker[native.cancel].told
Collectable == ~native.active /\ Settlement
Collect ==
    IF ~Collectable THEN UNCHANGED <<native, lease, control, cancelled>>
    ELSE LET w == worker[native.cancel] IN
         /\ lease' = [lease EXCEPT !.contained = @ \/ Unclean(w)]
         /\ cancelled' = cancelled \cup {native.session}
         /\ IF w.reaped THEN native' = Retire(native) /\ control' = NoControl
            ELSE UNCHANGED <<native, control>>
Poll ==
    /\ StateFree /\ Collectable
    /\ Collect
    /\ UNCHANGED <<worker, revoked, command, release, picker, frame, closing>>

-----------------------------------------------------------------------------
\* A command is admitted, settles the retained worker where it must, and goes on.

Begin(op, saved) ==
    /\ Lock /\ ~Collectable
    /\ op = "discover" => ~native.closed
    /\ command' = [NoCommand EXCEPT !.op = op, !.at = "settle", !.then = "run", !.saved = saved]
    /\ UNCHANGED <<native, lease, control, cancelled, worker, revoked, release, picker, frame, closing>>

\* settle_native_selection: refused while contained, active or picking.
SettleRefused ==
    /\ command.at = "settle" /\ (lease.contained \/ native.active \/ native.picker)
    /\ command' = NoCommand
    /\ UNCHANGED <<native, lease, control, cancelled, worker, revoked, release, picker, frame, closing>>
SettleNothing ==
    /\ command.at = "settle" /\ ~(lease.contained \/ native.active \/ native.picker) /\ native.worker = 0
    /\ command' = [command EXCEPT !.at = command.then]
    /\ UNCHANGED <<native, lease, control, cancelled, worker, revoked, release, picker, frame, closing>>
SettleStart ==
    /\ command.at = "settle" /\ ~(lease.contained \/ native.active \/ native.picker) /\ native.worker # 0
    /\ native' = [native EXCEPT !.active = TRUE, !.worker = 0]
    /\ cancelled' = cancelled \cup ({control.session} \ {0})
    /\ revoked' = revoked \cup ({control.authority} \ {0})
    /\ worker' = [worker EXCEPT ![native.worker].cancelled = TRUE]
    /\ command' = [command EXCEPT !.at = "settling", !.session = native.worker]
    /\ UNCHANGED <<lease, control, release, picker, frame, closing>>
Settled ==
    /\ command.at = "settling" /\ worker[command.session].told
    /\ LET w == worker[command.session] IN
       IF Unclean(w)
       THEN /\ lease' = [lease EXCEPT !.contained = TRUE]
            /\ native' = [(IF w.reaped THEN Retire(native) ELSE native) EXCEPT !.active = FALSE]
            /\ command' = NoCommand
            /\ UNCHANGED control
       ELSE /\ native' = Retire(native)
            /\ control' = NoControl
            /\ command' = [command EXCEPT !.at = command.then]
            /\ UNCHANGED lease
    /\ UNCHANGED <<cancelled, worker, revoked, release, picker, frame, closing>>
SettleEnds ==
    /\ command.at = "end"
    /\ command' = NoCommand
    /\ UNCHANGED <<native, lease, control, cancelled, worker, revoked, release, picker, frame, closing>>

Reset ==
    /\ command.op = "reset" /\ command.at = "run"  \* the saved binding is removed
    /\ command' = NoCommand
    /\ UNCHANGED <<native, lease, control, cancelled, worker, revoked, release, picker, frame, closing>>
Exit ==
    /\ command.op = "exit" /\ command.at = "run"
    /\ command' = NoCommand
    /\ IF OperationActive THEN UNCHANGED <<native, lease, control>>
       ELSE native' = NoNative /\ control' = NoControl /\ lease' = [lease EXCEPT !.owner = 0]
    /\ UNCHANGED <<cancelled, worker, revoked, release, picker, frame, closing>>
\* A further lease gets a token of its own.
AcquireLease ==
    /\ command = NoCommand /\ ~Closing /\ lease.owner = 0 /\ lease.last < MaxOwners
    /\ lease' = [lease EXCEPT !.owner = @ + 1 + lease.last, !.last = @ + 1]
    /\ native' = NoNative /\ control' = NoControl
    /\ UNCHANGED <<cancelled, worker, revoked, command, release, picker, frame, closing>>
OpenPreview ==
    /\ Lock /\ native.closed
    /\ native' = [native EXCEPT !.closed = FALSE]
    /\ UNCHANGED <<lease, control, cancelled, worker, revoked, command, release, picker, frame, closing>>

-----------------------------------------------------------------------------
\* Discovery: reservation and cancellation exist before the child does.

StartDiscovery ==
    /\ command.op = "discover" /\ command.at = "run" /\ lease.sessions < MaxSessions
    /\ IF OperationActive \/ lease.contained
       THEN command' = NoCommand /\ UNCHANGED <<native, control, lease>>
       ELSE LET s == lease.sessions + 1 IN
            /\ lease' = [lease EXCEPT !.sessions = s]
            /\ native' = [native EXCEPT !.generation = @ + 1, !.session = s, !.active = TRUE]
            /\ control' = [NoControl EXCEPT !.session = s, !.generation = native.generation + 1]
            /\ command' = [command EXCEPT !.at = "spawning", !.session = s]
    /\ UNCHANGED <<cancelled, worker, revoked, release, picker, frame, closing>>
\* The package, the source or the spawn may fail before a worker exists.
Spawn ==
    /\ command.at = "spawning"
    /\ \/ command' = [command EXCEPT !.at = "found", !.good = FALSE] /\ UNCHANGED worker
       \/ /\ command.session \notin cancelled
          /\ worker' = [worker EXCEPT ![command.session].at = "starting"]
          /\ command' = [command EXCEPT !.at = "spawned"]
    /\ UNCHANGED <<native, lease, control, cancelled, revoked, release, picker, frame, closing>>
\* Mutant: a Stop that came before the handle was published is not replayed
PublishHandleOnly ==
    /\ command.at = "spawned"
    /\ control' = [control EXCEPT !.worker = command.session]
    /\ command' = [command EXCEPT !.at = "discovering"]
    /\ UNCHANGED <<native, lease, cancelled, worker, revoked, release, picker, frame, closing>>
PublishHandle ==
    /\ command.at = "spawned"
    /\ control' = [control EXCEPT !.worker = command.session]
    /\ worker' = [worker EXCEPT ![command.session].cancelled = @ \/ command.session \in cancelled]
    /\ command' = [command EXCEPT !.at = "discovering"]
    /\ UNCHANGED <<native, lease, cancelled, revoked, release, picker, frame, closing>>
Answers(s) == worker[s].at = "ready" \/ worker[s].told
Discovered ==
    /\ command.at = "discovering" /\ Answers(command.session)
    /\ \E good \in BOOLEAN :
        /\ good => worker[command.session].at = "ready" /\ command.session \notin cancelled /\ ~Closing
        /\ command' = [command EXCEPT !.at = "found", !.good = good]
    /\ UNCHANGED <<native, lease, control, cancelled, worker, revoked, release, picker, frame, closing>>
FinishDiscovery ==
    /\ command.at = "found"
    /\ LET s == IF worker[command.session].at = "none" THEN 0 ELSE command.session
           n == [native EXCEPT !.worker = s, !.cancel = s, !.active = FALSE] IN
       IF command.good
       THEN /\ native' = [n EXCEPT !.source = command.saved, !.selected = command.saved]
            /\ command' = NoCommand
            /\ UNCHANGED control
       ELSE /\ native' = n
            /\ command' = IF s = 0 THEN NoCommand ELSE [command EXCEPT !.at = "settle", !.then = "end"]
            /\ control' = IF s = 0 THEN NoControl ELSE control
    /\ UNCHANGED <<lease, cancelled, worker, revoked, release, picker, frame, closing>>

-----------------------------------------------------------------------------
\* The picker.  Its overlays belong to the UI thread; the reservation outlives Stop.

Check(generation) ==
    /\ native.generation = generation /\ ~native.active /\ ~native.closed /\ ~Revoked
    /\ native.worker # 0 /\ ~worker[native.worker].reaped

PickerSnapshot ==
    /\ Lock /\ picker = NoPicker /\ ~Collectable /\ ~lease.contained
    /\ Check(native.generation) /\ ~native.picker
    /\ native' = [native EXCEPT !.picker = TRUE]
    /\ picker' = [at |-> "open", owner |-> lease.owner, generation |-> native.generation]
    /\ UNCHANGED <<lease, control, cancelled, worker, revoked, command, release, frame, closing>>
PickerFinished ==
    /\ StateFree /\ picker.at = "open"
    /\ \E pick \in BOOLEAN : picker' = IF pick THEN [picker EXCEPT !.at = "picked"] ELSE NoPicker
    /\ IF lease.owner = picker.owner /\ native.generation = picker.generation /\ native.picker
       THEN LET n == [native EXCEPT !.picker = FALSE] IN
            IF ~native.active /\ Settlement
            THEN LET w == worker[native.cancel] IN
                 /\ lease' = [lease EXCEPT !.contained = @ \/ Unclean(w)]
                 /\ cancelled' = cancelled \cup {native.session}
                 /\ native' = IF w.reaped THEN Retire(n) ELSE n
                 /\ control' = IF w.reaped THEN NoControl ELSE control
            ELSE native' = n /\ UNCHANGED <<lease, control, cancelled>>
       ELSE UNCHANGED <<native, lease, control, cancelled>>
    /\ UNCHANGED <<worker, revoked, command, release, frame, closing>>

SelectCandidate ==
    /\ picker.at = "picked" /\ picker' = NoPicker
    /\ IF Lock /\ lease.owner = picker.owner /\ ~lease.contained /\ Check(picker.generation)
          /\ ~native.picker /\ ~Collectable
       THEN /\ native' = [native EXCEPT !.worker = 0, !.active = TRUE]
            /\ command' = [NoCommand EXCEPT !.op = "select", !.at = "selecting", !.session = native.worker]
       ELSE (command = NoCommand \/ Closing \/ lease.owner = 0) /\ UNCHANGED <<native, command>>
    /\ UNCHANGED <<lease, control, cancelled, worker, revoked, release, frame, closing>>
\* The worker acknowledges, the source is proved again, and a new binding may be saved.
Selected ==
    /\ command.at = "selecting" /\ Answers(command.session)
    /\ \E good \in BOOLEAN :
        /\ good => worker[command.session].at = "ready" /\ command.session \notin cancelled /\ ~Closing
        /\ command' = [command EXCEPT !.at = "chosen", !.good = good]
    /\ UNCHANGED <<native, lease, control, cancelled, worker, revoked, release, picker, frame, closing>>
FinishSelection ==
    /\ command.at = "chosen"
    /\ LET n == [native EXCEPT !.worker = command.session, !.active = FALSE] IN
       IF command.good
       THEN /\ native' = [n EXCEPT !.source = TRUE, !.selected = TRUE]
            /\ command' = NoCommand
       ELSE /\ native' = n
            /\ command' = [command EXCEPT !.at = "settle", !.then = "end"]
    /\ UNCHANGED <<lease, control, cancelled, worker, revoked, release, picker, frame, closing>>

-----------------------------------------------------------------------------
\* One capture of the selected window.

StartCapture ==
    /\ Lock /\ ~Collectable /\ ~lease.contained /\ frame.asked < MaxCaptures
    /\ Check(native.generation) /\ ~native.picker /\ native.selected /\ native.source
    /\ LET n == frame.asked + 1 IN
       /\ frame' = [session |-> 0, capture |-> 0, asked |-> n]  \* the old raster goes first
       /\ control' = [control EXCEPT !.authority = n]
       /\ command' = [NoCommand EXCEPT !.op = "capture", !.at = "validating", !.session = native.worker, !.capture = n]
    /\ native' = [native EXCEPT !.worker = 0, !.active = TRUE]
    /\ UNCHANGED <<lease, cancelled, worker, revoked, release, picker, closing>>
Validate ==
    /\ command.at = "validating"
    /\ \/ /\ command.session \notin cancelled /\ Answers(command.session) /\ worker[command.session].at = "ready"
          /\ command' = [command EXCEPT !.at = "acquiring"]
          /\ UNCHANGED <<revoked, worker>>
       \/ /\ revoked' = revoked \cup {command.capture}
          /\ worker' = [worker EXCEPT ![command.session].cancelled = TRUE]
          /\ command' = [command EXCEPT !.at = "refused"]
    /\ UNCHANGED <<native, lease, control, cancelled, release, picker, frame, closing>>
\* good: a frame from a cleanly closed session; then the worker has not settled
Acquired ==
    /\ \/ /\ command.at = "acquiring" /\ worker[command.session].at = "ready" /\ command.capture \notin revoked
          /\ command' = [command EXCEPT !.at = "acquired", !.good = TRUE]
       \/ /\ command.at \in {"acquiring", "refused"} /\ worker[command.session].told
          /\ command' = [command EXCEPT !.at = "acquired", !.good = FALSE]
    /\ UNCHANGED <<native, lease, control, cancelled, worker, revoked, release, picker, frame, closing>>
\* Back under the workspaces mutex: an unclean settlement contains the lease.
Relock ==
    /\ command.at = "acquired"
    /\ LET w == worker[command.session] IN
       IF ~command.good /\ Unclean(w)
       THEN /\ lease' = [lease EXCEPT !.contained = TRUE]
            /\ native' = [(IF w.reaped THEN Retire(native) ELSE native) EXCEPT !.active = FALSE]
            /\ command' = NoCommand
       ELSE /\ command' = [command EXCEPT !.at = IF command.good /\ command.session \notin cancelled
                                                 THEN "preparing" ELSE "failed"]
            /\ UNCHANGED <<lease, native>>
    /\ UNCHANGED <<control, cancelled, worker, revoked, release, picker, frame, closing>>
\* The pixels are prepared and the package and binding read again, without the Stop mutex.
Prepare ==
    /\ command.at = "preparing"
    /\ \/ command' = [command EXCEPT !.at = "failed"]
       \/ command.session \notin cancelled /\ command' = [command EXCEPT !.at = "committing"]
    /\ UNCHANGED <<native, lease, control, cancelled, worker, revoked, release, picker, frame, closing>>
\* The commit shares the authoring_stop mutex with Stop.
\* Mutant: what was checked before the preparation is not checked again
StillCurrentOnce == control.session = command.session
StillCurrent ==
    /\ control.session = command.session /\ control.authority = command.capture
    /\ command.session \notin cancelled /\ ~Closing /\ command.capture \notin revoked
CommitFrame ==
    /\ command.at = "committing"
    /\ IF StillCurrent
       THEN /\ frame' = [frame EXCEPT !.session = command.session, !.capture = command.capture]
            /\ command' = [command EXCEPT !.at = "published"]
       ELSE command' = [command EXCEPT !.at = "failed"] /\ UNCHANGED frame
    /\ UNCHANGED <<native, lease, control, cancelled, worker, revoked, release, picker, closing>>
FinishCapture ==
    /\ command.at \in {"published", "failed"}
    /\ LET ok == command.at = "published" IN
       IF ~command.good
       THEN /\ native' = Retire(native)
            /\ control' = NoControl /\ command' = NoCommand
       ELSE /\ native' = [native EXCEPT !.active = FALSE, !.worker = command.session]
            /\ control' = [control EXCEPT !.authority = 0]
            /\ command' = IF ok /\ command.session \notin cancelled THEN NoCommand
                          ELSE [command EXCEPT !.at = "settle", !.then = "end"]
    /\ UNCHANGED <<lease, cancelled, worker, revoked, release, picker, frame, closing>>

-----------------------------------------------------------------------------
\* Release, close and destruction of the preview.

BeginClose ==
    /\ StateFree /\ lease.owner # 0 /\ ~native.closed
    /\ native' = [native EXCEPT !.closed = TRUE]
    /\ UNCHANGED <<lease, control, cancelled, worker, revoked, command, release, picker, frame, closing>>
\* Every fence is checked before the cancellation; a stale caller cancels nothing.
Release(owner, generation, close) ==
    /\ StateFree /\ release.at = "none" /\ lease.owner = owner /\ native.generation = generation
    /\ native' = [native EXCEPT !.closed = @ \/ close]
    /\ IF control.session # 0 /\ control.generation = generation THEN CancelControl(control)
       ELSE UNCHANGED <<cancelled, revoked, worker>>
    /\ release' = [at |-> "waiting", owner |-> owner, generation |-> generation]
    /\ UNCHANGED <<lease, control, command, picker, frame, closing>>
ReleaseRuns ==
    /\ release.at = "waiting" /\ command = NoCommand
    /\ IF lease.owner # release.owner \/ native.generation # release.generation
       THEN release' = NoRelease /\ UNCHANGED <<native, lease, control, cancelled, command>>
       ELSE /\ ~native.picker
            /\ Collect
            /\ release' = NoRelease
            /\ command' = [NoCommand EXCEPT !.op = "release", !.at = "settle", !.then = "end"]
    /\ UNCHANGED <<worker, revoked, picker, frame, closing>>
\* 14 s of waiting for the picker
ReleaseGivesUp ==
    /\ release.at = "waiting" /\ native.picker
    /\ release' = NoRelease
    /\ UNCHANGED <<native, lease, control, cancelled, worker, revoked, command, picker, frame, closing>>

\* Shutdown refuses further commands, then stops, then waits for the command mutex and for what is active.
Shutdown ==
    /\ ~Closing /\ closing' = "set"
    /\ UNCHANGED <<native, lease, control, cancelled, worker, revoked, command, release, picker, frame>>
ShutdownStops ==
    /\ closing = "set" /\ closing' = "stopped"
    /\ CancelControl(control)
    /\ UNCHANGED <<native, lease, control, command, release, picker, frame>>
ShutdownSettles ==
    /\ closing = "stopped" /\ command = NoCommand /\ lease.owner # 0 /\ ~lease.contained /\ ~Collectable
    /\ ~native.active /\ ~native.picker
    /\ IF native.worker # 0
       THEN command' = [NoCommand EXCEPT !.op = "shutdown", !.at = "settle", !.then = "end"] /\ UNCHANGED <<native, lease, control>>
       ELSE native' = NoNative /\ control' = NoControl /\ lease' = [lease EXCEPT !.owner = 0] /\ UNCHANGED command
    /\ UNCHANGED <<cancelled, worker, revoked, release, picker, frame, closing>>

-----------------------------------------------------------------------------
\* The worker (CaptureWorker): ready after its discovery, ended at any time, soon after a cancellation;
\* reported unreaped at first or for ever.

WorkerReady(s) ==
    /\ worker[s].at = "starting" /\ ~worker[s].cancelled
    /\ worker' = [worker EXCEPT ![s].at = "ready"]
    /\ UNCHANGED <<native, lease, control, cancelled, revoked, command, release, picker, frame, closing>>
WorkerEnds(s) ==
    /\ worker[s].at \in {"starting", "ready", "stuck"}
    /\ \E reaped, clean \in BOOLEAN :
        /\ clean => reaped /\ worker[s].at # "stuck"
        /\ ~reaped => worker[s].at # "stuck"
        /\ worker' = [worker EXCEPT ![s].at = IF reaped THEN "gone" ELSE "stuck", ![s].told = TRUE,
                                    ![s].reaped = reaped, ![s].clean = clean, ![s].cancelled = TRUE]
    /\ UNCHANGED <<native, lease, control, cancelled, revoked, command, release, picker, frame, closing>>

Next ==
    \/ Stop \/ Poll \/ SettleRefused \/ SettleNothing \/ SettleStart \/ Settled \/ SettleEnds
    \/ \E saved \in BOOLEAN : Begin("discover", saved)
    \/ Begin("reset", FALSE) \/ Begin("exit", FALSE) \/ Reset \/ Exit
    \/ AcquireLease \/ OpenPreview \/ StartDiscovery \/ Spawn \/ PublishHandle \/ Discovered \/ FinishDiscovery
    \/ PickerSnapshot \/ PickerFinished \/ SelectCandidate \/ Selected \/ FinishSelection
    \/ StartCapture \/ Validate \/ Acquired \/ Relock \/ Prepare \/ CommitFrame \/ FinishCapture
    \/ BeginClose \/ ReleaseRuns \/ ReleaseGivesUp \/ Shutdown \/ ShutdownStops \/ ShutdownSettles
    \/ \E owner \in 1..MaxOwners, generation \in 0..MaxSessions, close \in BOOLEAN : Release(owner, generation, close)
    \/ \E s \in Sessions : WorkerReady(s) \/ WorkerEnds(s)
Spec == Init /\ [][Next]_captureVars

-----------------------------------------------------------------------------
Live(s) == worker[s].at \in {"starting", "ready", "stuck"}

\* A worker that is not known to be reaped occupies the lease it was made for: no second one is
\* started beside it, and the lease is not given up over it (native_capture.rs: work_idle,
\* settle_native_selection; authoring_exit).
OneWorker ==
    /\ \A s, t \in Sessions : Live(s) /\ Live(t) => s = t
    /\ \A s \in Sessions : Live(s) =>
        /\ lease.owner # 0 /\ native.session = s /\ Occupied
        /\ native.worker \in {0, s} /\ native.cancel \in {0, s}

\* Stop reaches the worker: once the session's flag is set, its worker is cancelled, but in the step
\* between its creation and the publication of its handle (native_discover_mode).
StopReachesWorker ==
    \A s \in cancelled : Live(s) => \/ worker[s].cancelled
                                    \/ command.at = "spawned" /\ command.session = s
                                    \/ worker[s].told

CaptureIsFenced == OneWorker /\ StopReachesWorker

\* The step NoLateFrame allows.
NoLateFrameStep ==
    frame'.capture # 0 /\ frame' # frame =>
     /\ frame'.session = native.session /\ native.session \notin cancelled
     /\ frame'.capture \notin revoked /\ ~Closing /\ ~lease.contained

\* A frame is not published for a session after its Stop, its release or the shutdown.
NoLateFrame == [][NoLateFrameStep]_captureVars
=============================================================================
