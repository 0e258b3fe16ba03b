------------------------- MODULE Application_proofs -------------------------
(***************************************************************************)
(* Theorems about Application, for any set of callers that carry any       *)
(* commands, and any number of runs, Edit owners, revisions and attempts.  *)
(*                                                                         *)
(* A command first collects a terminal run and then looks at what it left. *)
(* The parts of the invariant are therefore predicates of `ws`, `stop` and *)
(* `seen`: what holds of them also holds of what collect makes of them, and *)
(* each command is shown to preserve it from there.                        *)
(***************************************************************************)
EXTENDS Application, TLAPS

Holding == {"admitted", "opening", "editing", "starting", "recording", "preparing", "taken",
            "publishing", "committing", "ended"}
Waits(c, kind) == pc[c] = "waiting" /\ call[c].kind = kind
Holds(c) == pc[c] \in Holding \/ Waits(c, "validate")
Attempts(c) ==
    \/ pc[c] \in {"preparing", "publishing", "committing", "ended"}
    \/ pc[c] = "picking" /\ call[c].kind = "pickPackage"
Discovers(c) == pc[c] \in {"discovering", "discovered"}
Reserved(c) == pc[c] \in {"opening", "editing", "starting", "recording"}
Publishes(c) == pc[c] \in {"taken", "publishing", "committing"}

Recording == \E c \in Callers : pc[c] = "recording"
Validating == \E c \in Callers : Waits(c, "validate")
SetupSettled == setup.state \in {"none", "joined"}
RunsOnLease(w) == ~w.operation.terminal /\ w.operation.kind \in LeaseRuns

(* Steps carry the commands that reach them; the command mutex and the    *)
(* package attempt are of the caller whose step keeps them.               *)
StepFits(c) ==
    /\ pc[c] # "panicked"
    /\ pc[c] = "waiting" => call[c].kind \in {"validate", "recognize"}
    /\ pc[c] \in {"starting", "recording"} => call[c].kind \in LeaseRuns
    /\ pc[c] = "picking" => call[c].kind \in {"pick", "pickPackage"}
    /\ Holds(c) <=> commands = c
    /\ Attempts(c) <=> package.active.by = c
StepsFit == \A c \in Callers : StepFits(c)

Quiet(w) == w.operation.terminal /\ NotReserved(w) /\ SetupSettled /\ ~setup.cleanup /\ PackageIdle

LeaseOf(w, s) ==
    /\ s.owner = w.lease.owner
    /\ w.lease.contained => w.lease.owner # 0
    /\ w.lease.recovery \in {0, w.lease.revision}
ReservationFits(w, c) ==
    /\ Reserved(c) => Quiet(w)
    /\ pc[c] = "opening" =>
          w.lease.owner = 0 /\ w.sessions < MaxSessions /\ w.sources < MaxRevision
    /\ pc[c] = "editing" =>
          w.sources < MaxRevision /\ (call[c].kind = "duplicate" => w.sessions < MaxSessions)
    /\ pc[c] \in {"editing", "starting", "recording"} \/ Waits(c, "validate") =>
          w.lease.owner # 0 /\ call[c].owner = w.lease.owner
LeaseFits(w, s) == LeaseOf(w, s) /\ \A c \in Callers : ReservationFits(w, c)

DiscoveryOf(w) ==
    w.lease.discovery =>
       /\ w.lease.owner # 0 /\ w.operation.terminal /\ ~w.picker /\ SetupSettled
       /\ package.active.by = NONE
       /\ \E c \in Callers : Discovers(c)
DiscovererFits(w, s, c) ==
    Discovers(c) =>
       /\ w.lease.discovery /\ s.context.by = c
       /\ call[c].owner = w.lease.owner /\ call[c].revision = w.lease.revision
       /\ call[c].recovery \in {0, call[c].revision}
DiscoveryFits(w, s) == DiscoveryOf(w) /\ \A c \in Callers : DiscovererFits(w, s, c)

SlotsOf(w) ==
    /\ ~SetupSettled => w.operation.terminal /\ w.lease.owner = 0 /\ ~Transfers /\ ~w.picker
    /\ RunsOnLease(w) => ~Transfers
    /\ w.picker => w.operation.terminal
TakenFits(w, c) ==
    pc[c] = "taken" => SetupSettled /\ ~RunsOnLease(w) /\ ~w.lease.discovery
SlotsFit(w) == SlotsOf(w) /\ \A c \in Callers : TakenFits(w, c)

RunningOf(w) == runner.state = "running" => Recording \/ ~w.operation.terminal
OperationOf(w, s) ==
    /\ runner.state # "idle" => runner.run > 0
    /\ ~w.operation.terminal =>
          /\ runner.state # "idle" /\ w.operation.run = runner.run
          /\ w.operation.lease = runner.owner /\ w.operation.native = runner.native
          /\ w.operation.kind \notin LeaseRuns => runner.owner = 0
          /\ w.operation.kind \in LeaseRuns =>
                /\ runner.owner = w.lease.owner /\ w.lease.owner # 0
                /\ runner.state = "running" => s.run = runner.run
          /\ w.operation.kind = "validate" => Validating
RunOf(w, s) == RunningOf(w) /\ OperationOf(w, s)
RecognitionOf(w) ==
    /\ w.lease.recognition.run <= runner.run
    /\ w.lease.recognition.settled =>
          ~(runner.state = "running" /\ runner.run = w.lease.recognition.run)
StarterFits(w, c) ==
    /\ pc[c] = "starting" =>
          call[c].run = runner.run + 1 /\ (call[c].native => ~w.dirty)
    /\ pc[c] = "recording" =>
          /\ runner.state # "idle" /\ runner.run = call[c].run
          /\ runner.owner = call[c].owner /\ runner.native = call[c].native
RunFits(w, s) ==
    RunOf(w, s) /\ RecognitionOf(w) /\ \A c \in Callers : StarterFits(w, c)

AskedFits(h) ==
    /\ \A run \in h.asked : run <= runner.run
    /\ runner.state = "running" /\ runner.run \in h.asked => runner.stopped

ContainmentFits(w, h) ==
    /\ runner.owner # 0 /\ runner.state = "terminal" /\ runner.outcome = "lost" =>
          w.lease.contained \/ ~w.operation.terminal \/ Recording \/ Validating
    /\ h.unreconciled =>
          \/ w.dirty
          \/ /\ runner.native /\ runner.state = "terminal" /\ runner.outcome # "clean"
             /\ ~w.operation.terminal \/ Recording

TokensOf(h) ==
    /\ \A token \in h.cancelled \cup h.published : token # 0 /\ token <= package.next
    /\ h.cancelled \cap h.published = {}
    /\ package.review.token <= package.next
    /\ package.review.token \notin h.cancelled \cup h.published
TokenFits(h, c) ==
    /\ pc[c] = "preparing" \/ Publishes(c) =>
          /\ call[c].token # 0 /\ call[c].token <= package.next
          /\ call[c].token \notin h.published
          /\ package.review.token = 0
    /\ pc[c] = "preparing" /\ call[c].token \in h.cancelled => package.active.cancelled
    /\ Publishes(c) => call[c].token \notin h.cancelled
TokensFit(h) == TokensOf(h) /\ \A c \in Callers : TokenFits(h, c)

ExporterFits(w, c) ==
    Publishes(c) /\ call[c].owner # 0 =>
        w.lease.owner = call[c].owner /\ w.lease.revision = call[c].revision
ExportFits(w) == \A c \in Callers : ExporterFits(w, c)

(* The steps of shutdown that come after one. *)
Joined   == {"settle", "resetup", "waitSetup", "repackage", "waitPackage", "bridge", "done"}
Settled  == Joined \ {"settle"}
Succeeds == ~shut.failed
Rests(c) ==
    \/ pc[c] \in {"idle", "forgetting", "picking"} \/ Waits(c, "recognize")
    \/ pc[c] = "admitted" /\ call[c].kind = "capture"

ShutFits(w) ==
    /\ shut.step # "open" => closing
    /\ shut.step \in {"join"} \cup Joined => runner.closed
    /\ Succeeds /\ shut.step \in Joined => runner.state # "running"
    /\ Succeeds /\ shut.step \in Settled =>
          w.lease.owner = 0 /\ \A c \in Callers : Rests(c)
    /\ Succeeds /\ shut.step \in Settled \ {"resetup", "waitSetup"} => SetupSettled /\ ~setup.cleanup
    /\ Succeeds /\ shut.step \in {"waitPackage", "bridge", "done"} => package.review.token = 0
    /\ Succeeds /\ shut.step \in {"bridge", "done"} => PackageIdle
    /\ Succeeds /\ shut.step = "done" => w.operation.terminal

Fits(w, s, h) ==
    /\ StepsFit /\ LeaseFits(w, s) /\ DiscoveryFits(w, s) /\ SlotsFit(w) /\ RunFits(w, s)
    /\ AskedFits(h) /\ ContainmentFits(w, h) /\ TokensFit(h) /\ ExportFits(w) /\ ShutFits(w)

Typed(w, s, h) == w \in WsType /\ s \in StopType /\ h \in SeenType

IInv == TypeOK /\ Fits(ws, stop, seen)
CInv == Fits(Collected, CollectedStop, CollectedSeen)

-----------------------------------------------------------------------------
(* What collect makes of `ws`, field by field.                             *)
LEMMA CollectedIs ==
    ASSUME TypeOK
    PROVE
    /\ Collected.operation.run = ws.operation.run /\ Collected.operation.kind = ws.operation.kind
    /\ Collected.operation.native = ws.operation.native
    /\ Collected.operation.lease = ws.operation.lease
    /\ Collected.operation.terminal <=> ws.operation.terminal \/ runner.state = "terminal"
    /\ Collected.lease.owner = ws.lease.owner /\ Collected.lease.revision = ws.lease.revision
    /\ Collected.lease.candidate = ws.lease.candidate
    /\ Collected.lease.discovery <=> ws.lease.discovery
    /\ Collected.lease.recovery = ws.lease.recovery
    /\ Collected.lease.contained <=>
          IF Settles THEN ws.lease.owner # 0 /\ (ws.lease.contained \/ Contains)
          ELSE ws.lease.contained
    /\ Collected.lease.recognition.run = ws.lease.recognition.run
    /\ Collected.lease.recognition.settled <=>
          ws.lease.recognition.settled \/ (Settles /\ SettlesRecognition)
    /\ Collected.picker <=> ws.picker
    /\ Collected.dirty <=> ws.dirty \/ (Settles /\ Reconcile)
    /\ Collected.sessions = ws.sessions /\ Collected.sources = ws.sources
  BY DEF Collected, TypeOK, Settles, WsType, OperationType, LeaseType, RecognitionType

(* ... of `stop` ...                                                       *)
LEMMA CollectedStopIs ==
    ASSUME TypeOK
    PROVE
    /\ CollectedStop.owner = stop.owner /\ CollectedStop.context = stop.context
    /\ CollectedStop.run \in {0, stop.run}
    /\ runner.state # "terminal" => CollectedStop = stop
  BY DEF CollectedStop, TypeOK, Settles, StopType, RunnerType

(* ... and of `seen`.                                                      *)
LEMMA CollectedSeenIs ==
    ASSUME TypeOK
    PROVE
    /\ CollectedSeen.asked = seen.asked /\ CollectedSeen.cancelled = seen.cancelled
    /\ CollectedSeen.published = seen.published
    /\ CollectedSeen.unreconciled <=> seen.unreconciled
  BY DEF CollectedSeen, TypeOK, SeenType

(* 0 stands for no run, no owner, no revision and no attempt.              *)
LEMMA Zero == 0 \in Run /\ 0 \in Owner /\ 0 \in Revision /\ 0 \in Token
  BY BoundsAssumption DEF Run, Owner, Revision, Token

(* What is collected is well typed.                                        *)
LEMMA CollectedTyped ==
    ASSUME TypeOK
    PROVE  Typed(Collected, CollectedStop, CollectedSeen) /\ Typed(ws, stop, seen)
  <1>1. Typed(ws, stop, seen)
    BY DEF TypeOK, Typed
  <1>2. Collected \in WsType
    <2>1. CASE ~Settles
      BY <1>1, <2>1 DEF Collected, Typed
    <2>2. CASE Settles
      <3> DEFINE operation == [ws.operation EXCEPT !.terminal = TRUE]
                 contained == ws.lease.owner # 0 /\ (ws.lease.contained \/ Contains)
                 dirty == ws.dirty \/ Reconcile
                 recognition == IF SettlesRecognition
                     THEN [ws.lease.recognition EXCEPT !.settled = TRUE, !.unclean = runner.outcome # "clean"]
                     ELSE ws.lease.recognition
                 lease == [ws.lease EXCEPT !.contained = contained, !.recognition = recognition]
      <3>1. Collected = [ws EXCEPT !.operation = operation, !.dirty = dirty, !.lease = lease]
        BY <1>1, <2>2 DEF Collected, Typed, WsType, LeaseType
      <3>2. operation \in OperationType
        BY <1>1 DEF Typed, WsType, OperationType
      <3>3. recognition \in RecognitionType
        BY <1>1 DEF Typed, WsType, LeaseType, RecognitionType
      <3>4. lease \in LeaseType
        BY <1>1, <3>3 DEF Typed, WsType, LeaseType
      <3>5. dirty \in BOOLEAN
        BY <1>1 DEF Typed, WsType, Reconcile
      <3> HIDE DEF operation, lease, dirty
      <3> QED
        BY <1>1, <3>1, <3>2, <3>4, <3>5 DEF Typed, WsType
    <2> QED
      BY <2>1, <2>2
  <1>3. CollectedStop \in StopType
    BY <1>1, Zero DEF CollectedStop, Typed, StopType
  <1>4. CollectedSeen \in SeenType
    <2>1. ws.operation.run \in Run
      BY <1>1 DEF Typed, WsType, OperationType
    <2> QED
      BY <1>1, <2>1 DEF CollectedSeen, Typed, SeenType
  <1> QED
    BY <1>1, <1>2, <1>3, <1>4 DEF Typed

-----------------------------------------------------------------------------
(* What the steps with several outcomes do, and what a command remembers.  *)

Accepted(c, kind) ==
    /\ pc[c] = "admitted" /\ call[c].kind = kind /\ WorkspacesFree
    /\ SetupIdle /\ PackageIdle /\ setup' = Reaped
Collects == ws' = Collected /\ stop' = CollectedStop /\ seen' = CollectedSeen
Remembers(c) ==
    /\ call' \in [Callers -> CallType]
    /\ \A d \in Callers \ {c} : call'[d] = call[d]
    /\ call'[c].kind = call[c].kind

LeaseOnly(w) ==
    /\ ws' \in WsType /\ ws'.operation = w.operation
    /\ ws'.picker = w.picker /\ ws'.dirty = w.dirty

(* Replacing one part of a record leaves the others alone.                 *)
LEMMA WithLease ==
    ASSUME NEW w \in WsType, NEW l \in LeaseType
    PROVE  LET v == [w EXCEPT !.lease = l] IN
           /\ v \in WsType /\ v.lease = l /\ v.operation = w.operation
           /\ v.picker = w.picker /\ v.dirty = w.dirty
           /\ v.sessions = w.sessions /\ v.sources = w.sources
  BY DEF WsType

(* A caller that goes on changes what its own call remembers.              *)
LEMMA Remembered ==
    ASSUME TypeOK, NEW c \in Callers, NEW r \in CallType, call' = [call EXCEPT ![c] = r],
           r.kind = call[c].kind
    PROVE  Remembers(c) /\ call'[c] = r
  BY DEF TypeOK, Remembers

-----------------------------------------------------------------------------
(* What each action does, field by field: the lemma is named for the action. *)
(* The proofs below cite these lemmas and leave the records alone.         *)

LEMMA EditDoes ==
    ASSUME TypeOK, NEW c \in Callers, NEW kind \in Edits, Edit(c, kind)
    PROVE  /\ Accepted(c, kind) /\ Collects /\ Goto(c, "editing") /\ Remembers(c)
           /\ Collected.lease.owner # 0 /\ WorkIdle(Collected)
           /\ ws.sources < MaxRevision /\ (kind = "duplicate" => ws.sessions < MaxSessions)
           /\ call'[c].owner = ws.lease.owner /\ call'[c].revision = ws.lease.revision
           /\ UNCHANGED <<commands, closing, runner, package, shut>>
  <1> DEFINE r == [call[c] EXCEPT !.owner = ws.lease.owner, !.revision = ws.lease.revision]
  <1>1. call' = [call EXCEPT ![c] = r]
    BY DEF Edit, TypeOK, CallType
  <1>2. r \in CallType /\ r.kind = call[c].kind
    BY DEF TypeOK, CallType, WsType, LeaseType
  <1>3. r.owner = ws.lease.owner /\ r.revision = ws.lease.revision
    BY DEF TypeOK, CallType
  <1> HIDE DEF r
  <1>4. Remembers(c) /\ call'[c] = r
    BY <1>1, <1>2, Remembered
  <1> QED
    BY <1>3, <1>4 DEF Edit, Commands, Admitted, Accepted, Collects, SessionsLeft

LEMMA TakeStopDoes ==
    ASSUME TypeOK, NEW c \in Callers, NEW kind \in LeaseRuns, TakeStop(c, kind)
    PROVE  /\ Accepted(c, kind) /\ Collects /\ Goto(c, "starting") /\ Remembers(c)
           /\ Collected.lease.owner # 0 /\ WorkIdle(Collected)
           /\ runner.run < MaxRuns /\ call'[c].run = runner.run + 1
           /\ call'[c].owner = ws.lease.owner
           /\ call'[c].native => ~Collected.dirty
           /\ UNCHANGED <<commands, closing, runner, package, shut>>
  <1>1. PICK native \in BOOLEAN :
          /\ native => ~Collected.dirty
          /\ call' = [call EXCEPT ![c].owner = ws.lease.owner, ![c].revision = ws.lease.revision,
                                  ![c].native = native, ![c].run = runner.run + 1]
    BY DEF TakeStop, NativeReady
  <1> DEFINE r == [call[c] EXCEPT !.owner = ws.lease.owner, !.revision = ws.lease.revision,
                                  !.native = native, !.run = runner.run + 1]
  <1>2. call' = [call EXCEPT ![c] = r]
    BY <1>1 DEF TypeOK, CallType
  <1>3. runner.run + 1 \in Run
    BY BoundsAssumption DEF TakeStop, TypeOK, RunnerType, Run
  <1>4. r \in CallType /\ r.kind = call[c].kind
    BY <1>3 DEF TypeOK, CallType, WsType, LeaseType
  <1>5. r.owner = ws.lease.owner /\ r.native = native /\ r.run = runner.run + 1
    BY DEF TypeOK, CallType
  <1> HIDE DEF r
  <1>6. Remembers(c) /\ call'[c] = r
    BY <1>2, <1>4, Remembered
  <1> QED
    BY <1>1, <1>5, <1>6
    DEF TakeStop, Commands, Admitted, Accepted, Collects, Current

LEMMA DiscoverDoes ==
    ASSUME TypeOK, NEW c \in Callers, Discover(c)
    PROVE  /\ Accepted(c, "discover") /\ Goto(c, "discovering") /\ Remembers(c)
           /\ Collected.lease.owner # 0 /\ WorkIdle(Collected)
           /\ LeaseOnly(Collected) /\ ws'.lease.owner = ws.lease.owner /\ ws'.lease.discovery
           /\ ws'.lease.revision = ws.lease.revision /\ ws'.lease.recovery = ws.lease.recovery
           /\ ws'.lease.recognition = Collected.lease.recognition
           /\ ws'.lease.contained = Collected.lease.contained
           /\ stop' \in StopType /\ stop'.owner = CollectedStop.owner
           /\ stop'.run = CollectedStop.run /\ stop'.context.by = c
           /\ seen' = CollectedSeen /\ commands' = NONE
           /\ call'[c].owner = ws.lease.owner /\ call'[c].revision = ws.lease.revision
           /\ call'[c].recovery = ws.lease.recovery
           /\ UNCHANGED <<closing, runner, package, shut>>
  <1> DEFINE r == [call[c] EXCEPT !.owner = ws.lease.owner, !.revision = ws.lease.revision,
                                  !.recovery = ws.lease.recovery]
             l == [Collected.lease EXCEPT !.discovery = TRUE]
  <1>1. call' = [call EXCEPT ![c] = r]
    BY DEF Discover, TypeOK, CallType
  <1>2. r \in CallType /\ r.kind = call[c].kind
    BY DEF TypeOK, CallType, WsType, LeaseType
  <1>3. r.owner = ws.lease.owner /\ r.revision = ws.lease.revision /\ r.recovery = ws.lease.recovery
    BY DEF TypeOK, CallType
  <1>4. Collected \in WsType /\ Collected.lease \in LeaseType /\ CollectedStop \in StopType
    BY CollectedTyped DEF Typed, WsType
  <1>5. ws' = [Collected EXCEPT !.lease = l]
    BY <1>4 DEF Discover, WsType, LeaseType
  <1>6. /\ l \in LeaseType /\ l.owner = Collected.lease.owner /\ l.discovery
        /\ l.revision = Collected.lease.revision /\ l.recovery = Collected.lease.recovery
        /\ l.recognition = Collected.lease.recognition /\ l.contained = Collected.lease.contained
    BY <1>4 DEF LeaseType
  <1>7. /\ Collected.lease.owner = ws.lease.owner /\ Collected.lease.revision = ws.lease.revision
        /\ Collected.lease.recovery = ws.lease.recovery
    BY CollectedIs
  <1>8. /\ stop' \in StopType /\ stop'.owner = CollectedStop.owner
        /\ stop'.run = CollectedStop.run /\ stop'.context.by = c
    BY <1>4 DEF Discover, StopType, ContextType
  <1> HIDE DEF r, l
  <1>9. LeaseOnly(Collected) /\ ws'.lease = l
    BY <1>4, <1>5, <1>6, WithLease DEF LeaseOnly
  <1>10. Remembers(c) /\ call'[c] = r
    BY <1>1, <1>2, Remembered
  <1>11. /\ Accepted(c, "discover") /\ Goto(c, "discovering") /\ seen' = CollectedSeen
         /\ Collected.lease.owner # 0 /\ WorkIdle(Collected) /\ commands' = NONE
         /\ UNCHANGED <<closing, runner, package, shut>>
    BY DEF Discover, Commands, Admitted, Accepted, Current
  <1> QED
    BY <1>3, <1>6, <1>7, <1>8, <1>9, <1>10, <1>11

LEMMA PrepareDoes ==
    ASSUME TypeOK, NEW c \in Callers, NEW kind \in {"import", "export"}, Prepare(c, kind)
    PROVE  /\ Accepted(c, kind) /\ Collects /\ Goto(c, "preparing") /\ Remembers(c)
           /\ ImportIdle(Collected) \/ (Collected.lease.owner # 0 /\ WorkIdle(Collected))
           /\ package.next < MaxTokens
           /\ package' \in PackageType /\ package'.contained = package.contained
           /\ package'.active = Attempt(c, package.next + 1) /\ package'.review = NoReview
           /\ package'.next = package.next + 1
           /\ call'[c].token = package.next + 1
           /\ UNCHANGED <<commands, closing, runner, shut>>
  <1> DEFINE r == [call[c] EXCEPT !.token = package.next + 1, !.owner = ws.lease.owner,
                                  !.revision = ws.lease.revision]
  <1>1. call' = [call EXCEPT ![c] = r]
    BY DEF Prepare, TypeOK, CallType
  <1>2. package.next + 1 \in Token
    BY BoundsAssumption DEF Prepare, TypeOK, PackageType, Token
  <1>3. r \in CallType /\ r.kind = call[c].kind
    BY <1>2 DEF TypeOK, CallType, WsType, LeaseType
  <1>4. r.token = package.next + 1
    BY DEF TypeOK, CallType
  <1>6. /\ package' \in PackageType /\ package'.contained = package.contained
        /\ package'.active = Attempt(c, package.next + 1) /\ package'.review = NoReview
        /\ package'.next = package.next + 1
    <2>1. Attempt(c, package.next + 1) \in AttemptType /\ NoReview \in ReviewType
      BY <1>2, Zero DEF Attempt, AttemptType, NoReview, ReviewType
    <2>2. package' = [package EXCEPT !.active = Attempt(c, package.next + 1),
                                     !.next = package.next + 1, !.review = NoReview]
      BY DEF Prepare
    <2> QED
      BY <1>2, <2>1, <2>2 DEF TypeOK, PackageType
  <1> HIDE DEF r
  <1>5. Remembers(c) /\ call'[c] = r
    BY <1>1, <1>3, Remembered
  <1> QED
    BY <1>4, <1>5, <1>6 DEF Prepare, Commands, Admitted, Accepted, Collects, Current

LEMMA TakeReviewDoes ==
    ASSUME TypeOK, NEW c \in Callers, TakeReview(c)
    PROVE  /\ Accepted(c, "publish") /\ Collects
           /\ package.review.token # 0 /\ package'.review = NoReview
           /\ package' \in PackageType /\ package'.active = package.active
           /\ package'.contained = package.contained /\ package'.next = package.next
           /\ \/ package.review.owner = 0 /\ ImportIdle(Collected)
              \/ /\ package.review.owner # 0 /\ WorkIdle(Collected)
                 /\ Collected.lease.owner = package.review.owner
           /\ \/ Leave(c)
              \/ /\ ReviewFits(Collected)
                 /\ Goto(c, "taken") /\ Remembers(c) /\ commands' = commands
                 /\ call'[c].token = package.review.token
                 /\ call'[c].owner = package.review.owner
                 /\ call'[c].revision = package.review.revision
           /\ UNCHANGED <<closing, runner, shut>>
  <1> DEFINE r == [call[c] EXCEPT !.token = package.review.token, !.owner = package.review.owner,
                                  !.revision = package.review.revision]
  <1>1. r \in CallType /\ r.kind = call[c].kind
    BY DEF TypeOK, CallType, PackageType, ReviewType
  <1>2. /\ r.token = package.review.token /\ r.owner = package.review.owner
        /\ r.revision = package.review.revision
    BY DEF TypeOK, CallType
  <1>5. /\ package'.review = NoReview /\ package' \in PackageType
        /\ package'.active = package.active /\ package'.contained = package.contained
        /\ package'.next = package.next
    <2>1. NoReview \in ReviewType
      BY Zero DEF NoReview, ReviewType
    <2>2. package' = [package EXCEPT !.review = NoReview]
      BY DEF TakeReview
    <2> QED
      BY <2>1, <2>2 DEF TypeOK, PackageType
  <1>3. CASE ~ReviewFits(Collected)
    BY <1>3, <1>5 DEF TakeReview, Commands, Admitted, Accepted, Collects, Current
  <1>4. CASE ReviewFits(Collected)
    <2>1. call' = [call EXCEPT ![c] = r]
      BY <1>4 DEF TakeReview, TypeOK, CallType
    <2> HIDE DEF r
    <2>2. Remembers(c) /\ call'[c] = r
      BY <1>1, <2>1, Remembered
    <2> QED
      BY <1>2, <1>4, <1>5, <2>2 DEF TakeReview, Commands, Admitted, Accepted, Collects, Current
  <1> QED
    BY <1>3, <1>4

LEMMA DiscoveredDoes ==
    ASSUME TypeOK, NEW c \in Callers, Discovered(c), ws.lease.owner # 0
    PROVE  /\ pc[c] = "discovering" /\ WorkspacesFree /\ Goto(c, "discovered") /\ Remembers(c)
           /\ LeaseOnly(ws) /\ ws'.lease.owner = ws.lease.owner
           /\ ws'.lease.revision = ws.lease.revision
           /\ ws'.lease.recovery \in {0, call[c].recovery, call[c].revision}
           /\ ws'.lease.discovery = ws.lease.discovery
           /\ ws'.lease.recognition = ws.lease.recognition
           /\ ws'.lease.contained = ws.lease.contained
           /\ call'[c].owner = call[c].owner /\ call'[c].revision = call[c].revision
           /\ call'[c].recovery = 0
           /\ UNCHANGED <<commands, closing, stop, runner, setup, package, shut, seen>>
  <1> DEFINE r == [call[c] EXCEPT !.recovery = 0]
  <1>1. call' = [call EXCEPT ![c] = r]
    BY DEF Discovered, TypeOK, CallType
  <1>2. r \in CallType /\ r.kind = call[c].kind
    BY Zero DEF TypeOK, CallType
  <1>3. r.owner = call[c].owner /\ r.revision = call[c].revision /\ r.recovery = 0
    BY DEF TypeOK, CallType
  <1>4. PICK recovery \in {0, call[c].recovery, call[c].revision} :
           ws' = [ws EXCEPT !.lease.recovery = recovery]
    BY DEF Discovered
  <1> DEFINE l == [ws.lease EXCEPT !.recovery = recovery]
  <1>5. ws \in WsType /\ ws.lease \in LeaseType /\ recovery \in Revision
    BY Zero DEF TypeOK, WsType, CallType
  <1>6. ws' = [ws EXCEPT !.lease = l]
    BY <1>4, <1>5 DEF WsType, LeaseType
  <1>7. /\ l \in LeaseType /\ l.owner = ws.lease.owner /\ l.revision = ws.lease.revision
        /\ l.recovery = recovery /\ l.discovery = ws.lease.discovery
        /\ l.recognition = ws.lease.recognition /\ l.contained = ws.lease.contained
    BY <1>5 DEF LeaseType
  <1> HIDE DEF r, l
  <1>8. LeaseOnly(ws) /\ ws'.lease = l
    BY <1>5, <1>6, <1>7, WithLease DEF LeaseOnly
  <1>9. Remembers(c) /\ call'[c] = r
    BY <1>1, <1>2, Remembered
  <1> QED
    BY <1>3, <1>7, <1>8, <1>9 DEF Discovered

LEMMA DropDiscoveryDoes ==
    ASSUME TypeOK, NEW c \in Callers, DropDiscovery(c)
    PROVE  /\ Discovers(c) /\ WorkspacesFree /\ Goto(c, "forgetting") /\ Remembers(c)
           /\ \/ ws' = ws /\ ws.lease.owner # call[c].owner
              \/ /\ LeaseOnly(ws) /\ ws'.lease.owner = ws.lease.owner
                 /\ ws'.lease.revision = ws.lease.revision
                 /\ ws'.lease.recovery = ws.lease.recovery /\ ~ws'.lease.discovery
                 /\ ws'.lease.recognition = ws.lease.recognition
                 /\ ws'.lease.contained = ws.lease.contained
           /\ UNCHANGED <<commands, closing, stop, runner, setup, package, shut, seen>>
  <1> DEFINE r == [call[c] EXCEPT !.recovery = 0]
             l == [ws.lease EXCEPT !.discovery = FALSE]
  <1>1. call' = [call EXCEPT ![c] = r]
    BY DEF DropDiscovery, TypeOK, CallType
  <1>2. r \in CallType /\ r.kind = call[c].kind
    BY Zero DEF TypeOK, CallType
  <1>3. ws \in WsType /\ ws.lease \in LeaseType
    BY DEF TypeOK, WsType
  <1>4. \/ ws' = ws /\ ws.lease.owner # call[c].owner
        \/ ws' = [ws EXCEPT !.lease = l]
    BY <1>3 DEF DropDiscovery, WsType, LeaseType
  <1>5. /\ l \in LeaseType /\ l.owner = ws.lease.owner /\ l.revision = ws.lease.revision
        /\ l.recovery = ws.lease.recovery /\ ~l.discovery
        /\ l.recognition = ws.lease.recognition /\ l.contained = ws.lease.contained
    BY <1>3 DEF LeaseType
  <1> HIDE DEF r, l
  <1>6. ASSUME ws' = [ws EXCEPT !.lease = l]
        PROVE  LeaseOnly(ws) /\ ws'.lease = l
    BY <1>3, <1>5, <1>6, WithLease DEF LeaseOnly
  <1>7. Remembers(c)
    BY <1>1, <1>2, Remembered
  <1>8. /\ Discovers(c) /\ WorkspacesFree /\ Goto(c, "forgetting")
        /\ UNCHANGED <<commands, closing, stop, runner, setup, package, shut, seen>>
    BY DEF DropDiscovery, Discovers
  <1> QED
    BY <1>4, <1>5, <1>6, <1>7, <1>8

LEMMA EditedDoes ==
    ASSUME TypeOK, NEW c \in Callers, Edited(c), ws.lease.owner # 0, ws.sources < MaxRevision,
           call[c].kind = "duplicate" => ws.sessions < MaxSessions
    PROVE  /\ pc[c] = "editing" /\ WorkspacesFree /\ Leave(c)
           /\ ws' \in WsType /\ stop' \in StopType
           /\ ws'.operation = ws.operation /\ ws'.picker = ws.picker /\ ws'.dirty = ws.dirty
           /\ ws'.lease.contained = ws.lease.contained
           /\ ws'.lease.discovery = ws.lease.discovery /\ ws'.lease.recovery = 0
           /\ \/ /\ stop' = stop /\ ws'.lease.owner = ws.lease.owner
                 /\ ws'.lease.recognition = ws.lease.recognition
              \/ /\ stop'.owner = ws.sessions + 1 /\ ws'.lease.owner = ws.sessions + 1
                 /\ ws'.lease.recognition = NoRecognition
           /\ UNCHANGED <<closing, runner, setup, package, shut, seen>>
  <1> DEFINE source == ws.sources + 1
             next == ws.sessions + 1
             saved(candidate) == [ws EXCEPT !.sources = source, !.lease.revision = source,
                                            !.lease.candidate = candidate, !.lease.recovery = 0]
  <1>1. source \in Revision /\ Typed(ws, stop, seen) /\ 0 \in Revision
    BY CollectedTyped, Zero, BoundsAssumption DEF TypeOK, WsType, Revision
  <1>2. ASSUME NEW candidate \in Revision
        PROVE  LET w == saved(candidate) IN
               /\ w \in WsType /\ w.operation = ws.operation /\ w.picker = ws.picker
               /\ w.dirty = ws.dirty /\ w.sessions = ws.sessions /\ w.lease.recovery = 0
               /\ w.lease.contained = ws.lease.contained /\ w.lease.owner = ws.lease.owner
               /\ w.lease.discovery = ws.lease.discovery
               /\ w.lease.recognition = ws.lease.recognition
    <2> DEFINE l == [ws.lease EXCEPT !.revision = source, !.candidate = candidate, !.recovery = 0]
    <2>1. saved(candidate) = [ws EXCEPT !.sources = source, !.lease = l]
      BY <1>1 DEF Typed, WsType, LeaseType
    <2>2. /\ l \in LeaseType /\ l.contained = ws.lease.contained /\ l.owner = ws.lease.owner
          /\ l.discovery = ws.lease.discovery /\ l.recognition = ws.lease.recognition
          /\ l.recovery = 0
      BY <1>1 DEF Typed, WsType, LeaseType
    <2> HIDE DEF l
    <2> QED
      BY <1>1, <2>1, <2>2 DEF Typed, WsType
  <1>3. /\ pc[c] = "editing" /\ WorkspacesFree /\ Leave(c)
        /\ \/ /\ call[c].kind = "save" /\ UNCHANGED stop
              /\ \E candidate \in {source, ws.lease.candidate} : ws' = saved(candidate)
           \/ /\ call[c].kind = "refresh" /\ UNCHANGED stop
              /\ ws' \in {saved(source), [ws EXCEPT !.lease.candidate = ws.lease.revision,
                                                    !.lease.recovery = 0]}
           \/ /\ call[c].kind = "duplicate"
              /\ ws' = [saved(source) EXCEPT !.sessions = next, !.lease.owner = next,
                                             !.lease.recognition = NoRecognition]
              /\ stop' = [NoStop EXCEPT !.owner = next]
        /\ UNCHANGED <<closing, runner, setup, package, shut, seen>>
    BY DEF Edited
  <1> HIDE DEF saved
  <1>4. CASE UNCHANGED stop /\ \E candidate \in {source, ws.lease.candidate} : ws' = saved(candidate)
    BY <1>1, <1>2, <1>3, <1>4 DEF Typed, WsType, LeaseType
  <1>5. CASE /\ UNCHANGED stop
             /\ ws' = [ws EXCEPT !.lease.candidate = ws.lease.revision, !.lease.recovery = 0]
    <2> DEFINE l == [ws.lease EXCEPT !.candidate = ws.lease.revision, !.recovery = 0]
    <2>1. ws' = [ws EXCEPT !.lease = l]
      BY <1>1, <1>5 DEF Typed, WsType, LeaseType
    <2>2. /\ l \in LeaseType /\ l.contained = ws.lease.contained /\ l.owner = ws.lease.owner
          /\ l.discovery = ws.lease.discovery /\ l.recognition = ws.lease.recognition
          /\ l.recovery = 0
      BY <1>1 DEF Typed, WsType, LeaseType
    <2> HIDE DEF l
    <2> QED
      BY <1>1, <1>3, <1>5, <2>1, <2>2 DEF Typed, WsType
  <1>6. CASE /\ call[c].kind = "duplicate"
             /\ ws' = [saved(source) EXCEPT !.sessions = next, !.lease.owner = next,
                                            !.lease.recognition = NoRecognition]
             /\ stop' = [NoStop EXCEPT !.owner = next]
    <2> DEFINE w == saved(source)
               l == [w.lease EXCEPT !.owner = next, !.recognition = NoRecognition]
    <2>1. w \in WsType
      BY <1>1, <1>2
    <2>2. next \in Owner /\ NoRecognition \in RecognitionType
      BY <1>1, <1>6, Zero, BoundsAssumption
      DEF Typed, WsType, Owner, NoRecognition, RecognitionType
    <2>3. ws' = [w EXCEPT !.sessions = next, !.lease = l]
      BY <1>6, <2>1 DEF WsType, LeaseType
    <2>4. /\ l \in LeaseType /\ l.contained = ws.lease.contained /\ l.owner = next
          /\ l.discovery = ws.lease.discovery /\ l.recognition = NoRecognition /\ l.recovery = 0
      BY <1>1, <1>2, <2>1, <2>2 DEF WsType, LeaseType
    <2>5. stop' \in StopType /\ stop'.owner = next
      BY <1>6, <2>2, Zero DEF NoStop, NoContext, StopType, ContextType
    <2>6. w.operation = ws.operation /\ w.picker = ws.picker /\ w.dirty = ws.dirty
      BY <1>1, <1>2
    <2> HIDE DEF l, w
    <2>7. /\ ws' \in WsType /\ ws'.operation = ws.operation /\ ws'.picker = ws.picker
          /\ ws'.dirty = ws.dirty /\ ws'.lease = l
      BY <2>1, <2>2, <2>3, <2>4, <2>6 DEF WsType
    <2> QED
      BY <1>3, <1>6, <2>4, <2>5, <2>7
  <1> QED
    BY <1>1, <1>3, <1>4, <1>5, <1>6

BeginsRun(owner, native) ==
    /\ ~runner.closed /\ runner.state # "running" /\ runner' \in RunnerType
    /\ runner'.run = runner.run + 1 /\ runner'.state = "running" /\ ~runner'.stopped
    /\ runner'.closed = runner.closed /\ runner'.owner = owner /\ runner'.native = native

LEMMA StartsDoes ==
    ASSUME TypeOK, NEW owner \in Owner, NEW native \in BOOLEAN, Starts(owner, native)
    PROVE  BeginsRun(owner, native)
  <1>1. runner.run + 1 \in Run
    BY BoundsAssumption DEF Starts, TypeOK, RunnerType, Run
  <1> QED
    BY <1>1 DEF Starts, TypeOK, RunnerType, BeginsRun

LEMMA WithOperation ==
    ASSUME NEW w \in WsType, NEW o \in OperationType
    PROVE  LET v == [w EXCEPT !.operation = o] IN
           /\ v \in WsType /\ v.lease = w.lease /\ v.operation = o
           /\ v.picker = w.picker /\ v.dirty = w.dirty
           /\ v.sessions = w.sessions /\ v.sources = w.sources
  BY DEF WsType

LEMMA NoLeaseIs ==
    /\ NoRecognition \in RecognitionType /\ NoLease \in LeaseType /\ NoStop \in StopType
    /\ NoContext \in ContextType /\ NoCall \in CallType /\ NoOperation \in OperationType
    /\ NoLease.owner = 0 /\ NoLease.recovery = 0 /\ NoLease.revision = 0
    /\ NoLease.recognition = NoRecognition /\ ~NoLease.contained /\ ~NoLease.discovery
    /\ NoRecognition.run = 0 /\ ~NoRecognition.settled
    /\ NoStop.owner = 0 /\ NoStop.run = 0 /\ NoStop.context = NoContext
  BY Zero
  DEF NoRecognition, RecognitionType, NoLease, LeaseType, NoStop, StopType, NoContext, ContextType,
      NoCall, CallType, NoOperation, OperationType, AllKinds, LeaseRuns

(* The start of an ordinary run. *)
Begun(c, kind, native) ==
    /\ Accepted(c, kind) /\ Idle(Collected) /\ (native => ~Collected.dirty)
    /\ BeginsRun(0, native) /\ Leave(c)
    /\ ws' \in WsType /\ ws'.lease = Collected.lease /\ ws'.picker = Collected.picker
    /\ ws'.dirty = Collected.dirty /\ ws'.operation = Operation(kind, native, 0)
    /\ ws'.operation.run = runner.run + 1 /\ ws'.operation.kind = kind
    /\ ws'.operation.native = native /\ ws'.operation.lease = 0
    /\ ~ws'.operation.terminal
    /\ stop' = CollectedStop /\ seen' = CollectedSeen
    /\ UNCHANGED <<closing, package, shut>>

LEMMA BeginRunDoes ==
    ASSUME TypeOK, NEW c \in Callers, NEW kind \in {"start", "check"}, NEW native \in BOOLEAN,
           BeginRun(c, kind, native)
    PROVE  Begun(c, kind, native)
  <1>1. /\ Accepted(c, kind) /\ Idle(Collected) /\ (native => ~Collected.dirty)
        /\ Starts(0, native) /\ Leave(c) /\ runner.run < MaxRuns
        /\ ws' = [Collected EXCEPT !.operation = Operation(kind, native, 0)]
        /\ stop' = CollectedStop /\ seen' = CollectedSeen
        /\ UNCHANGED <<closing, package, shut>>
    BY DEF BeginRun, Commands, Admitted, Accepted, NativeReady, Starts
  <1>2. Operation(kind, native, 0) \in OperationType
    BY <1>1, Zero, BoundsAssumption DEF Operation, OperationType, TypeOK, RunnerType, Run
  <1>3. Collected \in WsType
    BY CollectedTyped DEF Typed
  <1>4. BeginsRun(0, native)
    BY <1>1, StartsDoes, Zero
  <1> DEFINE o == Operation(kind, native, 0)
  <1>5. o.run = runner.run + 1 /\ o.kind = kind /\ o.native = native /\ o.lease = 0 /\ ~o.terminal
    BY DEF Operation
  <1> HIDE DEF o
  <1> QED
    BY <1>1, <1>2, <1>3, <1>4, <1>5, WithOperation DEF o, Begun

LEMMA StartDoes ==
    ASSUME TypeOK, NEW c \in Callers, Start(c) \/ CheckEnvironment(c)
    PROVE  \E kind \in {"start", "check"}, native \in BOOLEAN : Begun(c, kind, native)
  <1>1. CASE Start(c)
    BY <1>1, BeginRunDoes DEF Start
  <1>2. CASE CheckEnvironment(c)
    <2>1. BeginRun(c, "check", FALSE)
      BY <1>2 DEF CheckEnvironment
    <2>2. Begun(c, "check", FALSE)
      BY <2>1, BeginRunDoes
    <2> QED
      BY <2>2
  <1> QED
    BY <1>1, <1>2

LEMMA OpenedDoes ==
    ASSUME TypeOK, NEW c \in Callers, Opened(c), ws.sessions < MaxSessions, ws.sources < MaxRevision
    PROVE  /\ pc[c] = "opening" /\ WorkspacesFree /\ Leave(c)
           /\ ws' \in WsType /\ ws'.operation = ws.operation /\ ws'.picker = ws.picker
           /\ ws'.dirty = ws.dirty /\ ws'.lease.owner = ws.sessions + 1
           /\ ~ws'.lease.contained /\ ~ws'.lease.discovery /\ ws'.lease.recovery = 0
           /\ ws'.lease.recognition = NoRecognition
           /\ stop' \in StopType /\ stop'.owner = ws.sessions + 1
           /\ UNCHANGED <<closing, runner, setup, package, shut, seen>>
  <1> DEFINE owner == ws.sessions + 1
             source == ws.sources + 1
             l == [NoLease EXCEPT !.owner = owner, !.revision = source, !.candidate = source]
  <1>1. owner \in Owner /\ source \in Revision
    BY BoundsAssumption DEF TypeOK, WsType, Owner, Revision
  <1>2. l \in LeaseType /\ l.owner = owner /\ ~l.contained /\ ~l.discovery /\ l.recovery = 0
        /\ l.recognition = NoRecognition
    BY <1>1, NoLeaseIs DEF NoLease, LeaseType
  <1>3. /\ pc[c] = "opening" /\ WorkspacesFree /\ Leave(c)
        /\ ws' = [ws EXCEPT !.sessions = owner, !.sources = source, !.lease = l]
        /\ stop' = [NoStop EXCEPT !.owner = owner]
        /\ UNCHANGED <<closing, runner, setup, package, shut, seen>>
    BY DEF Opened
  <1>4. stop' \in StopType /\ stop'.owner = owner
    BY <1>1, <1>3, NoLeaseIs DEF NoStop, StopType
  <1> HIDE DEF l, owner, source
  <1>5. /\ ws' \in WsType /\ ws'.operation = ws.operation /\ ws'.picker = ws.picker
        /\ ws'.dirty = ws.dirty /\ ws'.lease = l
    BY <1>1, <1>2, <1>3 DEF TypeOK, WsType
  <1> QED
    BY <1>2, <1>3, <1>4, <1>5 DEF owner

LEMMA ExitDoes ==
    ASSUME TypeOK, NEW c \in Callers, Exit(c)
    PROVE  /\ Accepted(c, "exit") /\ WorkIdle(Collected) /\ Leave(c)
           /\ ws' \in WsType /\ ws'.operation = Collected.operation
           /\ ws'.picker = Collected.picker /\ ws'.dirty = Collected.dirty
           /\ ws'.lease = NoLease /\ stop' = NoStop /\ seen' = CollectedSeen
           /\ UNCHANGED <<closing, runner, package, shut>>
  <1>1. Collected \in WsType
    BY CollectedTyped DEF Typed
  <1> QED
    BY <1>1, NoLeaseIs, WithLease
    DEF Exit, Commands, Admitted, Accepted, MayExit

LEMMA StartLeaseRunDoes ==
    ASSUME TypeOK, NEW c \in Callers, StartLeaseRun(c)
    PROVE  /\ pc[c] = "starting"
           /\ \/ /\ BeginsRun(call[c].owner, call[c].native) /\ Goto(c, "recording")
                 /\ UNCHANGED <<commands, call>>
              \/ runner.closed /\ Leave(c) /\ UNCHANGED runner
           /\ UNCHANGED <<closing, ws, stop, setup, package, shut, seen>>
  <1>1. call[c].owner \in Owner /\ call[c].native \in BOOLEAN
    BY DEF TypeOK, CallType
  <1> QED
    BY <1>1, StartsDoes DEF StartLeaseRun

LEMMA RecordRunDoes ==
    ASSUME TypeOK, NEW c \in Callers, RecordRun(c), stop.owner # 0, call[c].kind \in LeaseRuns
    PROVE  /\ pc[c] = "recording"
           /\ ws' \in WsType /\ ws'.picker = ws.picker /\ ws'.dirty = ws.dirty
           /\ ws'.operation.run = call[c].run /\ ws'.operation.kind = call[c].kind
           /\ ws'.operation.native = call[c].native /\ ws'.operation.lease = call[c].owner
           /\ ~ws'.operation.terminal
           /\ ws'.lease.owner = ws.lease.owner /\ ws'.lease.revision = ws.lease.revision
           /\ ws'.lease.contained = ws.lease.contained
           /\ ws'.lease.discovery = ws.lease.discovery /\ ws'.lease.recovery = ws.lease.recovery
           /\ \/ ws'.lease.recognition = ws.lease.recognition
              \/ ws'.lease.recognition.run = call[c].run /\ ~ws'.lease.recognition.settled
           /\ stop' \in StopType /\ stop'.owner = stop.owner /\ stop'.run = call[c].run
           /\ stop'.context = stop.context
           /\ \/ call[c].kind = "trial" /\ Leave(c)
              \/ /\ call[c].kind = "validate" /\ Goto(c, "waiting") /\ UNCHANGED <<commands, call>>
              \/ /\ call[c].kind = "recognize" /\ Goto(c, "waiting") /\ commands' = NONE
                 /\ UNCHANGED call
           /\ UNCHANGED <<closing, runner, setup, package, shut, seen>>
  <1> DEFINE kind == call[c].kind
             o == [run |-> call[c].run, kind |-> kind, native |-> call[c].native,
                   lease |-> call[c].owner, terminal |-> FALSE]
             r == IF kind = "recognize" THEN [NoRecognition EXCEPT !.run = call[c].run]
                  ELSE ws.lease.recognition
             l == [ws.lease EXCEPT !.recognition = r]
  <1>1. /\ pc[c] = "recording"
        /\ stop' = [stop EXCEPT !.run = call[c].run]
        /\ ws' = [ws EXCEPT !.operation = o, !.lease.recognition =
                     IF kind = "recognize" THEN [NoRecognition EXCEPT !.run = call[c].run] ELSE @]
        /\ \/ kind = "trial" /\ Leave(c)
           \/ kind = "validate" /\ Goto(c, "waiting") /\ UNCHANGED <<commands, call>>
           \/ kind = "recognize" /\ Goto(c, "waiting") /\ commands' = NONE /\ UNCHANGED call
        /\ UNCHANGED <<closing, runner, setup, package, shut, seen>>
    BY DEF RecordRun
  <1>2. call[c] \in CallType /\ ws \in WsType /\ ws.lease \in LeaseType /\ stop \in StopType
    BY DEF TypeOK, WsType
  <1>3. ws' = [ws EXCEPT !.operation = o, !.lease = l]
    BY <1>1, <1>2 DEF WsType, LeaseType
  <1>4. o \in OperationType
    BY <1>2 DEF OperationType, CallType
  <1>5. r \in RecognitionType /\ (r = ws.lease.recognition \/ (r.run = call[c].run /\ ~r.settled))
    BY <1>2, NoLeaseIs DEF NoRecognition, RecognitionType, CallType, LeaseType
  <1> HIDE DEF r
  <1>6. /\ l \in LeaseType /\ l.owner = ws.lease.owner /\ l.revision = ws.lease.revision
        /\ l.contained = ws.lease.contained /\ l.discovery = ws.lease.discovery
        /\ l.recovery = ws.lease.recovery /\ l.recognition = r
    BY <1>2, <1>5 DEF LeaseType
  <1> HIDE DEF l
  <1>7. /\ ws' \in WsType /\ ws'.operation = o /\ ws'.lease = l
        /\ ws'.picker = ws.picker /\ ws'.dirty = ws.dirty
    BY <1>2, <1>3, <1>4, <1>6 DEF WsType
  <1>8. /\ stop' \in StopType /\ stop'.owner = stop.owner /\ stop'.run = call[c].run
        /\ stop'.context = stop.context
    BY <1>1, <1>2 DEF StopType, CallType
  <1> QED
    BY <1>1, <1>5, <1>6, <1>7, <1>8

LEMMA ValidatedDoes ==
    ASSUME TypeOK, NEW c \in Callers, Validated(c), stop.owner # 0, ws.lease.owner # 0
    PROVE  /\ Waits(c, "validate") /\ WorkspacesFree /\ Collected.operation.terminal /\ Leave(c)
           /\ ws' \in WsType /\ ws'.operation = Collected.operation
           /\ ws'.picker = Collected.picker /\ ws'.dirty = Collected.dirty
           /\ ws'.lease.owner = ws.lease.owner /\ ws'.lease.revision = ws.lease.revision
           /\ ws'.lease.contained <=> runner.outcome = "lost"
           /\ ws'.lease.discovery = Collected.lease.discovery
           /\ ws'.lease.recovery = ws.lease.recovery
           /\ ws'.lease.recognition = Collected.lease.recognition
           /\ stop' \in StopType /\ stop'.owner = stop.owner /\ stop'.context = stop.context
           /\ seen' = CollectedSeen
           /\ UNCHANGED <<closing, runner, setup, package, shut>>
  <1> DEFINE l == [Collected.lease EXCEPT !.contained = (runner.outcome = "lost")]
  <1>1. /\ Waits(c, "validate") /\ WorkspacesFree /\ Collected.operation.terminal /\ Leave(c)
        /\ ws' = [Collected EXCEPT !.lease.contained = (runner.outcome = "lost")]
        /\ stop' = [CollectedStop EXCEPT !.run = 0]
        /\ seen' = CollectedSeen
        /\ UNCHANGED <<closing, runner, setup, package, shut>>
    BY DEF Validated, Waits
  <1>2. Collected \in WsType /\ Collected.lease \in LeaseType /\ CollectedStop \in StopType
    BY CollectedTyped DEF Typed, WsType
  <1>3. ws' = [Collected EXCEPT !.lease = l]
    BY <1>1, <1>2 DEF WsType, LeaseType
  <1>4. /\ l \in LeaseType /\ l.owner = Collected.lease.owner
        /\ l.revision = Collected.lease.revision /\ l.recovery = Collected.lease.recovery
        /\ (l.contained <=> runner.outcome = "lost") /\ l.discovery = Collected.lease.discovery
        /\ l.recognition = Collected.lease.recognition
    BY <1>2 DEF LeaseType
  <1>5. stop' \in StopType /\ stop'.owner = stop.owner /\ stop'.context = stop.context
    BY <1>1, <1>2, Zero, CollectedStopIs DEF StopType
  <1> HIDE DEF l
  <1>6. /\ ws' \in WsType /\ ws'.lease = l /\ ws'.operation = Collected.operation
        /\ ws'.picker = Collected.picker /\ ws'.dirty = Collected.dirty
    BY <1>2, <1>3, <1>4, WithLease
  <1>7. /\ Collected.lease.owner = ws.lease.owner /\ Collected.lease.revision = ws.lease.revision
        /\ Collected.lease.recovery = ws.lease.recovery
    BY CollectedIs
  <1> QED
    BY <1>1, <1>4, <1>5, <1>6, <1>7

LEMMA RecognizedDoes ==
    ASSUME TypeOK, NEW c \in Callers, Recognized(c)
    PROVE  /\ Waits(c, "recognize") /\ WorkspacesFree /\ Leave(c)
           /\ \/ /\ Collected.lease.recognition.run = call[c].run
                 /\ Collected.lease.recognition.settled
                 /\ ws' \in WsType /\ ws'.operation = Collected.operation
                 /\ ws'.picker = Collected.picker /\ ws'.dirty = Collected.dirty
                 /\ ws'.sessions = ws.sessions /\ ws'.sources = ws.sources
                 /\ ws'.lease.owner = Collected.lease.owner
                 /\ ws'.lease.revision = Collected.lease.revision
                 /\ ws'.lease.contained = Collected.lease.contained
                 /\ ws'.lease.discovery = Collected.lease.discovery
                 /\ ws'.lease.recovery = Collected.lease.recovery
                 /\ ws'.lease.recognition = NoRecognition
                 /\ stop' \in StopType /\ stop'.owner = stop.owner /\ stop'.context = stop.context
                 /\ stop'.run = IF stop.run = call[c].run THEN 0 ELSE stop.run
                 /\ seen' \in SeenType /\ seen'.asked = seen.asked
                 /\ seen'.cancelled = seen.cancelled /\ seen'.published = seen.published
                 /\ seen'.unreconciled = seen.unreconciled
              \/ UNCHANGED <<ws, stop, seen>>
           /\ UNCHANGED <<closing, runner, setup, package, shut>>
  <1> DEFINE l == [Collected.lease EXCEPT !.recognition = NoRecognition]
  <1>1. /\ Waits(c, "recognize") /\ WorkspacesFree /\ Leave(c)
        /\ \/ /\ Collected.lease.recognition.run = call[c].run
              /\ Collected.lease.recognition.settled
              /\ ws' = [Collected EXCEPT !.lease.recognition = NoRecognition]
              /\ stop' = IF stop.run = call[c].run THEN [stop EXCEPT !.run = 0] ELSE stop
              /\ seen' = [CollectedSeen EXCEPT !.unreturned = @ \ {call[c].run}]
           \/ UNCHANGED <<ws, stop, seen>>
        /\ UNCHANGED <<closing, runner, setup, package, shut>>
    BY DEF Recognized, Waits
  <1>2. Collected \in WsType /\ Collected.lease \in LeaseType /\ stop \in StopType
        /\ CollectedSeen \in SeenType
    BY CollectedTyped DEF Typed, WsType
  <1>3. /\ l \in LeaseType /\ l.owner = Collected.lease.owner
        /\ l.revision = Collected.lease.revision /\ l.recovery = Collected.lease.recovery
        /\ l.contained = Collected.lease.contained /\ l.discovery = Collected.lease.discovery
        /\ l.recognition = NoRecognition
    BY <1>2, NoLeaseIs DEF LeaseType
  <1>4. CASE ~UNCHANGED <<ws, stop, seen>>
    <2>1. ws' = [Collected EXCEPT !.lease = l]
      BY <1>1, <1>2, <1>4 DEF WsType, LeaseType
    <2>2. /\ stop' \in StopType /\ stop'.owner = stop.owner /\ stop'.context = stop.context
          /\ stop'.run = IF stop.run = call[c].run THEN 0 ELSE stop.run
      BY <1>1, <1>2, <1>4, Zero DEF StopType
    <2>3. /\ seen' \in SeenType /\ seen'.asked = seen.asked /\ seen'.cancelled = seen.cancelled
          /\ seen'.published = seen.published /\ seen'.unreconciled = seen.unreconciled
      BY <1>1, <1>2, <1>4, CollectedSeenIs DEF SeenType, TypeOK
    <2> HIDE DEF l
    <2> QED
      BY <1>1, <1>2, <1>3, <1>4, <2>1, <2>2, <2>3, WithLease, CollectedIs
  <1> QED
    BY <1>1, <1>4

LEMMA BeginPublishDoes ==
    ASSUME TypeOK, NEW c \in Callers, BeginPublish(c)
    PROVE  /\ pc[c] = "taken"
           /\ \/ /\ package.active.by = NONE /\ package.next < MaxTokens
                 /\ package' \in PackageType /\ package'.contained = package.contained
                 /\ package'.active = Attempt(c, package.next + 1)
                 /\ package'.review = package.review /\ package'.next = package.next + 1
                 /\ Goto(c, "publishing") /\ UNCHANGED <<commands, call>>
              \/ Leave(c) /\ UNCHANGED package
           /\ UNCHANGED <<closing, ws, stop, runner, setup, shut, seen>>
  <1>1. CASE ~(package.active.by = NONE /\ package.next < MaxTokens)
    BY <1>1 DEF BeginPublish
  <1>2. CASE package.active.by = NONE /\ package.next < MaxTokens
    <2>1. /\ pc[c] = "taken" /\ package.active.by = NONE /\ package.next < MaxTokens
          /\ package' = [package EXCEPT !.active = Attempt(c, package.next + 1),
                                        !.next = package.next + 1]
          /\ Goto(c, "publishing") /\ UNCHANGED <<commands, call>>
          /\ UNCHANGED <<closing, ws, stop, runner, setup, shut, seen>>
      BY <1>2 DEF BeginPublish, TypeOK, PackageType
    <2>2. package.next + 1 \in Token
      BY <2>1, BoundsAssumption DEF TypeOK, PackageType, Token
    <2>3. Attempt(c, package.next + 1) \in AttemptType
      BY <2>2 DEF Attempt, AttemptType
    <2>4. /\ package' \in PackageType /\ package'.contained = package.contained
          /\ package'.active = Attempt(c, package.next + 1)
          /\ package'.review = package.review /\ package'.next = package.next + 1
      BY <2>1, <2>2, <2>3 DEF TypeOK, PackageType
    <2> QED
      BY <2>1, <2>4
  <1> QED
    BY <1>1, <1>2

LEMMA SettleLeaseDoes ==
    ASSUME TypeOK, SettleLease
    PROVE  /\ commands = NONE /\ WorkspacesFree /\ ~ws.lease.discovery
           /\ shut.step = "settle" /\ shut'.step = "resetup" /\ shut' \in ShutType
           /\ shut.failed => shut'.failed
           /\ ws' \in WsType /\ ws'.operation = Collected.operation
           /\ ws'.picker = Collected.picker /\ ws'.dirty = Collected.dirty
           /\ \/ /\ shut'.failed /\ ws' = Collected /\ stop' = CollectedStop
              \/ /\ ~shut.failed /\ ~Collected.lease.contained
                 /\ ws'.lease = NoLease /\ stop' = NoStop
           /\ seen' = CollectedSeen
           /\ UNCHANGED <<commands, closing, pc, call, runner, setup, package>>
  <1> DEFINE fails == Collected.lease.contained
                         \/ (Collected.lease.recognition.settled /\ Collected.lease.recognition.unclean)
  <1>1. /\ shut.step = "settle"
        /\ shut' = [shut EXCEPT !.step = "resetup", !.failed = shut.failed \/ fails]
    BY DEF SettleLease, Advances, TypeOK, ShutType
  <1>2. Collected \in WsType
    BY CollectedTyped DEF Typed
  <1>3. /\ shut'.step = "resetup" /\ shut' \in ShutType /\ shut'.failed = (shut.failed \/ fails)
    BY <1>1 DEF TypeOK, ShutType, ShutSteps
  <1>4. /\ commands = NONE /\ WorkspacesFree /\ ~ws.lease.discovery
        /\ IF Collected.lease.contained \/ shut.failed
           THEN ws' = Collected /\ stop' = CollectedStop
           ELSE ws' = [Collected EXCEPT !.lease = NoLease] /\ stop' = NoStop
        /\ seen' = CollectedSeen
        /\ UNCHANGED <<commands, closing, pc, call, runner, setup, package>>
    BY DEF SettleLease, Discovering
  <1>5. CASE Collected.lease.contained \/ shut.failed
    BY <1>1, <1>2, <1>3, <1>4, <1>5
  <1>6. CASE ~(Collected.lease.contained \/ shut.failed)
    BY <1>1, <1>2, <1>3, <1>4, <1>6, NoLeaseIs, WithLease
  <1> QED
    BY <1>5, <1>6

LEMMA ReapedIs ==
    ASSUME TypeOK
    PROVE  /\ Reaped \in SetupType /\ CancelledSetup \in SetupType
           /\ Reaped.state = (IF setup.state = "returned" THEN "joined" ELSE setup.state)
           /\ Reaped.cleanup = setup.cleanup
           /\ CancelledSetup.state = setup.state /\ CancelledSetup.cleanup = setup.cleanup
  BY DEF TypeOK, SetupType, Reaped, CancelledSetup

LEMMA SetupStartDoes ==
    ASSUME TypeOK, NEW c \in Callers, SetupStart(c)
    PROVE  /\ pc[c] = "admitted" /\ call[c].kind = "setup" /\ WorkspacesFree /\ Leave(c)
           /\ SetupIdle /\ PackageIdle /\ Idle(Collected) /\ Collects
           /\ setup' \in SetupType /\ setup'.state = "running" /\ ~setup'.cleanup
           /\ UNCHANGED <<closing, runner, package, shut>>
  BY DEF SetupStart, Admitted, Collects, SetupType

LEMMA SetupReturnsDoes ==
    ASSUME TypeOK, SetupReturns
    PROVE  /\ setup.state = "running" /\ setup' \in SetupType /\ setup'.state = "returned"
           /\ UNCHANGED <<commands, closing, pc, call, ws, stop, runner, package, shut, seen>>
  <1>1. PICK cleanup \in BOOLEAN : setup' = [setup EXCEPT !.state = "returned", !.cleanup = cleanup]
    BY DEF SetupReturns
  <1> QED
    BY <1>1 DEF SetupReturns, TypeOK, SetupType

LEMMA PickDoes ==
    ASSUME TypeOK, NEW c \in Callers, Pick(c)
    PROVE  /\ Accepted(c, "pick") /\ WorkIdle(Collected) /\ Goto(c, "picking")
           /\ ws' \in WsType /\ ws'.operation = Collected.operation
           /\ ws'.lease = Collected.lease /\ ws'.picker /\ ws'.dirty = Collected.dirty
           /\ stop' = CollectedStop /\ seen' = CollectedSeen /\ commands' = NONE
           /\ UNCHANGED <<closing, call, runner, package, shut>>
  <1>1. Collected \in WsType
    BY CollectedTyped DEF Typed
  <1> QED
    BY <1>1 DEF Pick, Commands, Admitted, Accepted, WsType

LEMMA PickedDoes ==
    ASSUME TypeOK, NEW c \in Callers, Picked(c)
    PROVE  /\ pc[c] = "picking" /\ call[c].kind = "pick" /\ WorkspacesFree /\ Leave(c)
           /\ ws' \in WsType /\ ws'.operation = ws.operation /\ ws'.lease = ws.lease
           /\ ~ws'.picker /\ ws'.dirty = ws.dirty
           /\ ws'.sessions = ws.sessions /\ ws'.sources = ws.sources
           /\ UNCHANGED <<closing, stop, runner, setup, package, shut, seen>>
  BY DEF Picked, TypeOK, WsType

LEMMA AttemptIs ==
    ASSUME NEW c \in Callers, NEW token
    PROVE  Attempt(c, token).by = c /\ Attempt(c, token).token = token /\ ~Attempt(c, token).cancelled
  BY DEF Attempt

LEMMA PickPackageDoes ==
    ASSUME TypeOK, NEW c \in Callers, PickPackage(c)
    PROVE  /\ Accepted(c, "pickPackage") /\ Collects /\ Goto(c, "picking")
           /\ ImportIdle(Collected) \/ (Collected.lease.owner # 0 /\ WorkIdle(Collected))
           /\ package' \in PackageType /\ package'.active.by = c
           /\ package'.contained = package.contained /\ package'.review = package.review
           /\ package'.next = package.next
           /\ commands' = NONE
           /\ UNCHANGED <<closing, call, runner, shut>>
  <1> DEFINE a == Attempt(c, 0)
  <1>1. a \in AttemptType /\ a.by = c
    BY Zero DEF Attempt, AttemptType
  <1>2. package' = [package EXCEPT !.active = a]
    BY DEF PickPackage
  <1> HIDE DEF a
  <1>3. /\ package' \in PackageType /\ package'.active = a
        /\ package'.contained = package.contained /\ package'.review = package.review
        /\ package'.next = package.next
    BY <1>1, <1>2 DEF TypeOK, PackageType
  <1> QED
    BY <1>1, <1>3 DEF PickPackage, Commands, Admitted, Accepted, Collects

LEMMA ReviewReadyDoes ==
    ASSUME TypeOK, NEW c \in Callers, ReviewReady(c)
    PROVE  /\ pc[c] = "preparing" /\ WorkspacesFree /\ Goto(c, "ended") /\ ~package.active.cancelled
           /\ package' \in PackageType /\ package'.active = package.active
           /\ package'.contained = package.contained /\ package'.next = package.next
           /\ package'.review.token = call[c].token
           /\ UNCHANGED <<commands, closing, call, ws, stop, runner, setup, shut, seen>>
  <1> DEFINE r == [token |-> call[c].token, owner |-> call[c].owner, revision |-> call[c].revision]
  <1>1. r \in ReviewType /\ r.token = call[c].token
    BY DEF TypeOK, CallType, ReviewType
  <1>2. package' = [package EXCEPT !.review = r]
    BY DEF ReviewReady
  <1> HIDE DEF r
  <1>3. /\ package' \in PackageType /\ package'.active = package.active
        /\ package'.contained = package.contained /\ package'.next = package.next
        /\ package'.review = r
    BY <1>1, <1>2 DEF TypeOK, PackageType
  <1> QED
    BY <1>1, <1>3 DEF ReviewReady, NotCancelled

LEMMA EndsDoes ==
    ASSUME TypeOK, NEW c \in Callers, NEW published \in SUBSET Token, Ends(c, published)
    PROVE  /\ Goto(c, "ended")
           /\ package' \in PackageType /\ package'.active = package.active
           /\ package'.review = package.review /\ package'.next = package.next
           /\ package.contained => package'.contained
           /\ seen' \in SeenType /\ seen'.published = seen.published \cup published
           /\ seen'.asked = seen.asked /\ seen'.cancelled = seen.cancelled
           /\ seen'.unreconciled = seen.unreconciled
           /\ UNCHANGED <<commands, closing, call, ws, stop, runner, setup, shut>>
  <1>1. PICK cleanup \in BOOLEAN : package' = [package EXCEPT !.contained = @ \/ cleanup]
    BY DEF Ends
  <1>2. /\ package' \in PackageType /\ package'.active = package.active
        /\ package'.review = package.review /\ package'.next = package.next
        /\ package.contained => package'.contained
    BY <1>1 DEF TypeOK, PackageType
  <1>3. seen' = [seen EXCEPT !.published = seen.published \cup published]
    BY DEF Ends, TypeOK, SeenType
  <1>4. /\ seen' \in SeenType /\ seen'.published = seen.published \cup published
        /\ seen'.asked = seen.asked /\ seen'.cancelled = seen.cancelled
        /\ seen'.unreconciled = seen.unreconciled
    BY <1>3 DEF TypeOK, SeenType
  <1> QED
    BY <1>2, <1>4 DEF Ends

(* An attempt ends with its package published, or without it.              *)
Concludes(c, from, published) ==
    /\ pc[c] \in from /\ Goto(c, "ended")
    /\ package' \in PackageType /\ package'.active = package.active
    /\ package'.review = package.review /\ package'.next = package.next
    /\ package.contained => package'.contained
    /\ seen' \in SeenType /\ seen'.published = seen.published \cup published
    /\ seen'.asked = seen.asked /\ seen'.cancelled = seen.cancelled
    /\ seen'.unreconciled = seen.unreconciled
    /\ UNCHANGED <<commands, closing, call, ws, stop, runner, setup, shut>>

LEMMA CommitDoes ==
    ASSUME TypeOK, NEW c \in Callers, Commit(c)
    PROVE  Concludes(c, {"committing"}, {call[c].token})
  <1>1. {call[c].token} \in SUBSET Token
    BY DEF TypeOK, CallType
  <1> QED
    BY <1>1, EndsDoes DEF Commit, Concludes

LEMMA PublishFailsDoes ==
    ASSUME TypeOK, NEW c \in Callers, PublishFails(c)
    PROVE  Concludes(c, {"publishing", "committing"}, {})
  BY EndsDoes DEF PublishFails, Concludes

LEMMA DropAttemptDoes ==
    ASSUME TypeOK, NEW c \in Callers, DropAttempt(c)
    PROVE  /\ pc[c] = "ended" \/ (pc[c] = "picking" /\ call[c].kind = "pickPackage")
           /\ Leave(c)
           /\ package' \in PackageType /\ package'.contained = package.contained
           /\ package'.review = package.review /\ package'.next = package.next
           /\ package'.active = IF package.active.by = c THEN NoAttempt ELSE package.active
           /\ UNCHANGED <<closing, ws, stop, runner, setup, shut, seen>>
  <1>1. NoAttempt \in AttemptType
    BY Zero DEF NoAttempt, AttemptType
  <1>2. CASE package.active.by = c
    <2>1. package' = [package EXCEPT !.active = NoAttempt]
      BY <1>2 DEF DropAttempt
    <2>2. /\ package' \in PackageType /\ package'.active = NoAttempt
          /\ package'.contained = package.contained
          /\ package'.review = package.review /\ package'.next = package.next
      BY <1>1, <2>1 DEF TypeOK, PackageType
    <2> QED
      BY <1>2, <2>2 DEF DropAttempt
  <1>3. CASE package.active.by # c
    BY <1>3 DEF DropAttempt, TypeOK
  <1> QED
    BY <1>2, <1>3

LEMMA ForgetContextDoes ==
    ASSUME TypeOK, NEW c \in Callers, ForgetContext(c)
    PROVE  /\ pc[c] = "forgetting" /\ Leave(c)
           /\ stop' \in StopType /\ stop'.owner = stop.owner /\ stop'.run = stop.run
           /\ stop'.context = IF stop.context.by = c THEN NoContext ELSE stop.context
           /\ UNCHANGED <<closing, ws, runner, setup, package, shut, seen>>
  <1>1. stop \in StopType
    BY DEF TypeOK
  <1>2. /\ stop' \in StopType /\ stop'.owner = stop.owner /\ stop'.run = stop.run
        /\ stop'.context = IF stop.context.by = c THEN NoContext ELSE stop.context
    <2>1. CASE stop.context.by = c
      <3>1. stop' = [stop EXCEPT !.context = NoContext]
        BY <2>1 DEF ForgetContext
      <3> QED
        BY <1>1, <2>1, <3>1, NoLeaseIs DEF StopType
    <2>2. CASE stop.context.by # c
      BY <1>1, <2>2 DEF ForgetContext
    <2> QED
      BY <2>1, <2>2
  <1> QED
    BY <1>2 DEF ForgetContext

(* A request to stop leaves the run where it is. *)
StopsRun ==
    /\ runner' \in RunnerType /\ runner'.run = runner.run /\ runner'.state = runner.state
    /\ runner'.outcome = runner.outcome /\ runner'.owner = runner.owner
    /\ runner'.native = runner.native /\ (runner.stopped => runner'.stopped)
    /\ runner.closed => runner'.closed

LEMMA RunnerStopDoes ==
    ASSUME TypeOK, NEW run, RunnerStop(run)
    PROVE  /\ StopsRun
           /\ runner'.closed = runner.closed
           /\ runner.state = "running" /\ runner.run = run => runner'.stopped
  BY DEF TypeOK, RunnerType, RunnerStop, StopsRun

LEMMA StopDoes ==
    ASSUME TypeOK, Stop
    PROVE  /\ StopsRun
           /\ UNCHANGED <<commands, closing, pc, call, ws, stop, setup, package, shut, seen>>
  BY RunnerStopDoes DEF Stop

CancelsContext ==
    /\ stop' \in StopType /\ stop'.owner = stop.owner /\ stop'.run = stop.run
    /\ stop'.context.by = stop.context.by

LEMMA ContextDoes ==
    ASSUME TypeOK, stop' = [stop EXCEPT !.context.cancelled = stop.context.by # NONE]
    PROVE  CancelsContext
  <1> DEFINE x == [stop.context EXCEPT !.cancelled = stop.context.by # NONE]
  <1>1. stop \in StopType /\ stop.context \in ContextType
    BY DEF TypeOK, StopType
  <1>2. stop' = [stop EXCEPT !.context = x]
    BY <1>1 DEF StopType, ContextType
  <1>3. x \in ContextType /\ x.by = stop.context.by
    BY <1>1 DEF ContextType
  <1> HIDE DEF x
  <1> QED
    BY <1>1, <1>2, <1>3 DEF StopType, CancelsContext

LEMMA AuthoringStopDoes ==
    ASSUME TypeOK, NEW owner \in 1..MaxSessions, AuthoringStop(owner)
    PROVE  /\ StopFree /\ stop.owner = owner /\ owner # 0
           /\ CancelsContext /\ StopsRun
           /\ stop.run # 0 /\ runner.state = "running" /\ runner.run = stop.run => runner'.stopped
           /\ seen' \in SeenType /\ seen'.cancelled = seen.cancelled
           /\ seen'.published = seen.published /\ seen'.unreconciled = seen.unreconciled
           /\ \/ seen'.asked = seen.asked
              \/ /\ runner.state = "running" /\ runner.owner = owner
                 /\ seen'.asked = seen.asked \cup {runner.run}
           /\ UNCHANGED <<commands, closing, pc, call, ws, setup, package, shut>>
  <1>1. CancelsContext
    BY ContextDoes DEF AuthoringStop
  <1>2. StopsRun
    BY RunnerStopDoes DEF AuthoringStop, StopsRun, TypeOK
  <1>3. stop.run # 0 /\ runner.state = "running" /\ runner.run = stop.run => runner'.stopped
    BY RunnerStopDoes DEF AuthoringStop
  <1>4. runner.run \in Run
    BY DEF TypeOK, RunnerType
  <1>5. /\ seen' \in SeenType /\ seen'.cancelled = seen.cancelled
        /\ seen'.published = seen.published /\ seen'.unreconciled = seen.unreconciled
        /\ \/ seen'.asked = seen.asked
           \/ /\ runner.state = "running" /\ runner.owner = owner
              /\ seen'.asked = seen.asked \cup {runner.run}
    BY <1>4 DEF AuthoringStop, TypeOK, SeenType
  <1> QED
    BY <1>1, <1>2, <1>3, <1>5 DEF AuthoringStop

LEMMA WorkerEndsDoes ==
    ASSUME TypeOK, WorkerEnds
    PROVE  /\ runner.state = "running"
           /\ runner' \in RunnerType /\ runner'.run = runner.run /\ runner'.state = "terminal"
           /\ runner'.closed = runner.closed /\ runner'.owner = runner.owner
           /\ runner'.native = runner.native
           /\ seen' \in SeenType /\ seen'.asked = seen.asked /\ seen'.cancelled = seen.cancelled
           /\ seen'.published = seen.published
           /\ seen'.unreconciled <=> seen.unreconciled \/ (runner.native /\ runner'.outcome # "clean")
           /\ UNCHANGED <<commands, closing, pc, call, ws, stop, setup, package, shut>>
  <1>1. PICK outcome \in Outcomes :
          /\ runner' = [runner EXCEPT !.state = "terminal", !.outcome = outcome]
          /\ seen' = [seen EXCEPT !.unreconciled = @ \/ (runner.native /\ outcome # "clean")]
    BY DEF WorkerEnds
  <1>2. /\ runner' \in RunnerType /\ runner'.run = runner.run /\ runner'.state = "terminal"
        /\ runner'.closed = runner.closed /\ runner'.owner = runner.owner
        /\ runner'.native = runner.native /\ runner'.outcome = outcome
    BY <1>1 DEF TypeOK, RunnerType
  <1>3. /\ seen' \in SeenType /\ seen'.asked = seen.asked /\ seen'.cancelled = seen.cancelled
        /\ seen'.published = seen.published
        /\ seen'.unreconciled <=> seen.unreconciled \/ (runner.native /\ outcome # "clean")
    BY <1>1 DEF TypeOK, SeenType
  <1> QED
    BY <1>2, <1>3 DEF WorkerEnds

(* The slot of package transfer after a cancellation. *)
CancelsPackage ==
    /\ package' \in PackageType /\ package'.contained = package.contained
    /\ package'.next = package.next /\ package'.review = NoReview
    /\ package'.active.by = package.active.by
    /\ package.active.by # NONE => package'.active.cancelled

LEMMA CancelledPackageDoes ==
    ASSUME TypeOK, package' = CancelledPackage
    PROVE  CancelsPackage
  <1> DEFINE a == [package.active EXCEPT !.cancelled = package.active.by # NONE]
  <1>1. package \in PackageType /\ package.active \in AttemptType
    BY DEF TypeOK, PackageType
  <1>2. package' = [package EXCEPT !.active = a, !.review = NoReview]
    BY <1>1 DEF CancelledPackage, PackageType, AttemptType
  <1>3. a \in AttemptType /\ a.by = package.active.by /\ (package.active.by # NONE => a.cancelled)
    BY <1>1 DEF AttemptType
  <1>4. NoReview \in ReviewType
    BY Zero DEF NoReview, ReviewType
  <1> HIDE DEF a
  <1>5. /\ package' \in PackageType /\ package'.contained = package.contained
        /\ package'.next = package.next /\ package'.review = NoReview /\ package'.active = a
    BY <1>1, <1>2, <1>3, <1>4 DEF PackageType
  <1> QED
    BY <1>3, <1>5 DEF CancelsPackage

Preparing == {c \in Callers : pc[c] = "preparing"}

LEMMA PackageCancelDoes ==
    ASSUME TypeOK, PackageCancel
    PROVE  /\ CancelsPackage
           /\ seen' \in SeenType /\ seen'.asked = seen.asked
           /\ seen'.published = seen.published /\ seen'.unreconciled = seen.unreconciled
           /\ seen'.cancelled = seen.cancelled \cup
                (({package.review.token} \cup {call[c].token : c \in Preparing}) \ {0})
           /\ UNCHANGED <<commands, closing, pc, call, ws, stop, runner, setup, shut>>
  <1> DEFINE told == ({package.review.token} \cup {call[c].token : c \in Preparing}) \ {0}
  <1>1. told \subseteq Token
    BY DEF TypeOK, PackageType, ReviewType, CallType, Preparing
  <1>2. seen' = [seen EXCEPT !.cancelled = seen.cancelled \cup told]
    BY DEF PackageCancel, Preparing, TypeOK, SeenType
  <1> HIDE DEF told
  <1>3. /\ seen' \in SeenType /\ seen'.asked = seen.asked
        /\ seen'.published = seen.published /\ seen'.unreconciled = seen.unreconciled
        /\ seen'.cancelled = seen.cancelled \cup told
    BY <1>1, <1>2 DEF TypeOK, SeenType
  <1> QED
    BY <1>3, CancelledPackageDoes DEF PackageCancel, told

(* A step of shutdown. *)
Advanced(from, to) ==
    shut.step = from /\ shut' \in ShutType /\ shut'.step = to /\ (shut.failed => shut'.failed)

LEMMA AdvanceDoes ==
    ASSUME TypeOK, NEW from, NEW to \in ShutSteps, NEW failed
    PROVE  /\ Advance(from, to) => Advanced(from, to) /\ shut'.failed = shut.failed
           /\ Advances(from, to, failed) => Advanced(from, to) /\ (failed => shut'.failed)
  <1>1. ASSUME Advance(from, to)
        PROVE  Advanced(from, to) /\ shut'.failed = shut.failed
    BY <1>1 DEF Advance, Advanced, TypeOK, ShutType
  <1>2. ASSUME Advances(from, to, failed)
        PROVE  Advanced(from, to) /\ (failed => shut'.failed)
    <2>1. shut.step = from /\ shut' = [shut EXCEPT !.step = to, !.failed = shut.failed \/ failed]
      BY <1>2 DEF Advances, TypeOK, ShutType
    <2>2. (shut.failed \/ failed) \in BOOLEAN
      OBVIOUS
    <2> QED
      BY <2>1, <2>2 DEF Advanced, TypeOK, ShutType
  <1> QED
    BY <1>1, <1>2

LEMMA CancelContextDoes ==
    ASSUME TypeOK, CancelContext
    PROVE  /\ Advanced("context", "setup") /\ shut'.failed = shut.failed /\ CancelsContext
           /\ UNCHANGED <<commands, closing, pc, call, ws, runner, setup, package, seen>>
  BY AdvanceDoes, ContextDoes DEF CancelContext, ShutSteps

LEMMA CancelSetupDoes ==
    ASSUME TypeOK, CancelSetup
    PROVE  /\ Advanced("setup", "packages") \/ Advanced("resetup", "waitSetup")
           /\ shut'.failed = shut.failed
           /\ setup' \in SetupType /\ setup'.state = setup.state /\ setup'.cleanup = setup.cleanup
           /\ UNCHANGED <<commands, closing, pc, call, ws, stop, runner, package, seen>>
  BY AdvanceDoes, ReapedIs DEF CancelSetup, ShutSteps

LEMMA CancelPackageDoes ==
    ASSUME TypeOK, CancelPackage
    PROVE  /\ Advanced("packages", "runner") \/ Advanced("repackage", "waitPackage")
           /\ shut'.failed = shut.failed /\ CancelsPackage
           /\ UNCHANGED <<commands, closing, pc, call, ws, stop, runner, setup, seen>>
  BY AdvanceDoes, CancelledPackageDoes DEF CancelPackage, ShutSteps

LEMMA CloseRunnerDoes ==
    ASSUME TypeOK, CloseRunner
    PROVE  /\ Advanced("runner", "join") /\ shut'.failed = shut.failed
           /\ StopsRun /\ runner'.closed
           /\ UNCHANGED <<commands, closing, pc, call, ws, stop, setup, package, seen>>
  <1>1. StopsRun /\ runner'.closed
    BY DEF CloseRunner, StopsRun, TypeOK, RunnerType
  <1> QED
    BY <1>1, AdvanceDoes DEF CloseRunner, ShutSteps

LEMMA JoinRunnerDoes ==
    ASSUME TypeOK, JoinRunner
    PROVE  /\ Advanced("join", "settle") /\ (runner.state = "running" => shut'.failed)
           /\ UNCHANGED <<commands, closing, pc, call, ws, stop, runner, setup, package, seen>>
  BY AdvanceDoes DEF JoinRunner, ShutSteps

LEMMA SettleLateDoes ==
    ASSUME TypeOK, SettleLate
    PROVE  /\ Advanced("settle", "resetup") /\ shut'.failed
           /\ UNCHANGED <<commands, closing, pc, call, ws, stop, runner, setup, package, seen>>
  BY AdvanceDoes DEF SettleLate, ShutSteps

LEMMA WaitSetupDoes ==
    ASSUME TypeOK, WaitSetup
    PROVE  /\ Advanced("waitSetup", "repackage") /\ (~SetupIdle => shut'.failed)
           /\ setup' = Reaped
           /\ UNCHANGED <<commands, closing, pc, call, ws, stop, runner, package, seen>>
  BY AdvanceDoes DEF WaitSetup, ShutSteps

LEMMA WaitPackageDoes ==
    ASSUME TypeOK, WaitPackage
    PROVE  /\ Advanced("waitPackage", "bridge")
           /\ PackageBusy \/ package.contained => shut'.failed
           /\ UNCHANGED <<commands, closing, pc, call, ws, stop, runner, setup, package, seen>>
  BY AdvanceDoes DEF WaitPackage, ShutSteps

LEMMA JoinBridgeDoes ==
    ASSUME TypeOK, JoinBridge
    PROVE  /\ Advanced("bridge", "done") /\ shut'.failed = shut.failed /\ WorkspacesFree /\ Collects
           /\ UNCHANGED <<commands, closing, pc, call, runner, setup, package>>
  BY AdvanceDoes DEF JoinBridge, ShutSteps, Collects

LEMMA DeadlineDoes ==
    ASSUME TypeOK, Deadline
    PROVE  /\ shut' \in ShutType /\ shut'.step = shut.step /\ shut'.failed = shut.failed
           /\ UNCHANGED <<commands, closing, pc, call, ws, stop, runner, setup, package, seen>>
  BY DEF Deadline, TypeOK, ShutType

LEMMA ShutdownBeginsDoes ==
    ASSUME TypeOK, ShutdownBegins
    PROVE  /\ Advanced("open", "context") /\ shut'.failed = shut.failed /\ closing'
           /\ UNCHANGED <<commands, pc, call, ws, stop, runner, setup, package, seen>>
  BY AdvanceDoes DEF ShutdownBegins, ShutSteps

(* Commands that only collect, and leave or go on. *)
LEMMA CommandsDo ==
    ASSUME TypeOK, NEW c \in Callers
    PROVE  /\ Capturing(c) => /\ Accepted(c, "capture") /\ Leave(c)
                              /\ UNCHANGED <<closing, ws, stop, runner, package, shut, seen>>
           /\ Enter(c) => /\ Accepted(c, "open") /\ Collects /\ Goto(c, "opening")
                          /\ Idle(Collected) /\ ws.sessions < MaxSessions /\ ws.sources < MaxRevision
                          /\ UNCHANGED <<commands, closing, call, runner, package, shut>>
           /\ Close(c) => /\ pc[c] = "admitted" /\ call[c].kind = "close" /\ WorkspacesFree
                          /\ ws.lease.owner = 0 /\ closing' /\ Leave(c)
                          /\ setup' = CancelledSetup
                          /\ UNCHANGED <<ws, stop, runner, package, shut, seen>>
           /\ PrepareReconstruction(c) =>
                 /\ Accepted(c, "reconstruct") /\ Collects /\ Leave(c) /\ closing'
                 /\ Idle(Collected) /\ ~Collected.dirty
                 /\ UNCHANGED <<runner, package, shut>>
  BY DEF Capturing, Enter, Close, PrepareReconstruction, Commands, Admitted, Accepted, Collects,
         SessionsLeft, NativeReady

LEMMA AdmitDoes ==
    ASSUME TypeOK, NEW c \in Callers, NEW kind \in Kinds, Admit(c, kind)
    PROVE  /\ pc[c] = "idle" /\ commands = NONE /\ commands' = c /\ Goto(c, "admitted")
           /\ kind = "capture" \/ ~closing
           /\ call' \in [Callers -> CallType] /\ call'[c].kind = kind
           /\ \A d \in Callers \ {c} : call'[d] = call[d]
           /\ UNCHANGED <<closing, ws, stop, runner, setup, package, shut, seen>>
  <1> DEFINE r == [NoCall EXCEPT !.kind = kind]
  <1>1. r \in CallType /\ r.kind = kind
    BY KindsAssumption, NoLeaseIs DEF CallType
  <1>2. call' = [call EXCEPT ![c] = r]
    BY DEF Admit
  <1> HIDE DEF r
  <1> QED
    BY <1>1, <1>2 DEF Admit, TypeOK

(* Where a caller that leaves, and one that goes on, are afterwards. *)
Elsewhere(c) == \A d \in Callers \ {c} : pc'[d] = pc[d] /\ call'[d] = call[d]
Left(c) ==
    /\ pc'[c] = "idle" /\ call'[c] = NoCall /\ Elsewhere(c)
    /\ commands' = IF commands = c THEN NONE ELSE commands
Goes(c, step) == pc'[c] = step /\ \A d \in Callers \ {c} : pc'[d] = pc[d]

LEMMA LeaveDoes ==
    ASSUME TypeOK, NEW c \in Callers, Leave(c)
    PROVE  Left(c) /\ pc' \in [Callers -> Steps] /\ call' \in [Callers -> CallType]
  BY NoLeaseIs DEF TypeOK, Leave, Left, Elsewhere, Steps

LEMMA GotoDoes ==
    ASSUME TypeOK, NEW c \in Callers, NEW step, Goto(c, step)
    PROVE  Goes(c, step) /\ (step \in Steps => pc' \in [Callers -> Steps])
  BY DEF TypeOK, Goto, Goes

(* Whoever worked with its mutexes released finds the lease and the room it *)
(* left with: no `expect` fails.                                           *)
LEMMA NoPanic ==
    ASSUME StepsFit, LeaseFits(ws, stop), DiscoveryFits(ws, stop), NEW c \in Callers
    PROVE  /\ Opened(c) => ws.sessions < MaxSessions /\ ws.sources < MaxRevision
           /\ Edited(c) => /\ ws.lease.owner # 0 /\ ws.sources < MaxRevision
                           /\ call[c].kind = "duplicate" => ws.sessions < MaxSessions
           /\ Discovered(c) => ws.lease.owner # 0
           /\ RecordRun(c) => stop.owner # 0 /\ call[c].kind \in LeaseRuns
           /\ Validated(c) => stop.owner # 0 /\ ws.lease.owner # 0
  <1>1. /\ Opened(c) => pc[c] = "opening"
        /\ Edited(c) => pc[c] = "editing"
        /\ Discovered(c) => pc[c] = "discovering"
        /\ RecordRun(c) => pc[c] = "recording"
        /\ Validated(c) => Waits(c, "validate")
    BY DEF Opened, Edited, Discovered, RecordRun, Validated, Waits
  <1> QED
    BY <1>1 DEF StepsFit, StepFits, LeaseFits, LeaseOf, ReservationFits, DiscoveryFits, DiscovererFits,
           DiscoveryOf, Discovers

(* A step of a caller leaves the others where they are: it ends its command, *)
(* or goes on with it.                                                     *)
CallerStep(c) == Accepts(c) \/ Refuse(c) \/ Works(c)
Environment ==
    \/ \E owner \in 1..MaxSessions : AuthoringStop(owner)
    \/ Stop \/ WorkerEnds \/ Collect
    \/ SetupReturns \/ SetupPoll \/ SetupCancel \/ PackageCancel
    \/ PrepareClose \/ ShutdownBegins \/ Shutdown \/ Deadline

OthersKeep(c) ==
    \A d \in Callers \ {c} :
       (commands' = d <=> commands = d) /\ (package'.active.by = d <=> package.active.by = d)

Moves(c) ==
    \/ Leave(c)
    \/ /\ \E step \in Steps : Goto(c, step)
       /\ call' = call \/ Remembers(c)
       /\ commands' \in {commands, NONE}

LEMMA MovesDo ==
    ASSUME TypeOK, NEW c \in Callers, Moves(c)
    PROVE  /\ pc' \in [Callers -> Steps] /\ call' \in [Callers -> CallType]
           /\ commands' \in Callers \cup {NONE} /\ Elsewhere(c)
  <1>1. CASE Leave(c)
    BY <1>1, LeaveDoes DEF Left, TypeOK
  <1>2. CASE ~Leave(c)
    BY <1>2, GotoDoes DEF Moves, Goes, Remembers, Elsewhere, TypeOK
  <1> QED
    BY <1>1, <1>2

StateTyped ==
    /\ ws \in WsType /\ stop \in StopType /\ runner \in RunnerType /\ setup \in SetupType
    /\ package \in PackageType /\ shut \in ShutType /\ seen \in SeenType /\ closing \in BOOLEAN

(* Under a reservation there is nothing to collect.                        *)
LEMMA QuietIs ==
    ASSUME LeaseFits(ws, stop), NEW c \in Callers, Reserved(c)
    PROVE  Collected = ws
  BY DEF LeaseFits, ReservationFits, Quiet, Collected, Settles

(* What holds before collect holds after it. *)
LEMMA CollectedLease ==
    ASSUME TypeOK, LeaseFits(ws, stop), RunFits(ws, stop)
    PROVE  LeaseFits(Collected, CollectedStop)
  <1>1. LeaseOf(Collected, CollectedStop)
    BY CollectedIs, CollectedStopIs DEF LeaseFits, LeaseOf
  <1>2. ASSUME NEW c \in Callers
        PROVE  ReservationFits(Collected, c)
    <2>1. ReservationFits(ws, c)
      BY DEF LeaseFits
    <2>2. CASE Reserved(c)
      BY <2>1, <2>2, QuietIs
    <2>3. CASE ~Reserved(c)
      BY <2>1, <2>3, CollectedIs DEF ReservationFits, Reserved
    <2> QED
      BY <2>2, <2>3
  <1> QED
    BY <1>1, <1>2 DEF LeaseFits

LEMMA CollectedDiscovery ==
    ASSUME TypeOK, DiscoveryFits(ws, stop)
    PROVE  DiscoveryFits(Collected, CollectedStop)
  <1>1. DiscoveryOf(Collected)
    BY CollectedIs DEF DiscoveryFits, DiscoveryOf
  <1>2. ASSUME NEW c \in Callers
        PROVE  DiscovererFits(Collected, CollectedStop, c)
    BY CollectedIs, CollectedStopIs DEF DiscoveryFits, DiscovererFits
  <1> QED
    BY <1>1, <1>2 DEF DiscoveryFits

LEMMA CollectedSlots ==
    ASSUME TypeOK, SlotsFit(ws)
    PROVE  SlotsFit(Collected)
  <1>1. SlotsOf(Collected)
    BY CollectedIs DEF SlotsFit, SlotsOf, RunsOnLease
  <1>2. ASSUME NEW c \in Callers
        PROVE  TakenFits(Collected, c)
    BY CollectedIs DEF SlotsFit, TakenFits, RunsOnLease
  <1> QED
    BY <1>1, <1>2 DEF SlotsFit

LEMMA CollectedRun ==
    ASSUME TypeOK, LeaseFits(ws, stop), RunFits(ws, stop)
    PROVE  RunFits(Collected, CollectedStop)
  <1>1. RunOf(Collected, CollectedStop)
    <2>1. CASE Settles
      BY <2>1, CollectedIs DEF RunFits, RunOf, RunningOf, OperationOf, Settles
    <2>2. CASE ~Settles
      BY <2>2, CollectedIs DEF RunFits, RunOf, RunningOf, OperationOf, Collected, CollectedStop
    <2> QED
      BY <2>1, <2>2
  <1>2. RecognitionOf(Collected)
    BY CollectedIs DEF RunFits, RecognitionOf, Settles
  <1>3. ASSUME NEW c \in Callers
        PROVE  StarterFits(Collected, c)
    <2>1. StarterFits(ws, c) /\ (Reserved(c) => Collected = ws)
      BY QuietIs DEF RunFits
    <2> QED
      BY <2>1 DEF StarterFits, Reserved
  <1> QED
    BY <1>1, <1>2, <1>3 DEF RunFits

LEMMA CollectedAsked ==
    ASSUME TypeOK, AskedFits(seen)
    PROVE  AskedFits(CollectedSeen)
  BY CollectedSeenIs DEF AskedFits

LEMMA CollectedContainment ==
    ASSUME TypeOK, RunFits(ws, stop), ContainmentFits(ws, seen)
    PROVE  ContainmentFits(Collected, CollectedSeen)
  <1>1. CASE ~Settles
    BY <1>1, CollectedSeenIs DEF ContainmentFits, Collected
  <1>2. CASE Settles
    <2>1. runner.owner # 0 /\ runner.outcome = "lost" => Collected.lease.contained \/ Validating
      BY <1>2, CollectedIs DEF RunFits, RunOf, OperationOf, Contains, Settles, LeaseRuns
    <2>2. seen.unreconciled => Collected.dirty \/ Recording
      BY <1>2, CollectedIs DEF ContainmentFits, RunFits, RunOf, OperationOf, Reconcile, Settles
    <2>3. runner.state = "terminal"
      BY <1>2 DEF Settles
    <2> QED
      BY <2>1, <2>2, <2>3, CollectedSeenIs, CollectedIs DEF ContainmentFits
  <1> QED
    BY <1>1, <1>2

LEMMA CollectedTokens ==
    ASSUME TypeOK, TokensFit(seen)
    PROVE  TokensFit(CollectedSeen)
  BY CollectedSeenIs DEF TokensFit, TokensOf, TokenFits

LEMMA CollectedExport ==
    ASSUME TypeOK, ExportFits(ws)
    PROVE  ExportFits(Collected)
  BY CollectedIs DEF ExportFits, ExporterFits

LEMMA CollectedShut ==
    ASSUME TypeOK, ShutFits(ws)
    PROVE  ShutFits(Collected)
  BY CollectedIs DEF ShutFits

(* The command mutex and the package attempt have one holder.              *)
LEMMA Alone ==
    ASSUME StepsFit, NEW c \in Callers
    PROVE  /\ StepFits(c)
           /\ Holds(c) => \A d \in Callers \ {c} : ~Holds(d)
           /\ Attempts(c) => \A d \in Callers \ {c} : ~Attempts(d)
  BY DEF StepsFit, StepFits

(* A command that is accepted has found setup and the package slot idle.   *)
LEMMA AcceptedIs ==
    ASSUME TypeOK, NEW c \in Callers, NEW kind, Accepted(c, kind)
    PROVE  /\ pc[c] = "admitted" /\ call[c].kind = kind /\ WorkspacesFree
           /\ SetupSettled' /\ ~setup'.cleanup /\ setup' \in SetupType /\ setup.state # "running"
           /\ package.active.by = NONE /\ ~package.contained
  BY ReapedIs DEF Accepted, SetupIdle, PackageIdle, SetupSettled, TypeOK, SetupType

(* The steps that do not need the command mutex. *)
Unheld(c) ==
    \/ Discovered(c) \/ DropDiscovery(c) \/ ForgetContext(c)
    \/ Picked(c) \/ DropAttempt(c) \/ Recognized(c)

(* A step of a caller ends its command, or goes on with it: no `expect` fails. *)
LEMMA CallerMoves ==
    ASSUME TypeOK, StepsFit, LeaseFits(ws, stop), DiscoveryFits(ws, stop),
           NEW c \in Callers, CallerStep(c)
    PROVE  Moves(c)
  <1>1. ASSUME \/ Capturing(c) \/ Start(c) \/ CheckEnvironment(c) \/ Enter(c)
        PROVE  Moves(c)
    BY <1>1, CommandsDo, StartDoes, NoPanic DEF Begun, Moves, Steps
  <1>2. ASSUME \/ Exit(c)
               \/ \E kind \in Edits : Edit(c, kind)
               \/ \E kind \in LeaseRuns : TakeStop(c, kind)
               \/ Discover(c)
        PROVE  Moves(c)
    BY <1>2, ExitDoes, EditDoes, TakeStopDoes, DiscoverDoes, NoPanic DEF Moves, Steps
  <1>3. ASSUME \/ SetupStart(c)
               \/ \E kind \in {"import", "export"} : Prepare(c, kind)
               \/ TakeReview(c) \/ PickPackage(c)
        PROVE  Moves(c)
    BY <1>3, SetupStartDoes, PrepareDoes, TakeReviewDoes, PickPackageDoes, NoPanic
      DEF Moves, Steps
  <1>4. ASSUME \/ Pick(c) \/ Close(c) \/ PrepareReconstruction(c) \/ Refuse(c)
        PROVE  Moves(c)
    BY <1>4, PickDoes, CommandsDo, NoPanic DEF Refuse, Moves, Steps
  <1>5. ASSUME \/ Opened(c) \/ Edited(c) \/ WorkFails(c) \/ StartLeaseRun(c)
        PROVE  Moves(c)
    BY <1>5, OpenedDoes, EditedDoes, StartLeaseRunDoes, NoPanic DEF WorkFails, Moves, Steps
  <1>6. ASSUME \/ RecordRun(c) \/ Validated(c) \/ Recognized(c) \/ Discovered(c)
        PROVE  Moves(c)
    BY <1>6, RecordRunDoes, ValidatedDoes, RecognizedDoes, DiscoveredDoes, NoPanic
      DEF Moves, Steps
  <1>7. ASSUME \/ DropDiscovery(c) \/ ForgetContext(c) \/ ReviewReady(c)
               \/ PrepareFails(c)
        PROVE  Moves(c)
    BY <1>7, DropDiscoveryDoes, ForgetContextDoes, ReviewReadyDoes, NoPanic
      DEF PrepareFails, Moves, Steps
  <1>8. ASSUME \/ BeginPublish(c) \/ Checkpoint(c) \/ Commit(c) \/ PublishFails(c)
        PROVE  Moves(c)
    BY <1>8, BeginPublishDoes, CommitDoes, PublishFailsDoes, NoPanic DEF Checkpoint,
      Concludes, Moves, Steps
  <1>9. ASSUME \/ DropAttempt(c) \/ Picked(c)
        PROVE  Moves(c)
    BY <1>9, DropAttemptDoes, PickedDoes, NoPanic DEF Moves, Steps
  <1> QED
    BY <1>1, <1>2, <1>3, <1>4, <1>5, <1>6, <1>7, <1>8, <1>9 DEF CallerStep, Accepts, Works

(* Every step keeps the types of the shared state.                         *)
LEMMA StateStep ==
    ASSUME TypeOK, StepsFit, LeaseFits(ws, stop), DiscoveryFits(ws, stop), Next
    PROVE  StateTyped'
  <1>1. ASSUME NEW c \in Callers,
               \/ \E kind \in Kinds : Admit(c, kind)
               \/ Capturing(c) \/ Close(c) \/ Refuse(c)
        PROVE  StateTyped'
    BY <1>1, AdmitDoes, CommandsDo, NoPanic, CollectedTyped, ReapedIs, NoLeaseIs
      DEF Accepted, Refuse, Typed, StateTyped, TypeOK
  <1>2. ASSUME NEW c \in Callers,
               \/ Start(c) \/ CheckEnvironment(c) \/ Enter(c) \/ Exit(c)
        PROVE  StateTyped'
    BY <1>2, StartDoes, CommandsDo, ExitDoes, NoPanic, CollectedTyped, ReapedIs, NoLeaseIs
      DEF Begun, Accepted, BeginsRun, Collects, Typed, StateTyped, TypeOK
  <1>3. ASSUME NEW c \in Callers,
               \/ \E kind \in Edits : Edit(c, kind)
               \/ \E kind \in LeaseRuns : TakeStop(c, kind)
               \/ Discover(c) \/ SetupStart(c)
        PROVE  StateTyped'
    BY <1>3, EditDoes, TakeStopDoes, DiscoverDoes, SetupStartDoes, NoPanic, CollectedTyped,
      ReapedIs, NoLeaseIs DEF Accepted, Collects, LeaseOnly, Typed, StateTyped, TypeOK
  <1>4. ASSUME NEW c \in Callers,
               \/ \E kind \in {"import", "export"} : Prepare(c, kind)
               \/ TakeReview(c) \/ PickPackage(c) \/ Pick(c)
        PROVE  StateTyped'
    BY <1>4, PrepareDoes, TakeReviewDoes, PickPackageDoes, PickDoes, NoPanic,
      CollectedTyped, ReapedIs, NoLeaseIs DEF Accepted, Collects, Typed, StateTyped, TypeOK
  <1>5. ASSUME NEW c \in Callers,
               \/ PrepareReconstruction(c) \/ Opened(c)
        PROVE  StateTyped'
    BY <1>5, CommandsDo, OpenedDoes, NoPanic, CollectedTyped, ReapedIs, NoLeaseIs
      DEF Accepted, Collects, Typed, StateTyped, TypeOK
  <1>6. ASSUME NEW c \in Callers,
               \/ Edited(c) \/ RecordRun(c)
        PROVE  StateTyped'
    BY <1>6, EditedDoes, RecordRunDoes, NoPanic, CollectedTyped, ReapedIs, NoLeaseIs
      DEF Typed, StateTyped, TypeOK
  <1>7. ASSUME NEW c \in Callers,
               \/ WorkFails(c) \/ StartLeaseRun(c) \/ ForgetContext(c)
        PROVE  StateTyped'
    BY <1>7, StartLeaseRunDoes, ForgetContextDoes, NoPanic, CollectedTyped, ReapedIs,
      NoLeaseIs DEF WorkFails, BeginsRun, Typed, StateTyped, TypeOK
  <1>8. ASSUME NEW c \in Callers,
               \/ Validated(c) \/ Recognized(c) \/ Discovered(c) \/ DropDiscovery(c)
        PROVE  StateTyped'
    BY <1>8, ValidatedDoes, RecognizedDoes, DiscoveredDoes, DropDiscoveryDoes, NoPanic,
      CollectedTyped, ReapedIs, NoLeaseIs DEF LeaseOnly, Typed, StateTyped, TypeOK
  <1>9. ASSUME NEW c \in Callers,
               \/ ReviewReady(c) \/ PrepareFails(c) \/ BeginPublish(c) \/ Checkpoint(c)
               \/ Commit(c) \/ PublishFails(c) \/ DropAttempt(c)
        PROVE  StateTyped'
    BY <1>9, ReviewReadyDoes, BeginPublishDoes, CommitDoes, PublishFailsDoes,
      DropAttemptDoes, NoPanic, CollectedTyped, ReapedIs, NoLeaseIs DEF PrepareFails,
      Checkpoint, Concludes, Typed, StateTyped, TypeOK
  <1>10. ASSUME NEW c \in Callers, Picked(c)
        PROVE  StateTyped'
    BY <1>10, PickedDoes, NoPanic, CollectedTyped, ReapedIs, NoLeaseIs DEF Typed,
      StateTyped, TypeOK
  <1>11. CASE \/ \E owner \in 1..MaxSessions : AuthoringStop(owner)
              \/ Stop \/ WorkerEnds \/ SetupReturns \/ SetupPoll \/ SetupCancel
              \/ PackageCancel \/ PrepareClose \/ ShutdownBegins \/ CancelContext
              \/ CancelSetup \/ CancelPackage \/ CloseRunner \/ JoinRunner \/ SettleLate
              \/ WaitSetup \/ WaitPackage \/ Deadline
    BY <1>11, AuthoringStopDoes, StopDoes, WorkerEndsDoes, SetupReturnsDoes,
      PackageCancelDoes, ShutdownBeginsDoes, CancelContextDoes, CancelSetupDoes,
      CancelPackageDoes, CloseRunnerDoes, JoinRunnerDoes, SettleLateDoes, WaitSetupDoes,
      WaitPackageDoes, DeadlineDoes, NoPanic, CollectedTyped, ReapedIs, NoLeaseIs
      DEF CancelsContext, StopsRun, SetupPoll, SetupCancel, CancelsPackage, PrepareClose,
      Advanced, Typed, StateTyped, TypeOK
  <1>12. CASE \/ Collect \/ SettleLease \/ JoinBridge
    BY <1>12, SettleLeaseDoes, JoinBridgeDoes, NoPanic, CollectedTyped, ReapedIs, NoLeaseIs
      DEF Collect, Advanced, Collects, Typed, StateTyped, TypeOK
  <1> QED
    BY <1>1, <1>2, <1>3, <1>4, <1>5, <1>6, <1>7, <1>8, <1>9, <1>10, <1>11, <1>12 DEF Next,
      Accepts, Works, Shutdown

(* The step that a caller takes fits its command,                          *)
LEMMA OwnStep ==
    ASSUME TypeOK, StepsFit, LeaseFits(ws, stop), DiscoveryFits(ws, stop),
           NEW c \in Callers, CallerStep(c)
    PROVE  StepFits(c)'
  <1>a. StepFits(c)
    BY DEF StepsFit
  <1>1. ASSUME \/ Capturing(c) \/ Start(c) \/ CheckEnvironment(c) \/ Enter(c)
        PROVE  StepFits(c)'
    BY <1>1, CommandsDo, StartDoes, LeaveDoes, GotoDoes, <1>a, NoPanic, AttemptIs,
      CallersAssumption DEF Accepted, Left, Begun, BeginsRun, Goes, PackageIdle, StepFits,
      Holds, Holding, Attempts, Waits, NoCall, NoAttempt, LeaseRuns, Edits
  <1>2. ASSUME \/ Exit(c)
               \/ \E kind \in Edits : Edit(c, kind)
               \/ \E kind \in LeaseRuns : TakeStop(c, kind)
               \/ Discover(c)
        PROVE  StepFits(c)'
    BY <1>2, ExitDoes, EditDoes, TakeStopDoes, DiscoverDoes, LeaveDoes, GotoDoes, <1>a,
      NoPanic, AttemptIs, CallersAssumption DEF Accepted, Left, Goes, Remembers, LeaseOnly,
      PackageIdle, StepFits, Holds, Holding, Attempts, Waits, NoCall, NoAttempt, LeaseRuns,
      Edits
  <1>3. ASSUME \/ SetupStart(c)
               \/ \E kind \in {"import", "export"} : Prepare(c, kind)
               \/ TakeReview(c) \/ PickPackage(c)
        PROVE  StepFits(c)'
    BY <1>3, SetupStartDoes, PrepareDoes, TakeReviewDoes, PickPackageDoes, LeaveDoes,
      GotoDoes, <1>a, NoPanic, AttemptIs, CallersAssumption DEF Left, Accepted, Goes,
      Remembers, PackageIdle, StepFits, Holds, Holding, Attempts, Waits, NoCall, NoAttempt,
      LeaseRuns, Edits
  <1>4. ASSUME \/ Pick(c) \/ Close(c) \/ PrepareReconstruction(c) \/ Refuse(c)
        PROVE  StepFits(c)'
    BY <1>4, PickDoes, CommandsDo, LeaveDoes, GotoDoes, <1>a, NoPanic, AttemptIs,
      CallersAssumption DEF Accepted, Goes, Left, Refuse, PackageIdle, StepFits, Holds,
      Holding, Attempts, Waits, NoCall, NoAttempt, LeaseRuns, Edits
  <1>5. ASSUME \/ Opened(c) \/ Edited(c) \/ WorkFails(c) \/ StartLeaseRun(c)
        PROVE  StepFits(c)'
    BY <1>5, OpenedDoes, EditedDoes, StartLeaseRunDoes, LeaveDoes, GotoDoes, <1>a, NoPanic,
      AttemptIs, CallersAssumption DEF Left, WorkFails, Goes, BeginsRun, PackageIdle,
      StepFits, Holds, Holding, Attempts, Waits, NoCall, NoAttempt, LeaseRuns, Edits
  <1>6. ASSUME \/ RecordRun(c) \/ Validated(c) \/ Recognized(c) \/ Discovered(c)
        PROVE  StepFits(c)'
    BY <1>6, RecordRunDoes, ValidatedDoes, RecognizedDoes, DiscoveredDoes, LeaveDoes,
      GotoDoes, <1>a, NoPanic, AttemptIs, CallersAssumption DEF Left, Goes, Waits,
      Remembers, LeaseOnly, PackageIdle, StepFits, Holds, Holding, Attempts, NoCall,
      NoAttempt, LeaseRuns, Edits
  <1>7. ASSUME \/ DropDiscovery(c) \/ ForgetContext(c) \/ ReviewReady(c)
               \/ PrepareFails(c)
        PROVE  StepFits(c)'
    BY <1>7, DropDiscoveryDoes, ForgetContextDoes, ReviewReadyDoes, LeaveDoes, GotoDoes,
      <1>a, NoPanic, AttemptIs, CallersAssumption DEF Goes, Remembers, LeaseOnly,
      Discovers, Left, PrepareFails, PackageIdle, StepFits, Holds, Holding, Attempts,
      Waits, NoCall, NoAttempt, LeaseRuns, Edits
  <1>8. ASSUME \/ BeginPublish(c) \/ Checkpoint(c) \/ Commit(c) \/ PublishFails(c)
        PROVE  StepFits(c)'
    BY <1>8, BeginPublishDoes, CommitDoes, PublishFailsDoes, LeaveDoes, GotoDoes, <1>a,
      NoPanic, AttemptIs, CallersAssumption DEF Left, Goes, Checkpoint, Concludes,
      PackageIdle, StepFits, Holds, Holding, Attempts, Waits, NoCall, NoAttempt, LeaseRuns,
      Edits
  <1>9. ASSUME \/ DropAttempt(c) \/ Picked(c)
        PROVE  StepFits(c)'
    BY <1>9, DropAttemptDoes, PickedDoes, LeaveDoes, <1>a, NoPanic, AttemptIs,
      CallersAssumption DEF Left, Goes, PackageIdle, StepFits, Holds, Holding, Attempts,
      Waits, NoCall, NoAttempt, LeaseRuns, Edits
  <1> QED
    BY <1>1, <1>2, <1>3, <1>4, <1>5, <1>6, <1>7, <1>8, <1>9 DEF CallerStep, Accepts, Works

(* and takes neither the mutex nor the attempt from another caller.        *)
LEMMA OthersStep ==
    ASSUME TypeOK, StepsFit, LeaseFits(ws, stop), DiscoveryFits(ws, stop),
           NEW c \in Callers, CallerStep(c)
    PROVE  OthersKeep(c)
  <1>a. StepFits(c)
    BY DEF StepsFit
  <1>1. ASSUME \/ Capturing(c) \/ Start(c) \/ CheckEnvironment(c) \/ Enter(c)
        PROVE  OthersKeep(c)
    BY <1>1, CommandsDo, StartDoes, LeaveDoes, GotoDoes, <1>a, NoPanic, AttemptIs,
      CallersAssumption DEF Accepted, Left, Begun, BeginsRun, Goes, PackageIdle, StepFits,
      Holds, Holding, Attempts, Waits, NoAttempt, OthersKeep
  <1>2. ASSUME \/ Exit(c)
               \/ \E kind \in Edits : Edit(c, kind)
               \/ \E kind \in LeaseRuns : TakeStop(c, kind)
               \/ Discover(c)
        PROVE  OthersKeep(c)
    BY <1>2, ExitDoes, EditDoes, TakeStopDoes, DiscoverDoes, LeaveDoes, GotoDoes, <1>a,
      NoPanic, AttemptIs, CallersAssumption DEF Accepted, Left, Goes, LeaseOnly,
      PackageIdle, StepFits, Holds, Holding, Attempts, Waits, NoAttempt, OthersKeep
  <1>3. ASSUME \/ SetupStart(c)
               \/ \E kind \in {"import", "export"} : Prepare(c, kind)
               \/ TakeReview(c) \/ PickPackage(c)
        PROVE  OthersKeep(c)
    BY <1>3, SetupStartDoes, PrepareDoes, TakeReviewDoes, PickPackageDoes, LeaveDoes,
      GotoDoes, <1>a, NoPanic, AttemptIs, CallersAssumption DEF Left, Accepted, Goes,
      PackageIdle, StepFits, Holds, Holding, Attempts, Waits, NoAttempt, OthersKeep
  <1>4. ASSUME \/ Pick(c) \/ Close(c) \/ PrepareReconstruction(c) \/ Refuse(c)
        PROVE  OthersKeep(c)
    BY <1>4, PickDoes, CommandsDo, LeaveDoes, GotoDoes, <1>a, NoPanic, AttemptIs,
      CallersAssumption DEF Accepted, Goes, Left, Refuse, PackageIdle, StepFits, Holds,
      Holding, Attempts, Waits, NoAttempt, OthersKeep
  <1>5. ASSUME \/ Opened(c) \/ Edited(c) \/ WorkFails(c) \/ StartLeaseRun(c)
        PROVE  OthersKeep(c)
    BY <1>5, OpenedDoes, EditedDoes, StartLeaseRunDoes, LeaveDoes, GotoDoes, <1>a, NoPanic,
      AttemptIs, CallersAssumption DEF Left, WorkFails, Goes, BeginsRun, PackageIdle,
      StepFits, Holds, Holding, Attempts, Waits, NoAttempt, OthersKeep
  <1>6. ASSUME \/ RecordRun(c) \/ Validated(c) \/ Recognized(c) \/ Discovered(c)
        PROVE  OthersKeep(c)
    BY <1>6, RecordRunDoes, ValidatedDoes, RecognizedDoes, DiscoveredDoes, LeaveDoes,
      GotoDoes, <1>a, NoPanic, AttemptIs, CallersAssumption DEF Left, Goes, Waits,
      LeaseOnly, PackageIdle, StepFits, Holds, Holding, Attempts, NoAttempt, OthersKeep
  <1>7. ASSUME \/ DropDiscovery(c) \/ ForgetContext(c) \/ ReviewReady(c)
               \/ PrepareFails(c)
        PROVE  OthersKeep(c)
    BY <1>7, DropDiscoveryDoes, ForgetContextDoes, ReviewReadyDoes, LeaveDoes, GotoDoes,
      <1>a, NoPanic, AttemptIs, CallersAssumption DEF Goes, LeaseOnly, Discovers, Left,
      PrepareFails, PackageIdle, StepFits, Holds, Holding, Attempts, Waits, NoAttempt,
      OthersKeep
  <1>8. ASSUME \/ BeginPublish(c) \/ Checkpoint(c) \/ Commit(c) \/ PublishFails(c)
        PROVE  OthersKeep(c)
    BY <1>8, BeginPublishDoes, CommitDoes, PublishFailsDoes, LeaveDoes, GotoDoes, <1>a,
      NoPanic, AttemptIs, CallersAssumption DEF Left, Goes, Checkpoint, Concludes,
      PackageIdle, StepFits, Holds, Holding, Attempts, Waits, NoAttempt, OthersKeep
  <1>9. ASSUME \/ DropAttempt(c) \/ Picked(c)
        PROVE  OthersKeep(c)
    BY <1>9, DropAttemptDoes, PickedDoes, LeaveDoes, <1>a, NoPanic, AttemptIs,
      CallersAssumption DEF Left, Goes, PackageIdle, StepFits, Holds, Holding, Attempts,
      Waits, NoAttempt, OthersKeep
  <1> QED
    BY <1>1, <1>2, <1>3, <1>4, <1>5, <1>6, <1>7, <1>8, <1>9 DEF CallerStep, Accepts, Works

(* A caller without the command mutex takes few steps.                     *)
LEMMA UnheldSteps ==
    ASSUME TypeOK, StepsFit, LeaseFits(ws, stop), DiscoveryFits(ws, stop),
           NEW c \in Callers, CallerStep(c)
    PROVE  Holds(c) \/ Unheld(c)
  <1>1. ASSUME \/ Capturing(c) \/ Start(c) \/ CheckEnvironment(c) \/ Enter(c)
        PROVE  Holds(c) \/ Unheld(c)
    BY <1>1, CommandsDo, StartDoes, NoPanic DEF Accepted, Begun, Unheld, Holds, Holding,
      Waits
  <1>2. ASSUME \/ Exit(c)
               \/ \E kind \in Edits : Edit(c, kind)
               \/ \E kind \in LeaseRuns : TakeStop(c, kind)
               \/ Discover(c)
        PROVE  Holds(c) \/ Unheld(c)
    BY <1>2, ExitDoes, EditDoes, TakeStopDoes, DiscoverDoes, NoPanic DEF Accepted, Unheld,
      Holds, Holding, Waits
  <1>3. ASSUME \/ SetupStart(c)
               \/ \E kind \in {"import", "export"} : Prepare(c, kind)
               \/ TakeReview(c) \/ PickPackage(c)
        PROVE  Holds(c) \/ Unheld(c)
    BY <1>3, SetupStartDoes, PrepareDoes, TakeReviewDoes, PickPackageDoes, NoPanic
      DEF Accepted, Unheld, Holds, Holding, Waits
  <1>4. ASSUME \/ Pick(c) \/ Close(c) \/ PrepareReconstruction(c) \/ Refuse(c)
        PROVE  Holds(c) \/ Unheld(c)
    BY <1>4, PickDoes, CommandsDo, NoPanic DEF Accepted, Refuse, Unheld, Holds, Holding,
      Waits
  <1>5. ASSUME \/ Opened(c) \/ Edited(c) \/ WorkFails(c) \/ StartLeaseRun(c)
        PROVE  Holds(c) \/ Unheld(c)
    BY <1>5, OpenedDoes, EditedDoes, StartLeaseRunDoes, NoPanic DEF WorkFails, Unheld,
      Holds, Holding, Waits
  <1>6. ASSUME \/ RecordRun(c) \/ Validated(c) \/ Recognized(c) \/ Discovered(c)
        PROVE  Holds(c) \/ Unheld(c)
    BY <1>6, RecordRunDoes, ValidatedDoes, RecognizedDoes, DiscoveredDoes, NoPanic
      DEF Waits, Unheld, Holds, Holding
  <1>7. ASSUME \/ DropDiscovery(c) \/ ForgetContext(c) \/ ReviewReady(c)
               \/ PrepareFails(c)
        PROVE  Holds(c) \/ Unheld(c)
    BY <1>7, DropDiscoveryDoes, ForgetContextDoes, ReviewReadyDoes, NoPanic DEF Discovers,
      PrepareFails, Unheld, Holds, Holding, Waits
  <1>8. ASSUME \/ BeginPublish(c) \/ Checkpoint(c) \/ Commit(c) \/ PublishFails(c)
        PROVE  Holds(c) \/ Unheld(c)
    BY <1>8, BeginPublishDoes, CommitDoes, PublishFailsDoes, NoPanic DEF Checkpoint,
      Concludes, Unheld, Holds, Holding, Waits
  <1>9. ASSUME \/ DropAttempt(c) \/ Picked(c)
        PROVE  Holds(c) \/ Unheld(c)
    BY <1>9, DropAttemptDoes, PickedDoes, NoPanic DEF Unheld, Holds, Holding, Waits
  <1> QED
    BY <1>1, <1>2, <1>3, <1>4, <1>5, <1>6, <1>7, <1>8, <1>9 DEF CallerStep, Accepts, Works

(* The steps of no caller leave callers, the mutex and the attempt alone.  *)
LEMMA EnvironmentKeeps ==
    ASSUME TypeOK, Environment
    PROVE  UNCHANGED <<commands, pc, call>> /\ package'.active.by = package.active.by
  <1>1. CASE \/ \E owner \in 1..MaxSessions : AuthoringStop(owner)
             \/ Stop \/ WorkerEnds \/ Collect \/ SetupReturns \/ SetupPoll
             \/ SetupCancel \/ PrepareClose \/ ShutdownBegins \/ CancelContext
             \/ CancelSetup \/ CloseRunner \/ JoinRunner \/ SettleLease \/ SettleLate
             \/ WaitSetup \/ WaitPackage \/ JoinBridge \/ Deadline
    BY <1>1, AuthoringStopDoes, StopDoes, WorkerEndsDoes, SetupReturnsDoes,
      ShutdownBeginsDoes, CancelContextDoes, CancelSetupDoes, CloseRunnerDoes,
      JoinRunnerDoes, SettleLeaseDoes, SettleLateDoes, WaitSetupDoes, WaitPackageDoes,
      JoinBridgeDoes, DeadlineDoes DEF CancelsContext, StopsRun, Collect, SetupPoll,
      SetupCancel, PrepareClose, Advanced
  <1>2. CASE \/ PackageCancel \/ CancelPackage
    BY <1>2, PackageCancelDoes, CancelPackageDoes DEF CancelsPackage, Advanced
  <1> QED
    BY <1>1, <1>2 DEF Environment, Shutdown

(* A step of a caller, the admission of a command, or a step of anybody else. *)
LEMMA NextIs ==
    ASSUME Next
    PROVE  \/ \E c \in Callers, kind \in Kinds : Admit(c, kind)
           \/ \E c \in Callers : CallerStep(c)
           \/ Environment
  BY DEF Next, CallerStep, Environment

(* TypeOK and the part about the steps of callers are invariant.           *)
LEMMA StepsKept ==
    ASSUME TypeOK, StepsFit, LeaseFits(ws, stop), DiscoveryFits(ws, stop), Next
    PROVE  TypeOK' /\ StepsFit'
  <1>1. ASSUME NEW c \in Callers, NEW kind \in Kinds, Admit(c, kind)
        PROVE  /\ pc' \in [Callers -> Steps] /\ call' \in [Callers -> CallType]
               /\ commands' \in Callers \cup {NONE} /\ StepsFit'
    <2>1. Goes(c, "admitted") /\ pc' \in [Callers -> Steps]
      BY <1>1, AdmitDoes, GotoDoes DEF Steps
    <2>2. ASSUME NEW d \in Callers
          PROVE  StepFits(d)'
      <3>1. StepFits(d)
        BY DEF StepsFit
      <3> QED
        BY <1>1, <2>1, <3>1, AdmitDoes, CallersAssumption
        DEF Goes, StepFits, Holds, Holding, Attempts, Waits
    <2> QED
      BY <1>1, <2>1, <2>2, AdmitDoes DEF StepsFit
  <1>2. ASSUME NEW c \in Callers, CallerStep(c)
        PROVE  /\ pc' \in [Callers -> Steps] /\ call' \in [Callers -> CallType]
               /\ commands' \in Callers \cup {NONE} /\ StepsFit'
    <2>1. /\ pc' \in [Callers -> Steps] /\ call' \in [Callers -> CallType]
          /\ commands' \in Callers \cup {NONE} /\ Elsewhere(c)
      BY <1>2, CallerMoves, MovesDo
    <2>2. ASSUME NEW d \in Callers \ {c}
          PROVE  StepFits(d)'
      <3>1. StepFits(d) /\ pc'[d] = pc[d] /\ call'[d] = call[d]
        BY <2>1 DEF StepsFit, Elsewhere
      <3>2. /\ commands' = d <=> commands = d
            /\ package'.active.by = d <=> package.active.by = d
        BY <1>2, OthersStep DEF OthersKeep
      <3> QED
        BY <3>1, <3>2 DEF StepFits, Holds, Attempts, Waits
    <2>3. StepFits(c)'
      BY <1>2, OwnStep
    <2> QED
      BY <2>1, <2>2, <2>3 DEF StepsFit
  <1>3. ASSUME Environment
        PROVE  /\ pc' \in [Callers -> Steps] /\ call' \in [Callers -> CallType]
               /\ commands' \in Callers \cup {NONE} /\ StepsFit'
    <2>1. UNCHANGED <<commands, pc, call>> /\ package'.active.by = package.active.by
      BY <1>3, EnvironmentKeeps
    <2>2. ASSUME NEW d \in Callers
          PROVE  StepFits(d)'
      BY <2>1 DEF StepsFit, StepFits, Holds, Attempts, Waits
    <2> QED
      BY <2>1, <2>2 DEF StepsFit, TypeOK
  <1>4. /\ pc' \in [Callers -> Steps] /\ call' \in [Callers -> CallType]
        /\ commands' \in Callers \cup {NONE} /\ StepsFit'
    BY <1>1, <1>2, <1>3, NextIs
  <1> QED
    BY <1>4, StateStep DEF TypeOK, StateTyped

(* What the invariant says to the caller of a step, before it and after collect. *)
Known(w, s, c) ==
    /\ LeaseOf(w, s) /\ ReservationFits(w, c)
    /\ DiscoveryOf(w) /\ DiscovererFits(w, s, c)
    /\ SlotsOf(w) /\ TakenFits(w, c)
    /\ RunOf(w, s) /\ RecognitionOf(w) /\ StarterFits(w, c)

LEMMA Knows ==
    ASSUME IInv
    PROVE  /\ TypeOK /\ StepsFit /\ LeaseFits(ws, stop) /\ DiscoveryFits(ws, stop) /\ CInv
           /\ \A c \in Callers :
                 StepFits(c) /\ Known(ws, stop, c) /\ Known(Collected, CollectedStop, c)
  <1>1. TypeOK /\ Fits(ws, stop, seen)
    BY DEF IInv
  <1>2. CInv
    BY <1>1, CollectedLease, CollectedDiscovery, CollectedSlots, CollectedRun, CollectedAsked,
       CollectedContainment, CollectedTokens, CollectedExport, CollectedShut
    DEF CInv, Fits
  <1>3. ASSUME NEW c \in Callers
        PROVE  StepFits(c) /\ Known(ws, stop, c) /\ Known(Collected, CollectedStop, c)
    BY <1>1, <1>2 DEF CInv, Fits, StepsFit, LeaseFits, DiscoveryFits, SlotsFit, RunFits, Known
  <1> QED
    BY <1>1, <1>2, <1>3 DEF Fits

(* What steps of nobody's command leave to the commands: workspaces and Stop as
   they are or collected, unless shutdown settles the lease. *)
Kept ==
    /\ ws' = ws /\ stop'.owner = stop.owner /\ stop'.run = stop.run
    /\ stop'.context.by = stop.context.by
CollectsOnly == Collects /\ UNCHANGED <<runner, setup, package>>
SlotsKept ==
    /\ SetupSettled => SetupSettled' /\ setup'.cleanup = setup.cleanup
    /\ SetupSettled' => SetupSettled \/ setup.state = "returned"
    /\ package'.active.by = package.active.by /\ package'.contained = package.contained
    /\ package'.next = package.next /\ package'.review \in {package.review, NoReview}
RunnerKept ==
    /\ runner'.run = runner.run /\ runner'.owner = runner.owner /\ runner'.native = runner.native
    /\ runner.closed => runner'.closed
    /\ ~WorkerEnds => runner'.state = runner.state /\ runner'.outcome = runner.outcome

(* Work under a reservation begins when everything else is quiet. *)
LEMMA QuietBegins ==
    ASSUME TypeOK, NEW c \in Callers, NEW kind, Accepted(c, kind), ws' = Collected,
           WorkIdle(Collected), package' = package
    PROVE  Quiet(ws)'
  BY AcceptedIs DEF Quiet, WorkIdle, Discovering, NotReserved, PackageIdle

LEMMA QuietStays ==
    ASSUME UNCHANGED <<ws, setup, package>>
    PROVE  Quiet(ws)' <=> Quiet(ws)
  BY DEF Quiet, NotReserved, Discovering, PackageIdle, SetupSettled

(* The part about the lease, for the caller of the step,                   *)
LEMMA LeaseOwn ==
    ASSUME IInv,
           NEW c \in Callers, CallerStep(c)
    PROVE  LeaseOf(ws, stop)' /\ ReservationFits(ws, c)'
  <1>a. /\ TypeOK /\ StepFits(c) /\ Known(ws, stop, c) /\ Known(Collected, CollectedStop, c)
        /\ StepsFit /\ LeaseFits(ws, stop) /\ DiscoveryFits(ws, stop)
    BY Knows
  <1>1. ASSUME \/ Capturing(c) \/ Start(c) \/ CheckEnvironment(c) \/ Enter(c)
        PROVE  LeaseOf(ws, stop)' /\ ReservationFits(ws, c)'
    BY <1>1, CommandsDo, StartDoes, LeaveDoes, GotoDoes, <1>a, NoPanic, QuietBegins,
      QuietStays, CollectedIs, CollectedStopIs, NoLeaseIs DEF Left, Begun, Idle, Collects,
      Goes, NoCall, Known, StepFits, LeaseOf, ReservationFits, Reserved, Waits,
      DiscovererFits, Discovers, Holds, Holding
  <1>2. ASSUME \/ Exit(c)
               \/ \E kind \in Edits : Edit(c, kind)
               \/ \E kind \in LeaseRuns : TakeStop(c, kind)
               \/ Discover(c)
        PROVE  LeaseOf(ws, stop)' /\ ReservationFits(ws, c)'
    BY <1>2, ExitDoes, EditDoes, TakeStopDoes, DiscoverDoes, LeaveDoes, GotoDoes, <1>a,
      NoPanic, QuietBegins, QuietStays, CollectedIs, CollectedStopIs, NoLeaseIs, AcceptedIs
      DEF Left, Collects, Goes, Remembers, LeaseOnly, NoCall, Known, StepFits, LeaseOf,
      ReservationFits, Reserved, Waits, DiscovererFits, Discovers, Holds, Holding
  <1>3. ASSUME \/ SetupStart(c)
               \/ \E kind \in {"import", "export"} : Prepare(c, kind)
               \/ TakeReview(c) \/ PickPackage(c)
        PROVE  LeaseOf(ws, stop)' /\ ReservationFits(ws, c)'
    BY <1>3, SetupStartDoes, PrepareDoes, TakeReviewDoes, PickPackageDoes, LeaveDoes,
      GotoDoes, <1>a, NoPanic, QuietBegins, QuietStays, CollectedIs, CollectedStopIs,
      NoLeaseIs DEF Left, Collects, Idle, Goes, Remembers, NoCall, Known, StepFits,
      LeaseOf, ReservationFits, Reserved, Waits, DiscovererFits, Discovers, Holds, Holding
  <1>4. ASSUME \/ Pick(c) \/ Close(c) \/ PrepareReconstruction(c) \/ Refuse(c)
        PROVE  LeaseOf(ws, stop)' /\ ReservationFits(ws, c)'
    BY <1>4, PickDoes, CommandsDo, LeaveDoes, GotoDoes, <1>a, NoPanic, QuietBegins,
      QuietStays, CollectedIs, CollectedStopIs, NoLeaseIs DEF Goes, Left, Collects, Idle,
      Refuse, NoCall, Known, StepFits, LeaseOf, ReservationFits, Reserved, Waits,
      DiscovererFits, Discovers, Holds, Holding
  <1>5. ASSUME \/ Opened(c) \/ Edited(c) \/ WorkFails(c) \/ StartLeaseRun(c)
        PROVE  LeaseOf(ws, stop)' /\ ReservationFits(ws, c)'
    BY <1>5, OpenedDoes, EditedDoes, StartLeaseRunDoes, LeaveDoes, GotoDoes, <1>a, NoPanic,
      QuietBegins, QuietStays, CollectedIs, CollectedStopIs, NoLeaseIs DEF Left, WorkFails,
      Goes, NoCall, Known, StepFits, LeaseOf, ReservationFits, Reserved, Waits,
      DiscovererFits, Discovers, Holds, Holding, Quiet, NotReserved
  <1>6. ASSUME \/ RecordRun(c) \/ Validated(c) \/ Recognized(c) \/ Discovered(c)
        PROVE  LeaseOf(ws, stop)' /\ ReservationFits(ws, c)'
    BY <1>6, RecordRunDoes, ValidatedDoes, RecognizedDoes, DiscoveredDoes, LeaveDoes,
      GotoDoes, <1>a, NoPanic, QuietBegins, QuietStays, CollectedIs, CollectedStopIs,
      NoLeaseIs DEF Left, Goes, Waits, Remembers, LeaseOnly, NoCall, Known, StepFits,
      LeaseOf, ReservationFits, Reserved, DiscovererFits, Discovers, Holds, Holding
  <1>7. ASSUME \/ DropDiscovery(c) \/ ForgetContext(c) \/ ReviewReady(c)
               \/ PrepareFails(c)
        PROVE  LeaseOf(ws, stop)' /\ ReservationFits(ws, c)'
    BY <1>7, DropDiscoveryDoes, ForgetContextDoes, ReviewReadyDoes, LeaveDoes, GotoDoes,
      <1>a, NoPanic, QuietBegins, QuietStays, CollectedIs, CollectedStopIs, NoLeaseIs
      DEF Goes, Remembers, LeaseOnly, Discovers, Left, PrepareFails, NoCall, Known, StepFits,
      LeaseOf, ReservationFits, Reserved, Waits, DiscovererFits, Holds, Holding
  <1>8. ASSUME \/ BeginPublish(c) \/ Checkpoint(c) \/ Commit(c) \/ PublishFails(c)
        PROVE  LeaseOf(ws, stop)' /\ ReservationFits(ws, c)'
    BY <1>8, BeginPublishDoes, CommitDoes, PublishFailsDoes, LeaveDoes, GotoDoes, <1>a,
      NoPanic, QuietBegins, QuietStays, CollectedIs, CollectedStopIs, NoLeaseIs DEF Left,
      Goes, Checkpoint, Concludes, NoCall, Known, StepFits, LeaseOf, ReservationFits,
      Reserved, Waits, DiscovererFits, Discovers, Holds, Holding
  <1>9. ASSUME \/ DropAttempt(c) \/ Picked(c)
        PROVE  LeaseOf(ws, stop)' /\ ReservationFits(ws, c)'
    BY <1>9, DropAttemptDoes, PickedDoes, LeaveDoes, <1>a, NoPanic, QuietBegins,
      QuietStays, CollectedIs, CollectedStopIs, NoLeaseIs DEF Left, Goes, NoCall, Known,
      StepFits, LeaseOf, ReservationFits, Reserved, Waits, DiscovererFits, Discovers,
      Holds, Holding
  <1> QED
    BY <1>1, <1>2, <1>3, <1>4, <1>5, <1>6, <1>7, <1>8, <1>9 DEF CallerStep, Accepts, Works

(* for the others,                                                         *)
LEMMA LeaseOthers ==
    ASSUME IInv, NEW c \in Callers, CallerStep(c), NEW d \in Callers \ {c}
    PROVE  ReservationFits(ws, d)'
  <1>1. pc'[d] = pc[d] /\ call'[d] = call[d]
    BY Knows, CallerMoves, MovesDo DEF Elsewhere
  <1>2. /\ TypeOK /\ StepsFit /\ ReservationFits(ws, d) /\ ReservationFits(Collected, d)
        /\ DiscovererFits(ws, stop, c) /\ DiscoveryOf(ws)
    BY Knows DEF Known
  <1>3. CASE Holds(c)
    <2>1. ~Holds(d)
      BY <1>2, <1>3, Alone
    <2> QED
      BY <1>1, <2>1 DEF ReservationFits, Reserved, Holds, Holding, Waits
  <1>4. ASSUME Discovered(c) \/ DropDiscovery(c)
        PROVE  ReservationFits(ws, d)'
    <2>1. Discovers(c)
      BY <1>4 DEF Discovered, DropDiscovery, Discovers
    <2>2. ~Reserved(d) /\ ws.lease.owner # 0
      BY <1>2, <2>1 DEF DiscovererFits, DiscoveryOf, ReservationFits, Quiet, NotReserved, Discovering
    <2>3. ws'.lease.owner = ws.lease.owner
      BY <1>2, <1>4, <2>2, DiscoveredDoes, DropDiscoveryDoes
    <2> QED
      BY <1>1, <1>2, <2>2, <2>3 DEF ReservationFits, Reserved, Waits
  <1>5. ASSUME ForgetContext(c)
        PROVE  ReservationFits(ws, d)'
    BY <1>1, <1>2, <1>5, ForgetContextDoes, QuietStays DEF ReservationFits, Reserved, Waits
  <1>6. ASSUME Picked(c)
        PROVE  ReservationFits(ws, d)'
    BY <1>1, <1>2, <1>6, PickedDoes
    DEF ReservationFits, Reserved, Waits, Quiet, NotReserved, Discovering, SetupSettled, PackageIdle
  <1>7. ASSUME DropAttempt(c), ~Holds(c)
        PROVE  ReservationFits(ws, d)'
    <2>1. package.active.by = c
      BY <1>2, <1>7, DropAttemptDoes DEF StepsFit, StepFits, Attempts, Holds, Holding
    <2>2. ~Reserved(d)
      BY <1>2, <2>1, CallersAssumption DEF ReservationFits, Quiet, PackageIdle
    <2> QED
      BY <1>1, <1>2, <1>7, <2>2, DropAttemptDoes DEF ReservationFits, Reserved, Waits
  <1>8. ASSUME Recognized(c)
        PROVE  ReservationFits(ws, d)'
    <2>1. CASE UNCHANGED ws
      BY <1>1, <1>2, <1>8, <2>1, RecognizedDoes, QuietStays DEF ReservationFits, Reserved, Waits
    <2>2. CASE ~UNCHANGED ws
      <3>1. /\ UNCHANGED <<setup, package>>
            /\ ws'.operation = Collected.operation /\ ws'.picker = Collected.picker
            /\ ws'.lease.owner = Collected.lease.owner
            /\ ws'.lease.contained = Collected.lease.contained
            /\ ws'.lease.discovery = Collected.lease.discovery
            /\ ws'.sessions = Collected.sessions /\ ws'.sources = Collected.sources
            /\ ws'.dirty = Collected.dirty
        BY <1>2, <1>8, <2>2, RecognizedDoes, CollectedIs
      <3>2. Quiet(ws)' <=> Quiet(Collected)
        BY <3>1 DEF Quiet, NotReserved, Discovering, SetupSettled, PackageIdle
      <3> QED
        BY <1>1, <1>2, <3>1, <3>2 DEF ReservationFits, Reserved, Waits
    <2> QED
      BY <2>1, <2>2
  <1> QED
    BY <1>3, <1>4, <1>5, <1>6, <1>7, <1>8, Knows, UnheldSteps DEF Unheld

(* The steps of no caller, as those that work see them.                    *)
LEMMA EnvironmentDoes ==
    ASSUME TypeOK, Environment
    PROVE  (Kept \/ CollectsOnly \/ SettleLease) /\ SlotsKept /\ RunnerKept
  <1>1. CASE \/ \E owner \in 1..MaxSessions : AuthoringStop(owner)
             \/ Stop \/ WorkerEnds \/ Collect \/ SetupReturns \/ SetupPoll
             \/ SetupCancel \/ PackageCancel
    BY <1>1, AuthoringStopDoes, StopDoes, WorkerEndsDoes, SetupReturnsDoes,
      PackageCancelDoes, ReapedIs DEF CancelsContext, StopsRun, Collect, SetupPoll,
      SetupCancel, CancelsPackage, Kept, CollectsOnly, SlotsKept, RunnerKept, SetupSettled,
      Collects, TypeOK, SetupType
  <1>2. CASE \/ PrepareClose \/ ShutdownBegins \/ JoinRunner \/ SettleLate
             \/ WaitPackage \/ Deadline
    BY <1>2, ShutdownBeginsDoes, JoinRunnerDoes, SettleLateDoes, WaitPackageDoes,
      DeadlineDoes, ReapedIs DEF PrepareClose, Advanced, Kept, CollectsOnly, SlotsKept,
      RunnerKept, SetupSettled, Collects, TypeOK, SetupType
  <1>3. CASE \/ CancelContext \/ CancelSetup \/ CancelPackage \/ CloseRunner
             \/ SettleLease \/ WaitSetup \/ JoinBridge
    BY <1>3, CancelContextDoes, CancelSetupDoes, CancelPackageDoes, CloseRunnerDoes,
      SettleLeaseDoes, WaitSetupDoes, JoinBridgeDoes, ReapedIs DEF Advanced,
      CancelsContext, CancelsPackage, StopsRun, Collects, Kept, CollectsOnly, SlotsKept,
      RunnerKept, SetupSettled, TypeOK, SetupType
  <1> QED
    BY <1>1, <1>2, <1>3 DEF Environment, Shutdown

(* Admission only takes the command mutex.                                 *)
LEMMA AdmitKeeps ==
    ASSUME TypeOK, NEW c \in Callers, NEW kind \in Kinds, Admit(c, kind)
    PROVE  /\ pc[c] = "idle" /\ pc'[c] = "admitted" /\ Elsewhere(c) /\ call'[c].kind = kind
           /\ kind = "capture" \/ ~closing
           /\ UNCHANGED <<closing, ws, stop, runner, setup, package, shut, seen>>
  BY AdmitDoes, GotoDoes DEF Goes, Elsewhere

(* and for every step.                                                     *)
LEMMA LeaseKept ==
    ASSUME IInv, Next
    PROVE  LeaseFits(ws, stop)'
  <1>1. ASSUME NEW c \in Callers, NEW kind \in Kinds, Admit(c, kind)
        PROVE  LeaseFits(ws, stop)'
    <2>1. ASSUME NEW d \in Callers
          PROVE  ReservationFits(ws, d)'
      <3>1. Quiet(ws)' <=> Quiet(ws)
        BY <1>1, Knows, AdmitKeeps, QuietStays
      <3>2. ReservationFits(ws, d)
        BY Knows DEF Known
      <3> QED
        BY <1>1, <3>1, <3>2, Knows, AdmitKeeps DEF ReservationFits, Reserved, Waits, Elsewhere
    <2> QED
      BY <1>1, <2>1, Knows, AdmitKeeps DEF LeaseFits, LeaseOf
  <1>2. ASSUME NEW c \in Callers, CallerStep(c)
        PROVE  LeaseFits(ws, stop)'
    BY <1>2, LeaseOwn, LeaseOthers DEF LeaseFits
  <1>3. ASSUME Environment
        PROVE  LeaseFits(ws, stop)'
    <2>1. /\ UNCHANGED <<commands, pc, call>> /\ SlotsKept /\ (Kept \/ CollectsOnly \/ SettleLease)
      BY <1>3, Knows, EnvironmentKeeps, EnvironmentDoes
    <2>2. LeaseFits(ws, stop) /\ LeaseFits(Collected, CollectedStop) /\ TypeOK /\ StepsFit
      BY Knows DEF CInv, Fits
    <2>3. CASE Kept \/ CollectsOnly
      <3>1. PICK w, s : /\ LeaseFits(w, s) /\ ws' = w /\ stop'.owner = s.owner
        BY <2>2, <2>3 DEF Kept, CollectsOnly, Collects
      <3>2. ASSUME NEW d \in Callers
            PROVE  ReservationFits(ws, d)'
        <4>1. ReservationFits(w, d) /\ (Quiet(w) => Quiet(ws)')
          BY <2>1, <3>1
          DEF LeaseFits, Quiet, NotReserved, Discovering, PackageIdle, SlotsKept
        <4> QED
          BY <2>1, <3>1, <4>1 DEF ReservationFits, Reserved, Waits
      <3> QED
        BY <3>1, <3>2 DEF LeaseFits, LeaseOf
    <2>4. CASE SettleLease
      <3>1. ASSUME NEW d \in Callers
            PROVE  ReservationFits(ws, d)'
        <4>1. ~Reserved(d) /\ ~Waits(d, "validate")
          BY <2>2, <2>4, SettleLeaseDoes, CallersAssumption
          DEF StepsFit, StepFits, Holds, Holding, Reserved
        <4> QED
          BY <2>1, <4>1 DEF ReservationFits, Reserved, Waits
      <3>2. LeaseOf(ws, stop)'
        BY <2>2, <2>4, SettleLeaseDoes, NoLeaseIs DEF LeaseFits, LeaseOf
      <3> QED
        BY <3>1, <3>2 DEF LeaseFits
    <2> QED
      BY <2>1, <2>3, <2>4
  <1> QED
    BY <1>1, <1>2, <1>3, NextIs

DiscoveryBegins(c) ==
    /\ ws'.lease.owner # 0 /\ ws'.operation.terminal /\ ~ws'.picker /\ SetupSettled'
    /\ package'.active.by = NONE /\ Discovers(c)'
DiscoveryStays(d) ==
    /\ ws'.lease.discovery /\ ws'.lease.owner = ws.lease.owner
    /\ ws'.lease.revision = ws.lease.revision /\ stop'.context.by = stop.context.by
    /\ ws'.operation.terminal /\ ~ws'.picker /\ SetupSettled'
    /\ package'.active.by = NONE

(* Discovery is begun by a caller that finds everything else quiet.        *)
LEMMA DiscoverySteps ==
    ASSUME IInv,
           NEW c \in Callers, CallerStep(c),
           ~ws.lease.discovery, ws'.lease.discovery
    PROVE  DiscoveryBegins(c)
  <1>a. /\ TypeOK /\ StepFits(c) /\ Known(ws, stop, c) /\ Known(Collected, CollectedStop, c)
        /\ StepsFit /\ LeaseFits(ws, stop) /\ DiscoveryFits(ws, stop)
    BY Knows
  <1>1. ASSUME \/ Capturing(c) \/ Start(c) \/ CheckEnvironment(c) \/ Enter(c)
        PROVE  DiscoveryBegins(c)
    BY <1>1, CommandsDo, StartDoes, LeaveDoes, GotoDoes, <1>a, NoPanic, AcceptedIs,
      CollectedIs, CollectedStopIs, NoLeaseIs DEF Left, Begun, Idle, Collects, Goes, Known,
      DiscoveryBegins, ReservationFits, Reserved, Waits, Quiet, NotReserved, Discovering,
      WorkIdle, Discovers
  <1>2. ASSUME \/ Exit(c)
               \/ \E kind \in Edits : Edit(c, kind)
               \/ \E kind \in LeaseRuns : TakeStop(c, kind)
               \/ Discover(c)
        PROVE  DiscoveryBegins(c)
    BY <1>2, ExitDoes, EditDoes, TakeStopDoes, DiscoverDoes, LeaveDoes, GotoDoes, <1>a,
      NoPanic, AcceptedIs, CollectedIs, CollectedStopIs, NoLeaseIs DEF Left, WorkIdle,
      Collects, Goes, Remembers, LeaseOnly, Known, DiscoveryBegins, ReservationFits,
      Reserved, Waits, Quiet, NotReserved, Discovering, Discovers
  <1>3. ASSUME \/ SetupStart(c)
               \/ \E kind \in {"import", "export"} : Prepare(c, kind)
               \/ TakeReview(c) \/ PickPackage(c)
        PROVE  DiscoveryBegins(c)
    BY <1>3, SetupStartDoes, PrepareDoes, TakeReviewDoes, PickPackageDoes, LeaveDoes,
      GotoDoes, <1>a, NoPanic, AcceptedIs, CollectedIs, CollectedStopIs, NoLeaseIs
      DEF Left, Collects, Idle, Goes, Remembers, ImportIdle, WorkIdle, Known, DiscoveryBegins,
      ReservationFits, Reserved, Waits, Quiet, NotReserved, Discovering, Discovers
  <1>4. ASSUME \/ Pick(c) \/ Close(c) \/ PrepareReconstruction(c) \/ Refuse(c)
        PROVE  DiscoveryBegins(c)
    BY <1>4, PickDoes, CommandsDo, LeaveDoes, GotoDoes, <1>a, NoPanic, AcceptedIs,
      CollectedIs, CollectedStopIs, NoLeaseIs DEF WorkIdle, Goes, Left, Collects, Idle,
      Refuse, Known, DiscoveryBegins, ReservationFits, Reserved, Waits, Quiet, NotReserved,
      Discovering, Discovers
  <1>5. ASSUME \/ Opened(c) \/ Edited(c) \/ WorkFails(c) \/ StartLeaseRun(c)
        PROVE  DiscoveryBegins(c)
    BY <1>5, OpenedDoes, EditedDoes, StartLeaseRunDoes, LeaveDoes, GotoDoes, <1>a, NoPanic,
      AcceptedIs, CollectedIs, CollectedStopIs, NoLeaseIs DEF Left, WorkFails, Goes, Known,
      DiscoveryBegins, ReservationFits, Reserved, Waits, Quiet, NotReserved, Discovering,
      WorkIdle, Discovers
  <1>6. ASSUME \/ RecordRun(c) \/ Validated(c) \/ Recognized(c) \/ Discovered(c)
        PROVE  DiscoveryBegins(c)
    BY <1>6, RecordRunDoes, ValidatedDoes, RecognizedDoes, DiscoveredDoes, LeaveDoes,
      GotoDoes, <1>a, NoPanic, AcceptedIs, CollectedIs, CollectedStopIs, NoLeaseIs
      DEF Left, Goes, Waits, Remembers, LeaseOnly, Known, DiscoveryBegins, ReservationFits,
      Reserved, Quiet, NotReserved, Discovering, WorkIdle, Discovers
  <1>7. ASSUME \/ DropDiscovery(c) \/ ForgetContext(c) \/ ReviewReady(c)
               \/ PrepareFails(c)
        PROVE  DiscoveryBegins(c)
    BY <1>7, DropDiscoveryDoes, ForgetContextDoes, ReviewReadyDoes, LeaveDoes, GotoDoes,
      <1>a, NoPanic, AcceptedIs, CollectedIs, CollectedStopIs, NoLeaseIs DEF Goes,
      Remembers, LeaseOnly, Discovers, Left, PrepareFails, Known, DiscoveryBegins,
      ReservationFits, Reserved, Waits, Quiet, NotReserved, Discovering, WorkIdle
  <1>8. ASSUME \/ BeginPublish(c) \/ Checkpoint(c) \/ Commit(c) \/ PublishFails(c)
        PROVE  DiscoveryBegins(c)
    BY <1>8, BeginPublishDoes, CommitDoes, PublishFailsDoes, LeaveDoes, GotoDoes, <1>a,
      NoPanic, AcceptedIs, CollectedIs, CollectedStopIs, NoLeaseIs DEF Left, Goes,
      Checkpoint, Concludes, Known, DiscoveryBegins, ReservationFits, Reserved, Waits,
      Quiet, NotReserved, Discovering, WorkIdle, Discovers
  <1>9. ASSUME \/ DropAttempt(c) \/ Picked(c)
        PROVE  DiscoveryBegins(c)
    BY <1>9, DropAttemptDoes, PickedDoes, LeaveDoes, <1>a, NoPanic, AcceptedIs,
      CollectedIs, CollectedStopIs, NoLeaseIs DEF Left, Goes, Known, DiscoveryBegins,
      ReservationFits, Reserved, Waits, Quiet, NotReserved, Discovering, WorkIdle,
      Discovers
  <1> QED
    BY <1>1, <1>2, <1>3, <1>4, <1>5, <1>6, <1>7, <1>8, <1>9 DEF CallerStep, Accepts, Works

(* While another caller discovers, a step neither takes its reservation nor *)
(* begins other work.                                                      *)
LEMMA DiscoveryRemains ==
    ASSUME IInv,
           NEW c \in Callers, CallerStep(c),
           NEW d \in Callers \ {c}, Discovers(d)
    PROVE  DiscoveryStays(d)
  <1>a. /\ TypeOK /\ StepFits(c) /\ Known(ws, stop, c) /\ DiscovererFits(ws, stop, d) /\ Known(Collected, CollectedStop, c)
        /\ StepsFit /\ LeaseFits(ws, stop) /\ DiscoveryFits(ws, stop)
    BY Knows DEF Known
  <1>1. ASSUME \/ Capturing(c) \/ Start(c) \/ CheckEnvironment(c) \/ Enter(c)
        PROVE  DiscoveryStays(d)
    BY <1>1, CommandsDo, StartDoes, <1>a, NoPanic, AcceptedIs, CollectedIs, CollectedStopIs
      DEF Begun, Idle, Collects, Known, DiscovererFits, DiscoveryOf, ReservationFits,
      Reserved, Quiet, NotReserved, Discovering, Discovers, WorkIdle, ImportIdle,
      DiscoveryStays, SetupSettled, SlotsOf, TakenFits, Transfers
  <1>2. ASSUME \/ Exit(c)
               \/ \E kind \in Edits : Edit(c, kind)
               \/ \E kind \in LeaseRuns : TakeStop(c, kind)
               \/ Discover(c)
        PROVE  DiscoveryStays(d)
    BY <1>2, ExitDoes, EditDoes, TakeStopDoes, DiscoverDoes, <1>a, NoPanic, AcceptedIs,
      CollectedIs, CollectedStopIs DEF WorkIdle, Collects, LeaseOnly, Known,
      DiscovererFits, DiscoveryOf, ReservationFits, Reserved, Quiet, NotReserved,
      Discovering, Discovers, ImportIdle, Idle, DiscoveryStays, SetupSettled, SlotsOf,
      TakenFits, Transfers, LeaseOf
  <1>3. ASSUME \/ SetupStart(c)
               \/ \E kind \in {"import", "export"} : Prepare(c, kind)
               \/ TakeReview(c) \/ PickPackage(c)
        PROVE  DiscoveryStays(d)
    BY <1>3, SetupStartDoes, PrepareDoes, TakeReviewDoes, PickPackageDoes, <1>a, NoPanic,
      AcceptedIs, CollectedIs, CollectedStopIs DEF Collects, Idle, ImportIdle, WorkIdle,
      Known, DiscovererFits, DiscoveryOf, ReservationFits, Reserved, Quiet, NotReserved,
      Discovering, Discovers, DiscoveryStays, SetupSettled, SlotsOf, TakenFits, Transfers
  <1>4. ASSUME \/ Pick(c) \/ Close(c) \/ PrepareReconstruction(c) \/ Refuse(c)
        PROVE  DiscoveryStays(d)
    BY <1>4, PickDoes, CommandsDo, <1>a, NoPanic, AcceptedIs, CollectedIs, CollectedStopIs
      DEF WorkIdle, Collects, Idle, Refuse, Known, DiscovererFits, DiscoveryOf,
      ReservationFits, Reserved, Quiet, NotReserved, Discovering, Discovers, ImportIdle,
      DiscoveryStays, SetupSettled, SlotsOf, TakenFits, Transfers
  <1>5. ASSUME \/ Opened(c) \/ Edited(c) \/ WorkFails(c) \/ StartLeaseRun(c)
        PROVE  DiscoveryStays(d)
    BY <1>5, OpenedDoes, EditedDoes, StartLeaseRunDoes, <1>a, NoPanic, AcceptedIs,
      CollectedIs, CollectedStopIs DEF WorkFails, Known, DiscovererFits, DiscoveryOf,
      ReservationFits, Reserved, Quiet, NotReserved, Discovering, Discovers, WorkIdle,
      ImportIdle, Idle, DiscoveryStays, SetupSettled, SlotsOf, TakenFits, Transfers
  <1>6. ASSUME \/ RecordRun(c) \/ Validated(c) \/ Recognized(c) \/ Discovered(c)
        PROVE  DiscoveryStays(d)
    BY <1>6, RecordRunDoes, ValidatedDoes, RecognizedDoes, DiscoveredDoes, <1>a, NoPanic,
      AcceptedIs, CollectedIs, CollectedStopIs DEF Waits, LeaseOnly, Known, DiscovererFits,
      DiscoveryOf, ReservationFits, Reserved, Quiet, NotReserved, Discovering, Discovers,
      WorkIdle, ImportIdle, Idle, DiscoveryStays, SetupSettled, SlotsOf, TakenFits,
      Transfers
  <1>7. ASSUME \/ DropDiscovery(c) \/ ForgetContext(c) \/ ReviewReady(c)
               \/ PrepareFails(c)
        PROVE  DiscoveryStays(d)
    BY <1>7, DropDiscoveryDoes, ForgetContextDoes, ReviewReadyDoes, <1>a, NoPanic,
      AcceptedIs, CollectedIs, CollectedStopIs DEF LeaseOnly, Discovers, PrepareFails,
      Known, DiscovererFits, DiscoveryOf, ReservationFits, Reserved, Quiet, NotReserved,
      Discovering, WorkIdle, ImportIdle, Idle, DiscoveryStays, SetupSettled, SlotsOf,
      TakenFits, Transfers
  <1>8. ASSUME \/ BeginPublish(c) \/ Checkpoint(c) \/ Commit(c) \/ PublishFails(c)
        PROVE  DiscoveryStays(d)
    BY <1>8, BeginPublishDoes, CommitDoes, PublishFailsDoes, <1>a, NoPanic, AcceptedIs,
      CollectedIs, CollectedStopIs DEF Checkpoint, Concludes, Known, DiscovererFits,
      DiscoveryOf, ReservationFits, Reserved, Quiet, NotReserved, Discovering, Discovers,
      WorkIdle, ImportIdle, Idle, DiscoveryStays, SetupSettled, SlotsOf, TakenFits,
      Transfers
  <1>9. ASSUME \/ DropAttempt(c) \/ Picked(c)
        PROVE  DiscoveryStays(d)
    BY <1>9, DropAttemptDoes, PickedDoes, <1>a, NoPanic, AcceptedIs, CollectedIs,
      CollectedStopIs DEF Known, DiscovererFits, DiscoveryOf, ReservationFits, Reserved,
      Quiet, NotReserved, Discovering, Discovers, WorkIdle, ImportIdle, Idle,
      DiscoveryStays, SetupSettled, SlotsOf, TakenFits, Transfers, NoAttempt
  <1> QED
    BY <1>1, <1>2, <1>3, <1>4, <1>5, <1>6, <1>7, <1>8, <1>9 DEF CallerStep, Accepts, Works

(* The part about discovery, for the caller of the step,                   *)
LEMMA DiscoveryOwn ==
    ASSUME IInv,
           NEW c \in Callers, CallerStep(c)
    PROVE  DiscovererFits(ws, stop, c)'
  <1>a. /\ TypeOK /\ StepFits(c) /\ Known(ws, stop, c) /\ Known(Collected, CollectedStop, c)
        /\ StepsFit /\ LeaseFits(ws, stop) /\ DiscoveryFits(ws, stop)
    BY Knows
  <1>1. ASSUME \/ Capturing(c) \/ Start(c) \/ CheckEnvironment(c) \/ Enter(c)
        PROVE  DiscovererFits(ws, stop, c)'
    BY <1>1, CommandsDo, StartDoes, LeaveDoes, GotoDoes, <1>a, NoPanic, AcceptedIs,
      CollectedIs, CollectedStopIs, NoLeaseIs DEF Left, Begun, Idle, Collects, Goes,
      NoCall, Known, StepFits, DiscoveryOf, DiscovererFits, Discovers, ReservationFits,
      Reserved, Waits, Quiet, NotReserved, Discovering, WorkIdle, ImportIdle, Holds,
      Holding
  <1>2. ASSUME \/ Exit(c)
               \/ \E kind \in Edits : Edit(c, kind)
               \/ \E kind \in LeaseRuns : TakeStop(c, kind)
               \/ Discover(c)
        PROVE  DiscovererFits(ws, stop, c)'
    BY <1>2, ExitDoes, EditDoes, TakeStopDoes, DiscoverDoes, LeaveDoes, GotoDoes, <1>a,
      NoPanic, AcceptedIs, CollectedIs, CollectedStopIs, NoLeaseIs DEF Left, WorkIdle,
      Collects, Goes, Remembers, LeaseOnly, NoCall, Known, StepFits, DiscoveryOf,
      DiscovererFits, Discovers, ReservationFits, Reserved, Waits, Quiet, NotReserved,
      Discovering, Idle, ImportIdle, Holds, Holding, LeaseOf
  <1>3. ASSUME \/ SetupStart(c)
               \/ \E kind \in {"import", "export"} : Prepare(c, kind)
               \/ TakeReview(c) \/ PickPackage(c)
        PROVE  DiscovererFits(ws, stop, c)'
    BY <1>3, SetupStartDoes, PrepareDoes, TakeReviewDoes, PickPackageDoes, LeaveDoes,
      GotoDoes, <1>a, NoPanic, AcceptedIs, CollectedIs, CollectedStopIs, NoLeaseIs
      DEF Left, Collects, Idle, Goes, Remembers, ImportIdle, WorkIdle, NoCall, Known, StepFits,
      DiscoveryOf, DiscovererFits, Discovers, ReservationFits, Reserved, Waits, Quiet,
      NotReserved, Discovering, Holds, Holding
  <1>4. ASSUME \/ Pick(c) \/ Close(c) \/ PrepareReconstruction(c) \/ Refuse(c)
        PROVE  DiscovererFits(ws, stop, c)'
    BY <1>4, PickDoes, CommandsDo, LeaveDoes, GotoDoes, <1>a, NoPanic, AcceptedIs,
      CollectedIs, CollectedStopIs, NoLeaseIs DEF WorkIdle, Goes, Left, Collects, Idle,
      Refuse, NoCall, Known, StepFits, DiscoveryOf, DiscovererFits, Discovers,
      ReservationFits, Reserved, Waits, Quiet, NotReserved, Discovering, ImportIdle, Holds,
      Holding
  <1>5. ASSUME \/ Opened(c) \/ Edited(c) \/ WorkFails(c) \/ StartLeaseRun(c)
        PROVE  DiscovererFits(ws, stop, c)'
    BY <1>5, OpenedDoes, EditedDoes, StartLeaseRunDoes, LeaveDoes, GotoDoes, <1>a, NoPanic,
      AcceptedIs, CollectedIs, CollectedStopIs, NoLeaseIs DEF Left, WorkFails, Goes,
      NoCall, Known, StepFits, DiscoveryOf, DiscovererFits, Discovers, ReservationFits,
      Reserved, Waits, Quiet, NotReserved, Discovering, WorkIdle, Idle, ImportIdle, Holds,
      Holding
  <1>6. ASSUME \/ RecordRun(c) \/ Validated(c) \/ Recognized(c) \/ Discovered(c)
        PROVE  DiscovererFits(ws, stop, c)'
    BY <1>6, RecordRunDoes, ValidatedDoes, RecognizedDoes, DiscoveredDoes, LeaveDoes,
      GotoDoes, <1>a, NoPanic, AcceptedIs, CollectedIs, CollectedStopIs, NoLeaseIs
      DEF Left, Goes, Waits, Remembers, LeaseOnly, NoCall, Known, StepFits, DiscoveryOf,
      DiscovererFits, Discovers, ReservationFits, Reserved, Quiet, NotReserved,
      Discovering, WorkIdle, Idle, ImportIdle, Holds, Holding
  <1>7. ASSUME \/ DropDiscovery(c) \/ ForgetContext(c) \/ ReviewReady(c)
               \/ PrepareFails(c)
        PROVE  DiscovererFits(ws, stop, c)'
    BY <1>7, DropDiscoveryDoes, ForgetContextDoes, ReviewReadyDoes, LeaveDoes, GotoDoes,
      <1>a, NoPanic, AcceptedIs, CollectedIs, CollectedStopIs, NoLeaseIs DEF Goes,
      Remembers, LeaseOnly, Discovers, Left, PrepareFails, NoCall, Known, StepFits,
      DiscoveryOf, DiscovererFits, ReservationFits, Reserved, Waits, Quiet, NotReserved,
      Discovering, WorkIdle, Idle, ImportIdle, Holds, Holding
  <1>8. ASSUME \/ BeginPublish(c) \/ Checkpoint(c) \/ Commit(c) \/ PublishFails(c)
        PROVE  DiscovererFits(ws, stop, c)'
    BY <1>8, BeginPublishDoes, CommitDoes, PublishFailsDoes, LeaveDoes, GotoDoes, <1>a,
      NoPanic, AcceptedIs, CollectedIs, CollectedStopIs, NoLeaseIs DEF Left, Goes,
      Checkpoint, Concludes, NoCall, Known, StepFits, DiscoveryOf, DiscovererFits,
      Discovers, ReservationFits, Reserved, Waits, Quiet, NotReserved, Discovering,
      WorkIdle, Idle, ImportIdle, Holds, Holding
  <1>9. ASSUME \/ DropAttempt(c) \/ Picked(c)
        PROVE  DiscovererFits(ws, stop, c)'
    BY <1>9, DropAttemptDoes, PickedDoes, LeaveDoes, <1>a, NoPanic, AcceptedIs,
      CollectedIs, CollectedStopIs, NoLeaseIs DEF Left, Goes, NoCall, Known, StepFits,
      DiscoveryOf, DiscovererFits, Discovers, ReservationFits, Reserved, Waits, Quiet,
      NotReserved, Discovering, WorkIdle, Idle, ImportIdle, Holds, Holding, NoAttempt
  <1> QED
    BY <1>1, <1>2, <1>3, <1>4, <1>5, <1>6, <1>7, <1>8, <1>9 DEF CallerStep, Accepts, Works

(* and for every step.                                                     *)
LEMMA DiscoveryKept ==
    ASSUME IInv, Next
    PROVE  DiscoveryFits(ws, stop)'
  <1> USE Knows
  <1>1. ASSUME NEW c \in Callers, NEW kind \in Kinds, Admit(c, kind)
        PROVE  DiscoveryFits(ws, stop)'
    <2>1. ASSUME NEW d \in Callers
          PROVE  DiscovererFits(ws, stop, d)' /\ (Discovers(d) => Discovers(d)')
      BY <1>1, AdmitKeeps DEF Known, DiscovererFits, Discovers, Elsewhere
    <2>2. DiscoveryOf(ws)'
      BY <1>1, <2>1, AdmitKeeps DEF DiscoveryFits, DiscoveryOf, SetupSettled
    <2> QED
      BY <2>1, <2>2 DEF DiscoveryFits
  <1>2. ASSUME NEW c \in Callers, CallerStep(c)
        PROVE  DiscoveryFits(ws, stop)'
    <2>1. Elsewhere(c)
      BY <1>2, CallerMoves, MovesDo
    <2>2. ASSUME NEW d \in Callers \ {c}, Discovers(d)
          PROVE  DiscoveryStays(d)
      BY <1>2, <2>2, DiscoveryRemains
    <2>3. ASSUME NEW d \in Callers \ {c}
          PROVE  DiscovererFits(ws, stop, d)'
      BY <2>1, <2>2 DEF Known, DiscovererFits, Discovers, DiscoveryStays, Elsewhere
    <2>4. DiscoveryOf(ws)'
      <3>1. CASE ~ws.lease.discovery
        BY <1>2, <3>1, DiscoverySteps DEF DiscoveryOf, DiscoveryBegins
      <3>2. CASE ws.lease.discovery
        <4>1. PICK d \in Callers : Discovers(d)
          BY <3>2 DEF DiscoveryFits, DiscoveryOf
        <4>2. ws.lease.owner # 0 /\ ws.operation.terminal /\ ~ws.picker /\ SetupSettled
              /\ package.active.by = NONE
          BY <3>2 DEF DiscoveryFits, DiscoveryOf
        <4>3. CASE d # c
          <5>1. DiscoveryStays(d) /\ Discovers(d)'
            BY <2>1, <2>2, <4>1, <4>3 DEF Discovers, Elsewhere
          <5> QED
            BY <4>2, <5>1 DEF DiscoveryStays, DiscoveryOf
        <4>4. CASE d = c
          <5>1. Discovered(c) \/ DropDiscovery(c)
            BY <1>2, <4>1, <4>4, UnheldSteps, PickedDoes, RecognizedDoes, DropAttemptDoes,
               ForgetContextDoes
            DEF Unheld, Discovers, Holds, Holding, Waits
          <5>2. CASE Discovered(c)
            <6>1. pc'[c] = "discovered"
              BY <4>2, <5>2, DiscoveredDoes, GotoDoes DEF Goes
            <6> QED
              BY <4>2, <5>2, <6>1, DiscoveredDoes
              DEF DiscoveryOf, LeaseOnly, SetupSettled, Discovers
          <5>3. CASE DropDiscovery(c)
            BY <1>2, <4>1, <4>4, <5>3, DropDiscoveryDoes DEF DiscoveryOf, Known, DiscovererFits
          <5> QED
            BY <5>1, <5>2, <5>3
        <4> QED
          BY <4>3, <4>4
      <3> QED
        BY <3>1, <3>2
    <2>5. DiscovererFits(ws, stop, c)'
      BY <1>2, DiscoveryOwn
    <2>6. \A d \in Callers : DiscovererFits(ws, stop, d)'
      BY <2>3, <2>5
    <2> QED
      BY <2>4, <2>6 DEF DiscoveryFits
  <1>3. ASSUME Environment
        PROVE  DiscoveryFits(ws, stop)'
    <2>1. /\ UNCHANGED <<commands, pc, call>> /\ SlotsKept /\ (Kept \/ CollectsOnly \/ SettleLease)
      BY <1>3, EnvironmentKeeps, EnvironmentDoes
    <2>2. DiscoveryFits(ws, stop) /\ DiscoveryFits(Collected, CollectedStop)
      BY DEF CInv, Fits
    <2>3. CASE Kept \/ CollectsOnly
      <3>1. PICK w, s : /\ DiscoveryFits(w, s) /\ ws' = w /\ stop'.context.by = s.context.by
        BY <2>2, <2>3 DEF Kept, CollectsOnly, Collects
      <3>2. ASSUME NEW d \in Callers
            PROVE  DiscovererFits(ws, stop, d)' /\ (Discovers(d) <=> Discovers(d)')
        BY <2>1, <3>1 DEF DiscoveryFits, DiscovererFits, Discovers
      <3>3. DiscoveryOf(ws)'
        BY <2>1, <3>1, <3>2 DEF DiscoveryFits, DiscoveryOf, SlotsKept
      <3> QED
        BY <3>2, <3>3 DEF DiscoveryFits
    <2>4. CASE SettleLease
      <3>1. ASSUME NEW d \in Callers
            PROVE  ~Discovers(d)
        BY <2>2, <2>4, SettleLeaseDoes DEF DiscoveryFits, DiscovererFits
      <3>2. ~ws'.lease.discovery
        BY <2>4, SettleLeaseDoes, NoLeaseIs, CollectedIs
      <3> QED
        BY <2>1, <3>1, <3>2 DEF DiscoveryFits, DiscovererFits, DiscoveryOf, Discovers
    <2> QED
      BY <2>1, <2>3, <2>4
  <1> QED
    BY <1>1, <1>2, <1>3, NextIs

(* The part about the slots, for the caller of the step,                   *)
LEMMA SlotsOwn ==
    ASSUME IInv,
           NEW c \in Callers, CallerStep(c)
    PROVE  SlotsOf(ws)' /\ TakenFits(ws, c)'
  <1>a. /\ TypeOK /\ StepFits(c) /\ Known(ws, stop, c) /\ Known(Collected, CollectedStop, c)
        /\ StepsFit /\ LeaseFits(ws, stop) /\ DiscoveryFits(ws, stop)
    BY Knows
  <1>1. ASSUME \/ Capturing(c) \/ Start(c) \/ CheckEnvironment(c) \/ Enter(c)
        PROVE  SlotsOf(ws)' /\ TakenFits(ws, c)'
    BY <1>1, CommandsDo, StartDoes, LeaveDoes, GotoDoes, <1>a, NoPanic, AcceptedIs,
      ReapedIs, CollectedIs, NoLeaseIs DEF Left, Begun, Idle, Collects, Goes, NoCall,
      Known, SlotsOf, TakenFits, Transfers, SetupSettled, RunsOnLease, RunOf, OperationOf,
      ReservationFits, Reserved, Discovering, WorkIdle, ImportIdle
  <1>2. ASSUME \/ Exit(c)
               \/ \E kind \in Edits : Edit(c, kind)
               \/ \E kind \in LeaseRuns : TakeStop(c, kind)
               \/ Discover(c)
        PROVE  SlotsOf(ws)' /\ TakenFits(ws, c)'
    BY <1>2, ExitDoes, EditDoes, TakeStopDoes, DiscoverDoes, LeaveDoes, GotoDoes, <1>a,
      NoPanic, AcceptedIs, ReapedIs, CollectedIs, NoLeaseIs DEF Left, WorkIdle, Collects,
      Goes, Remembers, LeaseOnly, NoCall, Known, SlotsOf, TakenFits, Transfers,
      SetupSettled, RunsOnLease, RunOf, OperationOf, ReservationFits, Reserved,
      Discovering, Idle, ImportIdle
  <1>3. ASSUME \/ SetupStart(c)
               \/ \E kind \in {"import", "export"} : Prepare(c, kind)
               \/ TakeReview(c) \/ PickPackage(c)
        PROVE  SlotsOf(ws)' /\ TakenFits(ws, c)'
    BY <1>3, SetupStartDoes, PrepareDoes, TakeReviewDoes, PickPackageDoes, LeaveDoes,
      GotoDoes, <1>a, NoPanic, AcceptedIs, ReapedIs, CollectedIs, NoLeaseIs DEF Left,
      Collects, Idle, Goes, Remembers, ImportIdle, WorkIdle, NoCall, Known, SlotsOf,
      TakenFits, Transfers, SetupSettled, RunsOnLease, RunOf, OperationOf, ReservationFits,
      Reserved, Discovering, PackageIdle, DiscoveryOf
  <1>4. ASSUME \/ Pick(c) \/ Close(c) \/ PrepareReconstruction(c) \/ Refuse(c)
        PROVE  SlotsOf(ws)' /\ TakenFits(ws, c)'
    BY <1>4, PickDoes, CommandsDo, LeaveDoes, GotoDoes, <1>a, NoPanic, AcceptedIs,
      ReapedIs, CollectedIs, NoLeaseIs DEF WorkIdle, Goes, Left, Collects, Idle, Refuse,
      NoCall, Known, SlotsOf, TakenFits, Transfers, SetupSettled, RunsOnLease, RunOf,
      OperationOf, ReservationFits, Reserved, Discovering, ImportIdle
  <1>5. ASSUME \/ Opened(c) \/ Edited(c) \/ WorkFails(c) \/ StartLeaseRun(c)
        PROVE  SlotsOf(ws)' /\ TakenFits(ws, c)'
    BY <1>5, OpenedDoes, EditedDoes, StartLeaseRunDoes, LeaveDoes, GotoDoes, <1>a, NoPanic,
      AcceptedIs, ReapedIs, CollectedIs, NoLeaseIs DEF Left, WorkFails, Goes, NoCall,
      Known, SlotsOf, TakenFits, Transfers, SetupSettled, RunsOnLease, RunOf, OperationOf,
      ReservationFits, Reserved, Discovering, WorkIdle, Idle, ImportIdle, Quiet,
      NotReserved
  <1>6. ASSUME \/ RecordRun(c) \/ Validated(c) \/ Recognized(c) \/ Discovered(c)
        PROVE  SlotsOf(ws)' /\ TakenFits(ws, c)'
    BY <1>6, RecordRunDoes, ValidatedDoes, RecognizedDoes, DiscoveredDoes, LeaveDoes,
      GotoDoes, <1>a, NoPanic, AcceptedIs, ReapedIs, CollectedIs, NoLeaseIs DEF Left, Goes,
      Waits, Remembers, LeaseOnly, NoCall, Known, SlotsOf, TakenFits, Transfers,
      SetupSettled, RunsOnLease, RunOf, OperationOf, ReservationFits, Reserved,
      Discovering, WorkIdle, Idle, ImportIdle, Quiet, PackageIdle, NotReserved
  <1>7. ASSUME \/ DropDiscovery(c) \/ ForgetContext(c) \/ ReviewReady(c)
               \/ PrepareFails(c)
        PROVE  SlotsOf(ws)' /\ TakenFits(ws, c)'
    BY <1>7, DropDiscoveryDoes, ForgetContextDoes, ReviewReadyDoes, LeaveDoes, GotoDoes,
      <1>a, NoPanic, AcceptedIs, ReapedIs, CollectedIs, NoLeaseIs DEF Goes, Remembers,
      LeaseOnly, Discovers, Left, PrepareFails, NoCall, Known, SlotsOf, TakenFits,
      Transfers, SetupSettled, RunsOnLease, RunOf, OperationOf, ReservationFits, Reserved,
      Discovering, WorkIdle, Idle, ImportIdle
  <1>8. ASSUME \/ BeginPublish(c) \/ Checkpoint(c) \/ Commit(c) \/ PublishFails(c)
        PROVE  SlotsOf(ws)' /\ TakenFits(ws, c)'
    BY <1>8, BeginPublishDoes, CommitDoes, PublishFailsDoes, LeaveDoes, GotoDoes, <1>a,
      NoPanic, AcceptedIs, ReapedIs, CollectedIs, NoLeaseIs DEF Left, Goes, Checkpoint,
      Concludes, NoCall, Known, SlotsOf, TakenFits, Transfers, SetupSettled, RunsOnLease,
      RunOf, OperationOf, ReservationFits, Reserved, Discovering, WorkIdle, Idle,
      ImportIdle
  <1>9. ASSUME \/ DropAttempt(c) \/ Picked(c)
        PROVE  SlotsOf(ws)' /\ TakenFits(ws, c)'
    BY <1>9, DropAttemptDoes, PickedDoes, LeaveDoes, <1>a, NoPanic, AcceptedIs, ReapedIs,
      CollectedIs, NoLeaseIs DEF Left, Goes, NoCall, Known, SlotsOf, TakenFits, Transfers,
      SetupSettled, RunsOnLease, RunOf, OperationOf, ReservationFits, Reserved,
      Discovering, WorkIdle, Idle, ImportIdle, NoAttempt
  <1> QED
    BY <1>1, <1>2, <1>3, <1>4, <1>5, <1>6, <1>7, <1>8, <1>9 DEF CallerStep, Accepts, Works

(* and for every step.                                                     *)
LEMMA SlotsHeld ==
    ASSUME IInv, Next
    PROVE  SlotsFit(ws)'
  <1> USE Knows
  <1>1. ASSUME NEW c \in Callers, NEW kind \in Kinds, Admit(c, kind)
        PROVE  SlotsFit(ws)'
    <2>1. ASSUME NEW d \in Callers
          PROVE  TakenFits(ws, d)'
      BY <1>1, AdmitKeeps DEF Known, TakenFits, SetupSettled, RunsOnLease, Elsewhere
    <2>2. SlotsOf(ws)'
      BY <1>1, AdmitKeeps DEF Known, SlotsOf, SetupSettled, RunsOnLease, Transfers
    <2> QED
      BY <2>1, <2>2 DEF SlotsFit
  <1>2. ASSUME NEW c \in Callers, CallerStep(c)
        PROVE  SlotsFit(ws)'
    <2>1. Elsewhere(c)
      BY <1>2, CallerMoves, MovesDo
    <2>2. SlotsOf(ws)' /\ TakenFits(ws, c)'
      BY <1>2, SlotsOwn
    <2>3. ASSUME NEW d \in Callers \ {c}, pc[d] = "taken"
          PROVE  UNCHANGED <<ws, setup>>
      <3>1. Unheld(c)
        BY <1>2, <2>3, Alone, UnheldSteps DEF Holds, Holding
      <3>2. ~WorkspacesFree
        BY <2>3 DEF WorkspacesFree
      <3> QED
        BY <3>1, <3>2, DiscoveredDoes, DropDiscoveryDoes, ForgetContextDoes, PickedDoes,
           DropAttemptDoes, RecognizedDoes
        DEF Unheld, Discovered
    <2>4. ASSUME NEW d \in Callers \ {c}
          PROVE  TakenFits(ws, d)'
      BY <2>1, <2>3 DEF Known, TakenFits, SetupSettled, RunsOnLease, Elsewhere
    <2>5. \A d \in Callers : TakenFits(ws, d)'
      BY <2>2, <2>4
    <2> QED
      BY <2>2, <2>5 DEF SlotsFit
  <1>3. ASSUME Environment
        PROVE  SlotsFit(ws)'
    <2>1. /\ UNCHANGED <<commands, pc, call>> /\ SlotsKept /\ (Kept \/ CollectsOnly \/ SettleLease)
      BY <1>3, EnvironmentKeeps, EnvironmentDoes
    <2>2. SlotsFit(ws) /\ SlotsFit(Collected)
      BY DEF CInv, Fits, IInv
    <2>3. PICK w : /\ SlotsFit(w) /\ ws'.operation = w.operation /\ ws'.picker = w.picker
                   /\ ws'.lease.owner \in {w.lease.owner, 0}
                   /\ ws'.lease.discovery => w.lease.discovery
      BY <2>1, <2>2, SettleLeaseDoes, NoLeaseIs DEF Kept, CollectsOnly, Collects
    <2>4. ASSUME NEW d \in Callers
          PROVE  TakenFits(ws, d)'
      BY <2>1, <2>3 DEF SlotsFit, TakenFits, RunsOnLease, SlotsKept
    <2>5. SlotsOf(ws)'
      BY <2>1, <2>3 DEF SlotsFit, SlotsOf, RunsOnLease, SlotsKept, Transfers
    <2> QED
      BY <2>4, <2>5 DEF SlotsFit
  <1> QED
    BY <1>1, <1>2, <1>3, NextIs

(* The part about the run: a running worker has an owner,                  *)
LEMMA RunningOwn ==
    ASSUME IInv,
           NEW c \in Callers, CallerStep(c)
    PROVE  RunningOf(ws)'
  <1>a. /\ TypeOK /\ StepFits(c) /\ Known(ws, stop, c) /\ Known(Collected, CollectedStop, c)
        /\ StepsFit /\ LeaseFits(ws, stop) /\ DiscoveryFits(ws, stop)
    BY Knows
  <1>b. Elsewhere(c)
    BY <1>a, CallerMoves, MovesDo
  <1>1. ASSUME \/ Capturing(c) \/ Start(c) \/ CheckEnvironment(c) \/ Enter(c)
        PROVE  RunningOf(ws)'
    BY <1>1, CommandsDo, StartDoes, LeaveDoes, GotoDoes, <1>a, <1>b, NoPanic, AcceptedIs,
      CollectedIs, CollectedStopIs, NoLeaseIs DEF Left, Begun, Idle, Collects, Goes,
      NoCall, Known, RunOf, RunningOf, Recording, Elsewhere, ReservationFits, Reserved,
      Settles
  <1>2. ASSUME \/ Exit(c)
               \/ \E kind \in Edits : Edit(c, kind)
               \/ \E kind \in LeaseRuns : TakeStop(c, kind)
               \/ Discover(c)
        PROVE  RunningOf(ws)'
    BY <1>2, ExitDoes, EditDoes, TakeStopDoes, DiscoverDoes, LeaveDoes, GotoDoes, <1>a,
      <1>b, NoPanic, AcceptedIs, CollectedIs, CollectedStopIs, NoLeaseIs DEF Left,
      WorkIdle, Collects, Goes, Remembers, LeaseOnly, NoCall, Known, RunOf, RunningOf,
      Recording, Elsewhere, ReservationFits, Reserved, Settles
  <1>3. ASSUME \/ SetupStart(c)
               \/ \E kind \in {"import", "export"} : Prepare(c, kind)
               \/ TakeReview(c) \/ PickPackage(c)
        PROVE  RunningOf(ws)'
    BY <1>3, SetupStartDoes, PrepareDoes, TakeReviewDoes, PickPackageDoes, LeaveDoes,
      GotoDoes, <1>a, <1>b, NoPanic, AcceptedIs, CollectedIs, CollectedStopIs, NoLeaseIs
      DEF Left, Collects, Idle, Goes, Remembers, ImportIdle, WorkIdle, NoCall, Known,
      RunOf, RunningOf, Recording, Elsewhere, ReservationFits, Reserved, Settles
  <1>4. ASSUME \/ Pick(c) \/ Close(c) \/ PrepareReconstruction(c) \/ Refuse(c)
        PROVE  RunningOf(ws)'
    BY <1>4, PickDoes, CommandsDo, LeaveDoes, GotoDoes, <1>a, <1>b, NoPanic, AcceptedIs,
      CollectedIs, CollectedStopIs, NoLeaseIs DEF WorkIdle, Goes, Left, Collects, Idle,
      Refuse, NoCall, Known, RunOf, RunningOf, Recording, Elsewhere, ReservationFits,
      Reserved, Settles
  <1>5. ASSUME \/ Opened(c) \/ Edited(c) \/ WorkFails(c) \/ StartLeaseRun(c)
        PROVE  RunningOf(ws)'
    BY <1>5, OpenedDoes, EditedDoes, StartLeaseRunDoes, LeaveDoes, GotoDoes, <1>a, <1>b,
      NoPanic, AcceptedIs, CollectedIs, CollectedStopIs, NoLeaseIs DEF Left, WorkFails,
      Goes, NoCall, Known, RunOf, RunningOf, Recording, Elsewhere, ReservationFits,
      Reserved, Settles, Quiet
  <1>6. ASSUME \/ RecordRun(c) \/ Validated(c) \/ Recognized(c) \/ Discovered(c)
        PROVE  RunningOf(ws)'
    BY <1>6, RecordRunDoes, ValidatedDoes, RecognizedDoes, DiscoveredDoes, LeaveDoes,
      GotoDoes, <1>a, <1>b, NoPanic, AcceptedIs, CollectedIs, CollectedStopIs, NoLeaseIs
      DEF Left, Goes, Waits, Remembers, LeaseOnly, NoCall, Known, RunOf, RunningOf,
      Recording, Elsewhere, ReservationFits, Reserved, Settles
  <1>7. ASSUME \/ DropDiscovery(c) \/ ForgetContext(c) \/ ReviewReady(c)
               \/ PrepareFails(c)
        PROVE  RunningOf(ws)'
    BY <1>7, DropDiscoveryDoes, ForgetContextDoes, ReviewReadyDoes, LeaveDoes, GotoDoes,
      <1>a, <1>b, NoPanic, AcceptedIs, CollectedIs, CollectedStopIs, NoLeaseIs DEF Goes,
      Remembers, LeaseOnly, Discovers, Left, PrepareFails, NoCall, Known, RunOf, RunningOf,
      Recording, Elsewhere, ReservationFits, Reserved, Settles
  <1>8. ASSUME \/ BeginPublish(c) \/ Checkpoint(c) \/ Commit(c) \/ PublishFails(c)
        PROVE  RunningOf(ws)'
    BY <1>8, BeginPublishDoes, CommitDoes, PublishFailsDoes, LeaveDoes, GotoDoes, <1>a,
      <1>b, NoPanic, AcceptedIs, CollectedIs, CollectedStopIs, NoLeaseIs DEF Left, Goes,
      Checkpoint, Concludes, NoCall, Known, RunOf, RunningOf, Recording, Elsewhere,
      ReservationFits, Reserved, Settles
  <1>9. ASSUME \/ DropAttempt(c) \/ Picked(c)
        PROVE  RunningOf(ws)'
    BY <1>9, DropAttemptDoes, PickedDoes, LeaveDoes, <1>a, <1>b, NoPanic, AcceptedIs,
      CollectedIs, CollectedStopIs, NoLeaseIs DEF Left, Goes, NoCall, Known, RunOf,
      RunningOf, Recording, Elsewhere, ReservationFits, Reserved, Settles
  <1> QED
    BY <1>1, <1>2, <1>3, <1>4, <1>5, <1>6, <1>7, <1>8, <1>9 DEF CallerStep, Accepts, Works

(* Runs are numbered: a run that begins is later than every run so far. *)
LEMMA Numbers ==
    ASSUME TypeOK
    PROVE  runner.run \in Nat /\ ws.lease.recognition.run \in Nat
  BY BoundsAssumption DEF TypeOK, RunnerType, WsType, LeaseType, RecognitionType, Run

LEMMA BeginsLater ==
    ASSUME TypeOK, NEW owner, NEW native, BeginsRun(owner, native)
    PROVE  /\ runner'.run = runner.run + 1 /\ runner'.run > 0 /\ runner'.run > runner.run
           /\ runner'.state = "running" /\ ~runner'.stopped
           /\ runner'.owner = owner /\ runner'.native = native
           /\ \A run \in Nat : run <= runner.run => run < runner'.run
  BY Numbers DEF BeginsRun

(* the owner describes the run of the runner,                              *)
LEMMA OperationOwn ==
    ASSUME IInv,
           NEW c \in Callers, CallerStep(c)
    PROVE  OperationOf(ws, stop)'
  <1>a. /\ TypeOK /\ StepFits(c) /\ Known(ws, stop, c) /\ Known(Collected, CollectedStop, c)
        /\ StepsFit /\ LeaseFits(ws, stop) /\ DiscoveryFits(ws, stop)
    BY Knows
  <1>b. Elsewhere(c)
    BY <1>a, CallerMoves, MovesDo
  <1>1. ASSUME \/ Capturing(c) \/ Start(c) \/ CheckEnvironment(c) \/ Enter(c)
        PROVE  OperationOf(ws, stop)'
    BY <1>1, CommandsDo, StartDoes, LeaveDoes, GotoDoes, <1>a, <1>b, NoPanic, AcceptedIs,
      CollectedIs, CollectedStopIs, NoLeaseIs, Numbers, BeginsLater, Numbers, BeginsLater
      DEF Left, Begun, Idle, Collects, Goes, NoCall, Known, StepFits, RunOf, OperationOf,
      Validating, Elsewhere, StarterFits, RecognitionOf, ReservationFits, Reserved, Waits,
      Quiet, WorkIdle, Settles, LeaseRuns
  <1>2. ASSUME \/ Exit(c)
               \/ \E kind \in Edits : Edit(c, kind)
               \/ \E kind \in LeaseRuns : TakeStop(c, kind)
               \/ Discover(c)
        PROVE  OperationOf(ws, stop)'
    BY <1>2, ExitDoes, EditDoes, TakeStopDoes, DiscoverDoes, LeaveDoes, GotoDoes, <1>a,
      <1>b, NoPanic, AcceptedIs, CollectedIs, CollectedStopIs, NoLeaseIs DEF Left,
      WorkIdle, Collects, Goes, Remembers, LeaseOnly, NoCall, Known, StepFits, RunOf,
      OperationOf, Validating, Elsewhere, StarterFits, RecognitionOf, ReservationFits,
      Reserved, Waits, Quiet, Idle, Settles
  <1>3. ASSUME \/ SetupStart(c)
               \/ \E kind \in {"import", "export"} : Prepare(c, kind)
               \/ TakeReview(c) \/ PickPackage(c)
        PROVE  OperationOf(ws, stop)'
    BY <1>3, SetupStartDoes, PrepareDoes, TakeReviewDoes, PickPackageDoes, LeaveDoes,
      GotoDoes, <1>a, <1>b, NoPanic, AcceptedIs, CollectedIs, CollectedStopIs, NoLeaseIs
      DEF Left, Collects, Idle, Goes, Remembers, ImportIdle, WorkIdle, NoCall, Known,
      StepFits, RunOf, OperationOf, Validating, Elsewhere, StarterFits, RecognitionOf,
      ReservationFits, Reserved, Waits, Quiet, Settles
  <1>4. ASSUME \/ Pick(c) \/ Close(c) \/ PrepareReconstruction(c) \/ Refuse(c)
        PROVE  OperationOf(ws, stop)'
    BY <1>4, PickDoes, CommandsDo, LeaveDoes, GotoDoes, <1>a, <1>b, NoPanic, AcceptedIs,
      CollectedIs, CollectedStopIs, NoLeaseIs DEF WorkIdle, Goes, Left, Collects, Idle,
      Refuse, NoCall, Known, StepFits, RunOf, OperationOf, Validating, Elsewhere,
      StarterFits, RecognitionOf, ReservationFits, Reserved, Waits, Quiet, Settles
  <1>5. ASSUME \/ Opened(c) \/ Edited(c) \/ WorkFails(c) \/ StartLeaseRun(c)
        PROVE  OperationOf(ws, stop)'
    BY <1>5, OpenedDoes, EditedDoes, StartLeaseRunDoes, LeaveDoes, GotoDoes, <1>a, <1>b,
      NoPanic, AcceptedIs, CollectedIs, CollectedStopIs, NoLeaseIs, Numbers, BeginsLater
      DEF Left, WorkFails, Goes, NoCall, Known, StepFits, RunOf, OperationOf, Validating,
      Elsewhere, StarterFits, RecognitionOf, ReservationFits, Reserved, Waits, Quiet,
      WorkIdle, Idle, Settles
  <1>6. ASSUME \/ RecordRun(c) \/ Validated(c) \/ Recognized(c) \/ Discovered(c)
        PROVE  OperationOf(ws, stop)'
    BY <1>6, RecordRunDoes, ValidatedDoes, RecognizedDoes, DiscoveredDoes, LeaveDoes,
      GotoDoes, <1>a, <1>b, NoPanic, AcceptedIs, CollectedIs, CollectedStopIs, NoLeaseIs
      DEF Left, Goes, Waits, Remembers, LeaseOnly, NoCall, Known, StepFits, RunOf,
      OperationOf, Validating, Elsewhere, StarterFits, RecognitionOf, ReservationFits,
      Reserved, Quiet, WorkIdle, Idle, Settles
  <1>7. ASSUME \/ DropDiscovery(c) \/ ForgetContext(c) \/ ReviewReady(c)
               \/ PrepareFails(c)
        PROVE  OperationOf(ws, stop)'
    BY <1>7, DropDiscoveryDoes, ForgetContextDoes, ReviewReadyDoes, LeaveDoes, GotoDoes,
      <1>a, <1>b, NoPanic, AcceptedIs, CollectedIs, CollectedStopIs, NoLeaseIs DEF Goes,
      Remembers, LeaseOnly, Discovers, Left, PrepareFails, NoCall, Known, StepFits, RunOf,
      OperationOf, Validating, Elsewhere, StarterFits, RecognitionOf, ReservationFits,
      Reserved, Waits, Quiet, WorkIdle, Idle, Settles
  <1>8. ASSUME \/ BeginPublish(c) \/ Checkpoint(c) \/ Commit(c) \/ PublishFails(c)
        PROVE  OperationOf(ws, stop)'
    BY <1>8, BeginPublishDoes, CommitDoes, PublishFailsDoes, LeaveDoes, GotoDoes, <1>a,
      <1>b, NoPanic, AcceptedIs, CollectedIs, CollectedStopIs, NoLeaseIs DEF Left, Goes,
      Checkpoint, Concludes, NoCall, Known, StepFits, RunOf, OperationOf, Validating,
      Elsewhere, StarterFits, RecognitionOf, ReservationFits, Reserved, Waits, Quiet,
      WorkIdle, Idle, Settles
  <1>9. ASSUME \/ DropAttempt(c) \/ Picked(c)
        PROVE  OperationOf(ws, stop)'
    BY <1>9, DropAttemptDoes, PickedDoes, LeaveDoes, <1>a, <1>b, NoPanic, AcceptedIs,
      CollectedIs, CollectedStopIs, NoLeaseIs DEF Left, Goes, NoCall, Known, StepFits,
      RunOf, OperationOf, Validating, Elsewhere, StarterFits, RecognitionOf,
      ReservationFits, Reserved, Waits, Quiet, WorkIdle, Idle, Settles
  <1> QED
    BY <1>1, <1>2, <1>3, <1>4, <1>5, <1>6, <1>7, <1>8, <1>9 DEF CallerStep, Accepts, Works

(* and what is remembered of a run is of an earlier or the same one.       *)
LEMMA RecognitionOwn ==
    ASSUME IInv,
           NEW c \in Callers, CallerStep(c)
    PROVE  RecognitionOf(ws)' /\ StarterFits(ws, c)'
  <1>a. /\ TypeOK /\ StepFits(c) /\ Known(ws, stop, c) /\ Known(Collected, CollectedStop, c)
        /\ StepsFit /\ LeaseFits(ws, stop) /\ DiscoveryFits(ws, stop)
    BY Knows
  <1>1. ASSUME \/ Capturing(c) \/ Start(c) \/ CheckEnvironment(c) \/ Enter(c)
        PROVE  RecognitionOf(ws)' /\ StarterFits(ws, c)'
    BY <1>1, CommandsDo, StartDoes, LeaveDoes, GotoDoes, <1>a, Numbers, NoPanic,
      AcceptedIs, CollectedIs, CollectedStopIs, NoLeaseIs, Numbers, BeginsLater, Numbers,
      BeginsLater DEF Left, Begun, Idle, Collects, Goes, NoCall, Known, StepFits,
      RecognitionOf, StarterFits, WorkIdle, LeaseRuns
  <1>2. ASSUME \/ Exit(c)
               \/ \E kind \in Edits : Edit(c, kind)
               \/ \E kind \in LeaseRuns : TakeStop(c, kind)
               \/ Discover(c)
        PROVE  RecognitionOf(ws)' /\ StarterFits(ws, c)'
    BY <1>2, ExitDoes, EditDoes, TakeStopDoes, DiscoverDoes, LeaveDoes, GotoDoes, <1>a,
      Numbers, NoPanic, AcceptedIs, CollectedIs, CollectedStopIs, NoLeaseIs DEF Left,
      WorkIdle, Collects, Goes, Remembers, LeaseOnly, NoCall, Known, StepFits,
      RecognitionOf, StarterFits
  <1>3. ASSUME \/ SetupStart(c)
               \/ \E kind \in {"import", "export"} : Prepare(c, kind)
               \/ TakeReview(c) \/ PickPackage(c)
        PROVE  RecognitionOf(ws)' /\ StarterFits(ws, c)'
    BY <1>3, SetupStartDoes, PrepareDoes, TakeReviewDoes, PickPackageDoes, LeaveDoes,
      GotoDoes, <1>a, Numbers, NoPanic, AcceptedIs, CollectedIs, CollectedStopIs, NoLeaseIs
      DEF Left, Collects, Idle, Goes, Remembers, ImportIdle, WorkIdle, NoCall, Known,
      StepFits, RecognitionOf, StarterFits
  <1>4. ASSUME \/ Pick(c) \/ Close(c) \/ PrepareReconstruction(c) \/ Refuse(c)
        PROVE  RecognitionOf(ws)' /\ StarterFits(ws, c)'
    BY <1>4, PickDoes, CommandsDo, LeaveDoes, GotoDoes, <1>a, Numbers, NoPanic, AcceptedIs,
      CollectedIs, CollectedStopIs, NoLeaseIs DEF WorkIdle, Goes, Left, Collects, Idle,
      Refuse, NoCall, Known, StepFits, RecognitionOf, StarterFits
  <1>5. ASSUME \/ Opened(c) \/ Edited(c) \/ WorkFails(c) \/ StartLeaseRun(c)
        PROVE  RecognitionOf(ws)' /\ StarterFits(ws, c)'
    BY <1>5, OpenedDoes, EditedDoes, StartLeaseRunDoes, LeaveDoes, GotoDoes, <1>a, Numbers,
      NoPanic, AcceptedIs, CollectedIs, CollectedStopIs, NoLeaseIs, Numbers, BeginsLater
      DEF Left, WorkFails, Goes, NoCall, Known, StepFits, RecognitionOf, StarterFits,
      WorkIdle
  <1>6. ASSUME \/ RecordRun(c) \/ Validated(c) \/ Recognized(c) \/ Discovered(c)
        PROVE  RecognitionOf(ws)' /\ StarterFits(ws, c)'
    BY <1>6, RecordRunDoes, ValidatedDoes, RecognizedDoes, DiscoveredDoes, LeaveDoes,
      GotoDoes, <1>a, Numbers, NoPanic, AcceptedIs, CollectedIs, CollectedStopIs, NoLeaseIs
      DEF Left, Goes, Waits, Remembers, LeaseOnly, NoCall, Known, StepFits, RecognitionOf,
      StarterFits, WorkIdle
  <1>7. ASSUME \/ DropDiscovery(c) \/ ForgetContext(c) \/ ReviewReady(c)
               \/ PrepareFails(c)
        PROVE  RecognitionOf(ws)' /\ StarterFits(ws, c)'
    BY <1>7, DropDiscoveryDoes, ForgetContextDoes, ReviewReadyDoes, LeaveDoes, GotoDoes,
      <1>a, Numbers, NoPanic, AcceptedIs, CollectedIs, CollectedStopIs, NoLeaseIs DEF Goes,
      Remembers, LeaseOnly, Discovers, Left, PrepareFails, NoCall, Known, StepFits,
      RecognitionOf, StarterFits, WorkIdle
  <1>8. ASSUME \/ BeginPublish(c) \/ Checkpoint(c) \/ Commit(c) \/ PublishFails(c)
        PROVE  RecognitionOf(ws)' /\ StarterFits(ws, c)'
    BY <1>8, BeginPublishDoes, CommitDoes, PublishFailsDoes, LeaveDoes, GotoDoes, <1>a,
      Numbers, NoPanic, AcceptedIs, CollectedIs, CollectedStopIs, NoLeaseIs DEF Left, Goes,
      Checkpoint, Concludes, NoCall, Known, StepFits, RecognitionOf, StarterFits, WorkIdle
  <1>9. ASSUME \/ DropAttempt(c) \/ Picked(c)
        PROVE  RecognitionOf(ws)' /\ StarterFits(ws, c)'
    BY <1>9, DropAttemptDoes, PickedDoes, LeaveDoes, <1>a, Numbers, NoPanic, AcceptedIs,
      CollectedIs, CollectedStopIs, NoLeaseIs DEF Left, Goes, NoCall, Known, StepFits,
      RecognitionOf, StarterFits, WorkIdle
  <1> QED
    BY <1>1, <1>2, <1>3, <1>4, <1>5, <1>6, <1>7, <1>8, <1>9 DEF CallerStep, Accepts, Works

(* Without the command mutex nothing happens to a run that is being started. *)
LEMMA StartsAlone ==
    ASSUME IInv, NEW c \in Callers, CallerStep(c), NEW d \in Callers \ {c},
           pc[d] \in {"starting", "recording"}
    PROVE  UNCHANGED <<ws, runner>>
  <1>1. Unheld(c)
    BY Knows, Alone, UnheldSteps DEF Holds, Holding
  <1>2. ~WorkspacesFree
    BY DEF WorkspacesFree
  <1> QED
    BY <1>1, <1>2, Knows, DiscoveredDoes, DropDiscoveryDoes, ForgetContextDoes, PickedDoes,
       DropAttemptDoes, RecognizedDoes
    DEF Unheld, Discovered

(* The worker of a run is the only one that takes the run out of "running". *)
LEMMA RunnerAfter ==
    ASSUME TypeOK, Environment
    PROVE  /\ RunnerKept
           /\ runner'.state = "running" => runner.state = "running"
           /\ runner'.state = "idle" <=> runner.state = "idle"
  <1>1. RunnerKept
    BY EnvironmentDoes
  <1> QED
    BY <1>1, WorkerEndsDoes DEF RunnerKept

(* The part about the run is kept by every step.                           *)
LEMMA RunHeld ==
    ASSUME IInv, Next
    PROVE  RunFits(ws, stop)'
  <1> USE Knows
  <1>1. ASSUME NEW c \in Callers, NEW kind \in Kinds, Admit(c, kind)
        PROVE  RunFits(ws, stop)'
    <2>1. /\ RunFits(ws, stop) /\ UNCHANGED <<ws, stop, runner>>
          /\ pc[c] = "idle" /\ pc'[c] = "admitted" /\ Elsewhere(c)
      BY <1>1, AdmitKeeps DEF IInv, Fits
    <2>2. (Recording' <=> Recording) /\ (Validating' <=> Validating)
      BY <2>1 DEF Recording, Validating, Waits, Elsewhere
    <2>3. ASSUME NEW d \in Callers
          PROVE  StarterFits(ws, d)'
      BY <2>1 DEF RunFits, StarterFits, Elsewhere
    <2> QED
      BY <2>1, <2>2, <2>3 DEF RunFits, RunOf, RunningOf, OperationOf, RecognitionOf
  <1>2. ASSUME NEW c \in Callers, CallerStep(c)
        PROVE  RunFits(ws, stop)'
    <2>1. RunningOf(ws)' /\ OperationOf(ws, stop)' /\ RecognitionOf(ws)' /\ StarterFits(ws, c)'
      BY <1>2, RunningOwn, OperationOwn, RecognitionOwn
    <2>2. ASSUME NEW d \in Callers \ {c}
          PROVE  StarterFits(ws, d)'
      <3>1. StarterFits(ws, d) /\ pc'[d] = pc[d] /\ call'[d] = call[d]
        BY <1>2, CallerMoves, MovesDo DEF Elsewhere, Known
      <3> QED
        BY <1>2, <3>1, StartsAlone DEF StarterFits
    <2>3. \A d \in Callers : StarterFits(ws, d)'
      BY <2>1, <2>2
    <2> QED
      BY <2>1, <2>3 DEF RunFits, RunOf
  <1>3. ASSUME Environment
        PROVE  RunFits(ws, stop)'
    <2>1. /\ UNCHANGED <<commands, pc, call>> /\ (Kept \/ CollectsOnly \/ SettleLease)
          /\ RunFits(ws, stop) /\ RunFits(Collected, CollectedStop)
      BY <1>3, EnvironmentKeeps, EnvironmentDoes DEF CInv, Fits, IInv
    <2>2. (Recording' <=> Recording) /\ (Validating' <=> Validating)
      BY <2>1 DEF Recording, Validating, Waits
    <2>3. CASE Kept \/ CollectsOnly
      <3>1. PICK w, s : RunFits(w, s) /\ ws' = w /\ stop'.run = s.run
        BY <2>1, <2>3 DEF Kept, CollectsOnly, Collects
      <3>2. ASSUME NEW d \in Callers
            PROVE  StarterFits(ws, d)'
        BY <1>3, <2>1, <3>1, RunnerAfter DEF RunFits, StarterFits, RunnerKept
      <3>3. RunOf(ws, stop)'
        BY <1>3, <2>2, <3>1, RunnerAfter DEF RunFits, RunOf, RunningOf, OperationOf, RunnerKept
      <3>4. RecognitionOf(ws)'
        BY <1>3, <3>1, RunnerAfter DEF RunFits, RecognitionOf, RunnerKept
      <3> QED
        BY <3>2, <3>3, <3>4 DEF RunFits
    <2>4. CASE SettleLease
      <3>1. CASE ws' = Collected /\ stop' = CollectedStop
        <4>1. UNCHANGED runner
          BY <2>4, SettleLeaseDoes
        <4> QED
          BY <2>1, <2>2, <3>1, <4>1
          DEF RunFits, RunOf, RunningOf, OperationOf, RecognitionOf, StarterFits
      <3>2. CASE ~shut.failed /\ ws'.lease = NoLease
        <4>1. UNCHANGED runner /\ ws'.operation = Collected.operation /\ WorkspacesFree
          BY <2>4, SettleLeaseDoes
        <4>2. runner.state # "running"
          BY <2>4, <3>2, SettleLeaseDoes DEF IInv, Fits, ShutFits, Succeeds, Joined
        <4>3. Collected.operation.terminal
          BY <2>1, <4>2, CollectedIs DEF RunFits, RunOf, OperationOf, TypeOK, RunnerType
        <4>4. RunOf(ws, stop)'
          BY <2>1, <4>1, <4>2, <4>3 DEF RunFits, RunOf, RunningOf, OperationOf
        <4>5. RecognitionOf(ws)'
          BY <3>2, <4>1, NoLeaseIs, Numbers DEF RecognitionOf
        <4> QED
          BY <2>1, <4>1, <4>4, <4>5 DEF RunFits, StarterFits, WorkspacesFree
      <3> QED
        BY <2>4, <3>1, <3>2, SettleLeaseDoes
    <2> QED
      BY <2>1, <2>3, <2>4
  <1> QED
    BY <1>1, <1>2, <1>3, NextIs

(* Attempts are numbered in the same way. *)
LEMMA Tokens ==
    ASSUME TypeOK
    PROVE  /\ package.next \in Nat /\ package.review.token \in Nat
           /\ \A c \in Callers : call[c].token \in Nat
           /\ \A token \in seen.cancelled \cup seen.published : token \in Nat
           /\ CollectedSeen.cancelled = seen.cancelled /\ CollectedSeen.published = seen.published
           /\ NoReview.token = 0 /\ NoCall.token = 0
  BY BoundsAssumption, CollectedSeenIs
  DEF TypeOK, PackageType, ReviewType, CallType, SeenType, Token, NoReview, NoCall

(* What the step of a caller does to the runner, to closing and to what was asked. *)
CallerRun ==
    /\ runner' = runner \/ \E owner, native : BeginsRun(owner, native)
    /\ seen'.asked = seen.asked /\ seen'.cancelled = seen.cancelled
    /\ (seen'.unreconciled <=> seen.unreconciled)
    /\ shut' = shut /\ (closing => closing')

(* Whether another caller is starting a run of the lease, or waits for one. *)
RecordsElse(c) == \E d \in Callers \ {c} : pc[d] = "recording"
ValidatesElse(c) == \E d \in Callers \ {c} : Waits(d, "validate")

(* No two callers start or wait for runs of the lease.                     *)
LEMMA RunsElsewhere ==
    ASSUME StepsFit, NEW c \in Callers, Elsewhere(c)
    PROVE  /\ Recording <=> pc[c] = "recording" \/ RecordsElse(c)
           /\ Recording' <=> pc'[c] = "recording" \/ RecordsElse(c)
           /\ Validating <=> Waits(c, "validate") \/ ValidatesElse(c)
           /\ Validating' <=> Waits(c, "validate")' \/ ValidatesElse(c)
           /\ Holds(c) => ~RecordsElse(c) /\ ~ValidatesElse(c)
           /\ WorkspacesFree => ~Recording
  <1>1. Holds(c) => ~RecordsElse(c) /\ ~ValidatesElse(c)
    BY Alone DEF RecordsElse, ValidatesElse, Holds, Holding
  <1> QED
    BY <1>1 DEF Elsewhere, Recording, Validating, RecordsElse, ValidatesElse, Waits, WorkspacesFree

LEMMA CallerRuns ==
    ASSUME IInv,
           NEW c \in Callers, CallerStep(c)
    PROVE  CallerRun
  <1>a. /\ TypeOK /\ StepFits(c) /\ Known(ws, stop, c) /\ Known(Collected, CollectedStop, c)
        /\ StepsFit /\ LeaseFits(ws, stop) /\ DiscoveryFits(ws, stop)
    BY Knows
  <1>b. Elsewhere(c)
    BY <1>a, CallerMoves, MovesDo
  <1>1. ASSUME \/ Capturing(c) \/ Refuse(c) \/ Opened(c) \/ Edited(c) \/ WorkFails(c)
               \/ RecordRun(c) \/ Discovered(c) \/ DropDiscovery(c) \/ ForgetContext(c)
               \/ ReviewReady(c) \/ PrepareFails(c) \/ BeginPublish(c) \/ Checkpoint(c)
               \/ DropAttempt(c) \/ Picked(c)
        PROVE  CallerRun
    BY <1>1, CommandsDo, OpenedDoes, EditedDoes, RecordRunDoes, DiscoveredDoes,
      DropDiscoveryDoes, ForgetContextDoes, ReviewReadyDoes, BeginPublishDoes,
      DropAttemptDoes, PickedDoes, LeaveDoes, GotoDoes, <1>a, NoPanic, CollectedSeenIs
      DEF Refuse, WorkFails, LeaseOnly, Discovers, PrepareFails, Checkpoint, CallerRun
  <1>2. ASSUME \/ Start(c) \/ CheckEnvironment(c) \/ Enter(c) \/ Exit(c)
               \/ \E kind \in Edits : Edit(c, kind)
               \/ \E kind \in LeaseRuns : TakeStop(c, kind)
        PROVE  CallerRun
    BY <1>2, StartDoes, CommandsDo, ExitDoes, EditDoes, TakeStopDoes, LeaveDoes, GotoDoes,
      <1>a, NoPanic, CollectedSeenIs DEF Begun, Collects, CallerRun
  <1>3. ASSUME \/ Discover(c) \/ SetupStart(c)
               \/ \E kind \in {"import", "export"} : Prepare(c, kind)
               \/ TakeReview(c) \/ PickPackage(c) \/ Pick(c)
        PROVE  CallerRun
    BY <1>3, DiscoverDoes, SetupStartDoes, PrepareDoes, TakeReviewDoes, PickPackageDoes,
      PickDoes, LeaveDoes, GotoDoes, <1>a, NoPanic, CollectedSeenIs DEF LeaseOnly,
      Collects, CallerRun
  <1>4. ASSUME \/ Close(c) \/ PrepareReconstruction(c) \/ StartLeaseRun(c)
               \/ Validated(c) \/ Recognized(c) \/ Commit(c)
        PROVE  CallerRun
    BY <1>4, CommandsDo, StartLeaseRunDoes, ValidatedDoes, RecognizedDoes, CommitDoes,
      LeaveDoes, GotoDoes, <1>a, NoPanic, CollectedSeenIs DEF Collects, Waits, Concludes,
      CallerRun
  <1>5. ASSUME PublishFails(c)
        PROVE  CallerRun
    BY <1>5, PublishFailsDoes, GotoDoes, <1>a, NoPanic, CollectedSeenIs DEF Concludes,
      CallerRun
  <1> QED
    BY <1>1, <1>2, <1>3, <1>4, <1>5 DEF CallerStep, Accepts, Works

(* Cancellation and publication of a review, for the caller of the step.   *)
LEMMA TokensOwn ==
    ASSUME IInv,
           NEW c \in Callers, CallerStep(c)
    PROVE  TokensOf(seen)' /\ TokenFits(seen, c)'
  <1>a. /\ TypeOK /\ StepFits(c) /\ Known(ws, stop, c) /\ Known(Collected, CollectedStop, c)
        /\ StepsFit /\ LeaseFits(ws, stop) /\ DiscoveryFits(ws, stop)
    BY Knows
  <1>b. Elsewhere(c)
    BY <1>a, CallerMoves, MovesDo
  <1>c. TokensOf(seen) /\ TokenFits(seen, c)
    BY DEF IInv, Fits, TokensFit
  <1>1. ASSUME \/ Capturing(c) \/ Start(c) \/ CheckEnvironment(c) \/ Enter(c)
        PROVE  TokensOf(seen)' /\ TokenFits(seen, c)'
    BY <1>1, CommandsDo, StartDoes, LeaveDoes, GotoDoes, <1>a, <1>c, NoPanic, Tokens,
      AttemptIs DEF Left, Begun, Collects, Goes, TokensOf, TokenFits, Publishes
  <1>2. ASSUME \/ Exit(c)
               \/ \E kind \in Edits : Edit(c, kind)
               \/ \E kind \in LeaseRuns : TakeStop(c, kind)
               \/ Discover(c)
        PROVE  TokensOf(seen)' /\ TokenFits(seen, c)'
    BY <1>2, ExitDoes, EditDoes, TakeStopDoes, DiscoverDoes, LeaveDoes, GotoDoes, <1>a,
      <1>c, NoPanic, Tokens, AttemptIs DEF Left, Collects, Goes, Remembers, LeaseOnly,
      TokensOf, TokenFits, Publishes
  <1>3. ASSUME \/ SetupStart(c)
               \/ \E kind \in {"import", "export"} : Prepare(c, kind)
               \/ TakeReview(c) \/ PickPackage(c)
        PROVE  TokensOf(seen)' /\ TokenFits(seen, c)'
    BY <1>3, SetupStartDoes, PrepareDoes, TakeReviewDoes, PickPackageDoes, LeaveDoes,
      GotoDoes, <1>a, <1>c, NoPanic, Tokens, AttemptIs DEF Left, Collects, Goes, Remembers,
      TokensOf, TokenFits, Publishes
  <1>4. ASSUME \/ Pick(c) \/ Close(c) \/ PrepareReconstruction(c) \/ Refuse(c)
        PROVE  TokensOf(seen)' /\ TokenFits(seen, c)'
    BY <1>4, PickDoes, CommandsDo, LeaveDoes, GotoDoes, <1>a, <1>c, NoPanic, Tokens,
      AttemptIs DEF Goes, Left, Collects, Refuse, TokensOf, TokenFits, Publishes
  <1>5. ASSUME \/ Opened(c) \/ Edited(c) \/ WorkFails(c) \/ StartLeaseRun(c)
        PROVE  TokensOf(seen)' /\ TokenFits(seen, c)'
    BY <1>5, OpenedDoes, EditedDoes, StartLeaseRunDoes, LeaveDoes, GotoDoes, <1>a, <1>c,
      NoPanic, Tokens, AttemptIs DEF Left, WorkFails, Goes, TokensOf, TokenFits, Publishes
  <1>6. ASSUME \/ RecordRun(c) \/ Validated(c) \/ Recognized(c) \/ Discovered(c)
        PROVE  TokensOf(seen)' /\ TokenFits(seen, c)'
    BY <1>6, RecordRunDoes, ValidatedDoes, RecognizedDoes, DiscoveredDoes, LeaveDoes,
      GotoDoes, <1>a, <1>c, NoPanic, Tokens, AttemptIs DEF Left, Goes, Waits, Remembers,
      LeaseOnly, TokensOf, TokenFits, Publishes
  <1>7. ASSUME \/ DropDiscovery(c) \/ ForgetContext(c) \/ ReviewReady(c)
               \/ PrepareFails(c)
        PROVE  TokensOf(seen)' /\ TokenFits(seen, c)'
    BY <1>7, DropDiscoveryDoes, ForgetContextDoes, ReviewReadyDoes, LeaveDoes, GotoDoes,
      <1>a, <1>c, NoPanic, Tokens, AttemptIs DEF Goes, Remembers, LeaseOnly, Discovers,
      Left, PrepareFails, TokensOf, TokenFits, Publishes
  <1>8. ASSUME \/ BeginPublish(c) \/ Checkpoint(c) \/ Commit(c) \/ PublishFails(c)
        PROVE  TokensOf(seen)' /\ TokenFits(seen, c)'
    BY <1>8, BeginPublishDoes, CommitDoes, PublishFailsDoes, LeaveDoes, GotoDoes, <1>a,
      <1>c, NoPanic, Tokens, AttemptIs DEF Left, Goes, Checkpoint, Concludes, TokensOf,
      TokenFits, Publishes
  <1>9. ASSUME \/ DropAttempt(c) \/ Picked(c)
        PROVE  TokensOf(seen)' /\ TokenFits(seen, c)'
    BY <1>9, DropAttemptDoes, PickedDoes, LeaveDoes, <1>a, <1>c, NoPanic, Tokens, AttemptIs
      DEF Left, Goes, TokensOf, TokenFits, Publishes
  <1> QED
    BY <1>1, <1>2, <1>3, <1>4, <1>5, <1>6, <1>7, <1>8, <1>9 DEF CallerStep, Accepts, Works

(* The revision that is published, for the caller of the step.             *)
LEMMA ExportOwn ==
    ASSUME IInv,
           NEW c \in Callers, CallerStep(c)
    PROVE  ExporterFits(ws, c)'
  <1>a. /\ TypeOK /\ StepFits(c) /\ Known(ws, stop, c) /\ Known(Collected, CollectedStop, c)
        /\ StepsFit /\ LeaseFits(ws, stop) /\ DiscoveryFits(ws, stop)
    BY Knows
  <1>b. Elsewhere(c)
    BY <1>a, CallerMoves, MovesDo
  <1>c. ExporterFits(ws, c) /\ ExporterFits(Collected, c)
    BY Knows DEF IInv, CInv, Fits, ExportFits
  <1>1. ASSUME \/ Capturing(c) \/ Start(c) \/ CheckEnvironment(c) \/ Enter(c)
        PROVE  ExporterFits(ws, c)'
    BY <1>1, CommandsDo, StartDoes, LeaveDoes, GotoDoes, <1>a, <1>c, NoPanic DEF Left,
      Begun, Collects, Goes, ExporterFits, Publishes
  <1>2. ASSUME \/ Exit(c)
               \/ \E kind \in Edits : Edit(c, kind)
               \/ \E kind \in LeaseRuns : TakeStop(c, kind)
               \/ Discover(c)
        PROVE  ExporterFits(ws, c)'
    BY <1>2, ExitDoes, EditDoes, TakeStopDoes, DiscoverDoes, LeaveDoes, GotoDoes, <1>a,
      <1>c, NoPanic DEF Left, WorkIdle, Collects, Goes, Remembers, LeaseOnly, ExporterFits,
      Publishes
  <1>3. ASSUME \/ SetupStart(c)
               \/ \E kind \in {"import", "export"} : Prepare(c, kind)
               \/ TakeReview(c) \/ PickPackage(c)
        PROVE  ExporterFits(ws, c)'
    BY <1>3, SetupStartDoes, PrepareDoes, TakeReviewDoes, PickPackageDoes, LeaveDoes,
      GotoDoes, <1>a, <1>c, NoPanic DEF Left, Collects, Goes, Remembers, WorkIdle,
      ReviewFits, ExporterFits, Publishes
  <1>4. ASSUME \/ Pick(c) \/ Close(c) \/ PrepareReconstruction(c) \/ Refuse(c)
        PROVE  ExporterFits(ws, c)'
    BY <1>4, PickDoes, CommandsDo, LeaveDoes, GotoDoes, <1>a, <1>c, NoPanic DEF WorkIdle,
      Goes, Left, Collects, Refuse, ExporterFits, Publishes
  <1>5. ASSUME \/ Opened(c) \/ Edited(c) \/ WorkFails(c) \/ StartLeaseRun(c)
        PROVE  ExporterFits(ws, c)'
    BY <1>5, OpenedDoes, EditedDoes, StartLeaseRunDoes, LeaveDoes, GotoDoes, <1>a, <1>c,
      NoPanic DEF Left, WorkFails, Goes, ExporterFits, Publishes
  <1>6. ASSUME \/ RecordRun(c) \/ Validated(c) \/ Recognized(c) \/ Discovered(c)
        PROVE  ExporterFits(ws, c)'
    BY <1>6, RecordRunDoes, ValidatedDoes, RecognizedDoes, DiscoveredDoes, LeaveDoes,
      GotoDoes, <1>a, <1>c, NoPanic DEF Left, Goes, Waits, Remembers, LeaseOnly,
      ExporterFits, Publishes
  <1>7. ASSUME \/ DropDiscovery(c) \/ ForgetContext(c) \/ ReviewReady(c)
               \/ PrepareFails(c)
        PROVE  ExporterFits(ws, c)'
    BY <1>7, DropDiscoveryDoes, ForgetContextDoes, ReviewReadyDoes, LeaveDoes, GotoDoes,
      <1>a, <1>c, NoPanic DEF Goes, Remembers, LeaseOnly, Discovers, Left, PrepareFails,
      ExporterFits, Publishes
  <1>8. ASSUME \/ BeginPublish(c) \/ Checkpoint(c) \/ Commit(c) \/ PublishFails(c)
        PROVE  ExporterFits(ws, c)'
    BY <1>8, BeginPublishDoes, CommitDoes, PublishFailsDoes, LeaveDoes, GotoDoes, <1>a,
      <1>c, NoPanic DEF Left, Goes, Checkpoint, Concludes, ExporterFits, Publishes
  <1>9. ASSUME \/ DropAttempt(c) \/ Picked(c)
        PROVE  ExporterFits(ws, c)'
    BY <1>9, DropAttemptDoes, PickedDoes, LeaveDoes, <1>a, <1>c, NoPanic DEF Left, Goes,
      ExporterFits, Publishes
  <1> QED
    BY <1>1, <1>2, <1>3, <1>4, <1>5, <1>6, <1>7, <1>8, <1>9 DEF CallerStep, Accepts, Works

(* Evidence that contains later work is not lost by the step of a caller: it is *)
(* in the runner, or in `ws`, or somebody is about to take it there.       *)
LEMMA ContainmentOwn ==
    ASSUME IInv,
           NEW c \in Callers, CallerStep(c)
    PROVE  ContainmentFits(ws, seen)'
  <1>a. /\ TypeOK /\ StepFits(c) /\ Known(ws, stop, c) /\ Known(Collected, CollectedStop, c)
        /\ StepsFit /\ LeaseFits(ws, stop) /\ DiscoveryFits(ws, stop)
    BY Knows
  <1>b. Elsewhere(c)
    BY <1>a, CallerMoves, MovesDo
  <1>c. ContainmentFits(ws, seen) /\ ContainmentFits(Collected, CollectedSeen)
        /\ ReservationFits(ws, c)
    BY Knows DEF IInv, CInv, Fits, Known
  <1>d. /\ Recording <=> pc[c] = "recording" \/ RecordsElse(c)
        /\ Recording' <=> pc'[c] = "recording" \/ RecordsElse(c)
        /\ Validating <=> Waits(c, "validate") \/ ValidatesElse(c)
        /\ Validating' <=> Waits(c, "validate")' \/ ValidatesElse(c)
        /\ Holds(c) => ~RecordsElse(c) /\ ~ValidatesElse(c)
        /\ WorkspacesFree => ~Recording
    BY <1>a, <1>b, RunsElsewhere
  <1>e. Reserved(c) => Quiet(ws)
    BY <1>c DEF ReservationFits
  <1>f. TypeOK
    BY <1>a
  <1>1. ASSUME \/ Capturing(c) \/ Start(c) \/ CheckEnvironment(c)
        PROVE  ContainmentFits(ws, seen)'
    BY <1>1, CommandsDo, StartDoes, LeaveDoes, <1>c, <1>d, <1>e, <1>f, <1>a, NoPanic,
      AcceptedIs, CollectedSeenIs, NoLeaseIs, Numbers, BeginsLater, Numbers, BeginsLater
      DEF Left, Begun, Idle, Goes, NoCall, Holds, Holding, Waits, Reserved,
      ContainmentFits, WorkIdle
  <1>2. ASSUME \/ Enter(c) \/ Exit(c)
               \/ \E kind \in Edits : Edit(c, kind)
        PROVE  ContainmentFits(ws, seen)'
    BY <1>2, CommandsDo, ExitDoes, EditDoes, LeaveDoes, GotoDoes, <1>c, <1>d, <1>e, <1>f,
      <1>a, NoPanic, AcceptedIs, CollectedSeenIs, NoLeaseIs DEF Collects, Goes, Idle, Left,
      WorkIdle, Remembers, NoCall, Holds, Holding, Waits, Reserved, ContainmentFits
  <1>3. ASSUME \/ \E kind \in LeaseRuns : TakeStop(c, kind)
               \/ Discover(c) \/ SetupStart(c)
        PROVE  ContainmentFits(ws, seen)'
    BY <1>3, TakeStopDoes, DiscoverDoes, SetupStartDoes, LeaveDoes, GotoDoes, <1>c, <1>d,
      <1>e, <1>f, <1>a, NoPanic, AcceptedIs, CollectedSeenIs, NoLeaseIs DEF Collects, Goes,
      Remembers, WorkIdle, LeaseOnly, Left, Idle, NoCall, Holds, Holding, Waits, Reserved,
      ContainmentFits
  <1>4. ASSUME \/ \E kind \in {"import", "export"} : Prepare(c, kind)
               \/ TakeReview(c) \/ PickPackage(c)
        PROVE  ContainmentFits(ws, seen)'
    BY <1>4, PrepareDoes, TakeReviewDoes, PickPackageDoes, LeaveDoes, GotoDoes, <1>c, <1>d,
      <1>e, <1>f, <1>a, NoPanic, AcceptedIs, CollectedSeenIs, NoLeaseIs DEF Collects, Goes,
      Remembers, ImportIdle, WorkIdle, Left, NoCall, Holds, Holding, Waits, Reserved,
      ContainmentFits
  <1>5. ASSUME \/ Pick(c) \/ Close(c) \/ PrepareReconstruction(c)
        PROVE  ContainmentFits(ws, seen)'
    BY <1>5, PickDoes, CommandsDo, LeaveDoes, GotoDoes, <1>c, <1>d, <1>e, <1>f, <1>a,
      NoPanic, AcceptedIs, CollectedSeenIs, NoLeaseIs DEF WorkIdle, Goes, Left, Collects,
      Idle, NoCall, Holds, Holding, Waits, Reserved, ContainmentFits
  <1>6. ASSUME \/ Refuse(c) \/ Opened(c) \/ Edited(c)
        PROVE  ContainmentFits(ws, seen)'
    BY <1>6, OpenedDoes, EditedDoes, LeaveDoes, <1>c, <1>d, <1>e, <1>f, <1>a, NoPanic,
      AcceptedIs, CollectedSeenIs, NoLeaseIs DEF Refuse, Left, Goes, NoCall, Holds,
      Holding, Waits, Reserved, ContainmentFits, Quiet, NotReserved
  <1>7. ASSUME \/ WorkFails(c) \/ StartLeaseRun(c) \/ RecordRun(c)
        PROVE  ContainmentFits(ws, seen)'
    BY <1>7, StartLeaseRunDoes, RecordRunDoes, LeaveDoes, GotoDoes, <1>c, <1>d, <1>e, <1>f,
      <1>a, NoPanic, AcceptedIs, CollectedSeenIs, NoLeaseIs, Numbers, BeginsLater
      DEF WorkFails, Left, Goes, NoCall, Holds, Holding, Waits, Reserved, ContainmentFits,
      Quiet
  <1>8. ASSUME \/ Validated(c) \/ Recognized(c) \/ Discovered(c)
        PROVE  ContainmentFits(ws, seen)'
    BY <1>8, ValidatedDoes, RecognizedDoes, DiscoveredDoes, LeaveDoes, GotoDoes, <1>c,
      <1>d, <1>e, <1>f, <1>a, NoPanic, AcceptedIs, CollectedSeenIs, NoLeaseIs DEF Waits,
      Left, Goes, Remembers, LeaseOnly, NoCall, Holds, Holding, Reserved, ContainmentFits
  <1>9. ASSUME \/ DropDiscovery(c) \/ ForgetContext(c) \/ ReviewReady(c)
        PROVE  ContainmentFits(ws, seen)'
    BY <1>9, DropDiscoveryDoes, ForgetContextDoes, ReviewReadyDoes, LeaveDoes, GotoDoes,
      <1>c, <1>d, <1>e, <1>f, <1>a, NoPanic, AcceptedIs, CollectedSeenIs, NoLeaseIs
      DEF Goes, Remembers, LeaseOnly, Discovers, Left, NoCall, Holds, Holding, Waits, Reserved,
      ContainmentFits
  <1>10. ASSUME \/ PrepareFails(c) \/ BeginPublish(c) \/ Checkpoint(c)
        PROVE  ContainmentFits(ws, seen)'
    BY <1>10, BeginPublishDoes, LeaveDoes, GotoDoes, <1>c, <1>d, <1>e, <1>f, <1>a, NoPanic,
      AcceptedIs, CollectedSeenIs, NoLeaseIs DEF PrepareFails, Goes, Left, Checkpoint,
      NoCall, Holds, Holding, Waits, Reserved, ContainmentFits
  <1>11. ASSUME \/ Commit(c) \/ PublishFails(c) \/ DropAttempt(c)
        PROVE  ContainmentFits(ws, seen)'
    BY <1>11, CommitDoes, PublishFailsDoes, DropAttemptDoes, LeaveDoes, GotoDoes, <1>c,
      <1>d, <1>e, <1>f, <1>a, NoPanic, AcceptedIs, CollectedSeenIs, NoLeaseIs
      DEF Concludes, Goes, Left, NoCall, Holds, Holding, Waits, Reserved, ContainmentFits
  <1>12. ASSUME Picked(c)
        PROVE  ContainmentFits(ws, seen)'
    BY <1>12, PickedDoes, LeaveDoes, <1>c, <1>d, <1>e, <1>f, <1>a, NoPanic, AcceptedIs,
      CollectedSeenIs, NoLeaseIs DEF Left, Goes, NoCall, Holds, Holding, Waits, Reserved,
      ContainmentFits
  <1> QED
    BY <1>1, <1>2, <1>3, <1>4, <1>5, <1>6, <1>7, <1>8, <1>9, <1>10, <1>11, <1>12
      DEF CallerStep, Accepts, Works

(* Apart from a Stop of the Edit owner, nobody asks, and a request is not lost. *)
AskKept ==
    /\ seen'.asked = seen.asked \/ \E owner \in 1..MaxSessions : AuthoringStop(owner)
    /\ runner.stopped => runner'.stopped \/ runner'.state # "running"
    /\ (seen'.unreconciled <=> seen.unreconciled) \/ WorkerEnds
    /\ seen'.published = seen.published
    /\ \/ PackageCancel
       \/ seen'.cancelled = seen.cancelled /\ (package' = package \/ CancelsPackage)

LEMMA EnvironmentAsks ==
    ASSUME TypeOK, Environment
    PROVE  AskKept
  <1>1. CASE \/ \E owner \in 1..MaxSessions : AuthoringStop(owner)
             \/ Stop \/ WorkerEnds \/ Collect \/ PackageCancel \/ CancelPackage
             \/ CloseRunner \/ SettleLease
    BY <1>1, AuthoringStopDoes, StopDoes, WorkerEndsDoes, PackageCancelDoes,
      CancelPackageDoes, CloseRunnerDoes, SettleLeaseDoes, CollectedSeenIs
      DEF CancelsContext, StopsRun, Collect, CancelsPackage, Advanced, AskKept
  <1>2. CASE \/ SetupReturns \/ SetupPoll \/ SetupCancel \/ PrepareClose
             \/ ShutdownBegins \/ CancelContext \/ CancelSetup \/ JoinRunner
             \/ SettleLate \/ WaitSetup \/ WaitPackage \/ Deadline
    BY <1>2, SetupReturnsDoes, ShutdownBeginsDoes, CancelContextDoes, CancelSetupDoes,
      JoinRunnerDoes, SettleLateDoes, WaitSetupDoes, WaitPackageDoes, DeadlineDoes,
      CollectedSeenIs DEF SetupPoll, SetupCancel, PrepareClose, Advanced, CancelsContext,
      AskKept, StopsRun
  <1>3. CASE JoinBridge
    BY <1>3, JoinBridgeDoes, CollectedSeenIs DEF Advanced, Collects, AskKept, StopsRun
  <1> QED
    BY <1>1, <1>2, <1>3 DEF Environment, Shutdown

(* A run that was asked to stop has been told, even if it was still being  *)
(* recorded: Stop waits for the recording.                                 *)
LEMMA AskedHeld ==
    ASSUME IInv, Next
    PROVE  AskedFits(seen)'
  <1> USE Knows, Numbers
  <1>0. AskedFits(seen) /\ \A run \in seen.asked : run \in Nat
    BY BoundsAssumption DEF IInv, Fits, TypeOK, SeenType, Run
  <1>1. ASSUME NEW c \in Callers, NEW kind \in Kinds, Admit(c, kind)
        PROVE  AskedFits(seen)'
    BY <1>0, <1>1, AdmitKeeps DEF AskedFits
  <1>2. ASSUME NEW c \in Callers, CallerStep(c)
        PROVE  AskedFits(seen)'
    BY <1>0, <1>2, CallerRuns, BeginsLater DEF CallerRun, AskedFits
  <1>3. ASSUME NEW owner \in 1..MaxSessions, AuthoringStop(owner)
        PROVE  AskedFits(seen)'
    <2>1. /\ StopFree /\ stop.owner = owner /\ owner # 0 /\ StopsRun
          /\ stop.run # 0 /\ runner.state = "running" /\ runner.run = stop.run => runner'.stopped
          /\ \/ seen'.asked = seen.asked
             \/ /\ runner.state = "running" /\ runner.owner = owner
                /\ seen'.asked = seen.asked \cup {runner.run}
      BY <1>3, AuthoringStopDoes
    <2>2. CASE seen'.asked = seen.asked
      BY <1>0, <2>1, <2>2 DEF AskedFits, StopsRun
    <2>3. CASE /\ runner.state = "running" /\ runner.owner = owner
               /\ seen'.asked = seen.asked \cup {runner.run}
      <3>1. RunOf(ws, stop) /\ ~Recording
        BY <2>1 DEF IInv, Fits, RunFits, StopFree, Recording
      <3>2. stop.run = runner.run /\ runner.run > 0
        BY <2>1, <2>3, <3>1 DEF RunOf, RunningOf, OperationOf
      <3> QED
        BY <1>0, <2>1, <2>3, <3>2 DEF AskedFits, StopsRun
    <2> QED
      BY <2>1, <2>2, <2>3
  <1>4. ASSUME Environment, ~\E owner \in 1..MaxSessions : AuthoringStop(owner)
        PROVE  AskedFits(seen)'
    <2>1. seen'.asked = seen.asked /\ (runner.stopped => runner'.stopped \/ runner'.state # "running")
      BY <1>4, EnvironmentAsks DEF AskKept
    <2> QED
      BY <1>0, <1>4, <2>1, RunnerAfter DEF AskedFits, RunnerKept
  <1> QED
    BY <1>1, <1>2, <1>3, <1>4, NextIs

(* The part about containment is kept by every step,                       *)
LEMMA ContainmentHeld ==
    ASSUME IInv, Next
    PROVE  ContainmentFits(ws, seen)'
  <1> USE Knows
  <1>1. ASSUME NEW c \in Callers, NEW kind \in Kinds, Admit(c, kind)
        PROVE  ContainmentFits(ws, seen)'
    <2>1. /\ ContainmentFits(ws, seen) /\ UNCHANGED <<ws, runner, seen>>
          /\ pc[c] = "idle" /\ pc'[c] = "admitted" /\ Elsewhere(c)
      BY <1>1, AdmitKeeps DEF IInv, Fits
    <2>2. (Recording' <=> Recording) /\ (Validating' <=> Validating)
      BY <2>1 DEF Recording, Validating, Waits, Elsewhere
    <2> QED
      BY <2>1, <2>2 DEF ContainmentFits
  <1>2. ASSUME NEW c \in Callers, CallerStep(c)
        PROVE  ContainmentFits(ws, seen)'
    BY <1>2, ContainmentOwn
  <1>3. ASSUME Environment
        PROVE  ContainmentFits(ws, seen)'
    <2>1. /\ UNCHANGED <<commands, pc, call>> /\ (Kept \/ CollectsOnly \/ SettleLease)
          /\ ContainmentFits(ws, seen) /\ ContainmentFits(Collected, CollectedSeen)
          /\ RunOf(ws, stop) /\ RunOf(Collected, CollectedStop) /\ RunnerKept
      BY <1>3, EnvironmentKeeps, EnvironmentDoes DEF CInv, Fits, IInv, RunFits
    <2>2. (Recording' <=> Recording) /\ (Validating' <=> Validating)
      BY <2>1 DEF Recording, Validating, Waits
    <2>3. CASE WorkerEnds
      <3>1. RunningOf(ws) /\ ws' = ws
        BY <2>1, <2>3, WorkerEndsDoes DEF RunOf
      <3> QED
        BY <2>1, <2>2, <2>3, <3>1, WorkerEndsDoes DEF RunningOf, ContainmentFits
    <2>4. CASE Kept /\ ~WorkerEnds
      <3>1. (seen'.unreconciled <=> seen.unreconciled) \/ Collects
        BY <1>3, <2>4, EnvironmentAsks DEF AskKept
      <3>2. CollectedSeen.unreconciled <=> seen.unreconciled
        BY CollectedSeenIs
      <3> QED
        BY <2>1, <2>2, <2>4, <3>1, <3>2 DEF Kept, RunnerKept, ContainmentFits, Collects
    <2>5. CASE CollectsOnly
      BY <2>1, <2>2, <2>5 DEF CollectsOnly, Collects, ContainmentFits
    <2>6. CASE SettleLease
      <3>1. /\ UNCHANGED runner /\ seen' = CollectedSeen /\ commands = NONE /\ WorkspacesFree
            /\ ws'.dirty = Collected.dirty /\ ws'.operation = Collected.operation
            /\ ws' = Collected \/ (~shut.failed /\ ~Collected.lease.contained)
        BY <2>6, SettleLeaseDoes
      <3>2. CASE ws' = Collected
        BY <2>1, <2>2, <3>1, <3>2 DEF ContainmentFits
      <3>3. CASE ~shut.failed /\ ~Collected.lease.contained
        <4>1. ~Recording /\ ~Validating
          BY <3>1, CallersAssumption
          DEF WorkspacesFree, Recording, Validating, StepsFit, StepFits, Holds
        <4>2. Collected.operation.terminal
          <5>1. runner.state # "running"
            BY <2>6, <3>3, SettleLeaseDoes DEF IInv, Fits, ShutFits, Succeeds, Joined
          <5> QED
            BY <2>1, <5>1, CollectedIs DEF RunOf, OperationOf, TypeOK, RunnerType
        <4> QED
          BY <2>1, <2>2, <3>1, <3>3, <4>1, <4>2 DEF ContainmentFits
      <3> QED
        BY <3>1, <3>2, <3>3
    <2> QED
      BY <2>1, <2>3, <2>4, <2>5, <2>6
  <1> QED
    BY <1>1, <1>2, <1>3, NextIs

(* Without the command mutex a caller keeps the lease, the reviews and the   *)
(* attempts of the others.                                                 *)
LEMMA UnheldKeeps ==
    ASSUME IInv, NEW c \in Callers, Unheld(c)
    PROVE  /\ seen'.cancelled = seen.cancelled /\ seen'.published = seen.published
           /\ package'.review = package.review /\ package'.next = package.next
           /\ package'.contained = package.contained
           /\ package' = package \/ (package.active.by = c /\ package'.active = NoAttempt)
           /\ ws'.lease.owner = ws.lease.owner /\ ws'.lease.revision = ws.lease.revision
           /\ UNCHANGED <<runner, shut, closing, setup>>
  <1>1. CASE Discovered(c)
    BY <1>1, Knows, NoPanic, DiscoveredDoes
  <1>2. CASE DropAttempt(c)
    <2>1. package'.active = package.active => package' = package
      BY <1>2, Knows DEF DropAttempt, TypeOK, PackageType
    <2> QED
      BY <1>2, <2>1, Knows, DropAttemptDoes
  <1>3. CASE \/ DropDiscovery(c) \/ ForgetContext(c) \/ Picked(c) \/ Recognized(c)
    BY <1>3, Knows, DropDiscoveryDoes, ForgetContextDoes, PickedDoes, RecognizedDoes, CollectedIs
  <1> QED
    BY <1>1, <1>2, <1>3 DEF Unheld

(* and so are those about the reviews that are cancelled or published,     *)
LEMMA TokensHeld ==
    ASSUME IInv, Next
    PROVE  TokensFit(seen)'
  <1> USE Knows, Tokens
  <1>0. TokensOf(seen) /\ \A d \in Callers : TokenFits(seen, d)
    BY DEF IInv, Fits, TokensFit
  <1>1. ASSUME NEW c \in Callers, NEW kind \in Kinds, Admit(c, kind)
        PROVE  TokensFit(seen)'
    <2>1. /\ UNCHANGED <<package, seen>>
          /\ pc[c] = "idle" /\ pc'[c] = "admitted" /\ Elsewhere(c)
      BY <1>1, AdmitKeeps
    <2> QED
      BY <1>0, <2>1 DEF TokensFit, TokensOf, TokenFits, Publishes, Elsewhere
  <1>2. ASSUME NEW c \in Callers, CallerStep(c)
        PROVE  TokensFit(seen)'
    <2>1. TokensOf(seen)' /\ TokenFits(seen, c)'
      BY <1>2, TokensOwn
    <2>2. ASSUME NEW d \in Callers \ {c}
          PROVE  TokenFits(seen, d)'
      <3>1. pc'[d] = pc[d] /\ call'[d] = call[d]
        BY <1>2, CallerMoves, MovesDo DEF Elsewhere
      <3>2. CASE pc[d] = "preparing" \/ Publishes(d)
        <4>1. Unheld(c)
          BY <1>2, <3>2, Alone, UnheldSteps DEF Holds, Holding, Publishes
        <4>2. pc[d] = "preparing" => package.active.by = d
          BY DEF StepsFit, StepFits, Attempts
        <4> QED
          BY <1>0, <3>1, <4>1, <4>2, UnheldKeeps DEF TokenFits, Publishes
      <3>3. CASE ~(pc[d] = "preparing" \/ Publishes(d))
        BY <3>1, <3>3 DEF TokenFits, Publishes
      <3> QED
        BY <3>2, <3>3
    <2>3. \A d \in Callers : TokenFits(seen, d)'
      BY <2>1, <2>2
    <2> QED
      BY <2>1, <2>3 DEF TokensFit
  <1>3. ASSUME Environment
        PROVE  TokensFit(seen)'
    <2>1. UNCHANGED <<commands, pc, call>> /\ seen'.published = seen.published
      BY <1>3, EnvironmentKeeps, EnvironmentAsks DEF AskKept
    <2>2. CASE seen'.cancelled = seen.cancelled /\ (package' = package \/ CancelsPackage)
      <3>1. /\ package'.next = package.next
            /\ package'.review.token \in {package.review.token, 0}
            /\ \A d \in Callers : package.active.by = d /\ package.active.cancelled
                                     => package'.active.cancelled
        BY <2>2, CallersAssumption DEF CancelsPackage
      <3>2. ASSUME NEW d \in Callers
            PROVE  TokenFits(seen, d)'
        <4>1. pc[d] = "preparing" => package.active.by = d
          BY DEF StepsFit, StepFits, Attempts
        <4> QED
          BY <1>0, <2>1, <2>2, <3>1, <4>1 DEF TokenFits, Publishes
      <3>3. TokensOf(seen)'
        BY <1>0, <2>1, <2>2, <3>1 DEF TokensOf
      <3> QED
        BY <3>2, <3>3 DEF TokensFit
    <2>3. CASE PackageCancel
      <3>1. /\ CancelsPackage
            /\ seen'.cancelled = seen.cancelled \cup
                 (({package.review.token} \cup {call[e].token : e \in Preparing}) \ {0})
        BY <2>3, PackageCancelDoes
      <3>2. ASSUME NEW d \in Callers
            PROVE  TokenFits(seen, d)'
        <4>1. pc[d] = "preparing" => package'.active.cancelled
          BY <3>1, CallersAssumption DEF StepsFit, StepFits, Attempts, CancelsPackage
        <4>2. Publishes(d) => call[d].token \notin seen'.cancelled
          <5>1. ASSUME Publishes(d)
                PROVE  Preparing = {}
            BY <5>1, Alone DEF Preparing, Holds, Holding, Publishes
          <5> QED
            BY <1>0, <3>1, <5>1 DEF TokenFits
        <4>3. package'.next = package.next /\ package'.review.token = 0
          BY <3>1 DEF CancelsPackage
        <4> QED
          BY <1>0, <2>1, <4>1, <4>2, <4>3 DEF TokenFits, Publishes
      <3>3. TokensOf(seen)'
        <4>1. ASSUME NEW e \in Preparing
              PROVE  call[e].token <= package.next /\ call[e].token \notin seen.published
          BY <1>0 DEF Preparing, TokenFits
        <4>2. package'.next = package.next /\ package'.review.token = 0
          BY <3>1 DEF CancelsPackage
        <4>3. \A token \in seen'.cancelled \cup seen'.published :
                 token # 0 /\ token <= package'.next
          BY <1>0, <2>1, <3>1, <4>1, <4>2 DEF TokensOf
        <4>4. seen'.cancelled \cap seen'.published = {}
          BY <1>0, <2>1, <3>1, <4>1 DEF TokensOf
        <4> QED
          BY <4>2, <4>3, <4>4 DEF TokensOf
      <3> QED
        BY <3>2, <3>3 DEF TokensFit
    <2> QED
      BY <1>3, <2>2, <2>3, EnvironmentAsks DEF AskKept
  <1> QED
    BY <1>1, <1>2, <1>3, NextIs

(* and the revision that is published.                                     *)
LEMMA ExportHeld ==
    ASSUME IInv, Next
    PROVE  ExportFits(ws)'
  <1> USE Knows
  <1>0. (\A d \in Callers : ExporterFits(ws, d)) /\ (\A d \in Callers : ExporterFits(Collected, d))
    BY DEF IInv, CInv, Fits, ExportFits
  <1>1. ASSUME NEW c \in Callers, NEW kind \in Kinds, Admit(c, kind)
        PROVE  ExportFits(ws)'
    BY <1>0, <1>1, AdmitKeeps DEF ExportFits, ExporterFits, Publishes, Elsewhere
  <1>2. ASSUME NEW c \in Callers, CallerStep(c)
        PROVE  ExportFits(ws)'
    <2>1. ExporterFits(ws, c)'
      BY <1>2, ExportOwn
    <2>2. ASSUME NEW d \in Callers \ {c}
          PROVE  ExporterFits(ws, d)'
      <3>1. pc'[d] = pc[d] /\ call'[d] = call[d]
        BY <1>2, CallerMoves, MovesDo DEF Elsewhere
      <3>2. Publishes(d) => Unheld(c)
        BY <1>2, Alone, UnheldSteps DEF Holds, Holding, Publishes
      <3> QED
        BY <1>0, <3>1, <3>2, UnheldKeeps DEF ExporterFits, Publishes
    <2> QED
      BY <2>1, <2>2 DEF ExportFits
  <1>3. ASSUME Environment
        PROVE  ExportFits(ws)'
    <2>1. UNCHANGED <<commands, pc, call>> /\ (Kept \/ CollectsOnly \/ SettleLease)
      BY <1>3, EnvironmentKeeps, EnvironmentDoes
    <2>2. CASE Kept \/ CollectsOnly
      BY <1>0, <2>1, <2>2 DEF Kept, CollectsOnly, Collects, ExportFits, ExporterFits, Publishes
    <2>3. CASE SettleLease
      <3>1. commands = NONE
        BY <2>3, SettleLeaseDoes
      <3>2. \A d \in Callers : ~Publishes(d)
        BY <3>1, CallersAssumption DEF StepsFit, StepFits, Holds, Holding, Publishes
      <3> QED
        BY <2>1, <3>2 DEF ExportFits, ExporterFits, Publishes
    <2> QED
      BY <2>1, <2>2, <2>3
  <1> QED
    BY <1>1, <1>2, <1>3, NextIs

(* What a caller that rests still does. *)
RestKeeps(c) ==
    /\ pc'[c] = "idle" /\ UNCHANGED runner
    /\ ws'.lease.owner = ws.lease.owner /\ (ws.operation.terminal => ws'.operation.terminal)
    /\ SetupSettled /\ ~setup.cleanup => SetupSettled' /\ ~setup'.cleanup
    /\ package'.review = package.review /\ (PackageIdle => PackageIdle')

(* Nothing opens admission again.                                          *)
LEMMA EnvironmentCloses ==
    ASSUME TypeOK, Environment
    PROVE  closing => closing'
  <1>1. CASE \/ \E owner \in 1..MaxSessions : AuthoringStop(owner)
             \/ Stop \/ WorkerEnds \/ Collect \/ SetupReturns \/ SetupPoll
             \/ SetupCancel \/ PackageCancel \/ CancelContext \/ CancelSetup
             \/ CancelPackage \/ CloseRunner \/ JoinRunner \/ SettleLease \/ SettleLate
             \/ WaitSetup \/ WaitPackage \/ JoinBridge \/ Deadline
    BY <1>1, AuthoringStopDoes, StopDoes, WorkerEndsDoes, SetupReturnsDoes,
      PackageCancelDoes, CancelContextDoes, CancelSetupDoes, CancelPackageDoes,
      CloseRunnerDoes, JoinRunnerDoes, SettleLeaseDoes, SettleLateDoes, WaitSetupDoes,
      WaitPackageDoes, JoinBridgeDoes, DeadlineDoes DEF CancelsContext, StopsRun, Collect,
      SetupPoll, SetupCancel, CancelsPackage, Advanced, Collects
  <1>2. CASE \/ PrepareClose \/ ShutdownBegins
    BY <1>2, ShutdownBeginsDoes DEF PrepareClose, Advanced, StopsRun, CancelsContext
  <1> QED
    BY <1>1, <1>2 DEF Environment, Shutdown

(* When the command mutex is free and no discovery has the lease, all rest. *)
LEMMA RestsAll ==
    ASSUME IInv, commands = NONE, ~ws.lease.discovery, NEW c \in Callers
    PROVE  Rests(c)
  <1>1. pc[c] \in Steps /\ StepFits(c) /\ ~Discovers(c) /\ ~Holds(c)
    BY Knows, CallersAssumption DEF TypeOK, Known, DiscovererFits, StepFits
  <1> QED
    BY <1>1 DEF Rests, Steps, StepFits, Discovers, Holds, Holding, Waits

(* A run that nobody runs any more is terminal once it is collected. *)
LEMMA CollectedEnds ==
    ASSUME IInv, runner.state # "running"
    PROVE  Collected.operation.terminal
  BY Knows, CollectedIs DEF IInv, Fits, RunFits, RunOf, OperationOf, TypeOK, RunnerType

(* A caller that rests ends without registering anything.                  *)
LEMMA RestsOwn ==
    ASSUME IInv,
           NEW c \in Callers, CallerStep(c), Rests(c)
    PROVE  RestKeeps(c)
  <1>a. /\ TypeOK /\ StepFits(c) /\ StepsFit /\ LeaseFits(ws, stop) /\ DiscoveryFits(ws, stop)
    BY Knows
  <1>1. ASSUME \/ Capturing(c) \/ Start(c) \/ CheckEnvironment(c) \/ Enter(c)
        PROVE  RestKeeps(c)
    BY <1>1, CommandsDo, StartDoes, LeaveDoes, GotoDoes, <1>a, NoPanic, AcceptedIs,
      CollectedIs, NoLeaseIs DEF Left, Begun, Collects, Goes, RestKeeps, Rests, Waits,
      NoAttempt, PackageIdle, SetupSettled
  <1>2. ASSUME \/ Exit(c)
               \/ \E kind \in Edits : Edit(c, kind)
               \/ \E kind \in LeaseRuns : TakeStop(c, kind)
               \/ Discover(c)
        PROVE  RestKeeps(c)
    BY <1>2, ExitDoes, EditDoes, TakeStopDoes, DiscoverDoes, LeaveDoes, GotoDoes, <1>a,
      NoPanic, AcceptedIs, CollectedIs, NoLeaseIs DEF Left, Collects, Goes, LeaseOnly,
      RestKeeps, Rests, Waits, NoAttempt, PackageIdle, SetupSettled, Edits, LeaseRuns
  <1>3. ASSUME \/ SetupStart(c)
               \/ \E kind \in {"import", "export"} : Prepare(c, kind)
               \/ TakeReview(c) \/ PickPackage(c)
        PROVE  RestKeeps(c)
    BY <1>3, SetupStartDoes, PrepareDoes, TakeReviewDoes, PickPackageDoes, LeaveDoes,
      GotoDoes, <1>a, NoPanic, AcceptedIs, CollectedIs, NoLeaseIs DEF Left, Collects, Goes,
      RestKeeps, Rests, Waits, NoAttempt, PackageIdle, SetupSettled
  <1>4. ASSUME \/ Pick(c) \/ Close(c) \/ PrepareReconstruction(c) \/ Refuse(c)
        PROVE  RestKeeps(c)
    BY <1>4, PickDoes, CommandsDo, LeaveDoes, GotoDoes, <1>a, NoPanic, AcceptedIs,
      CollectedIs, NoLeaseIs DEF Goes, Left, Collects, Refuse, RestKeeps, Rests, Waits,
      NoAttempt, PackageIdle, SetupSettled
  <1>5. ASSUME \/ Opened(c) \/ Edited(c) \/ WorkFails(c) \/ StartLeaseRun(c)
        PROVE  RestKeeps(c)
    BY <1>5, OpenedDoes, EditedDoes, StartLeaseRunDoes, LeaveDoes, GotoDoes, <1>a, NoPanic,
      AcceptedIs, CollectedIs, NoLeaseIs DEF Left, WorkFails, Goes, RestKeeps, Rests,
      Waits, NoAttempt, PackageIdle, SetupSettled
  <1>6. ASSUME \/ RecordRun(c) \/ Validated(c) \/ Recognized(c) \/ Discovered(c)
        PROVE  RestKeeps(c)
    BY <1>6, RecordRunDoes, ValidatedDoes, RecognizedDoes, DiscoveredDoes, LeaveDoes,
      GotoDoes, <1>a, NoPanic, AcceptedIs, CollectedIs, NoLeaseIs DEF Left, Goes, Waits,
      LeaseOnly, RestKeeps, Rests, NoAttempt, PackageIdle, SetupSettled
  <1>7. ASSUME \/ DropDiscovery(c) \/ ForgetContext(c) \/ ReviewReady(c)
               \/ PrepareFails(c)
        PROVE  RestKeeps(c)
    BY <1>7, DropDiscoveryDoes, ForgetContextDoes, ReviewReadyDoes, LeaveDoes, GotoDoes,
      <1>a, NoPanic, AcceptedIs, CollectedIs, NoLeaseIs DEF Goes, LeaseOnly, Discovers,
      Left, PrepareFails, RestKeeps, Rests, Waits, NoAttempt, PackageIdle, SetupSettled
  <1>8. ASSUME \/ BeginPublish(c) \/ Checkpoint(c) \/ Commit(c) \/ PublishFails(c)
        PROVE  RestKeeps(c)
    BY <1>8, BeginPublishDoes, CommitDoes, PublishFailsDoes, LeaveDoes, GotoDoes, <1>a,
      NoPanic, AcceptedIs, CollectedIs, NoLeaseIs DEF Left, Goes, Checkpoint, Concludes,
      RestKeeps, Rests, Waits, NoAttempt, PackageIdle, SetupSettled
  <1>9. ASSUME \/ DropAttempt(c) \/ Picked(c)
        PROVE  RestKeeps(c)
    BY <1>9, DropAttemptDoes, PickedDoes, LeaveDoes, <1>a, NoPanic, AcceptedIs,
      CollectedIs, NoLeaseIs DEF Left, RestKeeps, Rests, Goes, Waits, NoAttempt,
      PackageIdle, SetupSettled
  <1> QED
    BY <1>1, <1>2, <1>3, <1>4, <1>5, <1>6, <1>7, <1>8, <1>9 DEF CallerStep, Accepts, Works

(* The part about shutdown, for the steps of no caller,                    *)
LEMMA ShutOf ==
    ASSUME IInv, Environment
    PROVE  ShutFits(ws)'
  <1>a. /\ UNCHANGED <<pc, call>> /\ SlotsKept /\ TypeOK
        /\ ShutFits(ws) /\ (closing => closing')
        /\ runner'.state = "running" => runner.state = "running"
        /\ runner.closed => runner'.closed
    BY Knows, EnvironmentKeeps, EnvironmentDoes, RunnerAfter, EnvironmentCloses DEF IInv, Fits, RunnerKept
  <1>b. \A c \in Callers : Rests(c)' <=> Rests(c)
    BY <1>a DEF Rests, Waits
  <1>c. \/ SettleLease /\ shut.step = "settle" /\ shut'.step = "resetup"
        \/ ws'.lease.owner = ws.lease.owner /\ (ws.operation.terminal => ws'.operation.terminal)
    BY <1>a, EnvironmentDoes, CollectedIs, SettleLeaseDoes DEF Kept, CollectsOnly, Collects
  <1>d. commands = NONE /\ ~ws.lease.discovery => \A c \in Callers : Rests(c)
    BY RestsAll
  <1>e. runner.state # "running" => Collected.operation.terminal
    BY CollectedEnds
  <1>1. CASE \/ \E owner \in 1..MaxSessions : AuthoringStop(owner)
             \/ Stop \/ WorkerEnds \/ Collect \/ SetupReturns \/ SetupPoll
             \/ SetupCancel \/ PackageCancel \/ PrepareClose
    BY <1>1, AuthoringStopDoes, StopDoes, WorkerEndsDoes, SetupReturnsDoes,
      PackageCancelDoes, <1>a, <1>b, <1>c, <1>d, <1>e, ReapedIs, NoLeaseIs
      DEF CancelsContext, StopsRun, Collect, SetupPoll, SetupCancel, CancelsPackage,
      PrepareClose, ShutFits, Succeeds, Joined, Settled, SlotsKept, SetupSettled,
      PackageIdle, ShutType, NoReview
  <1>2. CASE \/ ShutdownBegins \/ CancelContext \/ CancelSetup
    BY <1>2, ShutdownBeginsDoes, CancelContextDoes, CancelSetupDoes, <1>a, <1>b, <1>c,
      <1>d, <1>e, ReapedIs, NoLeaseIs DEF Advanced, CancelsContext, ShutFits, Succeeds,
      Joined, Settled, SlotsKept, SetupSettled, PackageIdle, ShutType, NoReview
  <1>3. CASE \/ CancelPackage \/ CloseRunner \/ JoinRunner
    BY <1>3, CancelPackageDoes, CloseRunnerDoes, JoinRunnerDoes, <1>a, <1>b, <1>c, <1>d,
      <1>e, ReapedIs, NoLeaseIs DEF Advanced, CancelsPackage, StopsRun, ShutFits, Succeeds,
      Joined, Settled, SlotsKept, SetupSettled, PackageIdle, ShutType, NoReview
  <1>4. CASE \/ SettleLease \/ SettleLate \/ WaitSetup
    BY <1>4, SettleLeaseDoes, SettleLateDoes, WaitSetupDoes, <1>a, <1>b, <1>c, <1>d, <1>e,
      ReapedIs, NoLeaseIs DEF Advanced, ShutFits, Succeeds, Joined, Settled, SlotsKept,
      SetupSettled, PackageIdle, ShutType, NoReview, NoLease, SetupIdle, TypeOK, SetupType
  <1>5. CASE \/ WaitPackage \/ Deadline
    BY <1>5, WaitPackageDoes, DeadlineDoes, <1>a, <1>b, <1>c, <1>d, <1>e, ReapedIs,
      NoLeaseIs DEF Advanced, ShutFits, Succeeds, Joined, Settled, SlotsKept, SetupSettled,
      PackageIdle, ShutType, NoReview, PackageBusy
  <1>6. CASE JoinBridge
    <2>1. /\ shut.step = "bridge" /\ shut'.step = "done" /\ shut'.failed = shut.failed
          /\ ws' = Collected /\ UNCHANGED <<runner, setup, package>>
      BY <1>6, <1>a, JoinBridgeDoes DEF Advanced, Collects
    <2>2. closing' /\ runner'.closed
      BY <2>1, <1>a DEF ShutFits, Joined
    <2>3. Succeeds => /\ runner.state # "running" /\ ws.lease.owner = 0
                      /\ \A c \in Callers : Rests(c)
                      /\ package.review.token = 0 /\ PackageIdle /\ SetupSettled /\ ~setup.cleanup
      BY <2>1, <1>a DEF ShutFits, Joined, Settled
    <2> QED
      BY <2>1, <2>2, <2>3, <1>b, <1>c, <1>e
      DEF ShutFits, Succeeds, Joined, Settled, PackageIdle, SetupSettled
  <1> QED
    BY <1>1, <1>2, <1>3, <1>4, <1>5, <1>6 DEF Environment, Shutdown

(* and for every step.                                                     *)
LEMMA ShutHeld ==
    ASSUME IInv, Next
    PROVE  ShutFits(ws)'
  <1> USE Knows
  <1>0. ShutFits(ws)
    BY DEF IInv, Fits
  <1>1. ASSUME NEW c \in Callers, NEW kind \in Kinds, Admit(c, kind)
        PROVE  ShutFits(ws)'
    <2>1. /\ UNCHANGED <<closing, ws, runner, setup, package, shut>> /\ Elsewhere(c)
          /\ pc'[c] = "admitted" /\ call'[c].kind = kind /\ (kind = "capture" \/ ~closing)
      BY <1>1, AdmitKeeps
    <2>2. ASSUME NEW d \in Callers \ {c}
          PROVE  Rests(d)' <=> Rests(d)
      BY <2>1 DEF Elsewhere, Rests, Waits
    <2>3. closing => Rests(c)'
      BY <2>1 DEF Rests
    <2>4. closing => \A d \in Callers : Rests(d) => Rests(d)'
      BY <2>2, <2>3
    <2>5. shut.step \in Settled => closing
      BY <1>0 DEF ShutFits, Settled, Joined
    <2> QED
      BY <1>0, <2>1, <2>4, <2>5 DEF ShutFits, Succeeds, SetupSettled, PackageIdle
  <1>2. ASSUME NEW c \in Callers, CallerStep(c)
        PROVE  ShutFits(ws)'
    <2>1. CallerRun /\ Elsewhere(c)
      BY <1>2, CallerRuns, CallerMoves, MovesDo
    <2>2. runner'.closed = runner.closed /\ (runner.closed => runner' = runner)
      BY <2>1 DEF CallerRun, BeginsRun
    <2>3. CASE Succeeds /\ shut.step \in Settled
      <3>1. Rests(c)
        BY <1>0, <2>3 DEF ShutFits
      <3>2. RestKeeps(c)
        BY <1>2, <3>1, RestsOwn
      <3>3. \A d \in Callers : Rests(d)'
        BY <1>0, <2>1, <2>3, <3>2 DEF ShutFits, RestKeeps, Rests, Waits, Elsewhere
      <3> QED
        BY <1>0, <2>1, <2>2, <2>3, <3>2, <3>3
        DEF CallerRun, RestKeeps, ShutFits, Succeeds
    <2>4. CASE ~(Succeeds /\ shut.step \in Settled)
      BY <1>0, <2>1, <2>2, <2>4 DEF CallerRun, ShutFits, Succeeds, Settled, Joined
    <2> QED
      BY <2>3, <2>4
  <1>3. ASSUME Environment
        PROVE  ShutFits(ws)'
    BY <1>3, ShutOf
  <1> QED
    BY <1>1, <1>2, <1>3, NextIs

-----------------------------------------------------------------------------
(* The invariant holds of every reachable state.                           *)
LEMMA InitFits == Init => IInv
  <1> SUFFICES ASSUME Init PROVE IInv
    OBVIOUS
  <1>1. TypeOK
    BY Zero, NoLeaseIs, CallersAssumption
    DEF Init, TypeOK, Steps, WsType, RunnerType, Outcomes, SetupType, PackageType, AttemptType, ReviewType,
        NoAttempt, NoReview, ShutType, ShutSteps, SeenType
  <1>2. /\ \A c \in Callers : pc[c] = "idle" /\ call[c] = NoCall
        /\ commands = NONE /\ ~closing /\ ws.operation = NoOperation /\ ws.lease = NoLease
        /\ ~ws.picker /\ ~ws.dirty /\ stop = NoStop
        /\ runner.run = 0 /\ runner.state = "idle" /\ runner.owner = 0
        /\ setup.state = "none" /\ ~setup.cleanup
        /\ package.active = NoAttempt /\ package.review = NoReview /\ ~package.contained
        /\ package.next = 0 /\ shut.step = "open" /\ ~shut.failed
        /\ seen.asked = {} /\ seen.cancelled = {} /\ seen.published = {} /\ ~seen.unreconciled
    BY DEF Init
  <1>3. NoOperation.terminal /\ NoAttempt.by = NONE /\ NoReview.token = 0
    BY DEF NoOperation, NoAttempt, NoReview
  <1>4. StepsFit
    BY <1>2, <1>3, CallersAssumption DEF StepsFit, StepFits, Holds, Holding, Waits, Attempts
  <1>5. LeaseFits(ws, stop)
    BY <1>2, NoLeaseIs DEF LeaseFits, LeaseOf, ReservationFits, Reserved, Waits
  <1>6. DiscoveryFits(ws, stop)
    BY <1>2, NoLeaseIs DEF DiscoveryFits, DiscoveryOf, DiscovererFits, Discovers
  <1>7. SlotsFit(ws)
    BY <1>2, <1>3 DEF SlotsFit, SlotsOf, SetupSettled, RunsOnLease, TakenFits
  <1>8. RunFits(ws, stop)
    BY <1>2, <1>3, NoLeaseIs
    DEF RunFits, RunOf, RunningOf, OperationOf, RecognitionOf, StarterFits
  <1>9. AskedFits(seen) /\ ContainmentFits(ws, seen)
    BY <1>2 DEF AskedFits, ContainmentFits
  <1>10. TokensFit(seen) /\ ExportFits(ws)
    BY <1>2, <1>3 DEF TokensFit, TokensOf, TokenFits, ExportFits, ExporterFits, Publishes
  <1>11. ShutFits(ws)
    BY <1>2 DEF ShutFits, Joined, Settled
  <1> QED
    BY <1>1, <1>4, <1>5, <1>6, <1>7, <1>8, <1>9, <1>10, <1>11 DEF IInv, Fits

(* Every step keeps the invariant.                                         *)
LEMMA StepFitsAll == IInv /\ [Next]_vars => IInv'
  <1>1. ASSUME IInv, Next
        PROVE  IInv'
    BY <1>1, StepsKept, LeaseKept, DiscoveryKept, SlotsHeld, RunHeld, AskedHeld, ContainmentHeld,
       TokensHeld, ExportHeld, ShutHeld
    DEF IInv, Fits
  <1>2. ASSUME IInv, UNCHANGED vars
        PROVE  IInv'
    <2> USE DEF vars
    <2>1. TypeOK' /\ StepsFit'
      BY <1>2 DEF IInv, TypeOK, Fits, StepsFit, StepFits, Holds, Waits, Attempts
    <2>2. LeaseFits(ws, stop)' /\ DiscoveryFits(ws, stop)' /\ SlotsFit(ws)'
      BY <1>2 DEF IInv, Fits, LeaseFits, LeaseOf, ReservationFits, Reserved, Quiet, NotReserved, Discovering,
        SetupSettled, PackageIdle, Waits, DiscoveryFits, DiscoveryOf, DiscovererFits, Discovers,
        SlotsFit, SlotsOf, RunsOnLease, Transfers, TakenFits
    <2>3. RunFits(ws, stop)' /\ AskedFits(seen)' /\ ContainmentFits(ws, seen)'
      BY <1>2 DEF IInv, Fits, RunFits, RunOf, RunningOf, OperationOf, RecognitionOf, StarterFits,
        AskedFits, ContainmentFits, Recording, Validating, Waits
    <2>4. TokensFit(seen)' /\ ExportFits(ws)' /\ ShutFits(ws)'
      BY <1>2 DEF IInv, Fits, TokensFit, TokensOf, TokenFits, ExportFits, ExporterFits, Publishes,
        ShutFits, Succeeds, Rests, Waits, SetupSettled, PackageIdle
    <2> QED
      BY <2>1, <2>2, <2>3, <2>4 DEF IInv, Fits
  <1> QED
    BY <1>1, <1>2

(* Only three steps begin a run.                                           *)
LEMMA RunBegins ==
    ASSUME IInv,
           NEW c \in Callers, CallerStep(c), runner'.run # runner.run
    PROVE  Start(c) \/ CheckEnvironment(c) \/ StartLeaseRun(c)
  <1>a. /\ TypeOK /\ StepFits(c) /\ StepsFit /\ LeaseFits(ws, stop) /\ DiscoveryFits(ws, stop)
    BY Knows
  <1>1. ASSUME \/ Capturing(c) \/ Enter(c) \/ Exit(c)
               \/ \E kind \in Edits : Edit(c, kind)
               \/ \E kind \in LeaseRuns : TakeStop(c, kind)
               \/ Discover(c) \/ SetupStart(c)
               \/ \E kind \in {"import", "export"} : Prepare(c, kind)
               \/ TakeReview(c) \/ PickPackage(c) \/ Pick(c) \/ Close(c)
               \/ PrepareReconstruction(c) \/ Refuse(c) \/ Opened(c) \/ Edited(c)
               \/ WorkFails(c) \/ RecordRun(c) \/ Validated(c) \/ Recognized(c)
               \/ Discovered(c) \/ DropDiscovery(c) \/ ForgetContext(c) \/ ReviewReady(c)
               \/ PrepareFails(c) \/ BeginPublish(c) \/ Checkpoint(c) \/ Commit(c)
               \/ PublishFails(c) \/ DropAttempt(c) \/ Picked(c)
        PROVE  Start(c) \/ CheckEnvironment(c) \/ StartLeaseRun(c)
    BY <1>1, CommandsDo, ExitDoes, EditDoes, TakeStopDoes, DiscoverDoes, SetupStartDoes,
      PrepareDoes, TakeReviewDoes, PickPackageDoes, PickDoes, OpenedDoes, EditedDoes,
      RecordRunDoes, ValidatedDoes, RecognizedDoes, DiscoveredDoes, DropDiscoveryDoes,
      ForgetContextDoes, ReviewReadyDoes, BeginPublishDoes, CommitDoes, PublishFailsDoes,
      DropAttemptDoes, PickedDoes, <1>a, NoPanic DEF Collects, LeaseOnly, Refuse,
      WorkFails, Waits, Discovers, PrepareFails, Checkpoint, Concludes
  <1>2. ASSUME \/ Start(c) \/ CheckEnvironment(c) \/ StartLeaseRun(c)
        PROVE  Start(c) \/ CheckEnvironment(c) \/ StartLeaseRun(c)
    BY <1>2, StartDoes, StartLeaseRunDoes, <1>a, NoPanic
  <1> QED
    BY <1>1, <1>2 DEF CallerStep, Accepts, Works

-----------------------------------------------------------------------------
(* In every reachable state the invariant holds.                           *)
THEOREM Invariant == Spec => []IInv
  BY InitFits, StepFitsAll, PTL DEF Spec

(* Every variable keeps its type.                                          *)
THEOREM TypeCorrect == Spec => []TypeOK
  <1>1. IInv => TypeOK
    BY DEF IInv
  <1> QED
    BY <1>1, Invariant, PTL

(* Whoever works under a reservation, or holds a slot, works alone, and finds the *)
(* lease it captured when it comes back to it (operations.rs, authoring.rs). *)
THEOREM WorkExclusive == Spec => []WorkIsExclusive
  <1>1. IInv => WorkIsExclusive
    <2> SUFFICES ASSUME IInv PROVE WorkIsExclusive
      OBVIOUS
    <2>1. /\ TypeOK /\ StepsFit /\ LeaseFits(ws, stop) /\ DiscoveryFits(ws, stop) /\ SlotsFit(ws)
      BY DEF IInv, Fits
    <2>2. SetupBusy => ws.operation.terminal /\ ws.lease.owner = 0 /\ ~Transfers /\ ~ws.picker
      BY <2>1 DEF SetupBusy, SlotsFit, SlotsOf, SetupSettled
    <2>3. LeaseWorks => ws.operation.terminal /\ ~Transfers /\ ~SetupBusy /\ ~ws.picker
      BY <2>1
      DEF LeaseWorks, LeaseFits, ReservationFits, Reserved, Quiet, NotReserved, PackageIdle,
          DiscoveryFits, DiscoveryOf, Transfers, SetupBusy, SetupSettled
    <2>4. (LeaseRunning => ~Transfers) /\ (ws.picker => ws.operation.terminal)
      BY <2>1 DEF LeaseRunning, SlotsFit, SlotsOf, RunsOnLease
    <2>5. WorkKeepsItsLease
      BY <2>1
      DEF WorkKeepsItsLease, StepsFit, StepFits, DiscoveryFits, DiscoveryOf, DiscovererFits, Discovers,
          LeaseFits, LeaseOf
    <2> QED
      BY <2>2, <2>3, <2>4, <2>5 DEF WorkIsExclusive, SlotsExclude
  <1> QED
    BY <1>1, Invariant, PTL

(* A Stop of the Edit owner that arrives while its run is running reaches that *)
(* run, also while the run is being started (authoring_stop).              *)
THEOREM StopReaches == Spec => []StopReachesTheRun
  <1>1. IInv => StopReachesTheRun
    BY DEF IInv, Fits, AskedFits, StopReachesTheRun
  <1> QED
    BY <1>1, Invariant, PTL

(* Nothing that was cancelled is published, and an export that is published is of *)
(* the revision the lease has (distribution.rs).                           *)
THEOREM ReviewsCurrent == Spec => []ReviewsAreCurrent
  <1>1. IInv => ReviewsAreCurrent
    BY DEF IInv, Fits, TokensFit, TokensOf, ExportFits, ExporterFits, Publishes,
           ReviewsAreCurrent, CancelledIsNotPublished, ExportIsCurrent
  <1> QED
    BY <1>1, Invariant, PTL

(* A shutdown that reports success leaves nothing behind, although commands that *)
(* were admitted earlier may still register work (shutdown in operations.rs). *)
THEOREM ShutdownComplete == Spec => []ShutdownIsComplete
  <1>1. IInv => ShutdownIsComplete
    <2> SUFFICES ASSUME IInv, shut.step = "done", ~shut.failed
                 PROVE  ShutdownIsComplete
      BY DEF ShutdownIsComplete
    <2>1. /\ runner.closed /\ runner.state # "running" /\ ws.operation.terminal
          /\ ws.lease.owner = 0 /\ SetupSettled /\ ~setup.cleanup
          /\ package.review.token = 0 /\ PackageIdle
          /\ \A c \in Callers : Rests(c)
      BY DEF IInv, Fits, ShutFits, Succeeds, Joined, Settled
    <2>2. stop.owner = 0
      BY <2>1 DEF IInv, Fits, LeaseFits, LeaseOf
    <2>3. ASSUME NEW c \in Callers
          PROVE  pc[c] \in {"idle", "waiting", "forgetting"} \/ call[c].kind \in {"pick", "capture"}
      <3>1. StepFits(c) /\ package.active.by # c
        BY <2>1, CallersAssumption DEF IInv, Fits, StepsFit, PackageIdle
      <3> QED
        BY <2>1, <3>1 DEF Rests, Waits, StepFits, Attempts
    <2> QED
      BY <2>1, <2>2, <2>3 DEF ShutdownIsComplete, SetupSettled, PackageIdle
  <1> QED
    BY <1>1, Invariant, PTL

Contained ==
    runner'.run # runner.run =>
       /\ ~(runner.owner # 0 /\ runner.state = "terminal" /\ runner.outcome = "lost")
       /\ ~setup.cleanup /\ ~package.contained
       /\ ~(runner'.native /\ seen.unreconciled)

(* They find no evidence against it.                                       *)
LEMMA BeginsContained == IInv /\ Next => Contained
  <1> SUFFICES ASSUME IInv, Next, runner'.run # runner.run
               PROVE  Contained
    BY DEF Contained
  <1> USE Knows
  <1>1. PICK c \in Callers : CallerStep(c)
    BY AdmitKeeps, RunnerAfter, NextIs DEF RunnerKept
  <1>2. Elsewhere(c) /\ ContainmentFits(ws, seen) /\ ContainmentFits(Collected, CollectedSeen)
    BY <1>1, CallerMoves, MovesDo DEF IInv, CInv, Fits
  <1>3. CASE Start(c) \/ CheckEnvironment(c)
    <2>1. PICK kind \in {"start", "check"}, native \in BOOLEAN : Begun(c, kind, native)
      BY <1>3, StartDoes
    <2>2. pc[c] = "admitted" /\ WorkspacesFree /\ SetupIdle /\ PackageIdle
      BY <2>1 DEF Begun, Accepted
    <2>3. ~Recording /\ ~Validating
      BY <1>2, <2>2, RunsElsewhere DEF Holds, Holding, Waits
    <2>4. Collected.operation.terminal /\ ~Collected.lease.contained
      BY <2>1 DEF Begun, Idle, WorkIdle
    <2>5. (native => ~Collected.dirty) /\ runner'.native = native
      BY <2>1, BeginsLater DEF Begun
    <2> QED
      BY <1>2, <2>2, <2>3, <2>4, <2>5, CollectedSeenIs
      DEF Contained, ContainmentFits, SetupIdle, PackageIdle
  <1>4. CASE StartLeaseRun(c)
    <2>1. pc[c] = "starting" /\ BeginsRun(call[c].owner, call[c].native)
      BY <1>4, StartLeaseRunDoes
    <2>2. Quiet(ws) /\ (call[c].native => ~ws.dirty)
      BY <2>1 DEF Known, ReservationFits, StarterFits, Reserved
    <2>3. ~Recording /\ ~Validating
      BY <1>2, <2>1, RunsElsewhere DEF Holds, Holding, Waits
    <2> QED
      BY <1>2, <2>1, <2>2, <2>3, BeginsLater
      DEF Contained, ContainmentFits, Quiet, NotReserved, PackageIdle
  <1> QED
    BY <1>1, <1>3, <1>4, RunBegins

(* No run begins while the evidence of an earlier one forbids it, collected or not *)
(* (collect_locked, require_work_idle, require_native_ready).              *)
THEOREM RunsAreContained == Spec => ContainmentHolds
  <1>1. IInv /\ [Next]_vars => [Contained]_vars
    BY BeginsContained
  <1> QED
    BY <1>1, Invariant, PTL DEF Spec, ContainmentHolds, Contained
=============================================================================
