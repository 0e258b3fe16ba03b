----------------------------- MODULE MCAuthoring -----------------------------
(***************************************************************************)
(* The authoring side of the desktop, one component per behaviour: `part`  *)
(* names the one that runs.  The components share nothing, so they share   *)
(* the registers x1..x11 and a behaviour leaves those it has no use for at *)
(* zero.  What they promise is a conjunction of an invariant or of a step  *)
(* condition of each.                                                      *)
(***************************************************************************)
EXTENDS Naturals, FiniteSets, TLC, TLAPS

CONSTANTS Parts,    \* the components this run covers
          a, b,     \* profiles, callers, requests or calls: interchangeable
          u1, u2    \* interchangeable configurations
Symmetry == Permutations({a, b}) \cup Permutations({u1, u2})

\* Workspaces: one directory and two releases of one package under two signers.
Installed == {"i1", "i2"}
Sources == Installed \cup {"d1"}
Self(source) == source
Fits(value) == IF value = "both" THEN {1, 2} ELSE {1}
\* RecognitionDraft: a definition, one of another size and one with another region.
Drawing(s, c, r) == [size |-> s, content |-> c, region |-> r]
Drawn == {Drawing(2, 1, 1), Drawing(1, 1, 2)}
\* CaptureWorker: the package is edited, or a new binding is saved.
Correlation(package, binding) == [package |-> package, binding |-> binding]
Rebases == {Correlation(2, 1), Correlation(1, 2)}

VARIABLES part, x1, x2, x3, x4, x5, x6, x7, x8, x9, x10, x11
registers == <<part, x1, x2, x3, x4, x5, x6, x7, x8, x9, x10, x11>>
spare11 == <<x11>>
Empty11 == x11 = 0
spare10 == <<x10, spare11>>
Empty10 == x10 = 0 /\ Empty11
spare7 == <<x7, x8, x9, spare10>>
Empty7 == x7 = 0 /\ x8 = 0 /\ x9 = 0 /\ Empty10

W1 == INSTANCE Workspaces WITH
    tab <- x1, profile <- x2, pending <- x3, content <- x4, space <- x5, inspection <- x6,
    Tabs <- {"t1"}, Profiles <- {a, b}, Inspected <- {"t1"}, Sources <- Sources,
    Installed <- Installed, Signer <- Self, Values <- {"both", "one"}, Fits <- Fits,
    Schemas <- {1, 2}, MaxOpen <- 1, MaxRevision <- 2
W2 == INSTANCE Workspaces WITH
    tab <- x1, profile <- x2, pending <- x3, content <- x4, space <- x5, inspection <- x6,
    Tabs <- {"t1", "t2"}, Profiles <- {a}, Inspected <- {"t1"}, Sources <- Sources,
    Installed <- Installed, Signer <- Self, Values <- {"both", "one"}, Fits <- Fits,
    Schemas <- {1, 2}, MaxOpen <- 1, MaxRevision <- 1
B1 == INSTANCE Bootstrap WITH
    disk <- x1, archives <- x2, legacy <- x3, state <- x4, closing <- x5, holder <- x6,
    job <- x7, built <- x8, live <- x9, left <- x10, Callers <- {a, b}, Usable <- {u1},
    MaxApplications <- 2
B2 == INSTANCE Bootstrap WITH
    disk <- x1, archives <- x2, legacy <- x3, state <- x4, closing <- x5, holder <- x6,
    job <- x7, built <- x8, live <- x9, left <- x10, Callers <- {a}, Usable <- {u1, u2},
    MaxApplications <- 2
D1 == INSTANCE RecognitionDraft WITH
    source <- x1, lease <- x2, recognition <- x3, command <- x4, receipt <- x5,
    configuration <- x6, MaxCaptures <- 2, Sizes <- {1, 2}, Drawn <- Drawn,
    Original <- Drawing(1, 1, 1), Configurations <- {1}, MaxRevision <- 4, MaxFrames <- 1,
    MaxSource <- 2
D2 == INSTANCE RecognitionDraft WITH
    source <- x1, lease <- x2, recognition <- x3, command <- x4, receipt <- x5,
    configuration <- x6, MaxCaptures <- 2, Sizes <- {1, 2}, Drawn <- Drawn,
    Original <- Drawing(1, 1, 1), Configurations <- {1, 2}, MaxRevision <- 3, MaxFrames <- 1,
    MaxSource <- 2
T1 == INSTANCE TargetObservation WITH
    space <- x1, edit <- x2, picker <- x3, running <- x4, target <- x5, slot <- x6,
    request <- x7, command <- x8, closing <- x9, Workspaces <- {"w1"}, Requests <- {a, b},
    MaxDeclaration <- 1, MaxRevision <- 2
T2 == INSTANCE TargetObservation WITH
    space <- x1, edit <- x2, picker <- x3, running <- x4, target <- x5, slot <- x6,
    request <- x7, command <- x8, closing <- x9, Workspaces <- {"w1"}, Requests <- {a},
    MaxDeclaration <- 2, MaxRevision <- 2
N1 == INSTANCE NativeCapture WITH
    native <- x1, lease <- x2, control <- x3, cancelled <- x4, worker <- x5, revoked <- x6,
    command <- x7, release <- x8, picker <- x9, frame <- x10, closing <- x11, MaxSessions <- 2,
    MaxOwners <- 1, MaxCaptures <- 1
N2 == INSTANCE NativeCapture WITH
    native <- x1, lease <- x2, control <- x3, cancelled <- x4, worker <- x5, revoked <- x6,
    command <- x7, release <- x8, picker <- x9, frame <- x10, closing <- x11, MaxSessions <- 1,
    MaxOwners <- 2, MaxCaptures <- 1
Worker == INSTANCE CaptureWorker WITH
    host <- x1, shared <- x2, authority <- x3, requests <- x4, replies <- x5, sup <- x6,
    commands <- x7, events <- x8, child <- x9, Keys <- {1}, Rebases <- Rebases, MaxCaptures <- 2
P1 == INSTANCE PreviewWindow WITH
    owner <- x1, leases <- x2, closed <- x3, generation <- x4, slot <- x5, session <- x6,
    window <- x7, gone <- x8, destroyed <- x9, calls <- x10, contested <- x11, MaxSessions <- 2,
    MaxOwners <- 1, MaxCalls <- 2, MaxGeneration <- 0
P2 == INSTANCE PreviewWindow WITH
    owner <- x1, leases <- x2, closed <- x3, generation <- x4, slot <- x5, session <- x6,
    window <- x7, gone <- x8, destroyed <- x9, calls <- x10, contested <- x11, MaxSessions <- 1,
    MaxOwners <- 2, MaxCalls <- 2, MaxGeneration <- 1

MCInit ==
    /\ part \in Parts
    /\ \/ part = "workspace" /\ W1!Init /\ x4["i1"] = 1 /\ x4["i2"] = 2 /\ Empty7
       \/ part = "workspaces" /\ W2!Init /\ x4["i1"] = 1 /\ x4["i2"] = 2 /\ Empty7
       \/ part = "bootstrap" /\ B1!Init /\ Empty11
       \/ part = "configurations" /\ B2!Init /\ Empty11
       \/ part = "draft" /\ D1!Init /\ Empty7
       \/ part = "trials" /\ D2!Init /\ Empty7
       \/ part = "target" /\ T1!Init /\ Empty10
       \/ part = "declarations" /\ T2!Init /\ Empty10
       \/ part = "native" /\ N1!Init
       \/ part = "leases" /\ N2!Init
       \/ part = "worker" /\ Worker!Init /\ Empty10
       \/ part = "preview" /\ P1!Init
       \/ part = "owners" /\ P2!Init
MCNext ==
    /\ part' = part
    /\ \/ part = "workspace" /\ W1!Next /\ UNCHANGED spare7
       \/ part = "workspaces" /\ W2!Next /\ UNCHANGED spare7
       \/ part = "bootstrap" /\ B1!Next /\ UNCHANGED spare11
       \/ part = "configurations" /\ B2!Next /\ UNCHANGED spare11
       \/ part = "draft" /\ D1!Next /\ UNCHANGED spare7
       \/ part = "trials" /\ D2!Next /\ UNCHANGED spare7
       \/ part = "target" /\ T1!Next /\ UNCHANGED spare10
       \/ part = "declarations" /\ T2!Next /\ UNCHANGED spare10
       \/ part = "native" /\ N1!Next
       \/ part = "leases" /\ N2!Next
       \/ part = "worker" /\ Worker!Next /\ UNCHANGED spare10
       \/ part = "preview" /\ P1!Next
       \/ part = "owners" /\ P2!Next
MCSpec == MCInit /\ [][MCNext]_registers

ASSUME StoreAssumption == W1!StoreBounds /\ W2!StoreBounds
ASSUME SessionAssumption == B1!BootstrapBounds /\ B2!BootstrapBounds
ASSUME /\ D1!DraftConstants /\ D2!DraftConstants /\ T1!ObservationBounds /\ T2!ObservationBounds
       /\ N1!SessionBounds /\ N2!SessionBounds /\ Worker!CaptureBounds

\* Between commands, what a Workspace would run is what its Tab names on disk, and the Tabs the next
\* session would open are never more than it accepts (Workspaces: recovery.rs, storage/tabs.rs).
WorkspacesAgree == (part = "workspace" => W1!WorkspacesAgree) /\ (part = "workspaces" => W2!WorkspacesAgree)
\* There is never a second Application at work, and none is at work once a shutdown has succeeded
\* (Bootstrap: bootstrap.rs).
OneSession == (part = "bootstrap" => B1!OneSession) /\ (part = "configurations" => B2!OneSession)
\* One capture worker runs, a stop reaches it even before its handle is published, its frames and its
\* settlement are accounted for, and a preview window belongs to the session of the Edit lease it
\* was opened for (native_capture.rs, authoring_capture/worker.rs, recognition_commands.rs).
CaptureIsFenced == /\ part = "native" => N1!CaptureIsFenced
                   /\ part = "leases" => N2!CaptureIsFenced
                   /\ part = "worker" => Worker!WorkerIsExact
                   /\ part = "preview" => P1!TypeOK /\ P1!PreviewIsOwned
                   /\ part = "owners" => P2!TypeOK /\ P2!PreviewIsOwned
\* A staged crop is one of the saved definition, the frame is the selected capture's, and a copy that
\* may still be published was tried on the draft's content and its configuration
\* (RecognitionDraft: application/authoring/recognition.rs).
DraftIsExact == (part = "draft" => D1!DraftIsExact) /\ (part = "trials" => D2!DraftIsExact)
\* No step publishes a frame, an observation or a closed preview on behalf of a session, an owner or
\* a scope that was replaced since (native_capture.rs, target_observation.rs, recognition_commands.rs).
LateIsInert == [][/\ part = "native" => N1!NoLateFrameStep
                  /\ part = "leases" => N2!NoLateFrameStep
                  /\ part = "target" => T1!ObservationIsExactStep
                  /\ part = "declarations" => T2!ObservationIsExactStep
                  /\ part = "preview" => P1!OldSurfaceIsInertStep
                  /\ part = "owners" => P2!OldSurfaceIsInertStep]_registers
\* The step ReplacementsAreSafe allows.
ReplacementStep == /\ part = "workspace" => W1!ReplacementIsSafeStep
                   /\ part = "workspaces" => W2!ReplacementIsSafeStep
                   /\ part = "bootstrap" => B1!ReplacedIsPreservedStep
                   /\ part = "configurations" => B2!ReplacedIsPreservedStep
\* No step binds a package whose options the stored profiles do not satisfy, resolves a profile that
\* changed, or replaces a configuration that an Application still uses or that changed since its
\* receipt (recovery.rs, bootstrap.rs).
ReplacementsAreSafe == [][ReplacementStep]_registers

-----------------------------------------------------------------------------
(* Theorems about the parts whose modules have one.                         *)

StoresFit ==   (part = "workspace" => W1!IInv) /\ (part = "workspaces" => W2!IInv)
SessionsFit == (part = "bootstrap" => B1!IInv) /\ (part = "configurations" => B2!IInv)

\* A step of a behaviour is a step of the part it is of, and leaves the registers it spares.
LEMMA PartSteps ==
    ASSUME [MCNext]_registers
    PROVE  /\ part' = part
           /\ part = "workspace" => [W1!Next]_(W1!storeVars) /\ UNCHANGED spare7
           /\ part = "workspaces" => [W2!Next]_(W2!storeVars) /\ UNCHANGED spare7
           /\ part = "bootstrap" => [B1!Next]_(B1!bootstrapVars) /\ UNCHANGED spare11
           /\ part = "configurations" => [B2!Next]_(B2!bootstrapVars) /\ UNCHANGED spare11
  <1>1. CASE MCNext
    BY <1>1 DEF MCNext
  <1>2. CASE UNCHANGED registers
    BY <1>2 DEF registers, spare7, spare10, spare11, W1!storeVars, W2!storeVars, B1!bootstrapVars, B2!bootstrapVars
  <1> QED
    BY <1>1, <1>2

LEMMA PartsStart == ASSUME MCInit PROVE StoresFit /\ SessionsFit
  <1>1. /\ part = "workspace" => W1!Init
        /\ part = "workspaces" => W2!Init
        /\ part = "bootstrap" => B1!Init
        /\ part = "configurations" => B2!Init
    BY DEF MCInit
  <1>2. StoresFit
    BY <1>1, StoreAssumption, W1!InitFits, W2!InitFits DEF StoresFit
  <1>3. SessionsFit
    BY <1>1, SessionAssumption, B1!InitFits, B2!InitFits DEF SessionsFit
  <1> QED
    BY <1>2, <1>3

LEMMA StoresStep == ASSUME StoresFit, [MCNext]_registers PROVE StoresFit'
  BY StoreAssumption, PartSteps, W1!StepKeeps, W2!StepKeeps DEF StoresFit

LEMMA SessionsStep == ASSUME SessionsFit, [MCNext]_registers PROVE SessionsFit'
  BY SessionAssumption, PartSteps, B1!StepKeeps, B2!StepKeeps DEF SessionsFit

\* Between commands, what a Workspace would run is what its Tab names on disk, and the Tabs the next
\* session would open are never more than it accepts (Workspaces: recovery.rs, storage/tabs.rs).
THEOREM WorkspacesAgreeHere == MCSpec => []WorkspacesAgree
  <1>1. MCInit => StoresFit
    BY PartsStart
  <1>2. StoresFit /\ [MCNext]_registers => StoresFit'
    BY StoresStep
  <1>3. StoresFit => WorkspacesAgree
    BY W1!InvAgrees, W2!InvAgrees DEF StoresFit, WorkspacesAgree
  <1> QED
    BY <1>1, <1>2, <1>3, PTL DEF MCSpec

\* There is never a second Application at work, and none is at work once a shutdown has succeeded
\* (Bootstrap: bootstrap.rs).
THEOREM OneSessionHere == MCSpec => []OneSession
  <1>1. MCInit => SessionsFit
    BY PartsStart
  <1>2. SessionsFit /\ [MCNext]_registers => SessionsFit'
    BY SessionsStep
  <1>3. SessionsFit => OneSession
    BY B1!SessionIsOne, B2!SessionIsOne DEF SessionsFit, OneSession
  <1> QED
    BY <1>1, <1>2, <1>3, PTL DEF MCSpec

\* No step binds a package whose options the stored profiles do not satisfy, resolves a profile that
\* changed, or replaces a configuration that an Application still uses or that changed since its
\* receipt (recovery.rs, bootstrap.rs).
THEOREM ReplacementsAreSafeHere == MCSpec => ReplacementsAreSafe
  <1>1. MCInit => StoresFit /\ SessionsFit
    BY PartsStart
  <1>2. StoresFit /\ SessionsFit /\ [MCNext]_registers => StoresFit' /\ SessionsFit'
    BY StoresStep, SessionsStep
  <1>3. StoresFit /\ SessionsFit /\ [MCNext]_registers => [ReplacementStep]_registers
    <2> SUFFICES ASSUME StoresFit, SessionsFit, [MCNext]_registers, UNCHANGED registers => FALSE
                 PROVE  ReplacementStep
      OBVIOUS
    <2>1. ASSUME part = "workspace" PROVE W1!ReplacementIsSafeStep
      <3>1. [W1!ReplacementIsSafeStep]_(W1!storeVars)
        BY <2>1, StoreAssumption, PartSteps, W1!StepIsSafe DEF StoresFit
      <3>2. UNCHANGED W1!storeVars => UNCHANGED registers
        BY <2>1, PartSteps DEF W1!storeVars, registers, spare7, spare10, spare11
      <3> QED
        BY <3>1, <3>2
    <2>2. ASSUME part = "workspaces" PROVE W2!ReplacementIsSafeStep
      <3>1. [W2!ReplacementIsSafeStep]_(W2!storeVars)
        BY <2>2, StoreAssumption, PartSteps, W2!StepIsSafe DEF StoresFit
      <3>2. UNCHANGED W2!storeVars => UNCHANGED registers
        BY <2>2, PartSteps DEF W2!storeVars, registers, spare7, spare10, spare11
      <3> QED
        BY <3>1, <3>2
    <2>3. ASSUME part = "bootstrap" PROVE B1!ReplacedIsPreservedStep
      <3>1. [B1!ReplacedIsPreservedStep]_(B1!bootstrapVars)
        BY <2>3, SessionAssumption, PartSteps, B1!StepPreserves DEF SessionsFit
      <3>2. UNCHANGED B1!bootstrapVars => UNCHANGED registers
        BY <2>3, PartSteps DEF B1!bootstrapVars, registers, spare11
      <3> QED
        BY <3>1, <3>2
    <2>4. ASSUME part = "configurations" PROVE B2!ReplacedIsPreservedStep
      <3>1. [B2!ReplacedIsPreservedStep]_(B2!bootstrapVars)
        BY <2>4, SessionAssumption, PartSteps, B2!StepPreserves DEF SessionsFit
      <3>2. UNCHANGED B2!bootstrapVars => UNCHANGED registers
        BY <2>4, PartSteps DEF B2!bootstrapVars, registers, spare11
      <3> QED
        BY <3>1, <3>2
    <2> QED
      BY <2>1, <2>2, <2>3, <2>4 DEF ReplacementStep
  <1> QED
    BY <1>1, <1>2, <1>3, PTL DEF MCSpec, ReplacementsAreSafe
=============================================================================
