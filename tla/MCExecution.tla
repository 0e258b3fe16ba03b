----------------------------- MODULE MCExecution -----------------------------
(***************************************************************************)
(* One execution, from the request to its logs, one component per          *)
(* behaviour: `part` names the one that runs.  ScriptHost and Engine are   *)
(* the two hosts of an attempt's calls.  The components share nothing, so  *)
(* they share the registers x1, x2, ... and a behaviour leaves those it    *)
(* has no use for at zero.                                                 *)
(***************************************************************************)
EXTENDS Naturals, Sequences, TLC

CONSTANTS Parts,    \* the components this run covers
          a, b      \* threads that call: interchangeable
Symmetry == Permutations({a, b})

\* ScriptHost: what a script asks for and what happens to its target, one plan per situation.
Key(kind) == [kind |-> kind, holds |-> <<>>]
Drag(holds) == [kind |-> "drag", holds |-> holds]
Keys == <<Key("down"), Key("up")>>
Gesture == <<Drag(<<FALSE, TRUE>>), Key("click")>>
Plan(scenario, uses, batches, events, handles, ids, attempts) ==
    [scenario |-> scenario, uses |-> uses, batches |-> batches, events |-> events,
     limits |-> [handles |-> handles, actions |-> 10, queue |-> 1, ids |-> ids, generations |-> 2,
                 attempts |-> attempts]]
Plans == {
    Plan("success", {}, {<<Drag(<<TRUE>>)>>}, {"focus"}, 3, 3, 1),
    Plan("success", {}, {Gesture}, {}, 2, 3, 1),
    Plan("success", {}, {Keys}, {"moved"}, 3, 3, 1),
    Plan("partial", {}, {<<Drag(<<TRUE>>)>>}, {}, 3, 4, 1),
    Plan("uncertain", {}, {Keys}, {"route"}, 3, 3, 1),
    Plan("held-work", {}, {<<Key("click")>>}, {"hold", "exited"}, 3, 3, 1),
    Plan("held-work", {"query"}, {}, {"hold", "moved"}, 2, 4, 1),
    Plan("no-match", {"recognition", "readiness"}, {}, {"gone"}, 2, 4, 1),
    Plan("success", {}, {<<Key("down")>>}, {"gone"}, 2, 4, 2)}
\* Engine: a script's methods with the events of the world, and the batches it dispatches.
Act(kind, key) == [kind |-> kind, key |-> key]
Pointer == Act("click", "pointer")
Batches == {<<Pointer>>, <<Act("down", "shift"), Pointer, Act("up", "shift")>>,
    <<Act("down", "shift")>>, <<Act("up", "shift"), Act("down", "shift")>>}
Scripts == {{}, {"observe", "query", "query_wait"}, {"observe", "recognize", "query", "moved"},
    {"observe", "dispatch", "moved", "stopped"}, {"observe", "dispatch", "exited"}, {"windows", "exited"},
    {"selected", "windows", "exited"}}
\* RunPreparation: every lane, a single function, an approval where none belongs, recovery, a check
\* with the environment it needs and without, and authoring.
Request(operation, lane, function, recover, approved, descriptor, environment, given) ==
    [operation |-> operation, lane |-> lane, function |-> function, recover |-> recover,
     approved |-> approved, descriptor |-> descriptor, environment |-> environment, given |-> given]
Requests == {
    Request("run", "controlled", FALSE, FALSE, FALSE, FALSE, FALSE, FALSE),
    Request("run", "replay", FALSE, FALSE, FALSE, TRUE, TRUE, TRUE),
    Request("run", "replay", FALSE, FALSE, TRUE, TRUE, TRUE, TRUE),
    Request("run", "native", FALSE, TRUE, TRUE, FALSE, TRUE, TRUE),
    Request("run", "native", TRUE, TRUE, TRUE, FALSE, TRUE, TRUE),
    Request("run", "native", TRUE, FALSE, TRUE, FALSE, TRUE, TRUE),
    Request("check", "replay", FALSE, FALSE, FALSE, TRUE, TRUE, TRUE),
    Request("check", "replay", FALSE, FALSE, FALSE, TRUE, TRUE, FALSE),
    Request("check", "replay", FALSE, FALSE, FALSE, TRUE, FALSE, FALSE),
    Request("authoring", "native", FALSE, FALSE, FALSE, FALSE, FALSE, FALSE)}

VARIABLES part, x1, x2, x3, x4, x5, x6, x7, x8, x9, x10, x11, x12, x13, x14, x15, x16, x17, x18,
    x19, x20, x21, x22, x23
registers == <<part, x1, x2, x3, x4, x5, x6, x7, x8, x9, x10, x11, x12, x13, x14, x15, x16, x17,
    x18, x19, x20, x21, x22, x23>>
spare21 == <<x21, x22, x23>>
Empty21 == x21 = 0 /\ x22 = 0 /\ x23 = 0
spare20 == <<x20, spare21>>
Empty20 == x20 = 0 /\ Empty21
spare19 == <<x19, spare20>>
Empty19 == x19 = 0 /\ Empty20
spare17 == <<x17, x18, spare19>>
Empty17 == x17 = 0 /\ x18 = 0 /\ Empty19
spare14 == <<x14, x15, x16, spare17>>
Empty14 == x14 = 0 /\ x15 = 0 /\ x16 = 0 /\ Empty17
spare10 == <<x10, x11, x12, x13, spare14>>
Empty10 == x10 = 0 /\ x11 = 0 /\ x12 = 0 /\ x13 = 0 /\ Empty14
spare9 == <<x9, spare10>>
Empty9 == x9 = 0 /\ Empty10
spare7 == <<x7, x8, spare9>>
Empty7 == x7 = 0 /\ x8 = 0 /\ Empty9

Host == INSTANCE ScriptHost WITH
    plan <- x1, control <- x2, target <- x3, known <- x4, state <- x5, input <- x6,
    worker <- x7, budget <- x8, caller <- x9, Callers <- {a, b}, Plans <- Plans
Native == INSTANCE Engine WITH
    startup <- x1, engine <- x2, owned <- x3, call <- x4, job <- x5, source <- x6, sink <- x7,
    live <- x8, EngineScripts <- Scripts, EngineHandles <- 3, EngineEvents <- 7,
    EngineFrames <- 2, EngineBatches <- Batches, ClickHold <- TRUE, MaxSerial <- 5
Runtime == INSTANCE ScriptRuntime WITH
    lang <- x1, at <- x2, entry <- x3, stack <- x4, loaded <- x5, control <- x6, latch <- x7,
    halted <- x8, open <- x9, stop <- x10, late <- x11, work <- x12, jobs <- x13,
    promise <- x14, rejected <- x15, calls <- x16, caught <- x17, ready <- x18, outcome <- x19,
    result <- x20, Langs <- {"lua", "js"}, Modules <- {"m1", "m2", "m3", "x"},
    Captured <- {"m1", "m2", "m3"}, Entries <- <<"m1", "m2">>, MaxWork <- 2, MaxCalls <- 1
Compiler == INSTANCE CompilerWorker WITH
    step <- x1, at <- x2, child <- x3, pipe <- x4, heard <- x5, reply <- x6, exit <- x7,
    failure <- x8, stop <- x9, late <- x10, listed <- x11, resolved <- x12, result <- x13,
    Imports <- {"i", "x"}, Captured <- {"i"}, Shared <- TRUE
Logs == INSTANCE ScriptLogs WITH
    attempt <- x1, child <- x2, lines <- x3, refused <- x4, stream <- x5, pipe <- x6,
    report <- x7, channel <- x8, lost <- x9, attempts <- x10, worker <- x11, at <- x12,
    batch <- x13, finished <- x14, imported <- x15, queue <- x16, seen <- x17, dropped <- x18,
    phase <- x19, shown <- x20, evicted <- x21, recorded <- x22, missed <- x23, Lines <- 2,
    Capacity <- 1, MaxRefused <- 1
Payload == INSTANCE PayloadBudget WITH
    used <- x1, call <- x2, at <- x3, res <- x4, mem <- x5, kept <- x6, Threads <- {a, b},
    Limit <- 6, Image <- 2, Scratch <- 1, Maximum <- 3, MaxKept <- 2
Trial == INSTANCE RecognitionTrial WITH
    kind <- x1, control <- x2, at <- x3, build <- x4, terminal <- x5, settled <- x6,
    fault <- x7, stop <- x8, forced <- x9, order <- x10, exit <- x11, run <- x12,
    session <- x13, entry <- x14, ending <- x15, pipe <- x16, noise <- x17, result <- x18,
    MaxNoise <- 1
Prepare == INSTANCE RunPreparation WITH
    request <- x1, stopped <- x2, disk <- x3, package <- x4, past <- x5, at <- x6, stages <- x7,
    todo <- x8, reading <- x9, held <- x10, inventory <- x11, attempt <- x12, pass <- x13,
    seen <- x14, children <- x15, result <- x16, Requests <- Requests, Contents <- {"a", "b"},
    Catalogued <- "a", Inspected <- "a", MaxEdits <- 1
Aim == INSTANCE TargetPreparation WITH
    platform <- x1, script <- x2, approved <- x3, control <- x4, admitted <- x5, proc <- x6,
    image <- x7, births <- x8, installed <- x9, at <- x10, final <- x11, listed <- x12,
    life <- x13, sort <- x14, launch <- x15, result <- x16, request <- x17, started <- x18,
    quiet <- x19, Pids <- {1, 2}, MaxBirths <- 2, MaxUpdates <- 1

MCInit ==
    /\ part \in Parts
    /\ \/ part = "host" /\ Host!Init /\ Empty10
       \/ part = "engine" /\ Native!Init /\ Empty9
       \/ part = "runtime" /\ Runtime!Init /\ Empty21
       \/ part = "compiler" /\ Compiler!Init /\ Empty14
       \/ part = "logs" /\ Logs!Init
       \/ part = "payload" /\ Payload!Init /\ Empty7
       \/ part = "trial" /\ Trial!Init /\ Empty19
       \/ part = "preparation" /\ Prepare!Init /\ Empty17
       \/ part = "target" /\ Aim!Init /\ Empty20
MCNext ==
    /\ part' = part
    /\ \/ part = "host" /\ Host!Next /\ UNCHANGED spare10
       \/ part = "engine" /\ Native!Next /\ UNCHANGED spare9
       \/ part = "runtime" /\ Runtime!Next /\ UNCHANGED spare21
       \/ part = "compiler" /\ Compiler!Next /\ UNCHANGED spare14
       \/ part = "logs" /\ Logs!Next
       \/ part = "payload" /\ Payload!Next /\ UNCHANGED spare7
       \/ part = "trial" /\ Trial!Next /\ UNCHANGED spare19
       \/ part = "preparation" /\ Prepare!Next /\ UNCHANGED spare17
       \/ part = "target" /\ Aim!Next /\ UNCHANGED spare20
MCSpec == MCInit /\ [][MCNext]_registers

ASSUME Host!PlansAssumption /\ Native!EngineBounds /\ Runtime!EntriesCaptured /\ Prepare!PreparationAssumption

\* Every effect, handle, byte and line has one account: a receipt names exactly the effects its
\* sequence had, a handle has one owner, input is never left pressed in silence, memory is charged
\* before it exists, and a line is shown, queued or counted (host/sequence.rs, engine.rs, images.rs,
\* desktop/operation.rs).
CallsAreAccounted == /\ part = "host" => Host!ReceiptsTellTheTruth /\ Host!OwnershipIsExact
                     /\ part = "engine" => Native!EngineIsExact /\ Native!InputIsAccounted
                     /\ part = "payload" => Payload!TypeOK /\ Payload!ChargesAreExact
                     /\ part = "logs" => Logs!TypeOK /\ Logs!LinesAreAccounted
\* What an execution reports is what happened: the outcome of a script is its first failure, a
\* compilation and a trial rest on a whole answer of a child that ended well, a child runs what was
\* inspected and verified, and a run drives only a program it proved (lua.rs, javascript.rs,
\* typescript.rs, runner/recognition.rs, runner/operation.rs, native_run.rs).
ReportsAreTrue == /\ part = "runtime" => Runtime!TypeOK /\ Runtime!RunIsTrue
                  /\ part = "compiler" => Compiler!TypeOK /\ Compiler!CompilationIsTrue
                  /\ part = "trial" => Trial!TypeOK /\ Trial!TrialIsTrue
                  /\ part = "preparation" => /\ Prepare!TypeOK /\ Prepare!ReportsAreTrue
                                                /\ Prepare!LaunchesRestOnCapture
                  /\ part = "target" => Aim!TypeOK /\ Aim!PreparationIsExact
\* After an interrupted gesture, a failure or a stop no step has a further effect: no input, no host
\* call, no launch (host/sequence.rs, host.rs, native_run.rs).
NothingAfterTheEnd == [][/\ part = "host" => Host!NothingAfterTheEndStep
                         /\ part = "runtime" => Runtime!NothingAfterFailureStep
                         /\ part = "target" => Aim!LaunchIsJustifiedStep]_registers
=============================================================================
