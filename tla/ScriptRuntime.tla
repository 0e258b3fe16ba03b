---------------------------- MODULE ScriptRuntime ----------------------------
(***************************************************************************)
(* One attempt of a package's scripts inside the Lua or the JavaScript     *)
(* engine (lua.rs, javascript.rs): the captured sources are declared, the  *)
(* two entry modules are loaded through the attempt's own resolver, then   *)
(* the readiness and the workflow functions run.  The script is arbitrary: *)
(* it requires, calls the host, throws, catches what it can and leaves     *)
(* promises behind.  What it cannot do is turn a refusal, a failed host    *)
(* call, a stop or a deadline into a success.                              *)
(*                                                                         *)
(* The host is its failure latch and its admission (ScriptHost has the     *)
(* rest); `halted` is the flag the engine's interrupt reads.  The engine   *)
(* interrupts at any instruction after a cause exists, not at once.        *)
(***************************************************************************)
EXTENDS Naturals, Sequences, FiniteSets

CONSTANTS Langs,         \* the engines: "lua", "js"
          Modules,       \* names a script can ask for
          Captured,      \* those the inventory resolves
          Entries,       \* the modules of readiness and workflow
          MaxWork,       \* the engine's allowance of coroutines, promises and jobs
          MaxCalls       \* bound: host calls, caught errors

EntriesCaptured == Len(Entries) = 2 /\ \A k \in 1..2 : Entries[k] \in Captured

VARIABLES lang,          \* the package's engine
          at,            \* "declare", "load", "ready", "work", "finish", "ended"
          entry,         \* the entry being loaded
          stack,         \* modules being executed, outermost first
          loaded,        \* modules whose value is cached
          control,       \* "run" or "throw": an exception is in flight
          latch,         \* the host's first failure
          halted,        \* the interrupt's flag
          open,          \* the host's admission
          stop, late,    \* the attempt's stop, the stage's deadline
          work,          \* coroutines, promises and jobs so far
          jobs,          \* runnable jobs
          promise,       \* the entry's promise: "none", "pending", "kept"
          rejected,      \* promises rejected and not handled
          calls, caught, \* host calls accepted; errors caught by the script
          ready,         \* readiness returned "Ready"
          outcome, result

engine == <<lang, at, entry, stack, loaded, control, promise, jobs, work, rejected, ready, outcome, result>>
host == <<latch, halted, open, calls>>
vars == <<lang, at, entry, stack, loaded, control, latch, halted, open, stop, late, work, jobs,
          promise, rejected, calls, caught, ready, outcome, result>>

Init ==
    /\ lang \in Langs
    /\ at = "declare" /\ entry = 1 /\ stack = <<>> /\ loaded = {} /\ control = "run"
    /\ latch = "none" /\ halted = FALSE /\ open = TRUE
    /\ stop = FALSE /\ late = FALSE
    /\ work = 0 /\ jobs = 0 /\ promise = "none" /\ rejected = 0
    /\ calls = 0 /\ caught = 0
    /\ ready = FALSE /\ outcome = "none" /\ result = "none"

TypeOK ==
    /\ at \in {"declare", "load", "ready", "work", "finish", "ended"}
    /\ loaded \subseteq Captured
    /\ work \in 0..MaxWork /\ calls \in 0..MaxCalls /\ caught \in 0..MaxCalls

\* host.fail: the first failure is kept, admission ends with it.
Fails(cause) ==
    /\ latch' = IF latch = "none" THEN cause ELSE latch
    /\ open' = FALSE
    /\ halted' = TRUE

\* The engine leaves the package for good with this outcome.
Leaves(why) == at' = "finish" /\ outcome' = why

Checked == latch = "none" /\ ~stop

\* What stands between stages: a latched failure, a stop or a deadline.
Stopped == ~Checked \/ late

Scripting == at \in {"load", "ready", "work"} /\ control = "run"

\* Every captured source is declared before any runs.  A Lua chunk that
\* does not compile ends the attempt, and a literal require that does not
\* resolve latches.
DeclareLua ==
    /\ at = "declare" /\ lang = "lua"
    /\ \/ /\ ~stop
          /\ at' = "load" /\ stack' = <<Entries[1]>>
          /\ UNCHANGED <<outcome, latch, open, halted>>
       \/ /\ Leaves(IF stop THEN "stopped" ELSE "syntax")
          /\ UNCHANGED <<latch, open, halted, stack>>
       \/ /\ latch' = "import" /\ open' = FALSE /\ Leaves("import")
          /\ UNCHANGED <<halted, stack>>
    /\ UNCHANGED <<lang, entry, loaded, control, stop, late, work, jobs, promise, rejected, calls, caught, ready, result>>

\* The JavaScript engine resolves static imports while it declares; the
\* imports were also resolved before the engine was made.
DeclareJs ==
    /\ at = "declare" /\ lang = "js"
    /\ \/ /\ ~Stopped
          /\ at' = "load" /\ stack' = <<Entries[1]>>
          /\ UNCHANGED <<outcome, latch, open, halted>>
       \/ /\ Leaves(IF stop THEN "stopped" ELSE "syntax")
          /\ UNCHANGED <<latch, open, halted, stack>>
       \/ /\ Fails("import") /\ Leaves("import")
          /\ UNCHANGED stack
    /\ UNCHANGED <<lang, entry, loaded, control, stop, late, work, jobs, promise, rejected, calls, caught, ready, result>>

Throws == control' = "throw"

\* refuse: latched before the script sees the exception.
Refused(cause) == Fails(cause) /\ Throws /\ UNCHANGED <<stack, calls>>

OnStack(m) == \E k \in 1..Len(stack) : stack[k] = m

\* Lua's require: a value already made is shared, and a cycle is refused
\* with its chain.
RequireLua(m) ==
    /\ Scripting /\ lang = "lua"
    /\ \/ /\ ~Checked /\ Throws
          /\ UNCHANGED <<host, stack>>
       \/ /\ Checked /\ m \in loaded
          /\ UNCHANGED <<host, stack, control>>
       \/ /\ Checked /\ m \notin Captured /\ Refused("import")
       \/ /\ Checked /\ OnStack(m) /\ m \notin loaded /\ Refused("cycle")
       \/ /\ Checked /\ m \in Captured \ loaded /\ ~OnStack(m)
          /\ stack' = Append(stack, m)
          /\ UNCHANGED <<host, control>>
    /\ UNCHANGED <<lang, at, entry, loaded, stop, late, work, jobs, promise, rejected, caught, ready, outcome, result>>

\* An import: modules are instances of the attempt, each entered once, and
\* those of a cycle see each other.
RequireJs(m) ==
    /\ Scripting /\ lang = "js"
    /\ \/ /\ m \notin Captured /\ Refused("import")
       \/ /\ m \in loaded \/ OnStack(m)
          /\ UNCHANGED <<host, stack, control>>
       \/ /\ m \in Captured \ loaded /\ ~OnStack(m)
          /\ stack' = Append(stack, m)
          /\ UNCHANGED <<host, control>>
    /\ UNCHANGED <<lang, at, entry, loaded, stop, late, work, jobs, promise, rejected, caught, ready, outcome, result>>

\* The module's chunk returns.  A Lua module must have a value.
ModuleReturns ==
    LET m == stack[Len(stack)] IN
    /\ Scripting /\ stack # <<>>
    /\ \/ /\ stack' = SubSeq(stack, 1, Len(stack) - 1)
          /\ loaded' = loaded \cup {m}
          /\ UNCHANGED <<host, control>>
       \/ /\ lang = "lua"
          /\ Fails("contract") /\ Throws
          /\ stack' = SubSeq(stack, 1, Len(stack) - 1)
          /\ UNCHANGED <<loaded, calls>>
    /\ UNCHANGED <<lang, at, entry, stop, late, work, jobs, promise, rejected, caught, ready, outcome, result>>

\* Mutant: only a stop closes the host.
AcceptsAlways == ~stop

\* The host takes a call only while it has no failure and admits work.
Accepts == Checked /\ open

\* host.call: accepted while nothing is latched and admission is open; a
\* failing call latches before its exception is raised, and a partial
\* native receipt latches although the call returns.
HostCall ==
    /\ Scripting
    /\ \/ /\ Accepts /\ calls < MaxCalls
          /\ calls' = calls + 1
          /\ \/ UNCHANGED <<latch, halted, open, control>>
             \/ Fails("host") /\ Throws
             \/ Fails("partial") /\ UNCHANGED control
       \/ /\ ~Accepts
          /\ Fails("host") /\ Throws
          /\ UNCHANGED calls
    /\ UNCHANGED <<lang, at, entry, stack, loaded, stop, late, work, jobs, promise, rejected, caught, ready, outcome, result>>

\* The script raises an error of its own.
ScriptThrows ==
    /\ Scripting
    /\ Throws
    /\ UNCHANGED <<lang, host, at, entry, stack, loaded, stop, late, work, jobs, promise, rejected, caught, ready, outcome, result>>

\* pcall, try: any error that is not an interruption can be caught.
Catch ==
    /\ control = "throw" /\ at \in {"load", "ready", "work"} /\ caught < MaxCalls
    /\ control' = "run" /\ caught' = caught + 1
    /\ UNCHANGED <<lang, host, at, entry, stack, loaded, stop, late, work, jobs, promise, rejected, ready, outcome, result>>

\* An error nobody catches leaves the module it is in, then the entry.
Unwind ==
    /\ control = "throw" /\ at \in {"load", "ready", "work"}
    /\ IF Len(stack) > 1
       THEN /\ stack' = SubSeq(stack, 1, Len(stack) - 1)
            /\ UNCHANGED <<at, outcome, control>>
       ELSE /\ Leaves("script") /\ stack' = <<>> /\ control' = "run"
    /\ UNCHANGED <<lang, host, entry, loaded, stop, late, work, jobs, promise, rejected, caught, ready, result>>

\* A coroutine is created or resumed; at the limit the failure is latched,
\* and a resume at the limit cannot be caught.
Coroutine ==
    /\ Scripting /\ lang = "lua"
    /\ \/ /\ work < MaxWork /\ Checked /\ work' = work + 1
          /\ UNCHANGED <<host, at, outcome, control>>
       \/ /\ work = MaxWork /\ Fails("limit")
          /\ \/ Throws /\ UNCHANGED <<at, outcome>>
             \/ Leaves("limit") /\ UNCHANGED control
          /\ UNCHANGED <<work, calls>>
    /\ UNCHANGED <<lang, entry, stack, loaded, stop, late, jobs, promise, rejected, caught, ready, result>>

\* A promise is created; its job may run later, it may be left rejected,
\* and a rejection handled later is forgotten.
Promise ==
    /\ Scripting /\ lang = "js"
    /\ \/ /\ work < MaxWork /\ work' = work + 1
          /\ \/ jobs' = jobs + 1 /\ UNCHANGED rejected
             \/ rejected' = rejected + 1 /\ UNCHANGED jobs
          /\ UNCHANGED host
       \/ /\ work = MaxWork /\ Fails("limit")
          /\ UNCHANGED <<work, jobs, rejected, calls>>
       \/ /\ rejected > 0 /\ rejected' = rejected - 1
          /\ UNCHANGED <<host, work, jobs>>
    /\ UNCHANGED <<lang, at, entry, stack, loaded, control, stop, late, promise, caught, ready, outcome, result>>

\* settle: the entry waits for its promise by running one job after
\* another, looking at the latch, the stop and the deadline before each.
Await ==
    /\ Scripting /\ lang = "js" /\ stack = <<>> /\ promise # "kept"
    /\ IF Stopped
       THEN /\ IF late /\ Checked THEN latch' = "timeout" /\ open' = FALSE /\ UNCHANGED halted
                                  ELSE UNCHANGED <<latch, open, halted>>
            /\ Leaves("stopped")
            /\ UNCHANGED <<jobs, promise, rejected>>
       ELSE IF jobs = 0
       THEN /\ promise = "pending"
            /\ Leaves("pending")
            /\ UNCHANGED <<latch, open, halted, jobs, promise, rejected>>
       ELSE /\ jobs' = jobs - 1
            /\ promise' \in {"pending", "kept"}
            /\ rejected' \in {rejected, rejected + 1}
            /\ UNCHANGED <<at, outcome, latch, open, halted>>
    /\ UNCHANGED <<lang, entry, stack, loaded, control, stop, late, work, calls, caught, ready, result>>

\* The entry's function returns a promise that is not settled yet.
Suspends ==
    /\ Scripting /\ lang = "js" /\ stack = <<>> /\ promise = "none" /\ work < MaxWork
    /\ promise' = "pending" /\ work' = work + 1
    /\ UNCHANGED <<lang, host, at, entry, stack, loaded, control, stop, late, jobs, rejected, caught, ready, outcome, result>>

Returned == stack = <<>> /\ promise # "pending"

\* The second entry module is loaded after the first, then the stages
\* begin unless something has failed meanwhile.
NextEntry ==
    /\ Scripting /\ at = "load" /\ Returned
    /\ promise' = "none"
    /\ \/ /\ entry = 1 /\ ~Stopped
          /\ entry' = 2
          /\ stack' = IF Entries[2] \in loaded THEN <<>> ELSE <<Entries[2]>>
          /\ UNCHANGED <<at, late, outcome>>
       \/ /\ entry = 2 /\ Checked
          /\ at' = "ready" /\ late' = FALSE
          /\ UNCHANGED <<entry, stack, outcome>>
       \/ /\ Leaves(IF Stopped THEN "stopped" ELSE "entry")
          /\ UNCHANGED <<entry, stack, late>>
    /\ UNCHANGED <<lang, host, loaded, control, stop, work, jobs, rejected, caught, ready, result>>

\* Readiness must return the string Ready, in time.
Readiness ==
    /\ Scripting /\ at = "ready" /\ Returned
    /\ promise' = "none"
    /\ \/ /\ ~Stopped
          /\ ready' = TRUE
          /\ at' = "work" /\ late' = FALSE
          /\ UNCHANGED outcome
       \/ /\ Leaves(IF Stopped THEN "stopped" ELSE "readiness")
          /\ UNCHANGED <<ready, late>>
    /\ UNCHANGED <<lang, host, entry, stack, loaded, control, stop, work, jobs, rejected, caught, result>>

\* The workflow settles: admission ends here, not when the job queue is
\* empty, and a rejection nobody handled is the outcome.
Workflow ==
    /\ Scripting /\ at = "work" /\ Returned
    /\ open' = FALSE
    /\ Leaves(IF Stopped THEN "stopped" ELSE IF rejected > 0 THEN "rejected" ELSE "ok")
    /\ UNCHANGED <<lang, latch, halted, calls, entry, stack, loaded, control, stop, late, work, jobs, promise, rejected, caught, ready, result>>

\* The engine gives up the script, whatever it is doing, uncaught.
Interrupted(why) ==
    /\ at \in {"load", "ready", "work"}
    /\ Leaves(why)
    /\ stack' = <<>> /\ control' = "run"
    /\ UNCHANGED <<host, lang, entry, loaded, stop, late, work, jobs, promise, rejected, caught, ready, result>>

\* Lua's instruction hook reads the latch, the stop, the deadline, the flag.
InterruptLua ==
    /\ lang = "lua"
    /\ \/ ~Checked /\ Interrupted("stopped")
       \/ Checked /\ late /\ Interrupted("timeout")
       \/ Checked /\ ~late /\ halted /\ Interrupted("stopped")

\* JavaScript's handler reads the flag, the stop and the deadline.
InterruptJs == lang = "js" /\ (halted \/ stop \/ late) /\ Interrupted("stopped")

\* What the attempt answers: the host's first failure; then in Lua what the
\* script ended with, a stop last, in JavaScript the stop and the deadline
\* before what the script ended with.
VerdictLua == IF latch # "none" THEN latch ELSE IF outcome = "ok" /\ stop THEN "stopped" ELSE outcome
VerdictJs == IF latch # "none" THEN latch ELSE IF stop THEN "stopped" ELSE IF late THEN "timeout" ELSE outcome

\* Mutant: an outcome the script reached counts, whatever it caught.
VerdictOfScript == IF outcome # "ok" /\ latch # "none" THEN latch ELSE outcome

Verdict == IF lang = "lua" THEN VerdictLua ELSE VerdictJs

Finish ==
    /\ at = "finish"
    /\ open' = FALSE
    /\ at' = "ended" /\ jobs' = 0 /\ rejected' = 0
    /\ result' = Verdict
    /\ UNCHANGED <<lang, latch, halted, calls, entry, stack, loaded, control, stop, late, work, promise, caught, ready, outcome>>

\* A stop and a stage's deadline come at any time.
Stop ==
    /\ at # "ended" /\ ~stop
    /\ stop' = TRUE
    /\ UNCHANGED <<engine, host, late, caught>>

Late ==
    /\ at \in {"load", "ready", "work"} /\ ~late
    /\ late' = TRUE
    /\ UNCHANGED <<engine, host, stop, caught>>

Next ==
    \/ DeclareLua \/ DeclareJs \/ \E m \in Modules : RequireLua(m) \/ RequireJs(m)
    \/ ModuleReturns \/ HostCall \/ ScriptThrows \/ Catch \/ Unwind
    \/ Coroutine \/ Promise \/ Await \/ Suspends
    \/ NextEntry \/ Readiness \/ Workflow \/ InterruptLua \/ InterruptJs \/ Finish
    \/ Stop \/ Late

Spec == Init /\ [][Next]_vars

(***************************************************************************)
(* An attempt succeeds only when both entries ran, readiness kept its      *)
(* contract, nothing was refused or failed even if the script caught it,   *)
(* no stop was requested before the end and no rejection was left;         *)
(* otherwise the first latched cause is what it reports.  No module is     *)
(* entered while it is being executed, and admission has ended.            *)
(***************************************************************************)
RunIsTrue ==
    /\ at = "ended" =>
          /\ ~open
          /\ result = "ok" => latch = "none" /\ ~stop /\ ready
          /\ latch # "none" => result = latch
    /\ \A j, k \in 1..Len(stack) : stack[j] = stack[k] => j = k

(***************************************************************************)
(* After the first failure nothing more is accepted and the cause does not *)
(* change; after the workflow has settled no job of the script runs; a     *)
(* module that has a value keeps it.                                       *)
(***************************************************************************)
\* The step NothingAfterFailure allows.
NothingAfterFailureStep ==
    /\ latch # "none" => calls' = calls /\ latch' = latch
    /\ at = "finish" => calls' = calls /\ (jobs' = jobs \/ at' = "ended")
    /\ loaded \subseteq loaded'

NothingAfterFailure == [][NothingAfterFailureStep]_vars
=============================================================================
