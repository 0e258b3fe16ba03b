----------------------------- MODULE MCControl -----------------------------
(* Instances of Control: a process that supervises or that hosts the        *)
(* controlled harness, and a child process.                                 *)
EXTENDS Control, TLC

CONSTANTS own, att, ui, runner, probe, rival, reader, main, scheduler, dispatcher

K(op, c, why) == [op |-> op, ctl |-> c, reason |-> why]

(* A behaviour of the first instance is of one of two processes.  The       *)
(* supervisor: DesktopController::stop, supervise and run_attempts, and two *)
(* startup probes, on an owner and its attempt.  The controlled harness: the*)
(* Host schedules and admits a fresh attempt on the owner alone, and reports*)
(* its fault, while its dispatcher works and a caller stops it.             *)
ProcessControls == {own, att}
ProcessParent   == [c \in ProcessControls |-> IF c = att THEN own ELSE NoOne]
ProcessNative   == {att}
ProcessThreads  == {ui, runner, probe, rival, main, scheduler, dispatcher}
ProcessCalls    ==
  [t \in ProcessThreads |->
     CASE t = ui         -> {K("stop", own, "cancelled")}
       [] t = runner     -> {K("stop", att, "cancelled"), K("stop", att, "timeout"),
                             K("check", att, "timeout"), K("advance", att, "timeout"),
                             K("settle", att, "timeout"), K("recovery", own, "timeout")}
       [] t \in {probe, rival} -> {K("launch", att, "timeout")}
       [] t = dispatcher -> {K("effect", own, "timeout"), K("workflow", own, "timeout")}
       [] OTHER          -> {K("queue", own, "timeout"), K("admit", own, "timeout"),
                             K("primary", own, "timeout")}]

Busy(threads, twice) ==
  [t \in ProcessThreads |-> IF t = twice THEN 2 ELSE IF t \in threads THEN 1 ELSE 0]
ProcessBudgets  == {Busy({ui, runner, probe, rival}, runner),
                    Busy({ui, main, scheduler, dispatcher}, dispatcher)}

(* The two probes ask for the same thing, and so do the two schedulers.     *)
Alike == Permutations({probe, rival}) \cup Permutations({main, scheduler})

\* runner::child: control reader, main thread and dispatcher.
ChildControls == {own}
ChildParent   == [c \in ChildControls |-> NoOne]
ChildNative   == {own}
ChildThreads  == {reader, main, dispatcher}
ChildCalls    ==
  [t \in ChildThreads |->
     CASE t = reader     -> {K("adopt", own, "cancelled"), K("adopt", own, "timeout"),
                             K("lost", own, "cancelled")}
       [] t = main       -> {K("advance", own, "timeout"), K("workflow", own, "timeout"),
                             K("primary", own, "timeout"), K("stop", own, "cancelled")}
       [] OTHER          -> {K("effect", own, "timeout"), K("check", own, "timeout"),
                             K("stop", own, "timeout")}]

ChildBudgets  == {[t \in ChildThreads |-> IF t = reader THEN 1 ELSE 2]}
LiveBudgets   == {[t \in ChildThreads |-> IF t = main THEN 2 ELSE 1]}

\* The liveness run: one call fewer of each kind that differs in its reason.
LiveCalls     ==
  [t \in ChildThreads |->
     CASE t = reader     -> {K("adopt", own, "cancelled"), K("lost", own, "cancelled")}
       [] t = main       -> {K("advance", own, "timeout"), K("workflow", own, "timeout"),
                             K("primary", own, "timeout")}
       [] OTHER          -> {K("effect", own, "timeout"), K("stop", own, "timeout")}]
=============================================================================
