----------------------------- MODULE Controller -----------------------------
(***************************************************************************)
(* DesktopController (desktop.rs, desktop/operation.rs): the single slot   *)
(* for runs, environment checks and authoring validations, the worker      *)
(* thread that serves the operation in it, and the attempts of a Native    *)
(* run.                                                                    *)
(*                                                                         *)
(* Every command holds the state mutex from end to end, so a command is    *)
(* one action; shutdown() releases it between two looks at the worker.     *)
(* The worker shares only the operation's Control, its progress channel    *)
(* and the JoinHandle with the commands.                                   *)
(***************************************************************************)
EXTENDS Naturals

CONSTANTS Runs,      \* run identities; each is issued once
          Closers,   \* callers of shutdown()
          None,
          MaxStages  \* bound: progress events one attempt sends

ASSUME ControllerAssumption == None \notin Runs /\ MaxStages \in Nat

VARIABLES st,       \* State, under its mutex
          work,     \* work[r]: the worker thread of run r
          progress, \* progress[r]: stage the undrained progress events end in, or "none"
          control,  \* control[r]: stop cause latched in r's owner Control
          credit,   \* credit[r]: recovery credit of r's Control was taken
          closer,   \* closer[c]: where a shutdown() call is
          asked     \* history: runs a client named in a Stop

vars == <<st, work, progress, control, credit, closer, asked>>

Results == {"PASS", "FAIL", "error"}
Stages  == {"preparing", "running", "recovering"}
NoResult == [run |-> None, outcome |-> "none"]

Init ==
  /\ st = [closed |-> FALSE, run |-> None, phase |-> "idle", active |-> FALSE,
           result |-> NoResult]
  /\ work = [r \in Runs |-> [pc |-> "none", attempt |-> 0, recover |-> FALSE,
                            child |-> FALSE, sent |-> 0, result |-> "none"]]
  /\ progress = [r \in Runs |-> "none"]
  /\ control = [r \in Runs |-> "none"]
  /\ credit = [r \in Runs |-> FALSE]
  /\ closer = [c \in Closers |-> "idle"]
  /\ asked = {}

----------------------------------------------------------------------------
(* Mutants: a drain of an empty channel resets the phase; late evidence    *)
(* overwrites an accepted stop.                                            *)
AbsorbedEmpty(s, stage) == IF s.phase = "stopping" THEN s ELSE [s EXCEPT !.phase = stage]
AbsorbedLate(s, stage) == IF stage = "none" THEN s ELSE [s EXCEPT !.phase = stage]

(* State::progress(): a stop that was accepted stays visible until the     *)
(* operation settles.                                                      *)
Absorbed(s, stage) ==
  IF stage = "none" \/ s.phase = "stopping" THEN s ELSE [s EXCEPT !.phase = stage]

(* refresh() joins the finished worker and takes its result.               *)
Settling == [st EXCEPT !.active = FALSE, !.phase = "terminal",
                       !.result = [run |-> st.run, outcome |-> work[st.run].result]]

(* Mutant: a run that shows as stopping is not looked at any more.         *)
RefreshedBusy ==
  IF ~st.active \/ st.phase = "stopping" THEN st
  ELSE IF work[st.run].pc # "finished" THEN Absorbed(st, progress[st.run]) ELSE Settling

(* State::refresh(): drain the channel, then join a finished worker.       *)
Refreshed ==
  IF ~st.active THEN st
  ELSE IF work[st.run].pc # "finished" THEN Absorbed(st, progress[st.run])
  ELSE Settling

Drained == IF st.active THEN [progress EXCEPT ![st.run] = "none"] ELSE progress

Cancelled == IF st.active /\ control[st.run] = "none"
             THEN [control EXCEPT ![st.run] = "cancelled"] ELSE control

----------------------------------------------------------------------------
(* Commands.                                                               *)

Poll ==
  /\ st' = Refreshed /\ progress' = Drained
  /\ UNCHANGED <<work, control, credit, closer, asked>>

(* Mutants: a closed controller still admits; the previous result stays.   *)
ReserveClosed(r, recover) ==
  /\ work[r].pc = "none" /\ ~Refreshed.active
  /\ st' = [Refreshed EXCEPT !.run = r, !.phase = "preparing", !.active = TRUE,
                             !.result = NoResult]
  /\ progress' = Drained
  /\ work' = [work EXCEPT ![r].pc = "prepare", ![r].recover = recover]
  /\ UNCHANGED <<control, credit, closer, asked>>
ReserveStale(r, recover) ==
  /\ work[r].pc = "none" /\ ~st.closed /\ ~Refreshed.active
  /\ st' = [Refreshed EXCEPT !.run = r, !.phase = "preparing", !.active = TRUE]
  /\ progress' = Drained
  /\ work' = [work EXCEPT ![r].pc = "prepare", ![r].recover = recover]
  /\ UNCHANGED <<control, credit, closer, asked>>

(* reserve(): refuse while closed or while the slot is held; otherwise     *)
(* start the worker of a fresh run.  A start that fails is a Poll.         *)
Reserve(r, recover) ==
  /\ work[r].pc = "none"
  /\ ~st.closed /\ ~Refreshed.active
  /\ st' = [Refreshed EXCEPT !.run = r, !.phase = "preparing", !.active = TRUE,
                             !.result = NoResult]
  /\ progress' = Drained
  /\ work' = [work EXCEPT ![r].pc = "prepare", ![r].recover = recover]
  /\ UNCHANGED <<control, credit, closer, asked>>

(* Mutant: a stop is applied to whichever run is current.                  *)
StopCurrent(r) ==
  /\ asked' = asked \cup {r}
  /\ control' = Cancelled
  /\ st' = IF st.active THEN [st EXCEPT !.phase = "stopping"] ELSE st
  /\ UNCHANGED <<work, progress, credit, closer>>

(* stop(): only the current run can be named.                              *)
Stop(r) ==
  /\ asked' = asked \cup {r}
  /\ IF st.run = r /\ st.active
     THEN /\ control' = Cancelled
          /\ st' = [st EXCEPT !.phase = "stopping"]
     ELSE UNCHANGED <<control, st>>
  /\ UNCHANGED <<work, progress, credit, closer>>

(* Mutant: a shutdown closes the controller and lets the run go on.        *)
ShutdownQuiet(c) ==
  /\ closer[c] = "idle"
  /\ st' = [st EXCEPT !.closed = TRUE]
  /\ closer' = [closer EXCEPT ![c] = "waiting"]
  /\ UNCHANGED <<control, work, progress, credit, asked>>

Shutdown(c) ==
  /\ closer[c] = "idle"
  /\ control' = Cancelled
  /\ st' = [st EXCEPT !.closed = TRUE, !.phase = IF st.active THEN "stopping" ELSE @]
  /\ closer' = [closer EXCEPT ![c] = "waiting"]
  /\ UNCHANGED <<work, progress, credit, asked>>

ShutdownLooks(c) ==
  /\ closer[c] = "waiting"
  /\ st' = Refreshed /\ progress' = Drained
  /\ closer' = [closer EXCEPT ![c] = IF Refreshed.active THEN "waiting" ELSE "clean"]
  /\ UNCHANGED <<work, control, credit, asked>>

(* SHUTDOWN_MS ran out after a look that found the worker unfinished.      *)
ShutdownExpires(c) ==
  /\ closer[c] = "waiting" /\ Refreshed.active
  /\ st' = Refreshed /\ progress' = Drained
  /\ closer' = [closer EXCEPT ![c] = "contained"]
  /\ UNCHANGED <<work, control, credit, asked>>

----------------------------------------------------------------------------
(* The worker of run r.                                                    *)

Worker(r, pc) == work[r].pc = pc /\ UNCHANGED <<st, closer, asked>>
Finish(r, result) == [work EXCEPT ![r].pc = "finished", ![r].child = FALSE, ![r].result = result]

(* The operation's absolute deadline.                                      *)
Deadline(r) ==
  /\ work[r].pc \notin {"none", "finished"} /\ control[r] = "none"
  /\ control' = [control EXCEPT ![r] = "timeout"]
  /\ UNCHANGED <<st, work, progress, credit, closer, asked>>

(* Capture and validation; every stage checks the Control.  A validation   *)
(* runs no attempt and returns its diagnostics.                            *)
Prepare(r) ==
  /\ Worker(r, "prepare")
  /\ \/ /\ control[r] = "none"
        /\ work' = [work EXCEPT ![r].pc = "attempt", ![r].attempt = 1]
     \/ work' = Finish(r, "error")
     \/ work' = Finish(r, "PASS")
  /\ UNCHANGED <<progress, control, credit>>

(* supervise(): a stop latched before the spawn refuses it.                *)
Launch(r) ==
  /\ Worker(r, "attempt") /\ ~work[r].child
  /\ IF control[r] = "none"
     THEN work' = [work EXCEPT ![r].child = TRUE, ![r].sent = 0]
     ELSE work' = Finish(r, "error")
  /\ UNCHANGED <<progress, control, credit>>

Report(r, stage) ==
  /\ Worker(r, "attempt") /\ work[r].child /\ work[r].sent < MaxStages
  /\ work' = [work EXCEPT ![r].sent = @ + 1]
  /\ progress' = [progress EXCEPT ![r] = stage]
  /\ UNCHANGED <<control, credit>>

(* The executor returns after the child is reaped: with a record, or with  *)
(* the fault of a supervisor that could not contain the child itself.      *)
AttemptEnds(r, result) ==
  /\ Worker(r, "attempt") /\ work[r].child
  /\ work' = Finish(r, result)
  /\ UNCHANGED <<progress, control, credit>>

(* The record of a settled target exit: its attempt may have a successor.  *)
TargetExits(r) ==
  /\ Worker(r, "attempt") /\ work[r].child
  /\ work' = IF work[r].attempt = 1 /\ work[r].recover
             THEN [work EXCEPT ![r].pc = "check", ![r].child = FALSE]
             ELSE Finish(r, "FAIL")
  /\ UNCHANGED <<progress, control, credit>>

(* run_attempts(): the attempt's own Control and the remaining allowance.  *)
CheckRecovery(r) ==
  /\ Worker(r, "check")
  /\ \/ /\ control[r] = "none"
        /\ work' = [work EXCEPT ![r].pc = "admit"]
     \/ work' = Finish(r, "FAIL")
  /\ UNCHANGED <<progress, control, credit>>

(* Mutant: the successor is admitted on the earlier check alone.           *)
AdmitRecoveryUnchecked(r) ==
  /\ Worker(r, "admit")
  /\ credit' = [credit EXCEPT ![r] = TRUE]
  /\ work' = [work EXCEPT ![r].pc = "attempt", ![r].attempt = 2]
  /\ progress' = [progress EXCEPT ![r] = "preparing"]
  /\ UNCHANGED control

(* admit_recovery(), under the owner's admission gate.                     *)
AdmitRecovery(r) ==
  /\ Worker(r, "admit")
  /\ IF control[r] = "none" /\ ~credit[r]
     THEN /\ credit' = [credit EXCEPT ![r] = TRUE]
          /\ work' = [work EXCEPT ![r].pc = "attempt", ![r].attempt = 2]
          /\ progress' = [progress EXCEPT ![r] = "preparing"]
     ELSE /\ work' = Finish(r, "FAIL")
          /\ UNCHANGED <<progress, credit>>
  /\ UNCHANGED control

Work(r) ==
  \/ Prepare(r) \/ Launch(r)
  \/ \E s \in Stages : Report(r, s)
  \/ \E o \in Results : AttemptEnds(r, o)
  \/ TargetExits(r) \/ CheckRecovery(r) \/ AdmitRecovery(r)

Looks(c) == ShutdownLooks(c) \/ ShutdownExpires(c)

Next ==
  \/ Poll
  \/ \E r \in Runs, recover \in BOOLEAN : Reserve(r, recover)
  \/ \E r \in Runs : Stop(r) \/ Deadline(r) \/ Work(r)
  \/ \E c \in Closers : Shutdown(c) \/ Looks(c)

(* The window polls; workers run and their executors return (Supervision). *)
Fairness == WF_vars(Poll) /\ \A r \in Runs : WF_vars(Work(r))

Spec == Init /\ [][Next]_vars /\ Fairness

----------------------------------------------------------------------------
PCs == {"none", "prepare", "attempt", "check", "admit", "finished"}
Unsettled(r) == work[r].pc \notin {"none", "finished"}

States ==
  [closed : BOOLEAN, run : Runs \cup {None}, active : BOOLEAN,
   phase : Stages \cup {"idle", "stopping", "terminal"},
   result : [run : Runs \cup {None}, outcome : Results \cup {"none"}]]
Workers ==
  [pc : PCs, attempt : 0..2, recover : BOOLEAN, child : BOOLEAN,
   sent : 0..MaxStages, result : Results \cup {"none"}]

(* Every variable keeps its type.                                          *)
TypeOK ==
  /\ st \in States
  /\ work \in [Runs -> Workers]
  /\ progress \in [Runs -> Stages \cup {"none"}]
  /\ control \in [Runs -> {"none", "cancelled", "timeout"}]
  /\ credit \in [Runs -> BOOLEAN]
  /\ closer \in [Closers -> {"idle", "waiting", "clean", "contained"}]
  /\ asked \subseteq Runs

(* The slot covers the work: while any worker, and so any child or probe,  *)
(* is unsettled, the controller still shows that run as its active one.    *)
SlotCoversWork == \A r \in Runs : Unsettled(r) => st.active /\ st.run = r

(* A shutdown that reports success leaves nothing behind, then or later.   *)
CleanShutdown == \A c \in Closers : closer[c] = "clean" =>
                   ~st.active /\ \A r \in Runs : ~Unsettled(r)

(* A Stop never hits a run it does not name: a cancelled run was named by  *)
(* a client, or the controller was shut down.                              *)
StopIsNamed == \A r \in Runs : control[r] = "cancelled" => r \in asked \/ st.closed

(* The result shown is that of the run shown, and a run shows as terminal  *)
(* exactly when its slot has been released.                                *)
ViewIsConsistent ==
  /\ st.result.run \in {None, st.run}
  /\ (st.phase = "terminal") <=> (st.result # NoResult)
  /\ st.phase = "terminal" => ~st.active /\ work[st.run].result = st.result.outcome
  /\ st.run # None => (st.active <=> st.phase # "terminal")

(* What the window shows is true: the view is consistent, and an accepted  *)
(* Stop stays visible until the run settles, whatever evidence is still in *)
(* the channel.                                                            *)
ViewIsTrue ==
  [][/\ ViewIsConsistent'
     /\ st.phase = "stopping" /\ st'.run = st.run => st'.phase \in {"stopping", "terminal"}]_vars

(* A successor attempt starts only without a latched stop, once, after the *)
(* first attempt's child was reaped, and never once the run has settled.   *)
RecoveryIsAdmitted ==
  [][\A r \in Runs : work'[r].attempt = 2 /\ work[r].attempt # 2 =>
       /\ control[r] = "none" /\ ~credit[r] /\ ~work[r].child
       /\ work[r].recover /\ Unsettled(r)]_vars

(* A stopped run settles in the view.                                      *)
StopSettles == \A r \in Runs : control[r] # "none" ~> (st.run # r \/ st.phase = "terminal")

(* The controller implements the single slot.                              *)
Slot == INSTANCE Reservation WITH
  Ops      <- Runs,
  Free     <- None,
  holder   <- IF st.active THEN st.run ELSE None,
  admitted <- {r \in Runs : work[r].pc # "none"},
  settled  <- {r \in Runs : work[r].pc = "finished"},
  stopped  <- {r \in Runs : control[r] # "none"},
  closed   <- st.closed
ImplementsReservation == Slot!Spec
=============================================================================
