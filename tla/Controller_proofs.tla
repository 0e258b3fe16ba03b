------------------------- MODULE Controller_proofs -------------------------
(***************************************************************************)
(* Theorems about Controller, for every set of runs and of shutdown        *)
(* callers: its types, the invariant that the slot covers the work, and    *)
(* that the controller implements the single slot of Reservation.          *)
(***************************************************************************)
EXTENDS Controller, TLAPS

USE DEF Refreshed, Settling, Drained, Cancelled, Worker, Finish

(* A refresh keeps the run and the closing latch, and gives the slot up    *)
(* exactly when the worker in it has finished.                             *)
LEMMA RefreshKeepsRun ==
  ASSUME TypeOK, st.active => st.run \in Runs
  PROVE  /\ Refreshed \in States
         /\ Refreshed.run = st.run
         /\ Refreshed.closed = st.closed
         /\ Refreshed.active <=> st.active /\ work[st.run].pc # "finished"
  <1>1. CASE ~st.active
    BY <1>1 DEF TypeOK, States
  <1>2. CASE st.active /\ work[st.run].pc # "finished"
    <2>1. progress[st.run] \in Stages \cup {"none"}
      BY <1>2 DEF TypeOK
    <2> QED
      BY <1>2, <2>1 DEF TypeOK, States, Absorbed
  <1>3. CASE st.active /\ work[st.run].pc = "finished"
    <2>1. work[st.run].result \in Results \cup {"none"}
      BY <1>3 DEF TypeOK, Workers
    <2> QED
      BY <1>3, <2>1 DEF TypeOK, States
  <1> QED
    BY <1>1, <1>2, <1>3 DEF TypeOK, States

(* The active run is one whose worker was started.                         *)
ActiveHasWork == st.active => st.run \in Runs /\ work[st.run].pc # "none"

(* A shutdown has closed the controller; one that reported success found   *)
(* the slot free.                                                          *)
ClosersAreRight ==
  \A c \in Closers : /\ closer[c] # "idle" => st.closed
                     /\ closer[c] = "clean" => ~st.active

IInv == TypeOK /\ SlotCoversWork /\ ActiveHasWork /\ ClosersAreRight

LEMMA InitIInv == Init => IInv
  BY ControllerAssumption
  DEF Init, IInv, TypeOK, States, Workers, PCs, Stages, Results, NoResult,
      SlotCoversWork, Unsettled, ActiveHasWork, ClosersAreRight

(* What the steps of a worker write are workers.                           *)
LEMMA WorkerUpdates ==
  ASSUME NEW w \in Workers
  PROVE  /\ [w EXCEPT !.child = TRUE, !.sent = 0] \in Workers
         /\ w.sent < MaxStages => [w EXCEPT !.sent = @ + 1] \in Workers
         /\ \A n \in 0..2 : [w EXCEPT !.pc = "attempt", !.attempt = n] \in Workers
         /\ [w EXCEPT !.pc = "check", !.child = FALSE] \in Workers
         /\ [w EXCEPT !.pc = "admit"] \in Workers
         /\ \A o \in Results :
              [w EXCEPT !.pc = "finished", !.child = FALSE, !.result = o] \in Workers
         /\ \A b \in BOOLEAN : [w EXCEPT !.pc = "prepare", !.recover = b] \in Workers
  <1>1. 0 \in 0..MaxStages
    BY ControllerAssumption
  <1>2. ASSUME NEW n \in 0..MaxStages, NEW c \in BOOLEAN
        PROVE  /\ [w EXCEPT !.child = c, !.sent = n] \in Workers
               /\ [w EXCEPT !.sent = n] \in Workers
    BY DEF Workers
  <1>3. ASSUME NEW pc \in PCs, NEW n \in 0..2
        PROVE  [w EXCEPT !.pc = pc, !.attempt = n] \in Workers
    BY DEF Workers
  <1>4. w.sent < MaxStages => w.sent + 1 \in 0..MaxStages
    BY ControllerAssumption DEF Workers
  <1>5. ASSUME NEW pc \in PCs, NEW b \in BOOLEAN
        PROVE  /\ [w EXCEPT !.pc = pc, !.recover = b] \in Workers
               /\ [w EXCEPT !.pc = pc, !.child = b] \in Workers
               /\ [w EXCEPT !.pc = pc] \in Workers
    BY DEF Workers
  <1>6. ASSUME NEW pc \in PCs, NEW o \in Results
        PROVE  [w EXCEPT !.pc = pc, !.child = FALSE, !.result = o] \in Workers
    BY DEF Workers
  <1>7. {"attempt", "prepare", "check", "admit", "finished"} \subseteq PCs
    BY DEF PCs
  <1> QED
    BY <1>1, <1>2, <1>3, <1>4, <1>5, <1>6, <1>7

(* A step of a worker writes its own worker, which stays started.          *)
LEMMA WorkWrites ==
  ASSUME TypeOK, NEW r \in Runs, Work(r)
  PROVE  \E w \in Workers : w.pc # "none" /\ work' = [work EXCEPT ![r] = w]
  <1> DEFINE Writes(w) == w \in Workers /\ w.pc # "none" /\ work' = [work EXCEPT ![r] = w]
  <1> SUFFICES \E w : Writes(w)
    OBVIOUS
  <1>1. work[r] \in Workers
    BY DEF TypeOK
  <1>2. ASSUME NEW o \in Results, work' = Finish(r, o) PROVE \E w : Writes(w)
    <2> DEFINE next == [work[r] EXCEPT !.pc = "finished", !.child = FALSE, !.result = o]
    <2>1. next \in Workers /\ next.pc # "none"
      BY ZenonT(60), <1>1, WorkerUpdates DEF Workers
    <2>2. work' = [work EXCEPT ![r] = next]
      BY <1>2
    <2> QED
      BY <2>1, <2>2
  <1>3. ASSUME NEW n \in 0..2, work' = [work EXCEPT ![r].pc = "attempt", ![r].attempt = n]
        PROVE  \E w : Writes(w)
    <2> DEFINE next == [work[r] EXCEPT !.pc = "attempt", !.attempt = n]
    <2>1. next \in Workers /\ next.pc # "none"
      BY <1>1, WorkerUpdates DEF Workers
    <2>2. work' = [work EXCEPT ![r] = next]
      BY <1>3
    <2> QED
      BY <2>1, <2>2
  <1>4. CASE Prepare(r)
    BY <1>2, <1>3, <1>4 DEF Prepare, Results
  <1>5. CASE Launch(r)
    <2> DEFINE next == [work[r] EXCEPT !.child = TRUE, !.sent = 0]
    <2>1. next \in Workers /\ next.pc = work[r].pc
      BY <1>1, WorkerUpdates DEF Workers
    <2>2. control[r] = "none" => work' = [work EXCEPT ![r] = next]
      BY <1>5 DEF Launch
    <2> QED
      BY <1>2, <1>5, <2>1, <2>2 DEF Launch, Results
  <1>6. CASE \E s \in Stages : Report(r, s)
    <2> DEFINE next == [work[r] EXCEPT !.sent = @ + 1]
    <2>1. next \in Workers /\ next.pc = work[r].pc
      BY <1>1, <1>6, WorkerUpdates DEF Workers, Report
    <2>2. work' = [work EXCEPT ![r] = next] /\ work[r].pc = "attempt"
      BY <1>6 DEF Report
    <2> QED
      BY <2>1, <2>2
  <1>7. CASE \E o \in Results : AttemptEnds(r, o)
    BY <1>2, <1>7 DEF AttemptEnds
  <1>8. CASE TargetExits(r)
    <2> DEFINE next == [work[r] EXCEPT !.pc = "check", !.child = FALSE]
    <2>1. next \in Workers /\ next.pc # "none"
      BY <1>1, WorkerUpdates DEF Workers
    <2>2. work' = [work EXCEPT ![r] = next] \/ work' = Finish(r, "FAIL")
      BY <1>8 DEF TargetExits
    <2> QED
      BY <1>2, <2>1, <2>2 DEF Results
  <1>9. CASE CheckRecovery(r)
    <2> DEFINE next == [work[r] EXCEPT !.pc = "admit"]
    <2>1. next \in Workers /\ next.pc # "none"
      BY <1>1, WorkerUpdates DEF Workers
    <2>2. work' = [work EXCEPT ![r] = next] \/ work' = Finish(r, "FAIL")
      BY <1>9 DEF CheckRecovery
    <2> QED
      BY <1>2, <2>1, <2>2 DEF Results
  <1>10. CASE AdmitRecovery(r)
    BY <1>2, <1>3, <1>10 DEF AdmitRecovery, Results
  <1> QED
    BY <1>4, <1>5, <1>6, <1>7, <1>8, <1>9, <1>10 DEF Work

(* Every step of a worker leaves the state of the controller alone and     *)
(* moves only a worker that is not settled.                                *)
LEMMA WorkStep ==
  ASSUME TypeOK, NEW r \in Runs, Work(r)
  PROVE  /\ UNCHANGED <<st, closer, asked, control>>
         /\ work' \in [Runs -> Workers] /\ progress' \in [Runs -> Stages \cup {"none"}]
         /\ credit' \in [Runs -> BOOLEAN]
         /\ work[r].pc \notin {"none", "finished"} /\ work'[r].pc # "none"
         /\ \A q \in Runs \ {r} : work'[q] = work[q]
  <1>1. PICK w \in Workers : w.pc # "none" /\ work' = [work EXCEPT ![r] = w]
    BY WorkWrites
  <1>2. work' \in [Runs -> Workers] /\ work'[r] = w /\ \A q \in Runs \ {r} : work'[q] = work[q]
    BY <1>1 DEF TypeOK
  <1>3. /\ UNCHANGED <<st, closer, asked, control>>
        /\ work[r].pc \notin {"none", "finished"}
    BY DEF Work, Prepare, Launch, Report, AttemptEnds, TargetExits, CheckRecovery, AdmitRecovery
  <1>4. progress' \in [Runs -> Stages \cup {"none"}] /\ credit' \in [Runs -> BOOLEAN]
    <2>1. CASE UNCHANGED <<progress, credit>>
      BY <2>1 DEF TypeOK
    <2>2. CASE AdmitRecovery(r) \/ \E s \in Stages : Report(r, s)
      BY <2>2 DEF TypeOK, AdmitRecovery, Report, Stages
    <2> QED
      BY <2>1, <2>2 DEF Work, Prepare, Launch, AttemptEnds, TargetExits, CheckRecovery
  <1> QED
    BY <1>1, <1>2, <1>3, <1>4

(* A command that takes a look at the worker and changes no worker.        *)
LEMMA LookStep ==
  ASSUME IInv, st' = Refreshed, UNCHANGED work
  PROVE  /\ SlotCoversWork' /\ ActiveHasWork'
         /\ st' \in States /\ st'.closed = st.closed
         /\ ~st.active => ~st'.active
  <1>1. st.active => st.run \in Runs
    BY DEF IInv, ActiveHasWork
  <1>2. /\ Refreshed \in States /\ Refreshed.run = st.run
        /\ Refreshed.closed = st.closed
        /\ Refreshed.active <=> st.active /\ work[st.run].pc # "finished"
    BY <1>1, RefreshKeepsRun DEF IInv
  <1> HIDE DEF Refreshed
  <1> QED
    BY <1>2 DEF IInv, SlotCoversWork, Unsettled, ActiveHasWork

LEMMA DrainedType == ASSUME TypeOK PROVE Drained \in [Runs -> Stages \cup {"none"}]
  BY DEF TypeOK

LEMMA CancelledType ==
  ASSUME TypeOK PROVE Cancelled \in [Runs -> {"none", "cancelled", "timeout"}]
  BY DEF TypeOK

(* Every step keeps the invariant.                                         *)
LEMMA NextIInv == IInv /\ [Next]_vars => IInv'
  <1> SUFFICES ASSUME IInv, [Next]_vars PROVE IInv'
    OBVIOUS
  <1>1. CASE UNCHANGED vars
    BY <1>1 DEF vars, IInv, TypeOK, SlotCoversWork, Unsettled, ActiveHasWork, ClosersAreRight
  <1>2. CASE Poll
    <2>1. st' = Refreshed /\ progress' = Drained
      BY <1>2 DEF Poll
    <2>2. UNCHANGED <<work, control, credit, closer, asked>>
      BY <1>2 DEF Poll
    <2> HIDE DEF Refreshed, Drained
    <2> QED
      BY <2>1, <2>2, LookStep, DrainedType DEF IInv, TypeOK, ClosersAreRight
  <1>3. ASSUME NEW r \in Runs, NEW recover \in BOOLEAN, Reserve(r, recover) PROVE IInv'
    <2>1. st.active => st.run \in Runs
      BY DEF IInv, ActiveHasWork
    <2>2. /\ Refreshed \in States /\ Refreshed.closed = st.closed
          /\ Refreshed.active <=> st.active /\ work[st.run].pc # "finished"
      BY <2>1, RefreshKeepsRun DEF IInv
    <2> HIDE DEF Refreshed, Drained
    <2>3. \A q \in Runs : ~Unsettled(q)
      BY <1>3, <2>2 DEF IInv, SlotCoversWork, Unsettled, Reserve
    <2>4. \A c \in Closers : closer[c] = "idle"
      BY <1>3 DEF IInv, ClosersAreRight, Reserve
    <2>5. /\ st' = [Refreshed EXCEPT !.run = r, !.phase = "preparing", !.active = TRUE,
                                     !.result = NoResult]
          /\ work' = [work EXCEPT ![r].pc = "prepare", ![r].recover = recover]
          /\ UNCHANGED <<control, credit, closer, asked>>
          /\ progress' \in [Runs -> Stages \cup {"none"}]
      BY <1>3, DrainedType DEF Reserve, IInv
    <2>6. st' \in States /\ st'.active /\ st'.run = r
      <3> DEFINE V == [run : Runs \cup {None}, outcome : Results \cup {"none"}]
                 P == Stages \cup {"idle", "stopping", "terminal"}
      <3>1. NoResult \in V /\ "preparing" \in P
        BY DEF NoResult, Stages
      <3>2. States = [closed : BOOLEAN, run : Runs \cup {None}, active : BOOLEAN,
                      phase : P, result : V]
        BY Zenon DEF States
      <3> HIDE DEF P, V
      <3>3. st' \in States
        BY <2>2, <2>5, <3>1, <3>2
      <3>4. st'.active /\ st'.run = r
        BY <2>2, <2>5, <3>2
      <3> QED
        BY <3>3, <3>4
    <2>7. work' \in [Runs -> Workers] /\ work'[r].pc = "prepare"
          /\ \A q \in Runs \ {r} : work'[q] = work[q]
      <3>1. work[r] \in Workers /\ work \in [Runs -> Workers]
        BY DEF IInv, TypeOK
      <3>2. work' = [work EXCEPT ![r] = [work[r] EXCEPT !.pc = "prepare", !.recover = recover]]
        BY <2>5
      <3>3. [work[r] EXCEPT !.pc = "prepare", !.recover = recover] \in Workers
        BY <3>1, WorkerUpdates
      <3>4. work' \in [Runs -> Workers]
        BY <3>1, <3>2, <3>3
      <3>5. work'[r] = [work[r] EXCEPT !.pc = "prepare", !.recover = recover]
        BY <3>1, <3>2
      <3>6. work'[r].pc = "prepare"
        BY <3>1, <3>5 DEF Workers
      <3> QED
        BY <3>1, <3>2, <3>4, <3>6
    <2>8. TypeOK'
      BY <2>5, <2>6, <2>7 DEF IInv, TypeOK
    <2>9. SlotCoversWork' /\ ActiveHasWork'
      BY <2>3, <2>6, <2>7 DEF SlotCoversWork, Unsettled, ActiveHasWork
    <2>10. ClosersAreRight'
      BY <2>4, <2>5 DEF ClosersAreRight
    <2> QED
      BY <2>8, <2>9, <2>10 DEF IInv
  <1>4. ASSUME NEW r \in Runs, Stop(r) PROVE IInv'
    <2>1. control' \in [Runs -> {"none", "cancelled", "timeout"}]
      BY <1>4, CancelledType DEF Stop, IInv, TypeOK
    <2>2. st' \in States /\ UNCHANGED <<st.run, st.active, st.closed>>
      BY <1>4 DEF Stop, IInv, TypeOK, States
    <2> QED
      BY <1>4, <2>1, <2>2
      DEF Stop, IInv, TypeOK, SlotCoversWork, Unsettled, ActiveHasWork, ClosersAreRight
  <1>5. ASSUME NEW c \in Closers, Shutdown(c) PROVE IInv'
    <2>1. control' \in [Runs -> {"none", "cancelled", "timeout"}]
      BY <1>5, CancelledType DEF Shutdown, IInv, TypeOK
    <2>2. st' \in States /\ UNCHANGED <<st.run, st.active>> /\ st'.closed
      BY <1>5 DEF Shutdown, IInv, TypeOK, States
    <2> QED
      BY <1>5, <2>1, <2>2
      DEF Shutdown, IInv, TypeOK, SlotCoversWork, Unsettled, ActiveHasWork, ClosersAreRight
  <1>6. ASSUME NEW c \in Closers, Looks(c) PROVE IInv'
    <2>1. /\ st' = Refreshed /\ progress' = Drained /\ closer[c] = "waiting"
          /\ UNCHANGED <<work, control, credit, asked>>
          /\ closer' = [closer EXCEPT ![c] = closer'[c]]
          /\ closer'[c] \in {"waiting", "clean", "contained"}
          /\ closer'[c] = "clean" => ~Refreshed.active
      BY <1>6 DEF Looks, ShutdownLooks, ShutdownExpires, IInv, TypeOK
    <2> HIDE DEF Refreshed, Drained
    <2> QED
      BY <2>1, LookStep, DrainedType DEF IInv, TypeOK, ClosersAreRight
  <1>7. ASSUME NEW r \in Runs, Deadline(r) PROVE IInv'
    BY <1>7
    DEF Deadline, IInv, TypeOK, SlotCoversWork, Unsettled, ActiveHasWork, ClosersAreRight
  <1>8. ASSUME NEW r \in Runs, Work(r) PROVE IInv'
    <2>1. /\ UNCHANGED <<st, closer, asked, control>>
          /\ work' \in [Runs -> Workers] /\ progress' \in [Runs -> Stages \cup {"none"}]
          /\ credit' \in [Runs -> BOOLEAN]
          /\ work[r].pc \notin {"none", "finished"} /\ work'[r].pc # "none"
          /\ \A q \in Runs \ {r} : work'[q] = work[q]
      BY <1>8, WorkStep DEF IInv
    <2>2. st.active /\ st.run = r
      BY <2>1 DEF IInv, SlotCoversWork, Unsettled
    <2> QED
      BY <2>1, <2>2 DEF IInv, TypeOK, SlotCoversWork, Unsettled, ActiveHasWork, ClosersAreRight
  <1> QED
    BY <1>1, <1>2, <1>3, <1>4, <1>5, <1>6, <1>7, <1>8 DEF Next

LEMMA Invariance == Spec => []IInv
  <1>1. Init => IInv
    BY InitIInv
  <1>2. IInv /\ [Next]_vars => IInv'
    BY NextIInv
  <1> QED
    BY <1>1, <1>2, PTL DEF Spec

(* Every variable of the controller keeps its type.                        *)
THEOREM TypeCorrect == Spec => []TypeOK
  <1>1. IInv => TypeOK
    BY DEF IInv
  <1> QED
    BY <1>1, Invariance, PTL

(* At most one run is unsettled, and it is the one the slot holds.         *)
THEOREM SlotIsCovered == Spec => []SlotCoversWork
  <1>1. IInv => SlotCoversWork
    BY DEF IInv
  <1> QED
    BY <1>1, Invariance, PTL

(* A shutdown that reports success leaves no worker behind.                *)
THEOREM ShutdownIsClean == Spec => []CleanShutdown
  <1>1. IInv => CleanShutdown
    BY DEF IInv, SlotCoversWork, ClosersAreRight, CleanShutdown
  <1> QED
    BY <1>1, Invariance, PTL

----------------------------------------------------------------------------
(* A successor is admitted only after its predecessor.                     *)

(* Between two attempts there is no child, and there is only a gap where   *)
(* the run may recover.                                                    *)
GapIsQuiet == \A r \in Runs : work[r].pc \in {"check", "admit"} =>
                              ~work[r].child /\ work[r].recover

LEMMA InitGap == Init => GapIsQuiet
  BY DEF Init, GapIsQuiet

LEMMA NextGap == IInv /\ GapIsQuiet /\ [Next]_vars => GapIsQuiet'
  <1> SUFFICES ASSUME IInv, GapIsQuiet, [Next]_vars PROVE GapIsQuiet'
    OBVIOUS
  <1>1. CASE UNCHANGED work
    BY <1>1 DEF GapIsQuiet
  <1>2. ASSUME NEW r \in Runs, NEW recover \in BOOLEAN, Reserve(r, recover)
        PROVE  GapIsQuiet'
    BY <1>2 DEF Reserve, GapIsQuiet, IInv, TypeOK, Workers
  <1>3. ASSUME NEW r \in Runs, Work(r) PROVE GapIsQuiet'
    <2>1. /\ work \in [Runs -> Workers] /\ work' \in [Runs -> Workers]
          /\ \A q \in Runs \ {r} : work'[q] = work[q]
      BY <1>3, WorkStep DEF IInv, TypeOK
    <2>2. work'[r].pc \in {"check", "admit"} => ~work'[r].child /\ work'[r].recover
      <3> USE <2>1 DEF GapIsQuiet, Workers
      <3>1. CASE Prepare(r)
        BY <3>1 DEF Prepare
      <3>2. CASE Launch(r)
        BY <3>2 DEF Launch
      <3>3. CASE \E s \in Stages : Report(r, s)
        BY <3>3 DEF Report
      <3>4. CASE \E o \in Results : AttemptEnds(r, o)
        BY <3>4 DEF AttemptEnds
      <3>5. CASE TargetExits(r)
        BY <3>5 DEF TargetExits
      <3>6. CASE CheckRecovery(r)
        BY <3>6 DEF CheckRecovery
      <3>7. CASE AdmitRecovery(r)
        BY <3>7 DEF AdmitRecovery
      <3> QED
        BY <1>3, <3>1, <3>2, <3>3, <3>4, <3>5, <3>6, <3>7 DEF Work
    <2> QED
      BY <2>1, <2>2 DEF GapIsQuiet
  <1> QED
    BY <1>1, <1>2, <1>3
    DEF Next, vars, Poll, Stop, Deadline, Shutdown, Looks, ShutdownLooks, ShutdownExpires

(* The attempt number of a run becomes 2 in AdmitRecovery alone.           *)
LEMMA SecondAttempt ==
  ASSUME IInv, GapIsQuiet, [Next]_vars,
         NEW r \in Runs, work'[r].attempt = 2, work[r].attempt # 2
  PROVE  /\ control[r] = "none" /\ ~credit[r] /\ ~work[r].child
         /\ work[r].recover /\ Unsettled(r)
  <1>1. work \in [Runs -> Workers]
    BY DEF IInv, TypeOK
  <1>2. ~UNCHANGED work
    OBVIOUS
  <1>3. ASSUME NEW q \in Runs, NEW recover \in BOOLEAN, Reserve(q, recover) PROVE FALSE
    BY <1>1, <1>3 DEF Reserve, Workers
  <1>4. PICK q \in Runs : Work(q)
    BY <1>2, <1>3
    DEF Next, vars, Poll, Stop, Deadline, Shutdown, Looks, ShutdownLooks, ShutdownExpires
  <1>5. q = r
    BY <1>4, WorkStep DEF IInv
  <1>6. CASE AdmitRecovery(r)
    <2>1. ASSUME work' = Finish(r, "FAIL") PROVE FALSE
      BY <1>1, <2>1 DEF Workers
    <2>2. control[r] = "none" /\ ~credit[r] /\ work[r].pc = "admit"
      BY <1>6, <2>1 DEF AdmitRecovery
    <2>3. ~work[r].child /\ work[r].recover
      BY <2>2 DEF GapIsQuiet
    <2> QED
      BY <2>2, <2>3 DEF Unsettled
  <1> USE <1>1 DEF Workers
  <1>7. ~Prepare(r)
    BY DEF Prepare
  <1>8. ~Launch(r)
    BY DEF Launch
  <1>9. \A s \in Stages : ~Report(r, s)
    BY DEF Report
  <1>10. \A o \in Results : ~AttemptEnds(r, o)
    BY DEF AttemptEnds
  <1>11. ~TargetExits(r)
    BY DEF TargetExits
  <1>12. ~CheckRecovery(r)
    BY DEF CheckRecovery
  <1> QED
    BY <1>4, <1>5, <1>6, <1>7, <1>8, <1>9, <1>10, <1>11, <1>12 DEF Work

(* A successor attempt starts once, with no stop latched, after the child  *)
(* of its predecessor was reaped.                                          *)
THEOREM RecoveryIsGated == Spec => RecoveryIsAdmitted
  <1>1. IInv /\ GapIsQuiet /\ [Next]_vars
          => [\A r \in Runs : work'[r].attempt = 2 /\ work[r].attempt # 2 =>
                /\ control[r] = "none" /\ ~credit[r] /\ ~work[r].child
                /\ work[r].recover /\ Unsettled(r)]_vars
    BY SecondAttempt
  <1>2. Spec => []GapIsQuiet
    BY InitGap, NextGap, Invariance, PTL DEF Spec
  <1> QED
    BY <1>1, <1>2, Invariance, PTL DEF Spec, RecoveryIsAdmitted

(* A cancelled run was named by a client, or the controller is closed.     *)
THEOREM StopsAreNamed == Spec => []StopIsNamed
  <1>1. Init => StopIsNamed
    BY DEF Init, StopIsNamed
  <1>2. IInv /\ StopIsNamed /\ [Next]_vars => StopIsNamed'
    <2> SUFFICES ASSUME IInv, StopIsNamed, [Next]_vars PROVE StopIsNamed'
      OBVIOUS
    <2> USE DEF StopIsNamed
    <2>1. CASE UNCHANGED <<control, asked>> /\ st'.closed = st.closed
      BY <2>1
    <2>2. \/ UNCHANGED vars \/ Poll \/ (\E c \in Closers : Looks(c))
          \/ (\E r \in Runs, recover \in BOOLEAN : Reserve(r, recover))
          => UNCHANGED <<control, asked>> /\ st'.closed = st.closed
      <3>1. Refreshed.closed = st.closed /\ Refreshed \in States
        BY RefreshKeepsRun DEF IInv, ActiveHasWork
      <3> HIDE DEF Refreshed
      <3> QED
        BY <3>1 DEF vars, Poll, Looks, ShutdownLooks, ShutdownExpires, Reserve, States
    <2>3. ASSUME NEW r \in Runs, Stop(r) PROVE StopIsNamed'
      BY <2>3 DEF Stop, IInv, TypeOK, States
    <2>4. ASSUME NEW c \in Closers, Shutdown(c) PROVE StopIsNamed'
      BY <2>4 DEF Shutdown, IInv, TypeOK, States
    <2>5. ASSUME NEW r \in Runs, Deadline(r) PROVE StopIsNamed'
      BY <2>5 DEF Deadline, IInv, TypeOK
    <2>6. ASSUME NEW r \in Runs, Work(r) PROVE StopIsNamed'
      BY <2>1, <2>6, WorkStep DEF IInv
    <2> QED
      BY <2>1, <2>2, <2>3, <2>4, <2>5, <2>6 DEF Next
  <1> QED
    BY <1>1, <1>2, Invariance, PTL DEF Spec

----------------------------------------------------------------------------
(* What the view shows.                                                    *)

(* A run that shows as terminal is one whose worker has finished, so that  *)
(* the result shown is final.                                              *)
TerminalIsFinished ==
  st.phase = "terminal" => st.run \in Runs /\ work[st.run].pc = "finished"

ViewInv == ViewIsConsistent /\ TerminalIsFinished

LEMMA InitView == Init => ViewInv
  BY DEF Init, ViewInv, ViewIsConsistent, TerminalIsFinished, NoResult

(* A look at the worker keeps the view consistent, and takes a stop away   *)
(* only when the run has settled.                                          *)
LEMMA LookView ==
  ASSUME IInv, ViewInv, st' = Refreshed, UNCHANGED work
  PROVE  ViewInv' /\ (st.phase = "stopping" => st'.phase \in {"stopping", "terminal"})
  <1> USE DEF ViewInv, ViewIsConsistent, TerminalIsFinished
  <1>1. st.active => st.run \in Runs /\ st.run # None
    BY ControllerAssumption DEF IInv, ActiveHasWork
  <1>2. st \in States
    BY DEF IInv, TypeOK
  <1>3. CASE ~st.active
    BY <1>3
  <1>4. CASE st.active /\ work[st.run].pc # "finished"
    <2>1. progress[st.run] \in Stages \cup {"none"}
      BY <1>1, <1>4 DEF IInv, TypeOK
    <2>2. st' = st \/ (st.phase # "stopping" /\ st' = [st EXCEPT !.phase = progress[st.run]]
                                            /\ progress[st.run] \in Stages)
      BY <1>4, <2>1 DEF Absorbed
    <2>3. st'.run = st.run /\ st'.active /\ st'.result = st.result
          /\ (st'.phase = st.phase \/ (st.phase # "stopping" /\ st'.phase \in Stages))
      BY <1>2, <1>4, <2>2 DEF States
    <2> QED
      BY <1>1, <1>4, <2>3 DEF Stages
  <1>5. CASE st.active /\ work[st.run].pc = "finished"
    <2>1. /\ st'.run = st.run /\ ~st'.active /\ st'.phase = "terminal"
          /\ st'.result = [run |-> st.run, outcome |-> work[st.run].result]
      BY <1>2, <1>5 DEF States
    <2> QED
      BY <1>1, <1>5, <2>1 DEF NoResult
  <1> QED
    BY <1>3, <1>4, <1>5

(* Every step keeps the view consistent and shows an accepted stop until   *)
(* the run settles.                                                        *)
LEMMA NextView ==
  ASSUME IInv, ViewInv, [Next]_vars
  PROVE  /\ ViewInv'
         /\ st.phase = "stopping" /\ st'.run = st.run => st'.phase \in {"stopping", "terminal"}
  <1> DEFINE Shown == st.phase = "stopping" /\ st'.run = st.run
                        => st'.phase \in {"stopping", "terminal"}
  <1> SUFFICES ViewInv' /\ Shown
    OBVIOUS
  <1>1. st \in States /\ (st.active => st.run \in Runs /\ st.run # None)
    BY ControllerAssumption DEF IInv, TypeOK, ActiveHasWork
  <1>2. CASE UNCHANGED <<st, work>>
    BY <1>2 DEF ViewInv, ViewIsConsistent, TerminalIsFinished
  <1>3. CASE st' = Refreshed /\ UNCHANGED work
    BY <1>3, LookView
  <1>4. ASSUME NEW r \in Runs, NEW recover \in BOOLEAN, Reserve(r, recover)
        PROVE  ViewInv' /\ Shown
    <2>1. Refreshed \in States /\ Refreshed.run = st.run
          /\ (Refreshed.active <=> st.active /\ work[st.run].pc # "finished")
      BY <1>1, RefreshKeepsRun DEF IInv
    <2> HIDE DEF Refreshed
    <2>2. st'.run = r /\ st'.phase = "preparing" /\ st'.active /\ st'.result = NoResult
      BY <1>4, <2>1 DEF Reserve, States
    <2>3. r # None /\ NoResult.run = None
      BY ControllerAssumption DEF NoResult
    <2>4. st'.run # st.run
      <3>1. work[r].pc = "none" /\ (st.active => work[st.run].pc = "finished")
        BY <1>4, <2>1 DEF Reserve
      <3>2. CASE st.active
        BY <2>2, <3>1, <3>2
      <3>3. CASE ~st.active /\ st.phase = "terminal"
        BY <2>2, <3>1, <3>3 DEF ViewInv, TerminalIsFinished
      <3>4. CASE ~st.active /\ st.phase # "terminal"
        BY <2>2, <2>3, <3>4 DEF ViewInv, ViewIsConsistent
      <3> QED
        BY <3>2, <3>3, <3>4
    <2> QED
      BY <2>2, <2>3, <2>4 DEF ViewInv, ViewIsConsistent, TerminalIsFinished
  <1>5. ASSUME UNCHANGED work, st' = [st EXCEPT !.phase = "stopping"], st.active
        PROVE  ViewInv' /\ Shown
    BY <1>1, <1>5 DEF ViewInv, ViewIsConsistent, TerminalIsFinished, States
  <1>6. ASSUME NEW r \in Runs, Stop(r) PROVE ViewInv' /\ Shown
    BY <1>2, <1>5, <1>6 DEF Stop
  <1>7. ASSUME NEW c \in Closers, Shutdown(c) PROVE ViewInv' /\ Shown
    <2>1. /\ st'.run = st.run /\ st'.active = st.active /\ st'.result = st.result
          /\ st'.phase = IF st.active THEN "stopping" ELSE st.phase
          /\ UNCHANGED work
      BY <1>1, <1>7 DEF Shutdown, States
    <2> QED
      BY <1>1, <2>1 DEF ViewInv, ViewIsConsistent, TerminalIsFinished
  <1>8. ASSUME NEW r \in Runs, Work(r) PROVE ViewInv' /\ Shown
    <2>1. UNCHANGED st /\ work[r].pc # "finished" /\ \A q \in Runs \ {r} : work'[q] = work[q]
      BY <1>8, WorkStep DEF IInv
    <2> QED
      BY <2>1 DEF ViewInv, ViewIsConsistent, TerminalIsFinished
  <1> QED
    BY <1>2, <1>3, <1>4, <1>6, <1>7, <1>8
    DEF Next, vars, Poll, Deadline, Looks, ShutdownLooks, ShutdownExpires

(* What the window shows is true, whatever evidence is still in the        *)
(* channel and in whatever order it is drained.                            *)
THEOREM ViewShowsTruth == Spec => ViewIsTrue
  <1>1. Spec => []ViewInv
    BY InitView, NextView, Invariance, PTL DEF Spec
  <1>2. IInv /\ ViewInv /\ [Next]_vars
          => [/\ ViewIsConsistent'
              /\ st.phase = "stopping" /\ st'.run = st.run
                   => st'.phase \in {"stopping", "terminal"}]_vars
    BY NextView DEF ViewInv
  <1> QED
    BY <1>1, <1>2, Invariance, PTL DEF Spec, ViewIsTrue

----------------------------------------------------------------------------
(* The refinement.                                                         *)
LEMMA SlotInit == Init => Slot!Init
  BY DEF Init, Slot!Init

(* A look at the worker is a stutter of the slot, or its release.          *)
LEMMA LookImplements ==
  ASSUME IInv, st' = Refreshed, UNCHANGED <<work, control>>
  PROVE  Slot!Release \/ UNCHANGED Slot!slot
  <1>1. st.active => st.run \in Runs
    BY DEF IInv, ActiveHasWork
  <1>2. /\ st'.run = st.run /\ st'.closed = st.closed
        /\ st'.active <=> st.active /\ work[st.run].pc # "finished"
    BY <1>1, RefreshKeepsRun DEF IInv
  <1> HIDE DEF Refreshed
  <1>3. CASE st.active /\ work[st.run].pc = "finished"
    BY <1>1, <1>2, <1>3 DEF Slot!Release
  <1>4. CASE ~(st.active /\ work[st.run].pc = "finished")
    BY <1>2, <1>4 DEF Slot!slot, IInv, TypeOK, States
  <1> QED
    BY <1>3, <1>4

(* A step of a worker is a stutter of the slot, or settles its holder.     *)
LEMMA WorkImplements ==
  ASSUME IInv, NEW r \in Runs, Work(r)
  PROVE  Slot!Settle \/ UNCHANGED Slot!slot
  <1>1. /\ UNCHANGED <<st, control>>
        /\ work[r].pc \notin {"none", "finished"} /\ work'[r].pc # "none"
        /\ \A q \in Runs \ {r} : work'[q] = work[q]
    BY WorkStep DEF IInv
  <1>2. st.active /\ st.run = r /\ r # None
    BY <1>1, ControllerAssumption DEF IInv, SlotCoversWork, Unsettled
  <1>3. {q \in Runs : work'[q].pc # "none"} = {q \in Runs : work[q].pc # "none"}
    BY <1>1
  <1>4. CASE work'[r].pc = "finished"
    <2>1. {q \in Runs : work'[q].pc = "finished"}
            = {q \in Runs : work[q].pc = "finished"} \cup {r}
      BY <1>1, <1>4
    <2> QED
      BY <1>1, <1>2, <1>3, <2>1 DEF Slot!Settle
  <1>5. CASE work'[r].pc # "finished"
    <2>1. {q \in Runs : work'[q].pc = "finished"} = {q \in Runs : work[q].pc = "finished"}
      BY <1>1, <1>5
    <2> QED
      BY <1>1, <1>3, <2>1 DEF Slot!slot
  <1> QED
    BY <1>4, <1>5

(* Every step of the controller is a step of the slot or a stutter.        *)
LEMMA StepImplements == IInv /\ [Next]_vars => [Slot!Next]_(Slot!slot)
  <1> SUFFICES ASSUME IInv, [Next]_vars PROVE [Slot!Next]_(Slot!slot)
    OBVIOUS
  <1> USE DEF Slot!Next
  <1>1. CASE UNCHANGED vars
    BY <1>1 DEF vars, Slot!slot
  <1>2. CASE Poll
    <2>1. st' = Refreshed /\ UNCHANGED <<work, control>>
      BY <1>2 DEF Poll
    <2> QED
      BY <2>1, LookImplements
  <1>3. ASSUME NEW r \in Runs, NEW recover \in BOOLEAN, Reserve(r, recover)
        PROVE  Slot!Admit(r)
    <2>1. st.active => st.run \in Runs
      BY DEF IInv, ActiveHasWork
    <2>2. /\ Refreshed \in States /\ Refreshed.closed = st.closed
          /\ Refreshed.active <=> st.active /\ work[st.run].pc # "finished"
      BY <2>1, RefreshKeepsRun DEF IInv
    <2> HIDE DEF Refreshed
    <2>3. /\ st'.run = r /\ st'.active /\ st'.closed = st.closed
          /\ work[r].pc = "none" /\ ~st.closed /\ UNCHANGED control
          /\ work' = [work EXCEPT ![r].pc = "prepare", ![r].recover = recover]
      BY <1>3, <2>2 DEF Reserve, States
    <2>4. st.active => work[st.run].pc = "finished"
      BY <1>3, <2>2 DEF Reserve
    <2>5. \A q \in Runs : work'[q].pc = IF q = r THEN "prepare" ELSE work[q].pc
      BY <2>3 DEF IInv, TypeOK, Workers
    <2>6. {q \in Runs : work'[q].pc # "none"} = {q \in Runs : work[q].pc # "none"} \cup {r}
      BY <2>5
    <2>7. {q \in Runs : work'[q].pc = "finished"} = {q \in Runs : work[q].pc = "finished"}
      <3>1. work[r].pc = "none"
        BY <2>3
      <3>2. \A q \in Runs : work'[q].pc = "finished" <=> work[q].pc = "finished"
        BY <2>5, <3>1
      <3> QED
        BY <3>2
    <2> QED
      BY <2>1, <2>3, <2>4, <2>6, <2>7 DEF Slot!Admit, Slot!Vacant
  <1>4. ASSUME NEW r \in Runs, Stop(r) PROVE Slot!Stop \/ UNCHANGED Slot!slot
    <2>1. CASE st.run = r /\ st.active
      <3>1. /\ st'.run = st.run /\ st'.active = st.active /\ st'.closed = st.closed
            /\ UNCHANGED work /\ control' = Cancelled
        BY <1>4, <2>1 DEF Stop, IInv, TypeOK, States
      <3>2. {q \in Runs : control'[q] # "none"} = {q \in Runs : control[q] # "none"} \cup {r}
        BY <2>1, <3>1 DEF IInv, TypeOK
      <3> QED
        BY <2>1, <3>1, <3>2, ControllerAssumption DEF Slot!Stop
    <2>2. CASE ~(st.run = r /\ st.active)
      BY <1>4, <2>2 DEF Stop, Slot!slot
    <2> QED
      BY <2>1, <2>2
  <1>5. ASSUME NEW c \in Closers, Shutdown(c) PROVE Slot!Close
    <2>1. /\ st'.run = st.run /\ st'.active = st.active /\ st'.closed = TRUE
          /\ UNCHANGED work /\ control' = Cancelled
      BY <1>5 DEF Shutdown, IInv, TypeOK, States
    <2>2. CASE st.active
      <3>1. st.run \in Runs /\ st.run # None
        BY <2>2, ControllerAssumption DEF IInv, ActiveHasWork
      <3>2. {q \in Runs : control'[q] # "none"}
              = {q \in Runs : control[q] # "none"} \cup {st.run}
        BY <2>1, <2>2, <3>1 DEF IInv, TypeOK
      <3> QED
        BY <2>1, <2>2, <3>1, <3>2 DEF Slot!Close
    <2>3. CASE ~st.active
      BY <2>1, <2>3 DEF Slot!Close
    <2> QED
      BY <2>2, <2>3
  <1>6. ASSUME NEW c \in Closers, Looks(c) PROVE Slot!Release \/ UNCHANGED Slot!slot
    <2>1. st' = Refreshed /\ UNCHANGED <<work, control>>
      BY <1>6 DEF Looks, ShutdownLooks, ShutdownExpires
    <2> QED
      BY <2>1, LookImplements
  <1>7. ASSUME NEW r \in Runs, Deadline(r) PROVE Slot!Stop
    <2>1. st.active /\ st.run = r /\ r # None
      BY <1>7, ControllerAssumption DEF Deadline, IInv, SlotCoversWork, Unsettled
    <2>2. {q \in Runs : control'[q] # "none"} = {q \in Runs : control[q] # "none"} \cup {r}
      BY <1>7 DEF Deadline, IInv, TypeOK
    <2> QED
      BY <1>7, <2>1, <2>2 DEF Deadline, Slot!Stop
  <1>8. ASSUME NEW r \in Runs, Work(r) PROVE Slot!Settle \/ UNCHANGED Slot!slot
    BY <1>8, WorkImplements
  <1> QED
    BY <1>1, <1>2, <1>3, <1>4, <1>5, <1>6, <1>7, <1>8 DEF Next

(* The controller implements the single slot: an operation holds it from   *)
(* its admission until its work has settled, and a stop reaches no other.  *)
THEOREM SlotIsImplemented == Spec => ImplementsReservation
  <1>1. Init => Slot!Init
    BY SlotInit
  <1>2. IInv /\ [Next]_vars => [Slot!Next]_(Slot!slot)
    BY StepImplements
  <1> QED
    BY <1>1, <1>2, Invariance, PTL DEF Spec, ImplementsReservation, Slot!Spec
=============================================================================
