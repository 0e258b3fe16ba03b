------------------------------ MODULE Control ------------------------------
(***************************************************************************)
(* The cancellation latch every run, attempt and child process shares:     *)
(* `Control` of tools/runtime-comparison/src/model.rs, together with the   *)
(* callers whose correctness rests on it (Host::enter_workflow and         *)
(* Host::controlled_effect, child::adopt_stop and child::settled_primary). *)
(*                                                                         *)
(* Threads run the public operations concurrently.  One action is one      *)
(* atomic access: a compare-and-swap, a store, a lock acquisition, or one  *)
(* reading of the clock.  A thread's record holds its program counter, the *)
(* call it is in, the latch it is settling and where it continues.         *)
(***************************************************************************)
EXTENDS Naturals, FiniteSets

CONSTANTS Threads,    \* threads of one process
          Controls,   \* the Control values they share
          Parent,     \* Parent[c]: the owner of an attempt's control, or NoOne
          Native,     \* the controls whose native clock was started
          Calls,      \* Calls[t]: the calls thread t may make, [op, ctl, reason]
          Budgets,    \* bound: the numbers of calls the threads may make
          NoOne

Stops   == {"cancelled", "timeout"}
Bits    == Stops \cup {"launch", "recovery", "derived", "superseded", "phase"}
Ops     == {"stop", "adopt", "lost", "check", "launch", "recovery", "effect",
            "queue", "admit", "advance", "workflow", "settle", "primary"}
AllCalls == [op : Ops, ctl : Controls, reason : Stops]

ASSUME ControlAssumption ==
  /\ Controls # {}
  /\ Parent \in [Controls -> Controls \cup {NoOne}]
  /\ \A c \in Controls : Parent[c] # NoOne =>
       Parent[Parent[c]] = NoOne /\ Parent[c] \notin Native
  /\ Native \subseteq Controls
  /\ Calls \in [Threads -> SUBSET AllCalls]
  /\ Budgets \subseteq [Threads -> Nat]
  /\ NoOne \notin Controls \cup Threads

VARIABLES cause,       \* cause[c]: the set of latched bits
          transition,  \* transition[c]: 0 unscheduled, 1 queued, 2 admitted, 3 closed
          admission,   \* admission[c]: ordinary input is admitted
          stopped,     \* stopped[c]: stop_us, closed_us and cancelled are published
          gate,        \* gate[c]: holder of admission_gate
          clock,       \* clock[c]: the native stage clock
          clockLock,   \* clockLock[c]: holder of the native_clock mutex
          late,        \* the outer deadline, shared by owner and attempts, has passed
          entered,     \* entered[c]: the Host of c is in the workflow phase
          verdict,     \* verdict[c]: the control reader has adopted its verdict
          th,          \* th[t]: where thread t is
          left,        \* left[t]: calls t may still make
          grants,      \* history: calls of an admission operation that returned Ok
          report       \* report[c]: stop reason published as the primary fault

vars == <<cause, transition, admission, stopped, gate, clock, clockLock, late,
          entered, verdict, th, left, grants, report>>
latchVars == <<cause, transition, admission, stopped>>
hostVars  == <<entered, verdict, left, grants, report>>

PCs == {"idle", "ownergate", "gate", "owner", "readowner", "phase", "phasedone",
        "deadline", "stage", "latch", "close", "casLaunch", "casRecovery",
        "flag", "effect", "casQueue", "casAdmit", "granted", "advance",
        "advanceFailed", "open", "unopen", "settle", "await", "return"}

Admissions == {"launch", "recovery", "queue", "admit", "workflow"}
Idle == [pc |-> "idle", op |-> "check", ctl |-> CHOOSE c \in Controls : TRUE,
         reason |-> "timeout", goal |-> CHOOSE c \in Controls : TRUE, bits |-> {},
         after |-> "return", then |-> "return", seen |-> {}]

HasStop(s)  == s \cap Stops # {}
ReasonOf(s) == IF "timeout" \in s THEN "timeout" ELSE "cancelled"

Init ==
  /\ cause = [c \in Controls |-> {}]
  /\ transition = [c \in Controls |-> 0]
  /\ admission = [c \in Controls |-> FALSE]
  /\ stopped = [c \in Controls |-> FALSE]
  /\ gate = [c \in Controls |-> NoOne]
  /\ clock = [c \in Controls |-> [phase |-> 0, expired |-> FALSE, settled |-> FALSE]]
  /\ clockLock = [c \in Controls |-> NoOne]
  /\ late = FALSE
  /\ entered = [c \in Controls |-> FALSE]
  /\ verdict = [c \in Controls |-> FALSE]
  /\ th = [t \in Threads |-> Idle]
  /\ left \in Budgets
  /\ grants = [o \in Admissions |-> [c \in Controls |-> 0]]
  /\ report = [c \in Controls |-> NoOne]

----------------------------------------------------------------------------
(* Control transfer within a thread.                                       *)

At(t, pc) == th[t].pc = pc
Go(t, pc) == th' = [th EXCEPT ![t].pc = pc]
(* The first reading of check(): the owner's stop, when there is an owner. *)
CheckEntry(c) == IF Parent[c] = NoOne THEN "phase" ELSE "owner"
(* Run check() and continue at `then` when it returns Ok.                  *)
GoCheck(t, then) ==
  th' = [th EXCEPT ![t].pc = CheckEntry(th[t].ctl), ![t].then = then]
(* Run settle() on g with the given bits and continue at `after`.          *)
GoLatch(t, g, bits, after) ==
  th' = [th EXCEPT ![t].pc = "latch", ![t].goal = g, ![t].bits = bits, ![t].after = after]

(* The control whose gate admits a launch: the owner's when there is one.  *)
Authority(c) == IF Parent[c] = NoOne THEN c ELSE Parent[c]

(* The first step of a call, up to its first shared access.                *)
Entry(op, c) ==
  CASE op \in {"stop", "lost", "recovery"} -> "gate"
    [] op = "adopt" -> "latch"
    [] op = "launch" -> "ownergate"
    [] op = "effect" -> IF Parent[c] = NoOne THEN "gate" ELSE "ownergate"
    [] op = "settle" -> "settle"
    [] OTHER -> CheckEntry(c)

(* Where a call continues once its check() returned Ok.                    *)
Continue(op, c) ==
  CASE op = "launch" -> "casLaunch"
    [] op = "recovery" -> "casRecovery"
    [] op = "effect" -> "flag"
    [] op = "queue" -> "casQueue"
    [] op = "admit" -> "casAdmit"
    [] op = "advance" -> "advance"
    [] op = "workflow" -> IF c \in Native THEN "advance" ELSE "open"
    [] OTHER -> "return"

Call(t) ==
  /\ At(t, "idle")
  /\ left[t] > 0
  /\ \E k \in Calls[t] :
       th' = [th EXCEPT ![t] = [pc |-> Entry(k.op, k.ctl), op |-> k.op, ctl |-> k.ctl,
                                reason |-> k.reason, goal |-> k.ctl, bits |-> {k.reason},
                                after |-> "return", then |-> Continue(k.op, k.ctl),
                                seen |-> {}]]
  /\ left' = [left EXCEPT ![t] = @ - 1]
  /\ UNCHANGED <<latchVars, gate, clock, clockLock, late, entered, verdict, grants, report>>

(* Every guard a call took is dropped where it returns; the control reader *)
(* then announces its verdict.                                             *)
Return(t) ==
  /\ At(t, "return") \/ At(t, "granted")
  /\ grants' = IF At(t, "granted") THEN [grants EXCEPT ![th[t].op][th[t].ctl] = @ + 1]
               ELSE grants
  /\ gate' = [c \in Controls |-> IF gate[c] = t THEN NoOne ELSE gate[c]]
  /\ verdict' = [verdict EXCEPT ![th[t].ctl] = @ \/ th[t].op \in {"adopt", "lost"}]
  /\ th' = [th EXCEPT ![t] = Idle]
  /\ UNCHANGED <<latchVars, clock, clockLock, late, entered, left, report>>

----------------------------------------------------------------------------
(* The admission gates: the owner's first, then the control's own.         *)

(* Mutant: a launch is serialized by the attempt's own gate.               *)
TakeOwnerGateOwn(t) ==
  /\ At(t, "ownergate")
  /\ gate[th[t].ctl] = NoOne
  /\ gate' = [gate EXCEPT ![th[t].ctl] = t]
  /\ Go(t, IF th[t].op = "launch" THEN CheckEntry(th[t].ctl) ELSE "gate")
  /\ UNCHANGED <<latchVars, clock, clockLock, late, hostVars>>

TakeOwnerGate(t) ==
  /\ At(t, "ownergate")
  /\ gate[Authority(th[t].ctl)] = NoOne
  /\ gate' = [gate EXCEPT ![Authority(th[t].ctl)] = t]
  /\ Go(t, IF th[t].op = "launch" THEN CheckEntry(th[t].ctl) ELSE "gate")
  /\ UNCHANGED <<latchVars, clock, clockLock, late, hostVars>>

(* Mutant: a stop latches its cause without waiting for the gate.          *)
TakeGateHurried(t) ==
  /\ At(t, "gate")
  /\ IF th[t].op \in {"stop", "lost"}
     THEN Go(t, "latch") /\ UNCHANGED gate
     ELSE /\ gate[th[t].ctl] = NoOne
          /\ gate' = [gate EXCEPT ![th[t].ctl] = t]
          /\ Go(t, CheckEntry(th[t].ctl))
  /\ UNCHANGED <<latchVars, clock, clockLock, late, hostVars>>

TakeGate(t) ==
  /\ At(t, "gate")
  /\ gate[th[t].ctl] = NoOne
  /\ gate' = [gate EXCEPT ![th[t].ctl] = t]
  /\ Go(t, IF th[t].op \in {"stop", "lost"} THEN "latch"
            ELSE CheckEntry(th[t].ctl))
  /\ UNCHANGED <<latchVars, clock, clockLock, late, hostVars>>

----------------------------------------------------------------------------
(* settle(): the fetch_update that may latch a cause, then the stores that *)
(* close the transition and ordinary admission (one step: no operation     *)
(* reads two of the stored words).                                         *)

(* Mutant: an inherited verdict replaces any cause, provisional or not.    *)
LatchedAnyway(adopting, bits, s) ==
  IF adopting THEN (s \ (Stops \cup {"derived"})) \cup bits \cup {"superseded"}
  ELSE IF HasStop(s) THEN s ELSE s \cup bits

Latched(adopting, bits, s) ==
  IF ~HasStop(s) THEN s \cup bits
  ELSE IF adopting /\ "derived" \in s
       THEN (s \ (Stops \cup {"derived"})) \cup bits \cup {"superseded"}
       ELSE s

Latch(t) ==
  /\ At(t, "latch")
  /\ cause' = [cause EXCEPT ![th[t].goal] = Latched(th[t].op = "adopt", th[t].bits, @)]
  /\ Go(t, "close")
  /\ UNCHANGED <<transition, admission, stopped, gate, clock, clockLock, late, hostVars>>

(* Mutant: a stop closes the transition and leaves input admission open.   *)
CloseTransition(t) ==
  LET g == th[t].goal IN
  /\ At(t, "close")
  /\ transition' = [transition EXCEPT ![g] = 3]
  /\ stopped' = [stopped EXCEPT ![g] = TRUE]
  /\ th' = [th EXCEPT ![t].pc = th[t].after, ![t].goal = th[t].ctl,
                      ![t].bits = {}, ![t].after = "return"]
  /\ UNCHANGED <<cause, admission, gate, clock, clockLock, late, hostVars>>

Close(t) ==
  LET g == th[t].goal IN
  /\ At(t, "close")
  /\ transition' = [transition EXCEPT ![g] = 3]
  /\ stopped' = [stopped EXCEPT ![g] = TRUE]
  /\ admission' = [admission EXCEPT ![g] = FALSE]
  /\ th' = [th EXCEPT ![t].pc = th[t].after, ![t].goal = th[t].ctl,
                      ![t].bits = {}, ![t].after = "return"]
  /\ UNCHANGED <<cause, gate, clock, clockLock, late, hostVars>>

----------------------------------------------------------------------------
(* stop_state() and check(): the owner's stop, then the stage deadline,    *)
(* then the outer deadline, then the load that decides.                    *)

CheckOwner(t) ==
  LET o == Parent[th[t].ctl] IN
  /\ At(t, "owner")
  /\ IF ~HasStop(cause[o]) /\ late
     THEN GoLatch(t, o, {"timeout", "derived"}, "readowner")
     ELSE Go(t, "readowner")
  /\ UNCHANGED <<latchVars, gate, clock, clockLock, late, hostVars>>

ReadOwner(t) ==
  LET o == Parent[th[t].ctl] IN
  /\ At(t, "readowner")
  /\ IF HasStop(cause[o]) THEN GoLatch(t, th[t].ctl, {ReasonOf(cause[o])}, "phase")
     ELSE Go(t, "phase")
  /\ UNCHANGED <<latchVars, gate, clock, clockLock, late, hostVars>>

Expired(c) == c \in Native /\ ~clock[c].settled /\ clock[c].expired

CheckPhase(t) ==
  LET c == th[t].ctl IN
  /\ At(t, "phase")
  /\ \/ /\ HasStop(cause[c])
        /\ Go(t, "deadline")
        /\ UNCHANGED clockLock
     \/ /\ ~HasStop(cause[c])
        /\ clockLock[c] = NoOne
        /\ IF Expired(c)
           THEN /\ clockLock' = [clockLock EXCEPT ![c] = t]
                /\ GoLatch(t, c, {"timeout", "phase"}, "phasedone")
           ELSE /\ Go(t, "deadline")
                /\ UNCHANGED clockLock
  /\ UNCHANGED <<latchVars, gate, clock, late, hostVars>>

PhaseDone(t) ==
  /\ At(t, "phasedone")
  /\ clockLock' = [clockLock EXCEPT ![th[t].ctl] = NoOne]
  /\ Go(t, "deadline")
  /\ UNCHANGED <<latchVars, gate, clock, late, hostVars>>

(* A refused check ends the call; `seen` is the fault it captured.  A      *)
(* refusal after enter_workflow opened admission closes it again.          *)
Answer(t) ==
  CASE th[t].op = "primary" -> "await"
    [] th[t].op = "workflow" /\ th[t].then = "granted" -> "unopen"
    [] OTHER -> "return"

(* The fault of an expired stage names it: the clock is locked once more.  *)
Refused(t) == IF "phase" \in cause[th[t].ctl] THEN "stage" ELSE Answer(t)

ReadStage(t) ==
  /\ At(t, "stage")
  /\ clockLock[th[t].ctl] = NoOne
  /\ Go(t, Answer(t))
  /\ UNCHANGED <<latchVars, gate, clock, clockLock, late, hostVars>>

(* Mutant: an expired check stops through stop(), which takes the gate the *)
(* caller may hold.                                                        *)
CheckDeadlineGated(t) ==
  LET s == cause[th[t].ctl] IN
  /\ At(t, "deadline")
  /\ IF HasStop(s)
     THEN th' = [th EXCEPT ![t].pc = Refused(t), ![t].seen = s]
     ELSE IF late
          THEN th' = [th EXCEPT ![t].pc = "gate", ![t].op = "stop",
                                ![t].bits = {"timeout", "derived"}]
          ELSE Go(t, th[t].then)
  /\ UNCHANGED <<latchVars, gate, clock, clockLock, late, hostVars>>

(* Reading the clock after a load that saw no stop, then the load that     *)
(* decides: a stop latched between them is read as if the clock were not.  *)
CheckDeadline(t) ==
  LET s == cause[th[t].ctl] IN
  /\ At(t, "deadline")
  /\ IF HasStop(s)
     THEN th' = [th EXCEPT ![t].pc = Refused(t), ![t].seen = s]
     ELSE IF late
          THEN GoLatch(t, th[t].ctl, {"timeout", "derived"}, "deadline")
          ELSE Go(t, th[t].then)
  /\ UNCHANGED <<latchVars, gate, clock, clockLock, late, hostVars>>

----------------------------------------------------------------------------
(* Admission operations: each decides in one compare-and-swap; a lost      *)
(* compare-and-swap re-runs check() for the fault it reports.              *)

(* Mutant: the launch is admitted whenever no stop is latched.             *)
CasLaunchAgain(t) ==
  LET c == th[t].ctl IN
  /\ At(t, "casLaunch")
  /\ IF ~HasStop(cause[c])
     THEN /\ cause' = [cause EXCEPT ![c] = @ \cup {"launch"}]
          /\ Go(t, "granted")
     ELSE /\ GoCheck(t, "return")
          /\ UNCHANGED cause
  /\ UNCHANGED <<transition, admission, stopped, gate, clock, clockLock, late, hostVars>>

CasLaunch(t) ==
  LET c == th[t].ctl IN
  /\ At(t, "casLaunch")
  /\ IF cause[c] = {}
     THEN /\ cause' = [cause EXCEPT ![c] = {"launch"}]
          /\ Go(t, "granted")
     ELSE /\ GoCheck(t, "return")
          /\ UNCHANGED cause
  /\ UNCHANGED <<transition, admission, stopped, gate, clock, clockLock, late, hostVars>>

CasRecovery(t) ==
  LET c == th[t].ctl IN
  /\ At(t, "casRecovery")
  /\ IF cause[c] \cap (Stops \cup {"recovery"}) = {}
     THEN /\ cause' = [cause EXCEPT ![c] = @ \cup {"recovery"}]
          /\ Go(t, "granted")
     ELSE /\ GoCheck(t, "return")
          /\ UNCHANGED cause
  /\ UNCHANGED <<transition, admission, stopped, gate, clock, clockLock, late, hostVars>>

(* Mutant: the transition is counted up whatever its state is.             *)
CasTransitionBlind(t, pc, from) ==
  /\ At(t, pc)
  /\ transition' = [transition EXCEPT ![th[t].ctl] = @ + 1]
  /\ GoCheck(t, "granted")
  /\ UNCHANGED <<cause, admission, stopped, gate, clock, clockLock, late, hostVars>>

CasTransition(t, pc, from) ==
  LET c == th[t].ctl IN
  /\ At(t, pc)
  /\ IF transition[c] = from
     THEN /\ transition' = [transition EXCEPT ![c] = from + 1]
          /\ GoCheck(t, "granted")
     ELSE /\ GoCheck(t, "return")
          /\ UNCHANGED transition
  /\ UNCHANGED <<cause, admission, stopped, gate, clock, clockLock, late, hostVars>>

CasQueue(t) == CasTransition(t, "casQueue", 0)
CasAdmit(t) == CasTransition(t, "casAdmit", 1)

(* with_input_admission(): the flag is read after the check, and the       *)
(* effect runs under both gates.                                           *)
ReadFlag(t) ==
  /\ At(t, "flag")
  /\ Go(t, IF admission[th[t].ctl] THEN "effect" ELSE "return")
  /\ UNCHANGED <<latchVars, gate, clock, clockLock, late, hostVars>>

Effect(t) ==
  /\ At(t, "effect")
  /\ Go(t, "return")
  /\ UNCHANGED <<latchVars, gate, clock, clockLock, late, hostVars>>

----------------------------------------------------------------------------
(* The native stage clock.                                                 *)

(* native_transition() under the clock's mutex: enter_workflow() asks for  *)
(* the last stage, every other caller for the next one.  The new deadline  *)
(* is capped by the outer one and an inherited instant may shorten it.     *)
Advance(t) ==
  LET c == th[t].ctl
      opening == th[t].op = "workflow"
  IN
  /\ At(t, "advance")
  /\ clockLock[c] = NoOne
  /\ IF c \notin Native \/ clock[c].settled
     THEN /\ Go(t, "return")
          /\ UNCHANGED <<clock, clockLock>>
     ELSE IF clock[c].expired
     THEN /\ clockLock' = [clockLock EXCEPT ![c] = t]
          /\ GoLatch(t, c, {"timeout", "phase"}, "advanceFailed")
          /\ UNCHANGED clock
     ELSE IF HasStop(cause[c])
     THEN /\ GoCheck(t, "return")
          /\ UNCHANGED <<clock, clockLock>>
     ELSE IF clock[c].phase = 2 \/ (opening /\ clock[c].phase = 0)
     THEN /\ Go(t, "return")
          /\ UNCHANGED <<clock, clockLock>>
     ELSE /\ \E short \in BOOLEAN :
               clock' = [clock EXCEPT ![c].phase = @ + 1, ![c].expired = late \/ short]
          /\ Go(t, IF opening THEN "open" ELSE "return")
          /\ UNCHANGED clockLock
  /\ UNCHANGED <<latchVars, gate, late, hostVars>>

(* Mutant: an expired stage is refused with its clock still locked.        *)
AdvanceFailedLocked(t) ==
  /\ At(t, "advanceFailed")
  /\ GoCheck(t, "return")
  /\ UNCHANGED <<latchVars, gate, clock, clockLock, late, hostVars>>

AdvanceFailed(t) ==
  /\ At(t, "advanceFailed")
  /\ clockLock' = [clockLock EXCEPT ![th[t].ctl] = NoOne]
  /\ GoCheck(t, "return")
  /\ UNCHANGED <<latchVars, gate, clock, late, hostVars>>

SettleNative(t) ==
  LET c == th[t].ctl IN
  /\ At(t, "settle")
  /\ clockLock[c] = NoOne
  /\ clock' = [clock EXCEPT ![c].settled = @ \/ c \in Native]
  /\ Go(t, "return")
  /\ UNCHANGED <<latchVars, gate, clockLock, late, hostVars>>

(* enter_workflow(): the phase and the flag are set, then check() again.   *)
Open(t) ==
  LET c == th[t].ctl IN
  /\ At(t, "open")
  /\ IF entered[c]
     THEN /\ Go(t, "return")
          /\ UNCHANGED <<entered, admission>>
     ELSE /\ entered' = [entered EXCEPT ![c] = TRUE]
          /\ admission' = [admission EXCEPT ![c] = TRUE]
          /\ GoCheck(t, "granted")
  /\ UNCHANGED <<cause, transition, stopped, gate, clock, clockLock, late,
                 verdict, left, grants, report>>

Unopen(t) ==
  /\ At(t, "unopen")
  /\ admission' = [admission EXCEPT ![th[t].ctl] = FALSE]
  /\ Go(t, "return")
  /\ UNCHANGED <<cause, transition, stopped, gate, clock, clockLock, late, hostVars>>

(* Mutant: the provisional reason is published although it was superseded. *)
PrimaryStale(seen, final) == ReasonOf(seen)

(* settled_primary(): a provisional timeout waits for the reader's verdict *)
(* and is published as Cancelled when that verdict superseded it.          *)
Primary(seen, final) ==
  IF "derived" \in seen /\ "superseded" \in final /\ "cancelled" \in final
  THEN "cancelled" ELSE ReasonOf(seen)

Publish(t) ==
  LET c == th[t].ctl IN
  /\ At(t, "await")
  /\ "derived" \in th[t].seen => verdict[c]
  /\ report' = [report EXCEPT ![c] = Primary(th[t].seen, cause[c])]
  /\ Go(t, "return")
  /\ UNCHANGED <<latchVars, gate, clock, clockLock, late, entered, verdict, left, grants>>

----------------------------------------------------------------------------
(* Time: the outer deadline bounds every stage deadline.                   *)

PassDeadline ==
  /\ ~late
  /\ late' = TRUE
  /\ clock' = [c \in Controls |-> [clock[c] EXCEPT !.expired = TRUE]]
  /\ UNCHANGED <<latchVars, gate, clockLock, hostVars, th>>

PassStage(c) ==
  /\ c \in Native /\ ~clock[c].expired
  /\ clock' = [clock EXCEPT ![c].expired = TRUE]
  /\ UNCHANGED <<latchVars, gate, clockLock, late, hostVars, th>>

Step(t) ==
  \/ TakeOwnerGate(t) \/ TakeGate(t) \/ Latch(t) \/ Close(t)
  \/ CheckOwner(t) \/ ReadOwner(t) \/ CheckPhase(t) \/ PhaseDone(t)
  \/ CheckDeadline(t) \/ ReadStage(t) \/ CasLaunch(t) \/ CasRecovery(t)
  \/ CasQueue(t) \/ CasAdmit(t) \/ ReadFlag(t) \/ Effect(t)
  \/ Advance(t) \/ AdvanceFailed(t) \/ SettleNative(t) \/ Open(t) \/ Unopen(t)
  \/ Publish(t) \/ Return(t)

Next ==
  \/ \E t \in Threads : Call(t) \/ Step(t)
  \/ PassDeadline
  \/ \E c \in Controls : PassStage(c)

(* A thread that holds a call keeps running, and a control reader always   *)
(* gets a frame or the end of its pipe.                                    *)
Reads(t) == \E k \in Calls[t] : k.op \in {"adopt", "lost"}
Fairness ==
  /\ \A t \in Threads : WF_vars(Step(t))
  /\ \A t \in Threads : Reads(t) => WF_vars(Call(t))

Spec == Init /\ [][Next]_vars /\ Fairness

----------------------------------------------------------------------------
(* Every variable keeps its type: the latch holds known bits, and gates    *)
(* and clock locks are held by threads of this process.                    *)
TypeOK ==
  /\ cause \in [Controls -> SUBSET Bits]
  /\ transition \in [Controls -> 0..3]
  /\ admission \in [Controls -> BOOLEAN]
  /\ stopped \in [Controls -> BOOLEAN]
  /\ gate \in [Controls -> Threads \cup {NoOne}]
  /\ clock \in [Controls -> [phase : 0..2, expired : BOOLEAN, settled : BOOLEAN]]
  /\ clockLock \in [Controls -> Threads \cup {NoOne}]
  /\ late \in BOOLEAN
  /\ entered \in [Controls -> BOOLEAN]
  /\ verdict \in [Controls -> BOOLEAN]
  /\ th \in [Threads -> [pc : PCs, op : Ops, ctl : Controls, reason : Stops,
                         goal : Controls, bits : SUBSET Bits, after : PCs,
                         then : PCs, seen : SUBSET Bits]]
  /\ left \in [Threads -> Nat]
  /\ grants \in [Admissions -> [Controls -> Nat]]
  /\ report \in [Controls -> Stops \cup {NoOne}]

(* One-shot admissions: however threads race, at most one call of each of  *)
(* admit_launch, admit_recovery, queue_transition and admit_transition on  *)
(* a control returns Ok.                                                   *)
OneShot == \A o \in Admissions, c \in Controls : grants[o][c] <= 1

(* A launch is admitted only while neither the attempt nor its owner holds *)
(* an explicit Stop: the owner's gate makes the check and the latch of the *)
(* launch one step against a concurrent Stop of the owner.                 *)
LaunchBeforeStop ==
  [][\A c \in Controls :
       "launch" \in cause'[c] \ cause[c] =>
         /\ ~HasStop(cause[c])
         /\ "cancelled" \notin cause[Authority(c)]]_vars

(* Stop and input admission exclude each other: no controlled effect runs  *)
(* on a control, or under an owner, on which stop() latched a Cancelled.   *)
EffectExcludesStop ==
  \A t \in Threads : At(t, "effect") =>
    /\ "cancelled" \notin cause[th[t].ctl]
    /\ "cancelled" \notin cause[Authority(th[t].ctl)]

(* The two: what admission promises the code that asks for it.             *)
AdmissionHolds == OneShot /\ EffectExcludesStop

(* The first stop cause is final: it gives way only to the supervisor's    *)
(* verdict, only while it is a timeout this process derived, and no        *)
(* admission bit is ever withdrawn.                                        *)
FirstCauseWins ==
  [][\A c \in Controls :
       /\ cause[c] \cap {"launch", "recovery", "superseded", "phase"} \subseteq cause'[c]
       /\ HasStop(cause[c]) /\ cause'[c] \cap Stops # cause[c] \cap Stops =>
            "derived" \in cause[c] /\ "superseded" \in cause'[c]]_vars

(* After the reader has adopted the supervisor's verdict, whatever fault   *)
(* was published as the primary names the reason that is latched for good. *)
PrimaryMatchesVerdict ==
  \A c \in Controls : report[c] # NoOne => report[c] = ReasonOf(cause[c])

(* Every call returns: no order of the gates and the clock's mutex blocks, *)
(* and the wait for the supervisor's verdict ends.  The threads make       *)
(* boundedly many calls, so in the end they all stay out of them.          *)
CallsReturn == <>[](\A t \in Threads : At(t, "idle"))

(* A latched stop leaves ordinary admission closed for good.               *)
StopSettles ==
  \A c \in Controls : HasStop(cause[c]) ~> [](stopped[c] /\ ~admission[c])
=============================================================================
