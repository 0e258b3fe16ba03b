----------------------------- MODULE ScriptHost -----------------------------
(***************************************************************************)
(* One attempt of the script host on the controlled lane: the handles a    *)
(* script holds, the input it submits, and the cleanup that takes both     *)
(* back.                                                                   *)
(*                                                                         *)
(* Every call is carried by a thread of Callers (a clone of the Host is    *)
(* shared freely).  The state mutex makes a handler a few atomic sections; *)
(* what a call read in one section and uses in the next is in `caller`.    *)
(* Sequences are accepted in order, dispatched under the mutex `dispatch`, *)
(* and answered by one receipt each.  Stop, the fixture's target events    *)
(* and finish arrive between any two sections.                             *)
(*                                                                         *)
(* Pixels, regions and texts are abstracted to what a recognition answers; *)
(* the control's own latch is module Control, the native lane Engine.      *)
(***************************************************************************)
EXTENDS Naturals, Sequences, FiniteSets, SequencesExt

CONSTANTS Callers,  \* threads that call the host
          Plans     \* plans: a scenario, the calls and batches of its script, the target events it
                    \*   meets, its limits, and bounds on identities, generations and attempts

Limits == {"handles", "actions", "queue", "ids", "generations", "attempts"}
PlansAssumption ==
    \A p \in Plans : /\ p.scenario \in {"success", "partial", "uncertain", "held-work", "no-match"}
                     /\ {p.limits[l] : l \in Limits} \subseteq Nat

VARIABLES plan,     \* the plan of the run
          control,  \* the attempt's control and the flags beside the state mutex
          target,   \* the controlled target
          known,    \* observations the script has been told of
          state,    \* behind the state mutex
          input,    \*   its part about input
          worker,   \* the one physical worker
          budget,   \* live handles of the attempt
          caller    \* each caller's call

hostVars == <<plan, control, target, known, state, input, worker, budget, caller>>

NoObservation == [id |-> 0, frame |-> 0, attempt |-> 0, generation |-> 0]
Idle == [at |-> "idle", obs |-> NoObservation, batch |-> <<>>, wants |-> 0, order |-> 0, done |-> 0,
         status |-> "none"]

Fresh(attempt) == [attempt |-> attempt, stop |-> "none", admission |-> FALSE, failure |-> "none",
                   terminating |-> FALSE, successor |-> "none"]
FreshState == [phase |-> "Instantiating", entered |-> FALSE, late |-> FALSE, next |-> 1, handles |-> {},
               posts |-> 0, cleanup |-> "none"]
FreshInput == [queue |-> <<>>, active |-> 0, accepted |-> <<>>, receipts |-> {}, released |-> {},
               effects |-> <<>>, key |-> 0, button |-> 0, outcomes |-> {}, closed |-> FALSE, admitted |-> 0]

Init ==
    /\ plan \in Plans
    /\ control = Fresh(1)
    /\ target = [generation |-> 1, alive |-> TRUE, focus |-> TRUE, route |-> TRUE,
                 held |-> plan.scenario = "held-work"]
    /\ known = {}
    /\ state = FreshState
    /\ input = FreshInput
    /\ worker = "none"
    /\ budget = 0
    /\ caller = [c \in Callers |-> Idle]

-----------------------------------------------------------------------------
\* The events of an action.  A drag moves to each point, presses after the first, waits where
\* the point holds, and releases last; `holds` tells which of its points do.

PointEvents(holds, i) ==
    <<"move">> \o (IF i = 1 THEN <<"press">> ELSE <<>>) \o (IF holds[i] THEN <<"delay">> ELSE <<>>)
DragEvents(holds) == FlattenSeq([i \in DOMAIN holds |-> PointEvents(holds, i)]) \o <<"release">>

EventCount(action) ==
    CASE action.kind = "click" -> 3
      [] action.kind = "drag" -> Len(action.holds) + 2 + Cardinality({i \in DOMAIN action.holds : action.holds[i]})
      [] OTHER -> 1

Total(batch) == FoldSeq(LAMBDA action, n : EventCount(action) + n, 0, batch)
IsGesture(batch) == \E i \in DOMAIN batch : batch[i].kind = "drag"

\* The effects of a batch, each with the events it is charged for.
Charged(action) ==
    IF action.kind = "drag" THEN [i \in DOMAIN DragEvents(action.holds) |->
                                    [what |-> DragEvents(action.holds)[i], events |-> 1]]
    ELSE <<[what |-> action.kind, events |-> EventCount(action)]>>
Effects(batch) == FlattenSeq([i \in DOMAIN batch |-> Charged(batch[i])])
Submitted(batch, n) == FoldSeq(LAMBDA e, sum : e.events + sum, 0, SubSeq(Effects(batch), 1, n))

-----------------------------------------------------------------------------
\* The checks every call passes.

Check ==
    CASE control.failure # "none" -> control.failure
      [] control.failure = "none" /\ control.stop # "none" -> control.stop
      [] OTHER ->
           IF control.terminating \/ state.phase = "Finished" THEN "AdmissionClosed"
           ELSE IF ~target.alive THEN "TargetLost"
           ELSE IF state.phase = "Workflow" /\ ~control.admission THEN "AdmissionClosed"
           ELSE IF state.phase = "Readiness" /\ state.late THEN "Timeout"
           ELSE "ok"

\* Fails with the first fault; a Timeout of the check and the loss of the target are latched.
Fails(fault) ==
    control' = [control EXCEPT !.admission = FALSE, !.failure = IF @ = "none" THEN fault ELSE @]
Latches(fault) ==
    IF fault \in {"Timeout", "TargetLost", "TargetExited", "Closed"} THEN Fails(fault) ELSE UNCHANGED control

\* An observation is answered only in its attempt and generation, for a live target, while held.
Identity(o) ==
    CASE o.attempt # control.attempt \/ o.generation # target.generation -> "StaleIdentity"
      [] o.attempt = control.attempt /\ o.generation = target.generation /\ ~target.alive -> "TargetLost"
      [] OTHER -> "ok"
Observation(o) ==
    IF Identity(o) # "ok" THEN Identity(o)
    ELSE IF \E h \in state.handles : h.id = o.id /\ h.seen = o THEN "ok" ELSE "InvalidHandle"

InputCheck(o) ==
    IF Check # "ok" THEN Check
    ELSE IF ~control.admission \/ state.phase # "Workflow" THEN "AdmissionClosed"
    ELSE IF ~target.route THEN "RouteRefused"
    ELSE IF ~target.focus THEN "FocusRefused"
    ELSE IF input.closed THEN "AdmissionClosed"
    ELSE Observation(o)

Goto(c, at) == caller' = [caller EXCEPT ![c].at = at]
Return(c) == caller' = [caller EXCEPT ![c] = Idle]

-----------------------------------------------------------------------------
\* Phases of the attempt.

\* begin_readiness also takes one observation and releases it.
BeginReadiness ==
    /\ Check = "ok" /\ state.phase = "Instantiating" /\ budget < plan.limits.handles /\ state.next < plan.limits.ids
    /\ state' = [state EXCEPT !.phase = "Readiness", !.next = @ + 1]
    /\ UNCHANGED <<plan, control, target, known, input, worker, budget, caller>>

ReadinessExpires ==
    /\ state.phase = "Readiness" /\ ~state.late
    /\ state' = [state EXCEPT !.late = TRUE]
    /\ UNCHANGED <<plan, control, target, known, input, worker, budget, caller>>

EnterCheck(c) ==
    /\ caller[c].at = "idle" /\ state.phase \in {"Instantiating", "Readiness"}
    /\ Latches(Check)
    /\ IF Check = "ok" THEN Goto(c, "entering") ELSE UNCHANGED caller
    /\ UNCHANGED <<plan, target, known, state, input, worker, budget>>

\* begin_function leaves Instantiating, begin_workflow Readiness.
Enter(c) ==
    /\ caller[c].at = "entering"
    /\ IF state.phase \in {"Instantiating", "Readiness"}
       THEN /\ state' = [state EXCEPT !.phase = "Workflow"]
            /\ control' = [control EXCEPT !.admission = TRUE]
            /\ Goto(c, "entered")
       ELSE UNCHANGED <<state, control>> /\ Return(c)
    /\ UNCHANGED <<plan, target, known, input, worker, budget>>

Entered(c) ==
    /\ caller[c].at = "entered"
    /\ IF Check = "ok" THEN state' = [state EXCEPT !.entered = TRUE] /\ UNCHANGED control
       ELSE /\ control' = [control EXCEPT !.admission = FALSE,
                                          !.failure = IF @ = "none" /\ Check = "Timeout" THEN "Timeout" ELSE @]
            /\ UNCHANGED state
    /\ Return(c)
    /\ UNCHANGED <<plan, target, known, input, worker, budget>>

-----------------------------------------------------------------------------
\* Observations, recognitions and visual queries.

Available == state.phase # "Instantiating"
Hold(handle) == state' = [state EXCEPT !.handles = @ \cup {handle}, !.next = @ + 1]
Seen == [id |-> state.next, frame |-> state.next, attempt |-> control.attempt, generation |-> target.generation]
Ask(c) == caller[c].at = "idle" /\ Available /\ state.next < plan.limits.ids

\* The call checks, then takes the state mutex; a finish in between does not stop it.
ObserveCheck(c) ==
    /\ Ask(c)
    /\ Latches(Check)
    /\ IF Check = "ok" THEN Goto(c, "observing") ELSE UNCHANGED caller
    /\ UNCHANGED <<plan, target, known, state, input, worker, budget>>

\* The script learns the observation only if the check behind the handler passes too.
Observe(c) ==
    /\ caller[c].at = "observing" /\ state.next < plan.limits.ids
    /\ budget < plan.limits.handles
    /\ Hold([id |-> state.next, kind |-> "observation", seen |-> Seen, terminal |-> TRUE, work |-> FALSE])
    /\ budget' = budget + 1
    /\ Latches(Check)
    /\ known' = IF Check = "ok" THEN known \cup {Seen} ELSE known
    /\ Return(c)
    /\ UNCHANGED <<plan, target, input, worker>>

ObserveFull(c) ==
    /\ caller[c].at = "observing" /\ ~(budget < plan.limits.handles /\ state.next < plan.limits.ids)
    /\ Return(c)
    /\ UNCHANGED <<plan, control, target, known, state, input, worker, budget>>

Matches == plan.scenario # "no-match"

\* A recognition that finds nothing gives its permit back and leaves no handle.
Recognize(c, o) ==
    /\ Ask(c) /\ Check = "ok" /\ Observation(o) = "ok" /\ budget < plan.limits.handles
    /\ IF Matches
       THEN /\ Hold([id |-> state.next, kind |-> "query", seen |-> o, terminal |-> TRUE, work |-> FALSE])
            /\ budget' = budget + 1
       ELSE state' = [state EXCEPT !.next = @ + 1] /\ UNCHANGED budget
    /\ UNCHANGED <<plan, control, target, known, input, worker, caller>>

\* The physical worker, one at a time: a hold keeps it from ending until it is released.  It is
\* spawned before it is registered, and a release in between reaches it at its registration.
Spawns == worker = "none" /\ worker' = "spawned"

Register ==
    /\ worker = "spawned"
    /\ worker' = IF target.held THEN "held" ELSE "released"
    /\ UNCHANGED <<plan, control, target, known, state, input, budget, caller>>

Query(c, o) ==
    /\ Ask(c) /\ Check = "ok" /\ Observation(o) = "ok" /\ budget < plan.limits.handles
    /\ IF target.held THEN Spawns ELSE UNCHANGED worker
    /\ Hold([id |-> state.next, kind |-> "query", seen |-> o, terminal |-> FALSE, work |-> target.held])
    /\ budget' = budget + 1
    /\ UNCHANGED <<plan, control, target, known, input, caller>>

Drop(h) ==
    /\ state' = [state EXCEPT !.handles = @ \ {h}]
    /\ budget' = budget - 1

\* One turn of the wait: refused, expired, or a look at a new frame, which the query then holds.
QueryWait(c, h) ==
    /\ caller[c].at = "idle" /\ h.kind = "query" /\ ~h.terminal
    /\ \/ /\ Check # "ok" \/ Identity(h.seen) # "ok"
          /\ Drop(h)
          /\ Latches(IF Check # "ok" THEN Check ELSE Identity(h.seen))
          /\ UNCHANGED known
       \/ /\ Check = "ok" /\ Identity(h.seen) = "ok"
          /\ Drop(h)
          /\ UNCHANGED <<control, known>>
       \/ /\ Check = "ok" /\ Identity(h.seen) = "ok" /\ state.next < plan.limits.ids
          /\ ~h.work
          /\ state' = [state EXCEPT !.next = @ + 1,
                         !.handles = (@ \ {h}) \cup {[h EXCEPT !.terminal = Matches, !.seen = [Seen EXCEPT !.id = h.id]]}]
          /\ UNCHANGED <<control, budget>>
    /\ UNCHANGED <<plan, target, known, input, worker, caller>>

\* A postcondition compares two held observations, the later strictly newer.
Postcondition(c, o, checkpoint) ==
    /\ caller[c].at = "idle" /\ Check = "ok" /\ Available
    /\ Observation(o) = "ok" /\ Observation(checkpoint) = "ok" /\ checkpoint.frame < o.frame
    /\ state.posts < plan.limits.actions
    /\ state' = [state EXCEPT !.posts = @ + 1]
    /\ UNCHANGED <<plan, control, target, known, input, worker, budget, caller>>

\* The end of the work reaches the query or the dispatch that waits for it.
WorkerEnds ==
    /\ worker = "released"
    /\ worker' = "completed"
    /\ state' = [state EXCEPT !.handles = {[h EXCEPT !.work = FALSE] : h \in @}]
    /\ caller' = [c \in Callers |-> IF caller[c].at = "held" THEN [caller[c] EXCEPT !.at = "dispatch"]
                                    ELSE caller[c]]
    /\ UNCHANGED <<plan, control, target, known, input, budget>>

WorkerExits ==
    /\ worker = "completed"
    /\ worker' = "none"
    /\ UNCHANGED <<plan, control, target, known, state, input, budget, caller>>

-----------------------------------------------------------------------------
\* Input: submit.

Orders == DOMAIN input.accepted
Owed == {r.order : r \in input.receipts} \ input.released  \* receipts that hold a permit

SubmitCheck(c, o, batch) ==
    /\ caller[c].at = "idle" /\ Available /\ state.next < plan.limits.ids
    /\ Latches(IF Check # "ok" THEN Check ELSE InputCheck(o))
    /\ caller' = IF InputCheck(o) = "ok"
                 THEN [caller EXCEPT ![c] = [Idle EXCEPT !.at = "submitting", !.obs = o, !.batch = batch]]
                 ELSE caller
    /\ UNCHANGED <<plan, target, known, state, input, worker, budget>>

Admits(o, batch) ==
    /\ Observation(o) = "ok" /\ target.route /\ target.focus
    /\ Len(input.queue) < plan.limits.queue
    /\ budget < plan.limits.handles
    /\ Total(batch) <= plan.limits.actions - input.admitted
    /\ control.stop = "none" /\ control.admission /\ ~control.terminating /\ ~input.closed

Enqueue(c) ==
    /\ caller[c].at = "submitting" /\ Admits(caller[c].obs, caller[c].batch)
    /\ input' = [input EXCEPT !.accepted = Append(@, [batch |-> caller[c].batch, obs |-> caller[c].obs]),
                              !.queue = Append(@, Len(input.accepted) + 1),
                              !.admitted = @ + Total(caller[c].batch)]
    /\ state' = [state EXCEPT !.next = @ + 1]
    /\ budget' = budget + 1
    /\ Latches(Check)
    /\ Return(c)
    /\ UNCHANGED <<plan, target, known, worker>>

EnqueueRefused(c) ==
    /\ caller[c].at = "submitting"
    /\ ~Admits(caller[c].obs, caller[c].batch) \/ IsGesture(caller[c].batch)  \* its waits may not fit
    /\ Latches(Observation(caller[c].obs))
    /\ Return(c)
    /\ UNCHANGED <<plan, target, known, state, input, worker, budget>>

-----------------------------------------------------------------------------
\* Input: settle.  It dispatches the sequences before the one it is asked for, and that one.

Dispatching == {"taken", "holding", "held", "dispatch", "armed", "gesture", "poised", "waiting", "woken",
                "ending", "recording", "settling"}
DispatchFree == \A c \in Callers : caller[c].at \notin Dispatching
Queued(order) == \E i \in DOMAIN input.queue : input.queue[i] = order
Receipt(order, status, done) ==
    [order |-> order, status |-> status, done |-> done, events |-> Submitted(input.accepted[order].batch, done)]

Take(c, wants) ==
    /\ Queued(wants)
    /\ LET order == Head(input.queue) IN
         /\ caller' = [caller EXCEPT ![c] = [Idle EXCEPT !.at = "taken", !.wants = wants, !.order = order,
                         !.obs = input.accepted[order].obs, !.batch = input.accepted[order].batch]]
         /\ input' = [input EXCEPT !.queue = Tail(@), !.active = order]

\* Mutant: settle does not take the dispatch mutex.
SettleUnserialised(c, order) ==
    /\ caller[c].at = "idle"
    /\ Take(c, order)
    /\ UNCHANGED <<plan, control, target, known, state, worker, budget>>

Settle(c, order) ==
    /\ caller[c].at = "idle" /\ DispatchFree
    /\ Take(c, order)
    /\ UNCHANGED <<plan, control, target, known, state, worker, budget>>

Ends(c, at, status) == caller' = [caller EXCEPT ![c].at = at, ![c].status = status]
Refusal(fault) == IF fault = "Cancelled" THEN "Cancelled" ELSE "Refused"

\* The sequence is checked when it is taken; the waits of a gesture may no longer fit.
Vet(c) ==
    /\ caller[c].at = "taken"
    /\ \/ /\ InputCheck(caller[c].obs) = "ok"
          /\ Goto(c, IF target.held THEN "holding" ELSE "dispatch")
          /\ UNCHANGED control
       \/ /\ InputCheck(caller[c].obs) # "ok"
          /\ Ends(c, "recording", Refusal(InputCheck(caller[c].obs)))
          /\ Latches(InputCheck(caller[c].obs))
       \/ /\ InputCheck(caller[c].obs) = "ok" /\ IsGesture(caller[c].batch)
          /\ Ends(c, "recording", "Refused")
          /\ UNCHANGED control
    /\ UNCHANGED <<plan, target, known, state, input, worker, budget>>

HoldWork(c) ==
    /\ caller[c].at = "holding"
    /\ IF Observation(caller[c].obs) = "ok" /\ worker = "none"
       THEN Spawns /\ Goto(c, "held") /\ UNCHANGED control
       ELSE /\ Latches(Observation(caller[c].obs))
            /\ Ends(c, "recording", "Refused")
            /\ UNCHANGED worker
    /\ UNCHANGED <<plan, target, known, state, input, budget>>

HeldFails(c) ==
    /\ caller[c].at = "held"
    /\ \/ Check # "ok" /\ Latches(Check) /\ Ends(c, "recording", "Cancelled")
       \/ Check = "ok" /\ UNCHANGED control /\ Ends(c, "recording", "Uncertain")
    /\ UNCHANGED <<plan, target, known, state, input, worker, budget>>

\* One effect: what it does to the held key and button of the controlled sink.
Effect(c) == Effects(caller[c].batch)[caller[c].done + 1]
Applies(c) ==
    LET what == Effect(c).what
        order == caller[c].order
    IN  input' = [input EXCEPT !.effects = Append(@, [order |-> order, what |-> what]),
                    !.key = IF what = "down" /\ @ = 0 THEN order ELSE IF what = "up" THEN 0 ELSE @,
                    !.button = IF what = "press" THEN order ELSE IF what = "release" THEN 0 ELSE @]
Finished(c) == caller[c].done = Len(Effects(caller[c].batch))
Controlled == IF plan.scenario = "partial" THEN "Partial" ELSE IF plan.scenario = "uncertain" THEN "Uncertain" ELSE "none"

\* A batch without a gesture: each action is checked, and checked again under the state mutex.
Arm(c) ==
    /\ caller[c].at = "dispatch" /\ ~IsGesture(caller[c].batch)
    /\ IF Finished(c) THEN Ends(c, "recording", "Submitted") /\ UNCHANGED control
       ELSE IF InputCheck(caller[c].obs) = "ok" THEN Goto(c, "armed") /\ UNCHANGED control
       ELSE /\ Latches(InputCheck(caller[c].obs))
            /\ Ends(c, "recording", IF caller[c].done # 0 THEN "Partial" ELSE Refusal(InputCheck(caller[c].obs)))
    /\ UNCHANGED <<plan, target, known, state, input, worker, budget>>

Act(c) ==
    /\ caller[c].at = "armed"
    /\ IF /\ Observation(caller[c].obs) = "ok" /\ target.route /\ target.focus
          /\ control.stop = "none" /\ control.admission
       THEN /\ Applies(c)
            /\ caller' = [caller EXCEPT ![c].done = @ + 1, ![c].status = Controlled,
                                        ![c].at = IF Controlled = "none" THEN "dispatch" ELSE "recording"]
            /\ UNCHANGED control
       ELSE /\ Latches(Observation(caller[c].obs))
            /\ Ends(c, "recording", IF caller[c].done # 0 THEN "Partial" ELSE "Refused")
            /\ UNCHANGED input
    /\ UNCHANGED <<plan, target, known, state, worker, budget>>

\* A batch with a gesture fails at its first refused event.
Breaks(c, fault) ==
    /\ Latches(fault)
    /\ Ends(c, "ending", IF caller[c].done # 0 THEN "Partial" ELSE Refusal(fault))

GestureBegins(c) ==
    /\ caller[c].at = "dispatch" /\ IsGesture(caller[c].batch)
    /\ \/ control.stop = "none" /\ input.button = 0 /\ Goto(c, "gesture") /\ UNCHANGED control
       \/ Breaks(c, IF control.stop # "none" THEN control.stop ELSE "WaitExpired")
    /\ UNCHANGED <<plan, target, known, state, input, worker, budget>>

GestureCheck(c) ==
    /\ caller[c].at \in {"gesture", "waiting"}
    /\ IF Finished(c) THEN Ends(c, "ending", "Submitted") /\ UNCHANGED control
       ELSE IF InputCheck(caller[c].obs) # "ok" THEN Breaks(c, InputCheck(caller[c].obs))
       ELSE Goto(c, IF caller[c].at = "waiting" THEN "woken" ELSE "poised") /\ UNCHANGED control
    /\ UNCHANGED <<plan, target, known, state, input, worker, budget>>

\* What refuses an event under the admission gate and the state mutex.
Gate(c) ==
    CASE control.stop # "none" -> control.stop
      [] control.stop = "none" /\ ~control.admission -> "AdmissionClosed"
      [] OTHER ->
            IF Observation(caller[c].obs) # "ok" THEN Observation(caller[c].obs)
            ELSE IF control.terminating \/ state.phase # "Workflow" THEN "AdmissionClosed"
            ELSE IF ~target.route THEN "RouteRefused"
            ELSE IF ~target.focus THEN "FocusRefused"
            ELSE IF \/ Effect(c).what = "press" /\ input.button # 0
                    \/ Effect(c).what = "release" /\ input.button # caller[c].order
                 THEN "IncompleteCleanup"
            ELSE "ok"

\* A delay passes the gate, waits, and passes it again.
GestureEvent(c) ==
    /\ caller[c].at \in {"poised", "woken"}
    /\ IF Gate(c) # "ok" THEN Breaks(c, Gate(c)) /\ UNCHANGED input
       ELSE IF Effect(c).what = "delay" /\ caller[c].at = "poised"
       THEN Goto(c, "waiting") /\ UNCHANGED <<control, input>>
       ELSE /\ Applies(c)
            /\ caller' = [caller EXCEPT ![c].done = @ + 1, ![c].status = Controlled,
                                        ![c].at = IF Controlled = "none" THEN "gesture" ELSE "ending"]
            /\ UNCHANGED control
    /\ UNCHANGED <<plan, target, known, state, worker, budget>>

\* The button of an interrupted gesture is released at once, and reported.
ReleasesButton(c) == input.button = caller[c].order

\* Mutant: a gesture that broke does not close the input.
ClosesNothing(c) == input.closed

\* No ordinary input of any kind follows an interrupted gesture.
ClosesInput(c) == input.closed \/ (caller[c].status # "Submitted" /\ caller[c].done # 0)

EndGesture(c) ==
    /\ caller[c].at = "ending"
    /\ input' = [input EXCEPT !.closed = ClosesInput(c),
                    !.button = IF ReleasesButton(c) THEN 0 ELSE @,
                    !.outcomes = IF ReleasesButton(c) THEN @ \cup {[what |-> "button", order |-> caller[c].order]}
                                 ELSE @]
    /\ Goto(c, "recording")
    /\ UNCHANGED <<plan, control, target, known, state, worker, budget>>

Answer(c) == caller[c].status

Record(c) ==
    /\ caller[c].at = "recording"
    /\ input' = [input EXCEPT !.active = 0,
                    !.receipts = @ \cup {Receipt(caller[c].order, Answer(c), caller[c].done)}]
    /\ Goto(c, "settling")
    /\ UNCHANGED <<plan, control, target, known, state, worker, budget>>

\* The loop of settle ends at the receipt it was asked for, or when its sequence is gone.
SettleNext(c) ==
    /\ caller[c].at = "settling"
    /\ IF Queued(caller[c].wants) THEN Take(c, caller[c].wants) ELSE Return(c) /\ UNCHANGED input
    /\ UNCHANGED <<plan, control, target, known, state, worker, budget>>

-----------------------------------------------------------------------------
\* Release: a handle, the permit of a receipt, or a sequence that still waits.

ReleaseHandle(c, h) ==
    /\ caller[c].at = "idle"
    /\ Drop(h)
    /\ UNCHANGED <<plan, control, target, known, input, worker, caller>>

ReleaseReceipt(c, order) ==
    /\ caller[c].at = "idle" /\ order \in Owed
    /\ input' = [input EXCEPT !.released = @ \cup {order}]
    /\ budget' = budget - 1
    /\ UNCHANGED <<plan, control, target, known, state, worker, caller>>

ReleaseQueued(c, order) ==
    /\ caller[c].at = "idle" /\ Queued(order)
    /\ input' = [input EXCEPT !.queue = SelectSeq(@, LAMBDA other : other # order),
                              !.receipts = @ \cup {Receipt(order, "Cancelled", 0)},
                              !.released = @ \cup {order}]
    /\ budget' = budget - 1
    /\ UNCHANGED <<plan, control, target, known, state, worker, caller>>

-----------------------------------------------------------------------------
\* Stop, and the events of the controlled target.

Stop ==
    /\ \E reason \in {"Cancelled", "Timeout"} :
          \/ control.stop = "none" /\ control' = [control EXCEPT !.stop = reason, !.admission = FALSE]
          \/ control.successor = "queued" /\ control' = [control EXCEPT !.successor = "stopped"]
    /\ UNCHANGED <<plan, target, known, state, input, worker, budget, caller>>

ReleaseHold ==
    /\ target.held \/ worker = "held"
    /\ target' = [target EXCEPT !.held = FALSE]
    /\ worker' = IF worker = "held" THEN "released" ELSE worker
    /\ UNCHANGED <<plan, control, known, state, input, budget, caller>>

Fixture(event) ==
    /\ Check = "ok"
    /\ CASE event = "moved" -> target.generation < plan.limits.generations /\ UNCHANGED control
              /\ target' = [target EXCEPT !.generation = @ + 1]
         [] event = "gone" -> target' = [target EXCEPT !.alive = FALSE]
              /\ control' = [control EXCEPT !.admission = FALSE]
         [] event = "focus" -> target' = [target EXCEPT !.focus = FALSE] /\ UNCHANGED control
         [] event = "route" -> target' = [target EXCEPT !.route = FALSE] /\ UNCHANGED control
         [] event = "hold" -> target' = [target EXCEPT !.held = TRUE] /\ UNCHANGED control
         [] event = "exited" -> Fails("TargetExited") /\ UNCHANGED target
    /\ UNCHANGED <<plan, known, state, input, worker, budget, caller>>

-----------------------------------------------------------------------------
\* Finish: close, drain, wait within the cleanup budget, take back what is held.

FinishCloses(c) ==
    /\ caller[c].at = "idle" /\ state.cleanup # "clean"
    /\ control' = [control EXCEPT !.terminating = TRUE, !.admission = FALSE]
    /\ Goto(c, "closing")
    /\ UNCHANGED <<plan, target, known, state, input, worker, budget>>

FinishDrains(c) ==
    /\ caller[c].at = "closing"
    /\ IF state.cleanup = "clean" THEN Return(c) /\ UNCHANGED <<state, input, budget>>
       ELSE /\ state' = [state EXCEPT !.phase = "Finished", !.handles = {}]
            /\ input' = [input EXCEPT !.queue = <<>>,
                            !.receipts = @ \cup {Receipt(order, "Cancelled", 0) : order \in ToSet(input.queue)}]
            /\ budget' = budget - Cardinality(state.handles)
            /\ Goto(c, "draining")
    /\ UNCHANGED <<plan, control, target, known, worker>>

\* Mutant: finish does not wait for a dispatch that is still active.
CleanWithoutDispatch == worker = "none"

\* What a clean cleanup requires once the held key and button are taken back.
Clean == worker = "none" /\ input.active = 0

\* Either everything has settled or the budget of the cleanup has run out.
FinishSettles(c) ==
    /\ caller[c].at = "draining"
    /\ state' = [state EXCEPT !.cleanup = IF Clean THEN "clean" ELSE "incomplete"]
    /\ input' = IF input.active # 0 THEN [input EXCEPT !.released = {r.order : r \in input.receipts}]
                ELSE [input EXCEPT !.released = {r.order : r \in input.receipts}, !.key = 0, !.button = 0,
                        !.outcomes = @ \cup {o \in [what : {"key"}, order : {input.key}] : o.order # 0}
                                       \cup {o \in [what : {"button"}, order : {input.button}] : o.order # 0}]
    /\ budget' = budget - Cardinality(Owed)
    /\ Return(c)
    /\ UNCHANGED <<plan, control, target, known, worker>>

-----------------------------------------------------------------------------
\* A fresh attempt, scheduled behind a settled predecessor and admitted later.

Settled ==
    /\ control.stop = "none" /\ control.failure \in {"none", "TargetLost"}
    /\ state.phase = "Finished" /\ state.cleanup = "clean" /\ state.handles = {}
    /\ input.queue = <<>> /\ input.active = 0 /\ input.key = 0 /\ input.button = 0
    /\ Owed = {} /\ worker = "none"

ScheduleFresh ==
    /\ Settled /\ control.successor = "none" /\ control.attempt < plan.limits.attempts
    /\ control' = [control EXCEPT !.successor = "queued"]
    /\ UNCHANGED <<plan, target, known, state, input, worker, budget, caller>>

\* The predecessor answers nothing any more; the successor starts from a new state.
Admit ==
    /\ Settled /\ control.successor = "queued" /\ target.generation < plan.limits.generations
    /\ \A c \in Callers : caller[c].at = "idle"
    /\ control' = Fresh(control.attempt + 1)
    /\ target' = [generation |-> target.generation + 1, alive |-> TRUE, focus |-> TRUE, route |-> TRUE,
                  held |-> plan.scenario = "held-work"]
    /\ state' = [FreshState EXCEPT !.next = state.next]
    /\ input' = FreshInput
    /\ UNCHANGED <<plan, known, worker, budget, caller>>

-----------------------------------------------------------------------------

Calls(c) ==
    \/ EnterCheck(c) \/ Enter(c) \/ Entered(c)
    \/ ObserveCheck(c) \/ Observe(c) \/ ObserveFull(c)
    \/ "recognition" \in plan.uses /\ \E o \in known : Recognize(c, o)
    \/ "query" \in plan.uses /\ \E o \in known : Query(c, o)
    \/ \E h \in state.handles : QueryWait(c, h)
    \/ "recognition" \in plan.uses /\ \E o, checkpoint \in known : Postcondition(c, o, checkpoint)
    \/ \E h \in state.handles : ReleaseHandle(c, h)

Inputs(c) ==
    \/ \E o \in known, batch \in plan.batches : SubmitCheck(c, o, batch)
    \/ Enqueue(c) \/ EnqueueRefused(c)
    \/ \E order \in Orders : Settle(c, order)
    \/ Vet(c) \/ HoldWork(c) \/ HeldFails(c) \/ Arm(c) \/ Act(c)
    \/ GestureBegins(c) \/ GestureCheck(c) \/ GestureEvent(c) \/ EndGesture(c)
    \/ Record(c) \/ SettleNext(c)
    \/ \E order \in Orders : ReleaseReceipt(c, order)
    \/ \E order \in Orders : ReleaseQueued(c, order)

Next ==
    \/ "readiness" \in plan.uses /\ (BeginReadiness \/ ReadinessExpires)
    \/ \E c \in Callers : Calls(c)
    \/ \E c \in Callers : Inputs(c)
    \/ \E c \in Callers : FinishCloses(c) \/ FinishDrains(c) \/ FinishSettles(c)
    \/ Register \/ WorkerEnds \/ WorkerExits
    \/ Stop \/ ReleaseHold
    \/ \E event \in plan.events : Fixture(event)
    \/ ScheduleFresh \/ Admit

Spec == Init /\ [][Next]_hostVars

-----------------------------------------------------------------------------
\* The effects one sequence has had, in order.
Had(order) == SelectSeq(input.effects, LAMBDA e : e.order = order)
Promised(order) == [i \in DOMAIN Effects(input.accepted[order].batch) |->
                      [order |-> order, what |-> Effects(input.accepted[order].batch)[i].what]]

\* A receipt is the script's only evidence of what its input did (settle, host/sequence.rs): a
\* submitted sequence had exactly its effects and is charged its expanded events, a refused or
\* cancelled one had none, a partial or uncertain one a prefix whose length it names; sequences
\* have their effects in the order of acceptance and never interleave.
ReceiptsTellTheTruth ==
    /\ \A r \in input.receipts :
          /\ Had(r.order) = SubSeq(Promised(r.order), 1, r.done)
          /\ r.status = "Submitted" => /\ r.done = Len(Promised(r.order))
                                       /\ r.events = Total(input.accepted[r.order].batch)
          /\ r.status \in {"Refused", "Cancelled"} => r.done = 0 /\ Had(r.order) = <<>>
          /\ r.status = "Partial" => r.done # 0
    /\ \A r, other \in input.receipts : r.order = other.order => r = other
    /\ \A i, j \in DOMAIN input.effects : i < j => input.effects[i].order <= input.effects[j].order

\* Each live handle of the attempt's one budget (HandlePermit, host/admission.rs) has one owner: a
\* handle, a sequence that waits or runs, or a receipt not yet released.  A clean cleanup leaves no
\* input owner, key, button or worker, and nothing pressed without a release or a reported outcome;
\* and a released hold reaches the worker that was being started (start_held_work, host.rs).
Pressed(order, what) == \E i \in DOMAIN input.effects : input.effects[i] = [order |-> order, what |-> what]
OwnershipIsExact ==
    /\ budget = Cardinality(state.handles) + Len(input.queue) + (IF input.active = 0 THEN 0 ELSE 1)
                 + Cardinality(Owed)
    /\ state.cleanup = "clean" =>
          /\ input.queue = <<>> /\ input.active = 0 /\ Owed = {} /\ worker = "none"
          /\ input.key = 0 /\ input.button = 0
          /\ \A order \in Orders : \E r \in input.receipts : r.order = order
          /\ \A order \in Orders :
                Pressed(order, "press") => \/ Pressed(order, "release")
                                           \/ [what |-> "button", order |-> order] \in input.outcomes
    /\ input.button # 0 => input.button = input.active
    /\ worker = "held" => target.held

\* Once a gesture was interrupted, or the cleanup was clean, the attempt has no further effect
\* (input_closed and terminating, host/sequence.rs), whoever still dispatches or submits.
Interrupted == \E r \in input.receipts : r.status # "Submitted" /\ r.done # 0 /\ IsGesture(input.accepted[r.order].batch)
\* The step NothingAfterTheEnd allows.
NothingAfterTheEndStep ==
    (Interrupted \/ state.cleanup = "clean") /\ control'.attempt = control.attempt
      => input'.effects = input.effects

NothingAfterTheEnd == [][NothingAfterTheEndStep]_hostVars
=============================================================================
