------------------------------- MODULE Engine -------------------------------
(***************************************************************************)
(* The recognition engine of one attempt on the native lane: one capture   *)
(* session, the observations, results and queries a script holds, one      *)
(* query worker, and the input it sends.                                   *)
(*                                                                         *)
(* A call holds the engine's mutex from its admission to its result, so    *)
(* `call` is the one call in progress; what it takes from the session or   *)
(* the worker arrives in a later step.  Stop, the end of the capture and   *)
(* finish come in between: finish only tries the mutex.                    *)
(*                                                                         *)
(* The SDK is external: a session commits a frame while its capture lives, *)
(* recognition may find nothing, a sent sequence may end anywhere.         *)
(***************************************************************************)
EXTENDS Naturals, Sequences, FiniteSets, SequencesExt

CONSTANTS EngineScripts,  \* bound: per behaviour, the methods a script calls and the events of the world
          EngineHandles,  \* the attempt's handle limit
          EngineEvents,   \* input.max_actions
          EngineFrames,   \* capture.max_frames
          EngineBatches,  \* action sequences given to dispatch
          ClickHold,      \* input.click_hold_ms # 0
          MaxSerial       \* bound: identities issued

EngineBounds == {EngineHandles, EngineEvents, EngineFrames, MaxSerial} \subseteq Nat /\ ClickHold \in BOOLEAN

VARIABLES startup,  \* the script's request for its target
          engine,   \* the attempt's session, latches and counters
          owned,    \* observations, results and queries a script holds
          call,     \* the call that holds the mutex
          job,      \* the query worker's job and its reply
          source,   \* external: the captured window
          sink,     \* external: what the input sink has received
          live      \* the shared handle budget

engineVars == <<startup, engine, owned, call, job, source, sink, live>>

NoFrame == [generation |-> 0, sequence |-> 0]
NoQuery == [id |-> 0, seen |-> 0, frame |-> NoFrame, answer |-> 0, ended |-> FALSE]
NoCall == [at |-> "none", seen |-> 0, frame |-> NoFrame, query |-> NoQuery, batch |-> <<>>, sent |-> 0, permits |-> 0]
NoJob == [state |-> "none", frame |-> NoFrame, permit |-> 0, waited |-> FALSE]

Init ==
    /\ startup = [status |-> "none", bound |-> FALSE, link |-> "none", worker |-> "none"]
    /\ \E script \in EngineScripts : engine = [script |-> script, session |-> "none", stop |-> FALSE, closing |-> FALSE, cancelled |-> FALSE, admission |-> TRUE,
                 latest |-> NoFrame, retained |-> FALSE, frames |-> 0, events |-> 0, uncertain |-> FALSE,
                 incomplete |-> FALSE, process |-> 0, cleanup |-> "none", finishing |-> "none", told |-> "none"]
    /\ owned = [observations |-> {}, results |-> {}, queries |-> {}, serial |-> 0]
    /\ call = NoCall
    /\ job = NoJob
    /\ source = [generation |-> 1, sequence |-> 0, windows |-> {}, captured |-> 0, ended |-> FALSE, process |-> 1]
    /\ sink = [events |-> 0, unresolved |-> FALSE, pressed |-> FALSE]
    /\ live = 0

-----------------------------------------------------------------------------
\* The native sequence of an action batch.

Expanded(action) ==
    CASE action.kind = "down" -> <<[do |-> "press", what |-> action.key]>>
      [] action.kind = "up" -> <<[do |-> "release", what |-> action.key]>>
      [] action.kind = "click" -> <<[do |-> "move", what |-> "pointer"], [do |-> "press", what |-> "pointer"]>>
              \o (IF ClickHold THEN <<[do |-> "delay", what |-> "pointer"]>> ELSE <<>>)
              \o <<[do |-> "release", what |-> "pointer"]>>
Events(batch) == FlattenSeq([i \in DOMAIN batch |-> Expanded(batch[i])])
ActionEvents(action) == IF action.kind = "click" THEN (IF ClickHold THEN 4 ELSE 3) ELSE 1
Charge(batch) == FoldSeq(LAMBDA action, n : ActionEvents(action) + n, 0, batch)

\* The keys that are down after the first n actions, or {"refused"} once one is pressed while
\* held or released while not held.
HeldKeys(batch, n) ==
    FoldLeft(LAMBDA held, action :
               IF \/ "refused" \in held
                  \/ action.kind = "down" /\ action.key \in held
                  \/ action.kind = "up" /\ action.key \notin held THEN {"refused"}
               ELSE IF action.kind = "down" THEN held \cup {action.key}
               ELSE IF action.kind = "up" THEN held \ {action.key} ELSE held,
             {}, SubSeq(batch, 1, n))

\* A sequence must fit its event authority and be balanced within itself.
SequenceAllowed(batch, maximum) ==
    /\ Charge(batch) \in 1..maximum
    /\ HeldKeys(batch, Len(batch)) = {}

\* What a receipt calls submitted: the actions whose events were all submitted.
SubmittedActions(batch, events) ==
    Cardinality({n \in DOMAIN batch : Charge(SubSeq(batch, 1, n)) <= events})

-----------------------------------------------------------------------------
\* Checks.

Check == ~engine.stop /\ ~engine.closing
Commits == ~source.ended /\ ~engine.cancelled
Current(o) == o.frame.generation = engine.latest.generation
Holds(id) == \E o \in owned.observations : o.id = id /\ Current(o)
Observed(id) == CHOOSE o \in owned.observations : o.id = id

\* A call is admitted on a live session; a retained native frame must still be committed, except
\* for a wait, which may return a result already given.
Admitted(method) ==
    /\ call.at = "none" /\ engine.finishing \in {"none", "asked"} /\ Check
    /\ startup.status = "ready" /\ engine.session = "open" /\ method \in engine.script
    /\ method # "query_wait" /\ engine.retained => Commits

Fresh == owned.serial + 1
Leaves == call' = NoCall
Reserves(n) == live + n <= EngineHandles /\ live' = live + n

-----------------------------------------------------------------------------
\* The session.  Windows of the approved name: 1 is the approved process's, 2 that of a successor
\* with its process id, 3 another application's, 4 a second one of the approved process.

WindowProcess(window) == IF window = 2 THEN 2 ELSE 1

\* A probe of the process: its expected start against what the system reports now (0: absent).
RequireCurrent(expected, current) ==
    CASE current = 0 -> IF expected = 0 THEN "TargetLost" ELSE "TargetExited"
      [] current # 0 /\ expected \in {0, current} -> "ok"
      [] OTHER -> "TargetExited"

\* Of the approved executable's windows exactly one may match; a preselected process must still be
\* the one that was approved.
Preselected == "selected" \in engine.script
Select(windows) ==
    LET mine == windows \ {3} IN
    IF Preselected /\ 2 \in mine THEN {} ELSE mine

\* The desktop is asked for the configuration first (link), again while it has none; then a worker
\* looks for the window, again while there is none.  Any fault fails the attempt.
Alive == Check /\ startup.status # "failed" /\ engine.finishing = "none"
Schedules(bound) ==
    IF bound THEN startup' = [startup EXCEPT !.status = "pending", !.bound = TRUE, !.link = "none", !.worker = "probe"]
    ELSE startup' = [startup EXCEPT !.status = "pending", !.link = "asked"]
TargetStart ==
    /\ Alive /\ startup.status = "none" /\ Schedules(FALSE)
    /\ UNCHANGED <<engine, owned, call, job, source, sink, live>>
DesktopReplies ==
    /\ startup.link = "asked"
    /\ \E reply \in {"waits", "bound", "fault"} : startup' = [startup EXCEPT !.link = reply]
    /\ UNCHANGED <<engine, owned, call, job, source, sink, live>>
TargetPoll ==
    /\ Alive /\ startup.status = "pending" /\ startup.worker \in {"none", "ended"} /\ startup.link # "asked"
    /\ IF startup.link = "fault" THEN startup' = [startup EXCEPT !.status = "failed", !.link = "none"]
       ELSE Schedules(startup.bound \/ startup.link = "bound")
    /\ UNCHANGED <<engine, owned, call, job, source, sink, live>>

ProbeFails == startup' = [startup EXCEPT !.status = "failed", !.worker = "ended"] /\ Leaves

Discover ==
    /\ startup.worker = "probe" /\ call.at = "none" /\ engine.finishing \in {"none", "asked"}
    /\ LET windows == Select(source.windows)
           lost == Preselected /\ (RequireCurrent(engine.process, source.process) # "ok" \/ source.process # 1) IN
       IF ~Check \/ lost \/ Cardinality(windows) > 1 THEN ProbeFails /\ UNCHANGED engine
       ELSE /\ engine' = [engine EXCEPT !.process = IF Preselected THEN source.process ELSE @]
            /\ IF windows = {} THEN startup' = [startup EXCEPT !.worker = "ended"] /\ UNCHANGED call
               ELSE /\ \E window \in windows : call' = [NoCall EXCEPT !.at = "discovered", !.seen = window]
                    /\ UNCHANGED startup
    /\ UNCHANGED <<owned, job, source, sink, live>>

\* The retained window is described again, never discovered again, before its process is probed
\* and before the probe is believed; without a probe an exit can never be confirmed.
Describes == call.seen \in source.windows /\ Check
Describe ==
    /\ call.at = "discovered"
    /\ IF Describes THEN call' = [call EXCEPT !.at = "described"] /\ UNCHANGED startup ELSE ProbeFails
    /\ UNCHANGED <<engine, owned, job, source, sink, live>>
ProbeProcess ==
    /\ call.at = "described"
    /\ \E seen \in {0, source.process} : call' = [call EXCEPT !.at = "probed", !.sent = seen]
    /\ UNCHANGED <<startup, engine, owned, job, source, sink, live>>

BindProcess ==
    /\ call.at = "probed"
    /\ IF Describes THEN /\ engine' = [engine EXCEPT !.process = IF @ = 0 THEN call.sent ELSE @]
                        /\ call' = [call EXCEPT !.at = "opening"] /\ UNCHANGED startup
       ELSE ProbeFails /\ UNCHANGED engine
    /\ UNCHANGED <<owned, job, source, sink, live>>
OpenSession ==
    /\ call.at = "opening"
    /\ IF Describes /\ ~engine.cancelled
       THEN /\ engine' = [engine EXCEPT !.session = "open"] /\ source' = [source EXCEPT !.captured = call.seen]
            /\ startup' = [startup EXCEPT !.worker = "opened"] /\ Leaves
       ELSE ProbeFails /\ UNCHANGED <<engine, source>>
    /\ UNCHANGED <<owned, job, sink, live>>

\* An open session makes the target ready, unless the attempt ended meanwhile.
CaptureReady ==
    /\ startup.worker = "opened"
    /\ startup' = [startup EXCEPT !.worker = "ended", !.status = IF Check THEN "ready" ELSE "failed"]
    /\ UNCHANGED <<engine, owned, call, job, source, sink, live>>

ExitConfirmed == engine.process # 0 /\ RequireCurrent(engine.process, source.process) = "TargetExited"

\* A call refused because the capture ended: only the bound process can make it an exit.
CaptureTerminal ==
    /\ call.at = "none" /\ Check /\ engine.session = "open" /\ engine.retained /\ source.ended
    /\ engine.told = "none"
    /\ engine' = [engine EXCEPT !.told = IF ExitConfirmed THEN "TargetExited" ELSE "TargetLost"]
    /\ UNCHANGED <<startup, owned, call, job, source, sink, live>>

-----------------------------------------------------------------------------
\* Observations.

Observe ==
    /\ Admitted("observe") /\ engine.frames < EngineFrames /\ owned.serial < MaxSerial
    /\ Reserves(1)
    /\ call' = [NoCall EXCEPT !.at = "acquiring", !.permits = 1]
    /\ UNCHANGED <<startup, engine, owned, job, source, sink>>

\* The session gives a frame newer than the latest; it counts against the capture authority.
Acquire ==
    /\ call.at = "acquiring" /\ Commits
    /\ source.sequence > engine.latest.sequence
    /\ engine' = [engine EXCEPT !.frames = @ + 1]
    /\ call' = [call EXCEPT !.at = "acquired",
                            !.frame = [generation |-> source.generation, sequence |-> source.sequence]]
    /\ UNCHANGED <<startup, owned, job, source, sink, live>>

\* Every frame of the run must have the placement of the first one.
Placed == engine.latest = NoFrame \/ call.frame.generation = engine.latest.generation

\* A frame is retained as an observation, and latched, only once the session has committed it.
Commit ==
    /\ call.at = "acquired" /\ Placed /\ Check /\ Commits
    /\ owned' = [owned EXCEPT !.serial = Fresh, !.observations = @ \cup {[id |-> Fresh, frame |-> call.frame]}]
    /\ engine' = [engine EXCEPT !.latest = call.frame, !.retained = TRUE]
    /\ IF call.query = NoQuery THEN Leaves
       ELSE call' = [call EXCEPT !.at = "asking", !.query.seen = Fresh, !.query.frame = call.frame, !.permits = 0]
    /\ UNCHANGED <<startup, job, source, sink, live>>

\* A refused frame gives the permit back; within a query it ends the query with the error.
Failed ==
    /\ \/ call.at = "acquiring" /\ (~Commits \/ engine.closing \/ engine.stop)
       \/ call.at = "acquired" /\ ~(Placed /\ Check /\ Commits)
    /\ live' = live - call.permits
    /\ IF call.query = NoQuery THEN Leaves ELSE call' = [call EXCEPT !.at = "ending", !.permits = 0]
    /\ UNCHANGED <<startup, engine, owned, job, source, sink>>

-----------------------------------------------------------------------------
\* Recognition on a held observation, by the caller or, for a query, by its one worker; only
\* text recognition shares the worker's engine and waits for it.

\* Mutant: a new job does not wait for the one whose caller gave up.
IdleAssumed == TRUE

Idle == job.state # "running"

Recognize(id, ocr) ==
    /\ Admitted("recognize") /\ Holds(id) /\ (ocr => Idle) /\ owned.serial < MaxSerial
    /\ Reserves(1)
    /\ call' = [NoCall EXCEPT !.at = "recognizing", !.seen = id, !.permits = 1, !.frame = Observed(id).frame]
    /\ UNCHANGED <<startup, engine, owned, job, source, sink>>

Publish(frame) ==
    owned' = [owned EXCEPT !.serial = Fresh, !.results = @ \cup {[id |-> Fresh, frame |-> frame]}]

Recognized ==
    /\ call.at = "recognizing"
    /\ \/ Check /\ Commits /\ Publish(call.frame) /\ UNCHANGED live  \* found
       \/ UNCHANGED owned /\ live' = live - 1                        \* found nothing, or failed
    /\ Leaves
    /\ UNCHANGED <<startup, engine, job, source, sink>>

\* A query keeps an observation of its own on the frame it was asked about.
Query(id) ==
    /\ Admitted("query") /\ Holds(id) /\ Check /\ Commits /\ owned.serial + 1 < MaxSerial
    /\ Reserves(2)
    /\ LET frame == Observed(id).frame IN
       owned' = [owned EXCEPT !.serial = @ + 2, !.observations = @ \cup {[id |-> Fresh + 1, frame |-> frame]},
                              !.queries = @ \cup {[NoQuery EXCEPT !.id = Fresh, !.seen = Fresh + 1, !.frame = frame]}]
    /\ UNCHANGED <<startup, engine, call, job, source, sink>>

\* The query leaves the table while a call waits on it; an ended one only repeats its answer.
QueryWait(query) ==
    /\ Admitted("query_wait") /\ ~query.ended
    /\ owned' = [owned EXCEPT !.queries = @ \ {query}]
    /\ call' = [NoCall EXCEPT !.at = "asking", !.query = query]
    /\ UNCHANGED <<startup, engine, job, source, sink, live>>

Submit ==
    /\ call.at = "asking" /\ Check /\ Idle /\ Holds(call.query.seen)
    /\ Reserves(1)
    /\ job' = [state |-> "running", frame |-> call.query.frame, permit |-> 1, waited |-> TRUE]
    /\ call' = [call EXCEPT !.at = "waiting"]
    /\ UNCHANGED <<startup, engine, owned, source, sink>>

\* The worker ends its job; what nobody waits for any more dies with its permit.
JobEnds(outcome) ==
    /\ job.state = "running"
    /\ job' = IF job.waited THEN [job EXCEPT !.state = outcome, !.permit = IF outcome = "found" THEN 1 ELSE 0]
              ELSE NoJob
    /\ live' = IF job.waited /\ outcome = "found" THEN live ELSE live - 1
    /\ UNCHANGED <<startup, engine, owned, call, source, sink>>

\* The answer becomes a result on the query's own frame, and the query's answer from then on.
Answered ==
    /\ call.at = "waiting" /\ job.state = "found" /\ Check /\ Holds(call.query.seen) /\ owned.serial < MaxSerial
    /\ owned' = [owned EXCEPT !.serial = Fresh, !.results = @ \cup {[id |-> Fresh, frame |-> job.frame]},
                              !.queries = @ \cup {[call.query EXCEPT !.ended = TRUE, !.answer = Fresh]}]
    /\ job' = NoJob /\ Leaves
    /\ UNCHANGED <<startup, engine, source, sink, live>>

Without(observations, id) == {o \in observations : o.id # id}

\* Nothing found: the query drops its observation and observes a newer frame.
NextFrame ==
    /\ call.at = "waiting" /\ job.state = "nothing" /\ Check
    /\ LET seen == Without(owned.observations, call.query.seen)
           freed == live - Cardinality(owned.observations \ seen)
           more == engine.frames < EngineFrames /\ freed < EngineHandles /\ owned.serial < MaxSerial IN
       /\ owned' = [owned EXCEPT !.observations = seen]
       /\ live' = IF more THEN freed + 1 ELSE freed
       /\ call' = [call EXCEPT !.at = IF more THEN "acquiring" ELSE "ending", !.permits = IF more THEN 1 ELSE 0]
    /\ job' = NoJob
    /\ UNCHANGED <<startup, engine, source, sink>>

\* The wait fails: its deadline, a stop, no handle left, a stale frame or the worker's error.
\* The token ends the running job, which is left behind.
GivesUp ==
    /\ call.at \in {"asking", "waiting"}
    /\ call' = [call EXCEPT !.at = "ending"]
    /\ job' = IF call.at = "asking" THEN job
              ELSE IF job.state = "running" THEN [job EXCEPT !.waited = FALSE] ELSE NoJob
    /\ live' = IF call.at = "waiting" /\ job.state = "found" THEN live - 1 ELSE live
    /\ UNCHANGED <<startup, engine, owned, source, sink>>

\* A failed query drops its observation and keeps its failure as its answer.
QueryFails ==
    /\ call.at = "ending" /\ Leaves
    /\ LET seen == Without(owned.observations, call.query.seen) IN
       /\ owned' = [owned EXCEPT !.observations = seen, !.queries = @ \cup {[call.query EXCEPT !.ended = TRUE]}]
       /\ live' = live - Cardinality(owned.observations \ seen)
    /\ UNCHANGED <<startup, engine, job, source, sink>>

\* Release is admitted after a stop: it frees the handle, and an unfinished query's observation.
Release(id) ==
    /\ call.at = "none" /\ engine.finishing \in {"none", "asked"}
    /\ LET query == {q \in owned.queries : q.id = id}
           kept == {o \in owned.observations : o.id # id /\ \A q \in query : q.ended \/ q.seen # o.id}
           after == [owned EXCEPT !.queries = @ \ query, !.observations = kept, !.results = {r \in @ : r.id # id}]
           Size(o) == Cardinality(o.queries) + Cardinality(o.observations) + Cardinality(o.results) IN
       /\ after # owned
       /\ owned' = after
       /\ live' = live - (Size(owned) - Size(after))
    /\ UNCHANGED <<startup, engine, call, job, source, sink>>

-----------------------------------------------------------------------------
\* Input.

\* The whole expansion is charged before anything is sent, whatever comes of it.
Dispatch(batch, id) ==
    /\ Admitted("dispatch") /\ engine.admission /\ ~engine.incomplete /\ Holds(id)
    /\ SequenceAllowed(batch, EngineEvents - engine.events)
    /\ engine' = [engine EXCEPT !.events = @ + Len(Events(batch))]
    /\ call' = [NoCall EXCEPT !.at = "sending", !.batch = batch]
    /\ UNCHANGED <<startup, owned, job, source, sink, live>>

\* What the first n events of a batch leave pressed.
Down(batch, n) ==
    LET events == Events(batch)
        LastOf(what) == CHOOSE i \in 1..n : events[i].what = what /\ \A j \in i+1..n : events[j].what # what
    IN {what \in {events[i].what : i \in 1..n} :
           /\ \E i \in 1..n : events[i].what = what /\ events[i].do = "press"
           /\ events[LastOf(what)].do \in {"press", "delay"}}

\* Mutant: a receipt is believed complete unless its cleanup failed.
UncertainLater(n, batch, held) == held

Uncertain(n, batch, held) == n # Len(Events(batch)) \/ held

\* A receipt for the first n events; the sink's cleanup of what they left pressed may fail (held).
\* An error without a receipt only leaves the effect uncertain, nothing pressed.
Sent(n, held, receipt) ==
    /\ call.at = "sending" /\ n \in 0..Len(Events(call.batch))
    /\ held => Down(call.batch, n) # {} /\ receipt
    /\ sink' = [events |-> sink.events + n, unresolved |-> sink.unresolved \/ ~receipt \/ n # Len(Events(call.batch)),
                pressed |-> sink.pressed \/ held \/ (n = Len(Events(call.batch)) /\ Down(call.batch, n) # {})]
    /\ engine' = [engine EXCEPT !.uncertain = @ \/ ~receipt \/ Uncertain(n, call.batch, held),
                                !.incomplete = @ \/ held]
    /\ IF receipt THEN call' = [call EXCEPT !.at = "sent", !.sent = n] ELSE Leaves
    /\ UNCHANGED <<startup, owned, job, source, live>>

ReceiptReturns ==
    /\ call.at = "sent" /\ Leaves
    /\ UNCHANGED <<startup, engine, owned, job, source, sink, live>>

-----------------------------------------------------------------------------
\* Stop, and the world.

Stop ==
    /\ ~engine.stop /\ "stopped" \in engine.script
    /\ engine' = [engine EXCEPT !.stop = TRUE]
    /\ UNCHANGED <<startup, owned, call, job, source, sink, live>>

\* The bridge turns a stop into the cancellation of the SDK's operations.
Bridge ==
    /\ engine.stop /\ ~engine.cancelled
    /\ engine' = [engine EXCEPT !.cancelled = TRUE, !.admission = FALSE]
    /\ UNCHANGED <<startup, owned, call, job, source, sink, live>>

World ==
    /\ \/ /\ engine.session = "none"  \* a window comes
          /\ \E window \in {1} \cup (IF "windows" \in engine.script THEN {3, 4} ELSE {}) :
                window \notin source.windows /\ source.process = 1 /\ source' = [source EXCEPT !.windows = @ \cup {window}]
       \/ source.process = 2 /\ source.captured = 0 /\ source.windows = {} /\ source' = [source EXCEPT !.windows = {2}]
       \/ source.captured # 0 /\ source.sequence < EngineFrames /\ source' = [source EXCEPT !.sequence = @ + 1]
       \/ source.captured # 0 /\ source.generation = 1 /\ "moved" \in engine.script /\ source' = [source EXCEPT !.generation = 2]
       \/ source.captured # 0 /\ ~source.ended /\ source' = [source EXCEPT !.ended = TRUE]
       \/ /\ source.process = 1 /\ "exited" \in engine.script
          /\ \E process \in {0, 2} :
                source' = [source EXCEPT !.process = process, !.windows = @ \cap {3}, !.ended = source.captured # 0]
    /\ UNCHANGED <<startup, engine, owned, call, job, sink, live>>

-----------------------------------------------------------------------------
\* Finish.

\* It closes the engine and cancels its operations at once, then tries for the mutex.
FinishAsks ==
    /\ engine.finishing = "none" /\ engine.cleanup = "none"
    /\ engine' = [engine EXCEPT !.closing = TRUE, !.cancelled = TRUE, !.finishing = "asked"]
    /\ UNCHANGED <<startup, owned, call, job, source, sink, live>>

\* Out of budget with a call or a job still in flight: unclean, and nothing is touched.
FinishUnsettled ==
    /\ \/ engine.finishing = "asked" /\ call.at # "none"
       \/ engine.finishing = "locked" /\ ~Idle
    /\ engine' = [engine EXCEPT !.finishing = "none"]
    /\ UNCHANGED <<startup, owned, call, job, source, sink, live>>

FinishLocks ==
    /\ engine.finishing = "asked" /\ call.at = "none"
    /\ engine' = [engine EXCEPT !.finishing = "locked"]
    /\ UNCHANGED <<startup, owned, call, job, source, sink, live>>

\* The worker's thread has ended.
Settled == Idle

\* With the worker settled every handle goes; the session closes or does not.  Clean is claimed
\* of a closed session that left no input state, and only a closed session's answer is kept.
FinishCloses(closed) ==
    /\ engine.finishing = "locked" /\ Settled
    /\ engine.session = "none" => closed
    /\ owned' = [owned EXCEPT !.queries = {}, !.results = {}, !.observations = {}]
    /\ live' = live - (Cardinality(owned.queries) + Cardinality(owned.results) + Cardinality(owned.observations))
    /\ engine' = [engine EXCEPT !.finishing = "none", !.retained = FALSE,
                                !.session = IF closed THEN "closed" ELSE @,
                                !.cleanup = IF ~closed THEN "none" ELSE IF engine.incomplete THEN "unclean" ELSE "clean"]
    /\ UNCHANGED <<startup, call, job, source, sink>>

Finish == FinishAsks \/ FinishUnsettled \/ FinishLocks \/ \E closed \in BOOLEAN : FinishCloses(closed)

Ids == 1..MaxSerial

Next ==
    \/ TargetStart \/ DesktopReplies \/ TargetPoll \/ CaptureReady
    \/ Discover \/ Describe \/ ProbeProcess \/ BindProcess \/ OpenSession \/ CaptureTerminal \/ Observe \/ Acquire \/ Commit \/ Failed
    \/ \E id \in Ids : Query(id) \/ Release(id) \/ \E ocr \in BOOLEAN : Recognize(id, ocr)
    \/ \E query \in owned.queries : QueryWait(query)
    \/ Recognized \/ Submit \/ Answered \/ NextFrame \/ GivesUp \/ QueryFails
    \/ \E outcome \in {"found", "nothing", "failed"} : JobEnds(outcome)
    \/ \E batch \in EngineBatches, id \in Ids : Dispatch(batch, id)
    \/ \E n \in 0..EngineEvents, held, receipt \in BOOLEAN : Sent(n, held, receipt)
    \/ ReceiptReturns \/ Stop \/ Bridge \/ World \/ Finish

Spec == Init /\ [][Next]_engineVars

-----------------------------------------------------------------------------
\* Every handle of the budget is one somebody holds: a table entry, a call in progress or the
\* worker's job.  An attempt that reports clean has none, no job, and a closed session; a query's result
\* is on its own frame and a failed query keeps no observation; held observations share the
\* run's placement; the bound process is that of the captured window, and an exit was its own.
EngineIsExact ==
    /\ live = Cardinality(owned.observations) + Cardinality(owned.results) + Cardinality(owned.queries)
              + call.permits + job.permit + (IF call.query = NoQuery THEN 0 ELSE 1)
    /\ engine.cleanup = "clean" => live = 0 /\ engine.session = "closed" /\ Idle /\ ~engine.retained /\ call = NoCall
    /\ \A q \in owned.queries, r \in owned.results : q.ended /\ q.answer = r.id => r.frame = q.frame
    /\ \A q \in owned.queries, o \in owned.observations : q.ended /\ q.answer = 0 => o.id # q.seen
    /\ \A o \in owned.observations : Current(o) /\ o.frame.sequence <= engine.latest.sequence
    /\ engine.told = "TargetExited" => source.process # engine.process
    /\ engine.session = "open" /\ engine.process # 0 => engine.process = WindowProcess(source.captured)

\* Input never exceeds its authority, every effect that is not certain is said to be, input left
\* pressed is never called clean, and a receipt counts an action only when all its events went.
InputIsAccounted ==
    /\ sink.events <= engine.events /\ engine.events <= EngineEvents
    /\ sink.unresolved => engine.uncertain
    /\ sink.pressed => engine.incomplete /\ engine.cleanup # "clean"
    /\ call.at = "sent" =>
           LET whole == SubmittedActions(call.batch, call.sent) IN
           /\ Len(Events(SubSeq(call.batch, 1, whole))) <= call.sent
           /\ whole < Len(call.batch) => Len(Events(SubSeq(call.batch, 1, whole + 1))) > call.sent

=============================================================================
