---------------------------- MODULE CaptureWorker ----------------------------
(***************************************************************************)
(* One authoring capture worker: the host's handle (AuthoringCaptureWorker *)
(* with its CaptureAuthority per frame), the supervision thread that owns  *)
(* the child process, and the child that holds the SDK's engine and opens  *)
(* one session per frame.                                                  *)
(*                                                                         *)
(* Host and supervisor talk through two bounded channels, supervisor and   *)
(* child through a pipe each way.  A deadline that is armed may expire at  *)
(* any time; the SDK may refuse, hang or fail to close.                    *)
(***************************************************************************)
EXTENDS Naturals, Sequences

CONSTANTS Keys,         \* candidates the discovery answers with
          Rebases,      \* bound: correlations [package, binding] the host rebases to
          MaxCaptures   \* bound: frames requested

CaptureBounds == MaxCaptures \in Nat \ {0} /\ Keys # {} /\ 0 \notin Keys

VARIABLES host,       \* the thread that holds AuthoringCaptureWorker
          shared,     \* Shared: cancelled, finished, settlement
          authority,  \* CaptureAuthority of each request
          requests, replies,  \* sync_channel(1), sync_channel(2)
          sup,        \* SupervisorState and the loop's locals
          commands, events,   \* the pipes
          child       \* the authoring-capture-child process

workerVars == <<host, shared, authority, requests, replies, sup, commands, events, child>>

Frames == 1..MaxCaptures
First == [package |-> 1, binding |-> 1]
Unsettled == [reaped |-> FALSE, clean |-> FALSE, told |-> FALSE]
Op(kind, key, id, n) == [kind |-> kind, key |-> key, id |-> id, n |-> n]
Event(kind, key, id, n, clean) == [kind |-> kind, key |-> key, id |-> id, n |-> n, clean |-> clean]

Init ==
    /\ host = [at |-> "discovering", known |-> FALSE, key |-> 0, id |-> First, want |-> First, asked |-> 0]
    /\ shared = [cancelled |-> FALSE, finished |-> FALSE, settlement |-> Unsettled]
    /\ authority = [n \in Frames |-> [cancelled |-> FALSE, published |-> FALSE]]
    /\ requests = <<>> /\ replies = <<>> /\ commands = <<>> /\ events = <<>>
    /\ sup = [at |-> "starting", deadline |-> TRUE, discovered |-> FALSE, selecting |-> 0, key |-> 0, bound |-> First,
              rebasing |-> FALSE, active |-> 0, stamps |-> {}, terminal |-> "none", primary |-> FALSE,
              stop |-> FALSE, forced |-> FALSE, reported |-> FALSE]
    /\ child = [at |-> "discovering", armed |-> TRUE, stopped |-> FALSE, pending |-> FALSE, job |-> <<>>, key |-> 0,
                id |-> First, n |-> 0, failed |-> FALSE, session |-> "none", committed |-> {}, stamp |-> [n \in Frames |-> 0], exit |-> "none"]

-----------------------------------------------------------------------------
\* The host's side.  A request is one try_send and a wait for its reply.

SameRebase(from, to, before) == before \/ from.binding = to.binding
Refused == shared.cancelled \/ shared.finished
Submit(op, at) ==
    /\ requests = <<>> /\ sup.at # "ended"
    /\ requests' = <<op>>
    /\ host' = [host EXCEPT !.at = at, !.want = op.id]

Select(key) ==
    /\ host.at = "idle" /\ host.known /\ ~Refused /\ host.key \in {0, key}
    /\ Submit(Op("select", key, host.id, 0), "selecting")
    /\ UNCHANGED <<shared, authority, replies, sup, commands, events, child>>

\* A committed binding is correlated before the first frame, a saved package at any time.
RebaseSource(id) ==
    /\ host.at = "idle" /\ ~Refused /\ host.key # 0 /\ id # host.id
    /\ SameRebase(host.id, id, host.asked = 0)
    /\ Submit(Op("rebase", 0, id, 0), "rebasing")
    /\ UNCHANGED <<shared, authority, replies, sup, commands, events, child>>

Capture ==
    /\ host.at = "idle" /\ host.key # 0 /\ host.asked < MaxCaptures
    /\ LET n == host.asked + 1 IN
       \/ /\ ~authority[n].cancelled /\ requests = <<>> /\ sup.at # "ended"
          /\ requests' = <<Op("capture", host.key, host.id, n)>>
          /\ host' = [host EXCEPT !.at = "capturing", !.asked = n]
          /\ UNCHANGED <<shared, authority>>
       \* the reservation, the deadline or the channel refuses: the worker is given up
       \/ /\ authority' = [authority EXCEPT ![n].cancelled = TRUE]
          /\ shared' = [shared EXCEPT !.cancelled = TRUE]
          /\ host' = [host EXCEPT !.at = "finishing", !.asked = n]
          /\ UNCHANGED requests
    /\ UNCHANGED <<replies, sup, commands, events, child>>

Settle ==
    /\ host.at = "idle"
    /\ shared' = [shared EXCEPT !.cancelled = TRUE]
    /\ host' = [host EXCEPT !.at = "finishing"]
    /\ UNCHANGED <<authority, requests, replies, sup, commands, events, child>>

\* The handle is dropped without settling.
DropWorker ==
    /\ host.at = "idle"
    /\ shared' = [shared EXCEPT !.cancelled = TRUE]
    /\ host' = [host EXCEPT !.at = "ended"]
    /\ UNCHANGED <<authority, requests, replies, sup, commands, events, child>>

\* WorkerCancel and NativeControl: from any thread, never waiting.
Cancel ==
    /\ ~shared.cancelled
    /\ shared' = [shared EXCEPT !.cancelled = TRUE]
    /\ UNCHANGED <<host, authority, requests, replies, sup, commands, events, child>>
CancelAuthority(n) ==
    /\ ~authority[n].cancelled /\ n \in {host.asked, host.asked + 1}
    /\ authority' = [authority EXCEPT ![n].cancelled = TRUE]
    /\ UNCHANGED <<host, shared, requests, replies, sup, commands, events, child>>

Expected(reply) ==
    \/ reply.kind = "discovered" /\ host.at = "discovering"
    \/ reply.kind = "selected" /\ host.at = "selecting"
    \/ reply.kind = "rebased" /\ host.at = "rebasing" /\ reply.id = host.want
    \/ reply.kind = "captured" /\ host.at = "capturing"
Receive ==
    /\ host.at \notin {"idle", "ended"} /\ replies # <<>>
    /\ replies' = Tail(replies)
    /\ LET reply == Head(replies) IN
       \/ /\ Expected(reply)
          /\ host' = [host EXCEPT !.at = "idle", !.known = TRUE, !.id = host.want,
                                  !.key = IF reply.kind = "selected" THEN reply.key ELSE @]
          /\ UNCHANGED shared
       \/ /\ reply.kind = "finished"
          /\ host' = [host EXCEPT !.at = IF @ \in {"finishing", "capturing"} THEN "ended" ELSE "idle"]
          /\ UNCHANGED shared
       \/ /\ ~Expected(reply) /\ reply.kind # "finished"
          /\ host' = [host EXCEPT !.at = IF @ = "capturing" THEN "finishing" ELSE IF @ = "finishing" THEN @ ELSE "idle"]
          /\ shared' = [shared EXCEPT !.cancelled = @ \/ host.at \in {"rebasing", "capturing"}]
    /\ UNCHANGED <<authority, requests, sup, commands, events, child>>

\* The supervisor is gone and the channel closed: the retained settlement is all there is.
Disconnected ==
    /\ host.at \notin {"idle", "ended"} /\ replies = <<>> /\ sup.at = "ended"
    /\ host' = [host EXCEPT !.at = IF @ \in {"finishing", "capturing"} THEN "ended" ELSE "idle"]
    /\ UNCHANGED <<shared, authority, requests, replies, sup, commands, events, child>>

-----------------------------------------------------------------------------
\* The supervision thread.

Fail(s) == [s EXCEPT !.primary = TRUE]
Reply(s, kind, key, id) ==
    IF Len(replies) < 2 /\ host.at # "ended"
    THEN sup' = [s EXCEPT !.deadline = FALSE] /\ replies' = Append(replies, [kind |-> kind, key |-> key, id |-> id])
    ELSE sup' = Fail([s EXCEPT !.deadline = FALSE]) /\ UNCHANGED replies

\* SupervisorState.accept of everything but a terminal; `stopping` refuses it.
Accept(event) ==
    CASE event.kind = "discovered" /\ ~sup.discovered /\ event.id = First ->
            Reply([sup EXCEPT !.discovered = TRUE], "discovered", 0, First) /\ UNCHANGED authority
      [] event.kind = "selected" /\ sup.selecting = event.key /\ sup.bound = event.id ->
            Reply([sup EXCEPT !.selecting = 0, !.key = event.key], "selected", event.key, event.id) /\ UNCHANGED authority
      [] event.kind = "rebased" /\ sup.rebasing /\ SameRebase(sup.bound, event.id, sup.stamps = {}) ->
            Reply([sup EXCEPT !.rebasing = FALSE, !.bound = event.id], "rebased", 0, event.id) /\ UNCHANGED authority
      [] event.kind = "captured" /\ sup.active # 0 /\ event.n = sup.active /\ child.stamp[event.n] \notin sup.stamps ->
            \* the claim arbitrates with cancellation on the authority's own state
            /\ LET s == [sup EXCEPT !.stamps = @ \cup {child.stamp[event.n]}] IN
               \/ /\ authority[event.n].cancelled
                  /\ sup' = Fail(s) /\ UNCHANGED authority
               \/ /\ ~authority[event.n].cancelled
                  /\ sup' = [s EXCEPT !.at = "delivering"]
                  /\ authority' = [authority EXCEPT ![event.n].published = TRUE]
               \/ /\ ~authority[event.n].cancelled  \* the pixels do not decode
                  /\ sup' = Fail([s EXCEPT !.active = 0])
                  /\ authority' = [authority EXCEPT ![event.n].cancelled = TRUE]
            /\ UNCHANGED replies
      [] OTHER -> sup' = Fail(sup) /\ UNCHANGED <<authority, replies>>

SupervisorStarts ==
    /\ sup.at = "starting" /\ sup' = [sup EXCEPT !.at = "loop"]
    /\ UNCHANGED <<host, shared, authority, requests, replies, commands, events, child>>
\* A pipe or a transport thread is not to be had: the child is killed and waited for, which may fail too.
StartupFails ==
    /\ sup.at = "starting" /\ sup' = [sup EXCEPT !.at = "finished", !.forced = TRUE]
    /\ \E reaped \in BOOLEAN :
        /\ child' = IF reaped /\ child.at # "gone" THEN [child EXCEPT !.at = "gone", !.exit = "aborted"] ELSE child
        /\ shared' = [shared EXCEPT !.finished = reaped,
                                    !.settlement = [reaped |-> reaped, clean |-> FALSE, told |-> TRUE]]
    /\ UNCHANGED <<host, authority, requests, replies, commands, events>>

Stopping == sup.stop \/ sup.primary \/ sup.terminal # "none" \/ shared.cancelled \/ sup.at = "draining"
TakeEvent ==
    /\ sup.at \in {"loop", "draining"} /\ events # <<>>
    /\ events' = Tail(events)
    /\ LET event == Head(events) IN
       IF event.kind = "terminal"
       THEN \* announced by the end of the pipe
            /\ child.at = "gone"
            /\ sup' = IF sup.terminal # "none" THEN Fail(sup)
                      ELSE [sup EXCEPT !.terminal = IF event.clean THEN "clean" ELSE "unclean", !.deadline = TRUE]
            /\ UNCHANGED <<authority, replies>>
       ELSE \/ ~Stopping /\ Accept(event)
            \/ (Stopping \/ sup.deadline) /\ sup' = Fail(sup) /\ UNCHANGED <<authority, replies>>
    /\ UNCHANGED <<host, shared, requests, commands, child>>

\* Accepted pixels are given to the host unless it cancelled, or the deadline passed, meanwhile.
Deliver ==
    /\ sup.at = "delivering"
    /\ \/ /\ authority' = [authority EXCEPT ![sup.active].cancelled = TRUE]
          /\ sup' = Fail([sup EXCEPT !.at = "loop", !.active = 0])
          /\ UNCHANGED replies
       \/ /\ ~shared.cancelled
          /\ Reply([sup EXCEPT !.at = "loop", !.active = 0], "captured", 0, sup.bound)
          /\ UNCHANGED authority
    /\ UNCHANGED <<host, shared, requests, commands, events, child>>

Idle == sup.discovered /\ sup.active = 0 /\ sup.selecting = 0 /\ ~sup.rebasing
Takes(op) ==
    /\ Idle /\ ~Stopping
    /\ op.kind = "select" => op.id = sup.bound /\ sup.key \in {0, op.key}
    /\ op.kind = "rebase" => sup.key # 0 /\ SameRebase(sup.bound, op.id, sup.stamps = {})
    /\ op.kind = "capture" => op.id = sup.bound /\ sup.key = op.key
TakeRequest ==
    /\ sup.at = "loop" /\ requests # <<>>
    /\ requests' = <<>>
    /\ LET op == Head(requests) IN
       \/ /\ Takes(op)
          /\ sup' = [sup EXCEPT !.deadline = TRUE,
                                !.selecting = IF op.kind = "select" THEN op.key ELSE @,
                                !.rebasing = (op.kind = "rebase"),
                                !.active = op.n]
          /\ commands' = Append(commands, op)
          /\ UNCHANGED authority
       \/ /\ ~Takes(op) \/ op.kind = "capture"  \* or its deadline has passed
          /\ sup' = Fail(sup)
          /\ authority' = IF op.n # 0 THEN [authority EXCEPT ![op.n].cancelled = TRUE] ELSE authority
          /\ UNCHANGED commands
    /\ UNCHANGED <<host, shared, replies, events, child>>

\* The first reason to stop tells the child; the pipe is closed behind the Cancel.
StopChild ==
    /\ sup.at = "loop" /\ ~sup.stop
    /\ \/ shared.cancelled \/ sup.deadline \/ sup.primary \/ host.at = "ended"
       \/ sup.active # 0 /\ authority[sup.active].cancelled
    /\ sup' = [sup EXCEPT !.stop = TRUE, !.primary = TRUE]
    /\ authority' = IF sup.active # 0 THEN [authority EXCEPT ![sup.active].cancelled = TRUE] ELSE authority
    /\ commands' = Append(commands, Op("cancel", 0, First, 0))
    /\ UNCHANGED <<host, shared, requests, replies, events, child>>

\* CLEANUP_LIMIT after the stop
KillChild ==
    /\ sup.at = "loop" /\ sup.stop /\ ~sup.forced
    /\ sup' = [sup EXCEPT !.forced = TRUE]
    /\ UNCHANGED <<host, shared, authority, requests, replies, commands, events, child>>

\* CONTAINMENT_LIMIT after that: the child is reported unreaped and stays owned.
Unreaped == [reaped |-> FALSE, clean |-> FALSE, told |-> TRUE]
ReportUnreaped ==
    /\ sup.at = "loop" /\ sup.forced /\ ~sup.reported
    /\ sup' = [sup EXCEPT !.reported = TRUE]
    /\ shared' = [shared EXCEPT !.settlement = Unreaped]
    /\ replies' = IF Len(replies) < 2 /\ host.at # "ended"
                  THEN Append(replies, [kind |-> "finished", key |-> 0, id |-> First]) ELSE replies
    /\ UNCHANGED <<host, authority, requests, commands, events, child>>

ChildExited ==
    /\ sup.at = "loop" /\ child.at = "gone"
    /\ sup' = [sup EXCEPT !.at = "draining"]
    /\ UNCHANGED <<host, shared, authority, requests, replies, commands, events, child>>

ExitClean == sup.terminal = "clean" /\ child.exit = "ok" /\ ~sup.forced
RetainSettlement ==
    /\ sup.at = "draining" /\ events = <<>>
    /\ sup' = [sup EXCEPT !.at = "finished"]
    /\ authority' = IF sup.active # 0 THEN [authority EXCEPT ![sup.active].cancelled = TRUE] ELSE authority
    /\ shared' = [shared EXCEPT !.finished = TRUE,
                                !.settlement = [reaped |-> TRUE, clean |-> ExitClean, told |-> TRUE]]
    /\ UNCHANGED <<host, requests, replies, commands, events, child>>
Finish ==
    /\ sup.at = "finished" /\ (Len(replies) < 2 \/ host.at = "ended")
    /\ sup' = [sup EXCEPT !.at = "ended"]
    /\ replies' = IF host.at = "ended" THEN replies ELSE Append(replies, [kind |-> "finished", key |-> 0, id |-> First])
    /\ UNCHANGED <<host, shared, authority, requests, commands, events, child>>

Supervise == SupervisorStarts \/ StartupFails \/ TakeEvent \/ Deliver \/ TakeRequest \/ StopChild
    \/ KillChild \/ ReportUnreaped \/ ChildExited \/ RetainSettlement \/ Finish

-----------------------------------------------------------------------------
\* The child.

Hidden == UNCHANGED <<host, shared, authority, requests, replies, sup>>
Alive == child.at # "gone"

\* Its reader admits one command at a time; Cancel, the end of the pipe or a second one stop it.
ReadCommand ==
    /\ Alive /\ commands # <<>>
    /\ commands' = Tail(commands)
    /\ LET op == Head(commands) IN
       child' = IF op.kind = "cancel" \/ child.pending THEN [child EXCEPT !.stopped = TRUE]
                ELSE [child EXCEPT !.pending = TRUE, !.job = <<op>>]
    /\ Hidden /\ UNCHANGED events
ChildExpires ==
    /\ Alive /\ child.armed /\ ~child.stopped
    /\ child' = [child EXCEPT !.stopped = TRUE]
    /\ Hidden /\ UNCHANGED <<commands, events>>
\* The watchdog, the parent's kill, or a crash.
Aborted ==
    /\ Alive
    /\ \E exit \in {"aborted", "failed"} :
        /\ exit = "aborted" => child.stopped \/ sup.forced
        /\ child' = [child EXCEPT !.at = "gone", !.exit = exit]
    /\ Hidden /\ UNCHANGED <<commands, events>>

Ends(clean) == [child EXCEPT !.at = "ending", !.armed = TRUE, !.failed = ~clean]
Die == [child EXCEPT !.at = "gone", !.exit = "failed"]
Wrote(c, kind, key, id, n) ==
    /\ child' = [c EXCEPT !.at = "wrote"]
    /\ events' = Append(events, Event(kind, key, id, n, TRUE))

Discovers ==
    /\ child.at = "discovering"
    /\ \/ ~child.stopped /\ Wrote(child, "discovered", 0, First, 0)
       \/ child' = Ends(TRUE) /\ UNCHANGED events
       \/ child.stopped /\ child' = Die /\ UNCHANGED events
    /\ Hidden /\ UNCHANGED commands
\* control.check() after every event: a stop here leaves without a terminal
AfterWrite ==
    /\ child.at = "wrote"
    /\ child' = IF child.stopped THEN Die ELSE [child EXCEPT !.at = "idle", !.armed = FALSE]
    /\ Hidden /\ UNCHANGED <<commands, events>>

ChildRefuses(op) ==
    \/ op.kind = "select" /\ child.key \notin {0, op.key}
    \/ op.kind = "rebase" /\ (child.key = 0 \/ ~SameRebase(child.id, op.id, child.n = 0))
    \/ op.kind = "capture" /\ (child.key # op.key \/ child.id # op.id \/ op.n <= child.n)
Work ==
    /\ child.at = "idle"
    /\ IF child.stopped THEN child' = Ends(TRUE) /\ UNCHANGED events
       ELSE /\ child.job # <<>>
            /\ LET op == Head(child.job)
                   c == [child EXCEPT !.job = <<>>, !.armed = TRUE] IN
               \/ child' = [Ends(TRUE) EXCEPT !.job = <<>>] /\ UNCHANGED events  \* refused, or not verifiable any more
               \/ /\ op.kind = "select" /\ ~ChildRefuses(op)
                  /\ Wrote([c EXCEPT !.key = op.key, !.pending = FALSE], "selected", op.key, child.id, 0)
               \/ /\ op.kind = "rebase" /\ ~ChildRefuses(op)
                  /\ Wrote([c EXCEPT !.id = op.id, !.pending = FALSE], "rebased", 0, op.id, 0)
               \/ /\ op.kind = "capture" /\ ~ChildRefuses(op)
                  /\ \/ child' = [c EXCEPT !.n = op.n, !.at = "open", !.session = "open", !.failed = FALSE]
                     \* a failed open has no receipt for its rollback
                     \/ child' = [c EXCEPT !.n = op.n, !.at = "ending", !.failed = TRUE, !.session = "unclean"]
                  /\ UNCHANGED events
    /\ Hidden /\ UNCHANGED commands

Acquire ==
    /\ child.at = "open"
    /\ \/ \E stamp \in 1..child.n : child' = [child EXCEPT !.at = "acquired", !.stamp[child.n] = stamp]
       \/ child' = [child EXCEPT !.at = "closing", !.failed = TRUE]
    /\ Hidden /\ UNCHANGED <<commands, events>>
Commit ==
    /\ child.at = "acquired"
    /\ \/ ~child.stopped /\ child' = [child EXCEPT !.at = "closing", !.committed = @ \cup {child.n}]
       \/ child' = [child EXCEPT !.at = "closing", !.failed = TRUE]
    /\ Hidden /\ UNCHANGED <<commands, events>>
\* A committed frame is sent only after its session has closed.
\* Mutant: the close receipt is not asked for
CloseUnconfirmed ==
    /\ child.at = "closing"
    /\ \E ok \in BOOLEAN :
        child' = [(IF child.failed \/ child.stopped THEN Ends(ok) ELSE [child EXCEPT !.at = "sending"])
                  EXCEPT !.session = IF ok THEN "closed" ELSE "unclean"]
    /\ Hidden /\ UNCHANGED <<commands, events>>
Close ==
    /\ child.at = "closing"
    /\ \E ok \in BOOLEAN :
        child' = [(IF child.failed \/ child.stopped \/ ~ok THEN Ends(ok) ELSE [child EXCEPT !.at = "sending"])
                  EXCEPT !.session = IF ok THEN "closed" ELSE "unclean"]
    /\ Hidden /\ UNCHANGED <<commands, events>>
Send ==
    /\ child.at = "sending"
    /\ IF child.stopped THEN child' = Die /\ UNCHANGED events
       ELSE Wrote([child EXCEPT !.pending = FALSE], "captured", 0, child.id, child.n)
    /\ Hidden /\ UNCHANGED commands
\* An unclean child announces itself and waits to be ended.
Terminal ==
    /\ child.at = "ending"
    /\ events' = Append(events, Event("terminal", 0, First, 0, ~child.failed))
    /\ child' = IF child.failed THEN [child EXCEPT !.at = "parked", !.stopped = TRUE]
                ELSE [child EXCEPT !.at = "gone", !.exit = "ok"]
    /\ Hidden /\ UNCHANGED commands

Child == ReadCommand \/ ChildExpires \/ Aborted \/ Discovers \/ AfterWrite \/ Work \/ Acquire \/ Commit \/ Close
    \/ Send \/ Terminal

-----------------------------------------------------------------------------
Next ==
    \/ \E key \in Keys : Select(key)
    \/ \E id \in Rebases : RebaseSource(id)
    \/ Capture \/ Settle \/ DropWorker \/ Cancel \/ Receive \/ Disconnected
    \/ \E n \in Frames : CancelAuthority(n)
    \/ Supervise \/ Child

Fairness ==
    /\ WF_workerVars(SupervisorStarts) /\ WF_workerVars(TakeEvent) /\ WF_workerVars(Deliver)
    /\ WF_workerVars(StopChild) /\ WF_workerVars(KillChild)
    /\ WF_workerVars(ReportUnreaped) /\ WF_workerVars(ChildExited) /\ WF_workerVars(RetainSettlement)
    /\ WF_workerVars(Finish) /\ WF_workerVars(Receive) /\ WF_workerVars(Disconnected)
Spec == Init /\ [][Next]_workerVars /\ Fairness

\* A frame is published once, for the request it was made for, and only out of a session that the
\* child committed and closed cleanly; no frame serves two requests (authoring_capture.rs: claim,
\* accept_after_session_close; acquisition.rs: finish).
FrameIsAccounted ==
    \A n \in Frames : authority[n].published =>
        /\ n \in child.committed
        /\ n = child.n => child.session = "closed"
        /\ \A m \in Frames \ {n} : authority[m].published => child.stamp[m] # child.stamp[n]

\* What the worker says of its end is true: a reaped child is gone, a clean one left no session
\* open or unconfirmed and was not ended by force (worker.rs: retain_settlement, supervise_inner).
SettlementIsHonest ==
    /\ shared.finished <=> shared.settlement.reaped
    /\ shared.settlement.reaped => child.at = "gone"
    /\ shared.settlement.clean => child.session \notin {"open", "unclean"} /\ child.exit = "ok"

WorkerIsExact == FrameIsAccounted /\ SettlementIsHonest

\* "Cleanup and containment remain separate 1-second and 2-second obligations, with incomplete
\* outcomes preserved" (docs/adr/0007-native-capture-authoring.md): a host that gives the worker up
\* gets an answer, the worker's end or the report that its child could not be reaped.
SettleReturns == host.at = "finishing" ~> host.at = "ended"
=============================================================================
