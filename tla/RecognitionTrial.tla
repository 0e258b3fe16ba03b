--------------------------- MODULE RecognitionTrial --------------------------
(***************************************************************************)
(* One saved-frame recognition and the child that runs it                  *)
(* (runner/recognition.rs, recognition_trial.rs, its engine.rs).  The      *)
(* parent writes the request, reads the child's frames, asks it to stop    *)
(* once, kills it when that takes too long, and builds its result only     *)
(* when the child is reaped and every frame is read.  The child listens    *)
(* for Stop beside its work, closes the recognition session before it      *)
(* reports, and a watchdog ends it when a stop stays unanswered.           *)
(***************************************************************************)
EXTENDS Naturals, Sequences

CONSTANTS MaxNoise   \* lines a native library may print among the frames

VARIABLES kind,      \* "trial" or "capabilities"
          control,   \* the operation: "on", "cancelled" or "timeout"
          at,        \* parent: "poll", "drain", "ended"
          build,     \* the child's startup frame was authenticated
          terminal,  \* the Terminal frame, NoFrame before it
          settled,   \* the first EntrySettled frame, NoFrame before it
          fault,     \* "none", "protocol", "containment"
          stop,      \* parent: Stop was requested
          forced,
          order,     \* the Stop command: "none", "sent", "read"
          exit,      \* the exit the parent has reaped: "none", "good", "bad", "late"
          run,       \* child: where its main thread is
          session,   \* "none", "open", "closed", "stuck"
          entry,     \* the child's own primary: "none", "cancelled", "timeout", "failed"
          ending,    \* the child's control is stopped
          pipe,      \* frames written and not yet read
          noise,
          result

vars == <<kind, control, at, build, terminal, settled, fault, stop, forced, order,
          exit, run, session, entry, ending, pipe, noise, result>>
parent == <<at, build, terminal, settled, fault, stop, forced, exit, result>>
child == <<run, session, entry, ending>>

NoFrame == [event |-> "none"]
Pending == [primary |-> "pending", clean |-> FALSE]
Alive == run \notin {"good", "bad", "late", "reaped"}
Frame(event) == [event |-> event]
Terminal == [event |-> "Terminal", primary |-> entry, clean |-> session # "stuck"]
Settled == [event |-> "EntrySettled", primary |-> entry]

Init ==
    /\ kind \in {"trial", "capabilities"} /\ control = "on" /\ at = "poll"
    /\ build = FALSE /\ terminal = NoFrame /\ settled = NoFrame /\ fault = "none"
    /\ stop = FALSE /\ forced = FALSE /\ order = "none" /\ exit = "none"
    /\ run = "start" /\ session = "none" /\ entry = "none" /\ ending = FALSE
    /\ pipe = <<>> /\ noise = 0 /\ result = Pending

TypeOK ==
    /\ at \in {"poll", "drain", "ended"} /\ fault \in {"none", "protocol", "containment"}
    /\ session \in {"none", "open", "closed", "stuck"} /\ noise \in 0..MaxNoise

\* The operation is cancelled, or its budget ends.
OperationStops ==
    /\ control = "on" /\ at # "ended"
    /\ control' \in {"cancelled", "timeout"}
    /\ UNCHANGED <<parent, child, kind, order, pipe, noise>>

---------------------------------------------------------------------------
(* The child.                                                              *)

Emits(frame) == pipe' = Append(pipe, frame)

\* recognition_child: the request is read and the child names itself; a
\* request it cannot read ends it.
Start ==
    /\ run = "start"
    /\ \/ Emits(Frame("ChildStarted")) /\ run' = "prepare"
       \/ run' = "bad" /\ UNCHANGED pipe
    /\ UNCHANGED <<parent, kind, control, session, entry, ending, order, noise>>

\* capabilities, validate and the image bytes; only a valid trial executes.
Prepare ==
    /\ run = "prepare"
    /\ \/ entry' = "failed" /\ run' = "report"
       \/ run' = (IF kind = "trial" THEN "execute" ELSE "report") /\ UNCHANGED entry
    /\ UNCHANGED <<parent, kind, control, session, ending, order, pipe, noise>>

\* The listening thread takes the command, or the end of the pipe.
Listen ==
    /\ run \in {"execute", "open", "settle", "close", "report", "park"}
    /\ order = "sent"
    /\ order' = "read" /\ ending' = TRUE
    /\ Emits(Frame("StopRequested"))
    /\ UNCHANGED <<parent, kind, control, run, session, entry, noise>>

\* The child's own duration.
Expires ==
    /\ Alive /\ run # "start" /\ ~ending /\ ending' = TRUE
    /\ UNCHANGED <<parent, kind, control, order, run, session, entry, pipe, noise>>

\* What a step of execute may come to; the bridge cancels it after a stop.
Stage(next) ==
    \/ run' = next /\ UNCHANGED entry
    \/ entry' = "failed" /\ run' = "settle"
    \/ ending /\ entry' \in {"cancelled", "timeout"} /\ run' = "settle"

\* The resources are validated before and after the engine loads them, and
\* the one replay target is opened.
Execute ==
    /\ run = "execute"
    /\ Stage("open")
    /\ session' = IF run' = "open" THEN "open" ELSE session
    /\ UNCHANGED <<parent, kind, control, ending, order, pipe, noise>>

\* The frame is recognised; a stop seen before the result is returned wins.
Recognise ==
    /\ run = "open"
    /\ \/ ~ending /\ Stage("settle")
       \/ /\ ending /\ run' = "settle"
          /\ entry' \in {"failed", "cancelled", "timeout"}
    /\ UNCHANGED <<parent, kind, control, session, ending, order, pipe, noise>>

\* The entry's outcome leaves the child before its session is closed.
Settle ==
    /\ run = "settle"
    /\ Emits(Settled) /\ run' = "close" /\ ending' = TRUE
    /\ UNCHANGED <<parent, kind, control, session, entry, order, noise>>

Close ==
    /\ run = "close"
    /\ session' \in (IF session = "open" THEN {"closed", "stuck"} ELSE {session})
    /\ run' = "report"
    /\ UNCHANGED <<parent, kind, control, entry, ending, order, pipe, noise>>

\* The terminal frame; a session that did not close keeps the process.
Report ==
    /\ run = "report"
    /\ Emits(Terminal) /\ ending' = TRUE
    /\ run' = IF session = "stuck" THEN "park" ELSE "good"
    /\ UNCHANGED <<parent, kind, control, session, entry, order, noise>>

\* The watchdog: the stop has been pending for longer than the cleanup.
Watchdog ==
    /\ Alive /\ ending /\ run' = "late"
    /\ UNCHANGED <<parent, kind, control, session, entry, ending, order, pipe, noise>>

\* A native library ends the process with any status, perhaps inside a frame.
Crash ==
    /\ Alive /\ run' \in {"good", "bad"}
    /\ \/ UNCHANGED pipe
       \/ Emits(Frame("cut"))
    /\ UNCHANGED <<parent, kind, control, session, entry, ending, order, noise>>

\* A native library prints a line of its own.
Noise ==
    /\ run \in {"execute", "open", "close"} /\ noise < MaxNoise
    /\ noise' = noise + 1 /\ Emits(Frame("noise"))
    /\ UNCHANGED <<parent, child, kind, control, order>>

---------------------------------------------------------------------------
(* The parent.                                                             *)

\* accept: one frame, in order; the first startup frame authenticates the
\* child, a second terminal or a line that is no frame is a fault.
Accept ==
    /\ at \in {"poll", "drain"} /\ pipe # <<>>
    /\ LET f == Head(pipe) IN
       /\ build' = (build \/ f.event = "ChildStarted")
       /\ terminal' = IF f.event = "Terminal" THEN f ELSE terminal
       /\ settled' = IF f.event = "EntrySettled" /\ settled = NoFrame THEN f ELSE settled
       /\ fault' = IF f.event \in {"cut", "noise"} THEN "protocol" ELSE fault
    /\ pipe' = Tail(pipe)
    /\ UNCHANGED <<child, kind, control, at, stop, forced, order, exit, noise, result>>

\* try_wait: the child has exited, or its status cannot be read.
Reaps == exit' = run /\ run' = "reaped" /\ at' = "drain"

Wait ==
    /\ at = "poll"
    /\ \/ ~Alive /\ Reaps /\ UNCHANGED fault
       \/ fault # "containment" /\ fault' = "containment" /\ UNCHANGED <<exit, run, at>>
    /\ UNCHANGED <<kind, control, build, terminal, settled, stop, forced, order, session,
                   entry, ending, pipe, noise, result>>

\* The operation stopped, a capability probe is late, or a fault was seen:
\* the child is asked to stop, once.
Ask ==
    /\ at = "poll" /\ ~stop
    /\ control # "on" \/ kind = "capabilities" \/ fault # "none"
    /\ stop' = TRUE /\ order' = "sent"
    /\ UNCHANGED <<child, kind, control, at, build, terminal, settled, fault, forced, exit,
                   pipe, noise, result>>

\* The stop was not answered in time: the child is killed and reaped.  A
\* child that cannot be reaped keeps the parent here.
Force ==
    /\ at = "poll" /\ (stop \/ control = "timeout")
    /\ forced' = TRUE
    /\ \/ exit' = (IF Alive THEN "bad" ELSE run) /\ run' = "reaped" /\ at' = "drain"
          /\ UNCHANGED fault
       \/ fault' = "containment" /\ UNCHANGED <<exit, run, at>>
    /\ UNCHANGED <<kind, control, build, terminal, settled, stop, order, session, entry,
                   ending, pipe, noise, result>>

\* The evidence: the terminal, or the entry that settled before it.
Evidence == IF terminal # NoFrame THEN terminal ELSE settled

\* Mutant: an exchange with a settled entry needs no terminal.
ChildExitPrimaryOfAny ==
    IF Evidence # NoFrame /\ exit = "good" THEN "none" ELSE "transport"

\* The end of the output alone is not an outcome.
ChildExitPrimary ==
    IF terminal # NoFrame /\ exit = "good" THEN "none" ELSE "transport"

Reported == IF Evidence = NoFrame THEN "none" ELSE Evidence.primary

\* The first cause: the entry's, the exchange's, the operation's, the
\* containment's, the exit's.  An unauthenticated child has no other.
Primary ==
    IF ~build THEN "unavailable"
    ELSE IF Reported # "none" THEN Reported
    ELSE IF fault # "none" THEN fault
    ELSE IF control # "on" THEN control
    ELSE IF forced \/ exit = "late" THEN "contained"
    ELSE ChildExitPrimary

Clean == build /\ terminal # NoFrame /\ terminal.clean /\ exit = "good" /\ ~forced

\* Every frame is read and the result is built.
Conclude ==
    /\ at = "drain" /\ pipe = <<>>
    /\ result' = [primary |-> Primary, clean |-> Clean] /\ at' = "ended"
    /\ UNCHANGED <<child, kind, control, build, terminal, settled, fault, stop, forced, order,
                   exit, pipe, noise>>

Next ==
    \/ OperationStops
    \/ Start \/ Prepare \/ Listen \/ Expires \/ Execute \/ Recognise \/ Settle \/ Close
    \/ Report \/ Watchdog \/ Crash \/ Noise
    \/ Accept \/ Wait \/ Ask \/ Force \/ Conclude

Spec == Init /\ [][Next]_vars

---------------------------------------------------------------------------

\* What is returned is what happened, whatever the child's crash, watchdog
\* or kill cut off: a result without a primary comes from a child that
\* reported it and exited by itself while the operation was live, and it is
\* clean when the session was closed; a clean one left no session open; and
\* a child whose entry had failed and said so is never reported under
\* another cause.
TrialIsTrue ==
    result # Pending =>
        /\ run = "reaped"
        /\ result.primary = "none" =>
               /\ entry = "none" /\ control = "on" /\ terminal # NoFrame /\ noise = 0
               /\ result.clean \/ session = "stuck"
        /\ result.clean => session # "stuck" /\ (result.primary = "none" /\ kind = "trial"
                                                => session = "closed")
        /\ (build /\ settled # NoFrame /\ entry # "none") => result.primary = entry
        /\ (entry = "failed" /\ terminal # NoFrame /\ build) => result.primary = "failed"
=============================================================================
