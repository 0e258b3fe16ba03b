----------------------------- MODULE ScriptLogs -----------------------------
(***************************************************************************)
(* The way of a script's log line to the desktop (host.rs log,             *)
(* runner/evidence.rs, desktop/operation.rs).  The child keeps every line  *)
(* it records and also streams it; the runner forwards streamed lines on a *)
(* finite channel that never waits, and when an attempt ends its record    *)
(* carries the lines the child kept.  The controller merges both, possibly *)
(* while the worker is still running, into a finite queue that the next    *)
(* poll takes away.                                                        *)
(*                                                                         *)
(* Times, texts and byte bounds are left out: a bound is reached when the  *)
(* number of lines is.                                                     *)
(***************************************************************************)
EXTENDS Naturals, Sequences, SequencesExt, FiniteSets

CONSTANTS Lines,         \* log_records: lines one attempt may record
          Capacity,      \* LOG_CAPACITY
          MaxRefused     \* bound: lines refused by the host

VARIABLES attempt,       \* 1, or 2 after a recovery
          child,         \* "running", "gone"
          lines, refused,\* the child's lines of this attempt, and those it refused
          stream, pipe,  \* lines waiting in the child; lines on its standard output
          report,        \* the child's last settlement record: its stage, its lines
          channel, lost, \* Observer.logs and Observer.dropped_logs
          attempts,      \* Observer.attempts
          worker,        \* "running", "finished"
          at,            \* the refresh: "idle", "count", "look", "import"
          batch,         \* the lines it drained
          finished,      \* what it saw of the worker
          imported,      \* attempts the controller has imported
          queue, seen,   \* State.logs, State.seen_logs
          dropped,       \* State.dropped_logs
          phase,         \* "active", "terminal"
          shown,         \* lines a poll took
          evicted,       \* lines that left the queue unseen
          recorded,      \* every line a child recorded
          missed         \* lines the channel had no room for

running == <<attempt, child, lines, refused, stream, pipe, report, attempts, worker, recorded>>
view == <<at, batch, finished, imported, queue, seen, dropped, phase, shown, evicted>>
vars == <<running, channel, lost, missed, view>>

NoReport == [stage |-> "none", logs |-> {}, refused |-> 0]

Init ==
    /\ attempt = 1 /\ child = "running" /\ lines = 0 /\ refused = 0
    /\ stream = <<>> /\ pipe = <<>> /\ report = NoReport
    /\ channel = <<>> /\ lost = 0 /\ attempts = <<>> /\ worker = "running"
    /\ at = "idle" /\ batch = <<>> /\ finished = FALSE /\ imported = 0
    /\ queue = <<>> /\ seen = {} /\ dropped = 0 /\ phase = "active"
    /\ shown = {} /\ evicted = {} /\ recorded = {} /\ missed = {}

TypeOK ==
    /\ attempt \in 1..2 /\ lines \in 0..Lines
    /\ Len(channel) <= Capacity /\ Len(queue) <= Capacity
    /\ at \in {"idle", "count", "look", "import"}

\* host.log and emit_script_log: a line within the bound is numbered, kept
\* and offered to the stream, which holds as many as may be recorded.
Log ==
    /\ child = "running" /\ report = NoReport
    /\ \/ /\ lines < Lines
          /\ lines' = lines + 1
          /\ stream' = Append(stream, <<attempt, lines + 1>>)
          /\ recorded' = recorded \cup {<<attempt, lines + 1>>}
          /\ UNCHANGED refused
       \/ /\ lines = Lines /\ refused < MaxRefused
          /\ refused' = refused + 1
          /\ UNCHANGED <<lines, stream, recorded>>
    /\ UNCHANGED <<attempt, child, pipe, report, attempts, worker, channel, lost, missed, view>>

\* The stream's own thread writes, so a line may follow the record that
\* already holds it, or be lost with the process.
Emit ==
    /\ child = "running" /\ stream # <<>>
    /\ pipe' = Append(pipe, Head(stream)) /\ stream' = Tail(stream)
    /\ UNCHANGED <<attempt, child, lines, refused, report, attempts, worker, recorded, channel, lost, missed, view>>

\* EntrySettled, then Terminal, with the kept lines; a record over the
\* transport bound leaves them out.
Settle ==
    /\ child = "running" /\ report.stage # "terminal"
    /\ \E kept \in {TRUE, FALSE} :
          report' = [stage |-> IF report.stage = "none" THEN "entry" ELSE "terminal",
                     logs |-> IF kept THEN {<<attempt, n>> : n \in 1..lines} ELSE {},
                     refused |-> refused]
    /\ UNCHANGED <<attempt, child, lines, refused, stream, pipe, attempts, worker, recorded, channel, lost, missed, view>>

\* The child exits after its Terminal, or is killed at any time.
Exit ==
    /\ child = "running"
    /\ child' = "gone" /\ stream' = <<>>
    /\ UNCHANGED <<attempt, lines, refused, pipe, report, attempts, worker, recorded, channel, lost, missed, view>>

\* receive_frames and Observer.log: the reader never waits for the desktop.
Read ==
    /\ pipe # <<>>
    /\ pipe' = Tail(pipe)
    /\ IF Len(channel) < Capacity
       THEN channel' = Append(channel, Head(pipe)) /\ UNCHANGED <<lost, missed>>
       ELSE lost' = lost + 1 /\ missed' = missed \cup {Head(pipe)} /\ UNCHANGED channel
    /\ UNCHANGED <<attempt, child, lines, refused, stream, report, attempts, worker, recorded, view>>

\* run_attempts: the attempt's summary is published before a recovery
\* starts the second one; the worker ends with the last.
AttemptEnds ==
    /\ child = "gone" /\ pipe = <<>> /\ worker = "running"
    /\ attempts' = Append(attempts, report)
    /\ \/ /\ attempt = 1 /\ report.stage = "terminal"
          /\ attempt' = 2 /\ child' = "running" /\ report' = NoReport /\ lines' = 0 /\ refused' = 0
          /\ UNCHANGED worker
       \/ /\ worker' = "finished"
          /\ UNCHANGED <<attempt, child, report, lines, refused>>
    /\ UNCHANGED <<stream, pipe, recorded, channel, lost, missed, view>>

\* Mutant: a retained line is queued without being remembered.
OneForgotten(s, l) ==
    LET full == Len(s.queue) = Capacity IN
    IF l \in s.seen THEN s
    ELSE [queue |-> Append(IF full THEN Tail(s.queue) ELSE s.queue, l),
          seen |-> s.seen,
          dropped |-> s.dropped + (IF full THEN 1 ELSE 0),
          evicted |-> s.evicted \cup (IF full THEN {Head(s.queue)} ELSE {})]

\* State.log over a sequence of lines: each is queued at its first sight,
\* and the oldest gives way at the bound.
One(s, l) ==
    IF l \in s.seen THEN s
    ELSE LET full == Len(s.queue) = Capacity IN
         [queue |-> Append(IF full THEN Tail(s.queue) ELSE s.queue, l),
          seen |-> s.seen \cup {l},
          dropped |-> s.dropped + (IF full THEN 1 ELSE 0),
          evicted |-> s.evicted \cup (IF full THEN {Head(s.queue)} ELSE {})]

\* retained_logs and the drained lines go the same way.
Logged(s, ls) == FoldLeft(One, s, ls)

\* A record lists its lines in their order.
Ordered(ls) == SetToSortSeq(ls, LAMBDA a, b : a[2] < b[2])

Retained(s, records) == FoldLeft(LAMBDA t, r : Logged(t, Ordered(r.logs)), s, records)

Now == [queue |-> queue, seen |-> seen, dropped |-> dropped, evicted |-> evicted]
Becomes(s) == queue' = s.queue /\ seen' = s.seen /\ dropped' = s.dropped /\ evicted' = s.evicted

\* refresh, step by step against the running worker: drain the channel,
\* take the loss counter, look at the worker, then import its attempts.
Drain ==
    /\ at = "idle" /\ phase = "active"
    /\ batch' = channel /\ channel' = <<>> /\ at' = "count"
    /\ UNCHANGED <<running, missed, lost, finished, imported, queue, seen, dropped, phase, shown, evicted>>

\* Mutant: the counter is read and not taken.
CountRead ==
    /\ at = "count"
    /\ dropped' = dropped + lost /\ at' = "look"
    /\ UNCHANGED <<running, missed, channel, lost, batch, finished, imported, queue, seen, phase, shown, evicted>>

Count ==
    /\ at = "count"
    /\ dropped' = dropped + lost /\ lost' = 0 /\ at' = "look"
    /\ UNCHANGED <<running, missed, channel, batch, finished, imported, queue, seen, phase, shown, evicted>>

Look ==
    /\ at = "look"
    /\ finished' = (worker = "finished") /\ at' = "import"
    /\ UNCHANGED <<running, missed, channel, lost, batch, imported, queue, seen, dropped, phase, shown, evicted>>

RefusedBy(records) == FoldLeft(LAMBDA n, r : n + r.refused, 0, records)

\* The drained lines, then the lines of attempts not imported yet; when the
\* worker was seen finished, what arrived since, every attempt again and
\* the refusals their records count.
Import ==
    LET first == Retained(Logged(Now, batch), SubSeq(attempts, imported + 1, Len(attempts)))
        last == Retained(Logged(first, channel), attempts) IN
    /\ at = "import"
    /\ imported' = Len(attempts) /\ batch' = <<>> /\ at' = "idle"
    /\ IF finished
       THEN /\ Becomes([last EXCEPT !.dropped = @ + lost + RefusedBy(attempts)])
            /\ channel' = <<>> /\ lost' = 0 /\ phase' = "terminal"
       ELSE Becomes(first) /\ UNCHANGED <<channel, lost, phase>>
    /\ UNCHANGED <<running, missed, finished, shown>>

\* poll hands the queue over.
Poll ==
    /\ at = "idle" /\ queue # <<>>
    /\ shown' = shown \cup ToSet(queue) /\ queue' = <<>>
    /\ UNCHANGED <<running, missed, channel, lost, at, batch, finished, imported, seen, dropped, phase, evicted>>

Next ==
    \/ Log \/ Emit \/ Settle \/ Exit \/ Read \/ AttemptEnds
    \/ Drain \/ Count \/ Look \/ Import \/ Poll

Spec == Init /\ [][Next]_vars

Delivered == shown \cup ToSet(queue)

\* Lines of attempts whose record kept them.
Vouched == UNION {attempts[k].logs : k \in 1..Len(attempts)}

(***************************************************************************)
(* However the stream, the records and the polls interleave, a line is     *)
(* handed over at most once, and it is one a child recorded.  When the run *)
(* is over, every line an attempt's record kept was handed over or is      *)
(* counted as dropped, with every line the host refused.  The count is     *)
(* exact, each cause once: a line the channel refused is counted although  *)
(* its record may still have delivered it.                                 *)
(***************************************************************************)
LinesAreAccounted ==
    /\ Delivered \cup evicted \subseteq recorded
    /\ shown \cap ToSet(queue) = {} /\ IsInjective(queue)
    /\ evicted \cap Delivered = {}
    /\ phase = "terminal" =>
          /\ Vouched \subseteq Delivered \cup evicted
          /\ dropped = Cardinality(evicted) + Cardinality(missed) + RefusedBy(attempts)
=============================================================================
