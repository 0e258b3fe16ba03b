--------------------------- MODULE ApplicationLog ---------------------------
(***************************************************************************)
(* The application's own log (logging.rs).  Any thread publishes an entry: *)
(* under one lock it is numbered and admitted to a finite display queue,   *)
(* which sheds its oldest, and to a finite file queue, which refuses the   *)
(* newest.  One writer thread empties the file queue into three rotating   *)
(* files and never recovers from an error; shutdown waits a bounded time   *)
(* for it.  A new process finds the files the last one left.               *)
(*                                                                         *)
(* An entry is its number in its process; sanitising, fields and times     *)
(* decide nothing here.  Sizes are counted in records.                     *)
(***************************************************************************)
EXTENDS Naturals, Sequences, SequencesExt, FiniteSets

CONSTANTS GuiCapacity, FileCapacity,
          FileRecords,   \* FILE_BYTES: records a file holds
          MaxEntries,    \* bound: entries published by a process
          MaxProcesses   \* bound: processes in turn

VARIABLES process,       \* the current process
          sequence,      \* State.sequence
          gui, file,     \* the queues
          guiDropped, fileDropped, fileErrors, written,
          available, accepting, finished, timedOut,
          writing,       \* the line the writer took: <<>> or <<number>>
          at,            \* the writer: "open", "wait", "write", "remove",
                         \* "second", "first", "create", "flush", "done"
          stopping,      \* shutdown: "no", "closed", "returned"
          disk,          \* the three files, newest first: records <<process, number>>
          torn,          \* the newest file ends inside a record
          offered, taken \* entries published; entries drained by the display

counters == <<guiDropped, fileDropped, fileErrors, written, available>>
writer == <<writing, at, finished>>
files == <<disk, torn>>
vars == <<process, sequence, gui, file, counters, accepting, timedOut, writer, stopping, files, offered, taken>>

Fresh ==
    /\ sequence = 0 /\ gui = <<>> /\ file = <<>>
    /\ guiDropped = 0 /\ fileDropped = 0 /\ fileErrors = 0 /\ written = 0
    /\ available = TRUE /\ accepting = TRUE /\ finished = FALSE /\ timedOut = FALSE
    /\ writing = <<>> /\ at = "open" /\ stopping = "no"
    /\ offered = 0 /\ taken = 0

Init == process = 1 /\ Fresh /\ disk = <<<<>>, <<>>, <<>>>> /\ torn = FALSE

TypeOK ==
    /\ Len(gui) <= GuiCapacity /\ Len(file) <= FileCapacity /\ Len(writing) <= 1
    /\ \A k \in 1..3 : Len(disk[k]) <= FileRecords

\* Mutant: a display queue at its bound sheds without counting.
ShedsSilently(q) == FALSE

\* A display queue at its bound gives its oldest entry up, and counts it.
Sheds(q) == Len(q) = GuiCapacity

\* publish: refused by both sinks once shutdown has begun.
Publish ==
    /\ offered < MaxEntries
    /\ offered' = offered + 1
    /\ IF ~accepting
       THEN /\ guiDropped' = guiDropped + 1 /\ fileDropped' = fileDropped + 1
            /\ UNCHANGED <<sequence, gui, file>>
       ELSE LET n == sequence + 1 IN
            /\ sequence' = n
            /\ IF available /\ Len(file) < FileCapacity
               THEN file' = Append(file, n) /\ UNCHANGED fileDropped
               ELSE fileDropped' = fileDropped + 1 /\ UNCHANGED file
            /\ gui' = Append(IF Len(gui) = GuiCapacity THEN Tail(gui) ELSE gui, n)
            /\ guiDropped' = guiDropped + (IF Sheds(gui) THEN 1 ELSE 0)
    /\ UNCHANGED <<process, fileErrors, written, available, accepting, timedOut, writer, stopping, files, taken>>

Drain ==
    /\ gui # <<>>
    /\ taken' = taken + Len(gui) /\ gui' = <<>>
    /\ UNCHANGED <<process, sequence, file, counters, accepting, timedOut, writer, stopping, files, offered>>

\* Output::fail and the writer's end: the first error closes the file sink
\* and everything it still held is counted as dropped.
Fails ==
    /\ fileErrors' = fileErrors + 1
    /\ available' = FALSE /\ writing' = <<>>
    /\ fileDropped' = fileDropped + Len(file) /\ file' = <<>>
    /\ at' = "done" /\ finished' = TRUE
    /\ UNCHANGED <<guiDropped, written>>

\* Mutant: what the last process left is not looked at.
OpenAny ==
    /\ at = "open"
    /\ at' = "wait"
    /\ UNCHANGED <<counters, writing, finished, file>>
    /\ UNCHANGED <<process, sequence, gui, accepting, timedOut, stopping, files, offered, taken>>

\* RotatingFile::new: a file that is not ours, or one that ends inside a
\* record, is left as it is and the sink stays closed.
Open ==
    /\ at = "open"
    /\ \/ ~torn /\ at' = "wait" /\ UNCHANGED <<counters, writing, finished, file>>
       \/ Fails
    /\ UNCHANGED <<process, sequence, gui, accepting, timedOut, stopping, files, offered, taken>>

\* writer_loop: wait for a line, or for shutdown with nothing left.
Take ==
    /\ at = "wait"
    /\ \/ /\ file # <<>>
          /\ writing' = <<Head(file)>> /\ file' = Tail(file)
          /\ at' = IF Len(disk[1]) = FileRecords THEN "remove" ELSE "write"
       \/ /\ file = <<>> /\ ~accepting
          /\ at' = "flush" /\ UNCHANGED <<writing, file>>
    /\ UNCHANGED <<process, sequence, gui, counters, accepting, finished, timedOut, stopping, files, offered, taken>>

\* write_record's rotation, one system call at a time: the oldest file is
\* removed, the others move up, and a new one is created.
RotateStep(from, to, becomes) ==
    /\ at = from
    /\ \/ disk' = becomes /\ at' = to /\ UNCHANGED <<counters, writing, finished, file>>
       \/ Fails /\ UNCHANGED disk
    /\ UNCHANGED <<process, sequence, gui, accepting, timedOut, stopping, torn, offered, taken>>

RemoveOldest == RotateStep("remove", "second", <<disk[1], disk[2], <<>>>>)
MoveSecond == RotateStep("second", "first", <<disk[1], <<>>, disk[2]>>)
MoveFirst == RotateStep("first", "create", <<<<>>, disk[1], disk[3]>>)
Create == RotateStep("create", "write", disk)

\* The record is appended; an error may leave a part of it.
Write ==
    /\ at = "write"
    /\ \/ /\ disk' = [disk EXCEPT ![1] = Append(@, <<process, writing[1]>>)]
          /\ written' = written + 1 /\ writing' = <<>> /\ at' = "wait"
          /\ UNCHANGED <<torn, guiDropped, fileDropped, fileErrors, available, finished, file>>
       \/ Fails /\ torn' \in {torn, TRUE} /\ UNCHANGED disk
    /\ UNCHANGED <<process, sequence, gui, accepting, timedOut, stopping, offered, taken>>

Flush ==
    /\ at = "flush"
    /\ \/ at' = "done" /\ finished' = TRUE /\ UNCHANGED <<counters, writing, file>>
       \/ Fails
    /\ UNCHANGED <<process, sequence, gui, accepting, timedOut, stopping, files, offered, taken>>

\* shutdown: admission ends, then the writer is waited for, not for ever.
Close ==
    /\ stopping = "no"
    /\ stopping' = "closed" /\ accepting' = FALSE
    /\ UNCHANGED <<process, sequence, gui, file, counters, timedOut, writer, files, offered, taken>>

ShutdownReturns ==
    /\ stopping = "closed"
    /\ stopping' = "returned"
    /\ timedOut' \in {TRUE} \cup (IF at = "done" THEN {FALSE} ELSE {})
    /\ UNCHANGED <<process, sequence, gui, file, counters, accepting, writer, files, offered, taken>>

\* The process ends, with or without shutdown, and another starts: a record
\* being written may be left in part.
Restart ==
    /\ process < MaxProcesses
    /\ process' = process + 1
    /\ torn' \in {torn, torn \/ at = "write"}
    /\ sequence' = 0 /\ gui' = <<>> /\ file' = <<>>
    /\ guiDropped' = 0 /\ fileDropped' = 0 /\ fileErrors' = 0 /\ written' = 0
    /\ available' = TRUE /\ accepting' = TRUE /\ finished' = FALSE /\ timedOut' = FALSE
    /\ writing' = <<>> /\ at' = "open" /\ stopping' = "no"
    /\ offered' = 0 /\ taken' = 0
    /\ UNCHANGED disk

Next ==
    \/ Publish \/ Drain \/ Open \/ Take \/ RemoveOldest \/ MoveSecond \/ MoveFirst
    \/ Create \/ Write \/ Flush \/ Close \/ ShutdownReturns \/ Restart

Spec == Init /\ [][Next]_vars

\* What is on disk, oldest first.
History == disk[3] \o disk[2] \o disk[1]

Before(a, b) == a[1] < b[1] \/ (a[1] = b[1] /\ a[2] < b[2])

(***************************************************************************)
(* Every published entry is accounted for in each sink: the display took   *)
(* it, holds it or counts it dropped; the file has it, it is pending, or   *)
(* it is counted, but for the one line an error interrupted.  The files    *)
(* hold whole records in the order of publication, whatever process wrote  *)
(* them and wherever a rotation was interrupted, and once shutdown is      *)
(* complete without an error nothing is pending.                           *)
(***************************************************************************)
EntriesAreAccounted ==
    /\ offered = taken + Len(gui) + guiDropped
    /\ offered - (written + Len(file) + Len(writing) + fileDropped) \in 0..fileErrors
    /\ \A j, k \in 1..Len(History) : j < k => Before(History[j], History[k])
    /\ ~accepting /\ finished => file = <<>> /\ writing = <<>>
    /\ ~accepting /\ finished /\ fileErrors = 0 => written + fileDropped = offered

(***************************************************************************)
(* A record leaves the disk only as the oldest, by a rotation, and nothing *)
(* is appended after a record that was left in part.                       *)
(***************************************************************************)
\* The step OldestLeavesFirst allows.
OldestLeavesFirstStep ==
    /\ \E k \in 0..Len(History) :
          IsPrefix(SubSeq(History, k + 1, Len(History)), History')
    /\ torn => disk' = disk

OldestLeavesFirst == [][OldestLeavesFirstStep]_vars
=============================================================================
