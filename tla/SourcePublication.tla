--------------------------- MODULE SourcePublication ---------------------------
(***************************************************************************)
(* Publication of an edited package: authoring/publication.rs writes a     *)
(* journal with both sides of every changed file, replaces the files one   *)
(* by one through a scratch directory, the declaration last, checks the    *)
(* whole and retires the journal.  Recovery resumes it forwards, and while *)
(* the journal is there nothing else is admitted.                          *)
(*                                                                         *)
(* One action is one durable change or one read that a later step relies   *)
(* on.  The process may crash between any two, any step may fail, and      *)
(* another program may edit a file or put another directory in the         *)
(* package's place between any two.                                        *)
(***************************************************************************)
EXTENDS Naturals, FiniteSets

CONSTANTS Count,          \* files of both sides; the last one is package.json
          Before, After,  \* content by file
          Absent,         \* the content of a file that is not there
          Foreign,        \* bytes of neither side
          MaxFaults,      \* bound: crashes and failed steps
          MaxEdits        \* bound: changes by another program

Files == 1..Count
PublicationConstants ==
    /\ {Count, MaxFaults, MaxEdits} \subseteq Nat /\ Count > 0
    /\ Before \in [Files -> {Before[f] : f \in Files}] /\ After \in [Files -> {After[f] : f \in Files}]
    /\ \A f \in Files : Foreign \notin {Before[f], After[f]}

VARIABLES disk,     \* the files, and the identity of the directory they are in
          pending,  \* pending.json: the identity it names, 0 without a journal
          scratch,  \* the staging directory: what is staged for each file
          call,     \* the publication or the recovery: where it is, and its locals
          told,     \* what the last call returned
          faults,
          edited,   \* history: files edited by another program
          late,     \* history: what changed after the last check of the file at hand
          created   \* a package of its own: Create and Duplicate

publicationVars == <<disk, pending, scratch, call, told, faults, edited, late, created>>

NoScratch == [here |-> FALSE, next |-> [f \in Files |-> "none"]]
Idle == [at |-> "idle", file |-> 0, recovers |-> FALSE]
Unmoved == [file |-> FALSE, root |-> FALSE]

Init ==
    /\ disk = [file |-> Before, root |-> 1] /\ pending = 0 /\ scratch = NoScratch
    /\ call = Idle /\ told = "nothing" /\ faults = 0 /\ edited = {} /\ late = Unmoved /\ created = "missing"

At(where) == call.at = where
Goto(where) == call' = [call EXCEPT !.at = where]
Changed == {f \in Files : Before[f] # After[f]}
\* The files that differ, in order; the declaration is the last one.
NextChange(f) == IF \E g \in Changed : g > f THEN CHOOSE g \in Changed : g > f /\ \A h \in Changed : h > f => g <= h ELSE 0
\* The whole package was read: a file of neither side stops the journal.
Recognised == \A f \in Files : disk.file[f] \in {Before[f], After[f]}
Refuse(what) == call' = Idle /\ told' = what
Nothing == UNCHANGED <<disk, pending, scratch, faults, edited, created>>

\* check_current: admitted without a journal, on the bytes and the directory that were opened.
Publish ==
    /\ At("idle") /\ pending = 0 /\ disk.root = 1
    /\ disk.file = Before /\ Changed # {}
    /\ Goto("publish") /\ told' = "nothing" /\ late' = Unmoved /\ Nothing
\* Only a complete durable journal becomes the barrier.
PublishJournal ==
    /\ At("publish")
    /\ pending' = 1 /\ Goto("begin")
    /\ UNCHANGED <<disk, scratch, told, faults, edited, late, created>>
Recover ==
    /\ At("idle") /\ pending # 0
    /\ call' = [call EXCEPT !.at = "begin", !.recovers = TRUE]
    /\ told' = "nothing" /\ late' = Unmoved /\ Nothing

\* finish: everything is looked at before anything is written.
Begin ==
    /\ At("begin")
    /\ IF disk.root = pending /\ Recognised
       THEN /\ call' = [call EXCEPT !.at = "file", !.file = NextChange(0)] /\ scratch' = [scratch EXCEPT !.here = TRUE]
            /\ UNCHANGED told
       ELSE Refuse("incomplete") /\ UNCHANGED scratch
    /\ UNCHANGED <<disk, pending, faults, edited, late, created>>

Here(x) == disk.file[call.file] = x[call.file]
Advance == call' = [call EXCEPT !.at = IF NextChange(call.file) = 0 THEN "complete" ELSE "file",
                                !.file = NextChange(call.file)]
Look ==
    /\ At("file")
    /\ late' = Unmoved
    /\ IF disk.root # pending \/ ~(Here(Before) \/ Here(After)) THEN Refuse("incomplete")
       ELSE /\ UNCHANGED told
            /\ IF Here(After) THEN Advance
               ELSE Goto(IF After[call.file] = Absent THEN "replace" ELSE "stage")
    /\ Nothing
\* Mutant: whatever is staged is taken as written.
StagedAnyway == scratch.next[call.file] # "none"
\* A stage that a crash left whole is kept, a part of it is written again.
Staged == scratch.next[call.file] = "whole"
Stage ==
    /\ At("stage")
    /\ IF Staged THEN Goto("recheck") /\ UNCHANGED scratch
       ELSE Goto("write") /\ scratch' = [scratch EXCEPT !.next[call.file] = "part"]
    /\ UNCHANGED <<disk, pending, told, faults, edited, late, created>>
Write ==
    /\ At("write")
    /\ scratch' = [scratch EXCEPT !.next[call.file] = "whole"] /\ Goto("recheck")
    /\ UNCHANGED <<disk, pending, told, faults, edited, late, created>>
\* Mutant: the file is not read again.
UnchangedSince == TRUE
\* The source is read again immediately before its replacement.
Unchanged == Here(Before)
Recheck ==
    /\ At("recheck")
    /\ IF Unchanged THEN Goto("replace") /\ UNCHANGED told ELSE Refuse("incomplete")
    /\ late' = [late EXCEPT !.file = FALSE] /\ Nothing
\* A file that was not there is put there only while it is not there.
Taken == Before[call.file] = Absent /\ ~Here(Before)
ReplaceTaken ==
    /\ At("replace") /\ Taken
    /\ Refuse("incomplete") /\ UNCHANGED late /\ Nothing
Replace ==
    /\ At("replace") /\ ~Taken
    /\ disk' = [disk EXCEPT !.file[call.file] =
                   IF After[call.file] # Absent /\ scratch.next[call.file] = "part" THEN Foreign ELSE After[call.file]]
    /\ scratch' = [scratch EXCEPT !.next[call.file] = "none"]
    /\ Advance
    /\ UNCHANGED <<pending, told, faults, edited, late, created>>
Complete ==
    /\ At("complete")
    /\ IF disk.file = After THEN Goto("retire") /\ told' = "committed" ELSE Refuse("incomplete")
    /\ UNCHANGED late /\ Nothing
\* A journal that cannot be retired fails the recovery; the publication was complete before.
Unretired == IF call.recovers THEN "incomplete" ELSE told
\* What a crash left staged is a copy of what was installed.
RetireScratch ==
    /\ At("retire") /\ scratch.here
    /\ IF \E f \in Files : scratch.next[f] = "part" THEN Refuse(Unretired) /\ UNCHANGED scratch
       ELSE scratch' = NoScratch /\ UNCHANGED <<call, told>>
    /\ UNCHANGED <<disk, pending, faults, edited, late, created>>
RetireJournal ==
    /\ At("retire") /\ ~scratch.here
    /\ pending' = 0 /\ call' = Idle
    /\ UNCHANGED <<disk, scratch, told, faults, edited, late, created>>

-----------------------------------------------------------------------------
\* A package of its own is put together in a stage and moved to a name that is free.
Create ==
    /\ At("idle") /\ pending = 0 /\ created \in {"missing", "parents", "left"}
    /\ Goto("create") /\ created' = "parents"
    /\ UNCHANGED <<disk, pending, scratch, told, faults, edited, late>>
CreateStage ==
    /\ At("create") /\ created = "parents"
    /\ created' = "staged"
    /\ UNCHANGED <<disk, pending, scratch, call, told, faults, edited, late>>
CreatePublish ==
    /\ At("create") /\ created = "staged"
    /\ created' = "there" /\ call' = Idle
    /\ UNCHANGED <<disk, pending, scratch, told, faults, edited, late>>

\* A step fails and the call returns, or the process ends where it is.
Fault(where) ==
    /\ ~At("idle") /\ faults < MaxFaults
    /\ faults' = faults + 1
    /\ call' = Idle
    /\ told' = IF where = "crash" \/ At("create") THEN "nothing" ELSE IF At("retire") THEN Unretired ELSE "incomplete"
    /\ created' = IF created # "staged" THEN created ELSE IF where = "crash" THEN "left" ELSE "parents"
    /\ UNCHANGED <<disk, pending, scratch, edited, late>>
Edit(f, bytes) ==
    /\ Cardinality(edited \cup {f}) <= MaxEdits /\ disk.file[f] # bytes
    /\ disk' = [disk EXCEPT !.file[f] = bytes] /\ edited' = edited \cup {f}
    /\ late' = IF f = call.file THEN [late EXCEPT !.file = TRUE] ELSE late
    /\ UNCHANGED <<pending, scratch, call, told, faults, created>>
MoveRoot ==
    /\ disk.root = 1 /\ Cardinality(edited) < MaxEdits
    /\ disk' = [disk EXCEPT !.root = 2] /\ edited' = Files
    /\ late' = [late EXCEPT !.root = TRUE]
    /\ UNCHANGED <<pending, scratch, call, told, faults, created>>

Step ==
    \/ PublishJournal \/ Begin \/ Look \/ Stage \/ Write \/ Recheck \/ Replace \/ ReplaceTaken \/ Complete
    \/ RetireScratch \/ RetireJournal \/ CreateStage \/ CreatePublish
Next ==
    \/ Publish \/ Recover \/ Create \/ Step
    \/ \E where \in {"error", "crash"} : Fault(where)
    \/ \E f \in Files, bytes \in {Before[g] : g \in Files} \cup {Foreign, Absent} : Edit(f, bytes)
    \/ MoveRoot
Spec == Init /\ [][Next]_publicationVars

-----------------------------------------------------------------------------
Holds(side) == \A f \in Files \ edited : disk.file[f] = side[f]

\* Without a journal the files nobody edited are one side's, a publication that is reported as
\* committed is in all of them, and no file ever holds a part of what was being written
\* (publish_files, finish, retire).
PublicationIsWhole ==
    /\ pending = 0 => Holds(Before) \/ Holds(After)
    /\ told = "committed" => Holds(After)
    /\ \A f \in Files \ edited : disk.file[f] \in {Before[f], After[f]}

\* The step OthersAreKept allows.
OthersAreKeptStep ==
    \A f \in Files : At("replace") /\ disk'.file[f] # disk.file[f] /\ call.file = f /\ call' # call =>
       /\ disk.file[f] # Before[f] => late.file
       /\ disk.root # pending => late.root
       /\ f = Count => \A g \in Files \ edited : g # f => disk.file[g] = After[g]

\* The publisher takes away bytes of neither side, or of another directory, only when they come
\* after its last look at the file (finish), and the declaration is the last file it replaces.
OthersAreKept == [][OthersAreKeptStep]_publicationVars

=============================================================================
