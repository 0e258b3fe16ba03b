------------------------------ MODULE Bootstrap ------------------------------
(***************************************************************************)
(* The session above the Application: startup, first setup, the snapshot   *)
(* of the saved configuration, its replacement or recovery, and shutdown.  *)
(*                                                                         *)
(* Actions on the configuration exclude each other (holder); the commands  *)
(* of an Application do not ask that lock, and keep a handle of the        *)
(* Application they began with.  The configuration is one value; how its   *)
(* files are replaced is RestoreJournal's matter.                          *)
(***************************************************************************)
EXTENDS Naturals, FiniteSets, FiniteSetTheorems, TLAPS

CONSTANTS Callers,        \* bound: calls in flight at once
          Usable,         \* configurations that load
          MaxApplications \* bound: Applications built

None == "none"
Absent == "absent"  \* no root
Empty == "empty"    \* a root without a configuration file
Bad == "bad"        \* settings that do not decode
Contents == Usable \cup {Absent, Empty, Bad}
BootstrapBounds ==
    /\ MaxApplications \in Nat \ {0}
    /\ Usable \cap {Absent, Empty, Bad} = {} /\ None \notin Callers \cup Usable

VARIABLES disk,     \* content of the root, the journal of an interrupted replacement
          archives, \* contents that a preservation archive holds
          legacy,   \* the historical root that may be imported
          state,    \* Bootstrap.state
          closing,
          holder,   \* who holds Bootstrap.actions
          job,      \* what each caller is in the middle of
          built, live, \* Applications built, those not retired or shut down
          left      \* those whose shutdown did not succeed: their work may go on

bootstrapVars == <<disk, archives, legacy, state, closing, holder, job, built, live, left>>

NoJournal == [before |-> None, after |-> None]
NoJob == [at |-> "idle", kind |-> None, app |-> 0, seen |-> None, incoming |-> None]
Loading == [phase |-> "loading", application |-> 0, pending |-> FALSE, receipt |-> None]
Pending == disk.journal # NoJournal
Files == disk.content \notin {Absent, Empty}
\* What decodes and is valid: settings for a start, the whole set of documents for a replacement.
Loads(content) == content \in Usable
\* capture: two complete observations that agree; an unresolved write or an edit between them refuses.
Captures(content) == ~Pending /\ disk.content = content
\* What an archive that reads back with its manifest holds.
Archived(content) == content \in archives

Init ==
    /\ disk \in [content : Contents, journal : {NoJournal}]
    /\ archives = {} /\ legacy \in {None} \cup (IF disk.content = Absent THEN Usable ELSE {})
    /\ state = Loading /\ closing = FALSE
    /\ holder = None /\ job = [c \in Callers |-> NoJob]
    /\ built = 0 /\ live = {} /\ left = {}

-----------------------------------------------------------------------------
At(c, at) == job[c].at = at
Goto(c, at) == job' = [job EXCEPT ![c].at = at]
\* The action ends: its guard is dropped.
Leave(c) == job' = [job EXCEPT ![c] = NoJob] /\ holder' = IF holder = c THEN None ELSE holder
Fail(pending) == state' = [state EXCEPT !.phase = "recovery", !.pending = pending]

Begin(c, kind) ==
    /\ At(c, "idle") /\ ~closing /\ holder = None
    /\ kind = "start" => state.phase = "loading"
    /\ holder' = c
    /\ job' = [job EXCEPT ![c] = [NoJob EXCEPT !.at = IF kind = "start" THEN "load" ELSE kind, !.kind = kind]]
    /\ UNCHANGED <<disk, archives, legacy, state, closing, built, live, left>>

\* load: what stands in the way is looked for in this order, and nothing is built over it.
Load(c) ==
    /\ At(c, "load")
    /\ \/ /\ job[c].kind = "start" /\ state.phase # "loading"
          /\ Leave(c) /\ UNCHANGED state
       \/ /\ Pending \/ disk.content = Bad \/ job[c].kind # "start" \/ state.phase = "loading"
          /\ \/ /\ ~Pending /\ disk.content \in {Absent, Empty}
                /\ state' = [state EXCEPT !.phase = "setup", !.pending = FALSE]
                /\ Leave(c)
             \/ /\ Pending \/ disk.content = Bad
                /\ Fail(Pending) /\ Leave(c)
             \/ /\ ~Pending /\ Loads(disk.content) /\ built < MaxApplications
                /\ state' = [state EXCEPT !.pending = FALSE]
                /\ IF closing THEN Leave(c)
                   ELSE Goto(c, "make") /\ UNCHANGED holder
    /\ UNCHANGED <<disk, archives, legacy, closing, built, live, left>>
Make(c) ==
    /\ At(c, "make")
    /\ \/ /\ built' = built + 1 /\ live' = live \cup {built'}
          /\ job' = [job EXCEPT ![c].at = "made", ![c].app = built']
          /\ UNCHANGED <<state, holder>>
       \/ /\ Fail(FALSE) /\ Leave(c) /\ UNCHANGED <<built, live>>
    /\ UNCHANGED <<disk, archives, legacy, closing, left>>
\* One that nobody could use has nothing whose shutdown could fail.
Made(c) ==
    /\ At(c, "made")
    /\ IF closing THEN Leave(c) /\ live' = live \ {job[c].app}
       ELSE Goto(c, "publish") /\ UNCHANGED <<holder, live>>
    /\ UNCHANGED <<disk, archives, legacy, state, closing, built, left>>
Publish(c) ==
    /\ At(c, "publish") /\ Leave(c)
    /\ state' = [state EXCEPT !.application = job[c].app, !.phase = "ready"]
    /\ UNCHANGED <<disk, archives, legacy, closing, built, live, left>>

\* Setup writes the first settings and never over settings that appeared.
Initialize(c) ==
    /\ At(c, "initialize")
    /\ IF state.application # 0 \/ Pending THEN Leave(c) /\ UNCHANGED disk
       ELSE /\ \/ disk.content \in {Absent, Empty} /\ \E s \in Usable : disk' = [disk EXCEPT !.content = s]
               \/ UNCHANGED disk
            /\ Goto(c, "load") /\ UNCHANGED holder
    /\ UNCHANGED <<archives, legacy, state, closing, built, live, left>>
\* The historical root is read twice and published where nothing stands.
ImportLegacy(c) ==
    /\ At(c, "import")
    /\ \/ /\ state.application # 0 \/ legacy = None
          /\ Leave(c) /\ UNCHANGED <<disk, state>>
       \/ /\ state.application = 0 /\ legacy # None /\ disk.content = Absent
          /\ disk' = [disk EXCEPT !.content = legacy]
          /\ Goto(c, "load") /\ UNCHANGED <<holder, state>>
       \/ /\ state.application = 0 /\ legacy # None
          /\ Fail(state.pending) /\ Leave(c) /\ UNCHANGED disk
    /\ UNCHANGED <<archives, legacy, closing, built, live, left>>

\* Application::shutdown: it takes no command any more; the outcome is decided once.
Shuts(a) ==
    /\ live' = live \ {a}
    /\ left' \in IF a \in live THEN {left, left \cup {a}} ELSE {left}

\* prepare_reconstruction, if the caller gives up its drafts: refused while anything works; once begun, or
\* begun by a shutdown, the Application is gone either way.
Retire(c, next) ==
    \/ state.application = 0 /\ Goto(c, next) /\ UNCHANGED <<state, holder, live, left>>
    \/ state.application # 0 /\ Leave(c) /\ UNCHANGED <<state, live, left>>
    \/ /\ state.application \in live /\ Shuts(state.application)
       /\ state.application \notin left'
       /\ state' = [state EXCEPT !.application = 0] /\ Goto(c, next) /\ UNCHANGED holder
    \/ /\ state.application # 0 /\ Shuts(state.application)
       /\ Fail(state.pending) /\ Leave(c)  \* its shutdown, or that of its log, was incomplete
Retry(c) ==
    /\ At(c, "retry") /\ Retire(c, "load")
    /\ UNCHANGED <<disk, archives, legacy, closing, built>>

-----------------------------------------------------------------------------
\* Snapshot and replacement.

SnapshotCapture(c) ==
    /\ At(c, "snapshot")
    /\ \/ /\ Captures(disk.content) /\ Files
          /\ job' = [job EXCEPT ![c].at = "archive", ![c].seen = disk.content] /\ UNCHANGED holder
       \/ Leave(c)
    /\ UNCHANGED <<disk, archives, legacy, state, closing, built, live, left>>
\* Written beside, read back, published under a new name, read back again.
SnapshotWrite(c) ==
    /\ At(c, "archive") /\ Leave(c)
    /\ \/ archives' = archives \cup {job[c].seen} /\ state' = [state EXCEPT !.receipt = job[c].seen]
       \/ archives' \in {archives, archives \cup {job[c].seen}} /\ UNCHANGED state
    /\ UNCHANGED <<disk, legacy, closing, built, live, left>>

\* The archive of the receipt must still hold what is about to go.
Preserved == Files => state.receipt = disk.content /\ Archived(state.receipt)
RestoreCheck(c) ==
    /\ At(c, "restore")
    /\ \/ /\ Captures(disk.content) /\ Preserved
          /\ \E incoming \in Usable :
                job' = [job EXCEPT ![c].at = "retire", ![c].seen = disk.content, ![c].incoming = incoming]
          /\ UNCHANGED holder
       \/ Leave(c)
    /\ UNCHANGED <<disk, archives, legacy, state, closing, built, live, left>>
RestoreRetire(c) ==
    /\ At(c, "retire") /\ Retire(c, "install")
    /\ UNCHANGED <<disk, archives, legacy, closing, built>>
\* Mutant: what was seen before the Application was retired is taken for what is there
InstallUnchecked(c) == ~Pending
Unchanged(c) == Captures(job[c].seen)
Install(c) ==
    /\ At(c, "install")
    /\ \/ /\ Unchanged(c)
          /\ disk' = [disk EXCEPT !.content = job[c].incoming]
          /\ state' = [state EXCEPT !.receipt = None]
          /\ Goto(c, "load") /\ UNCHANGED holder
       \/ /\ Unchanged(c)  \* it stops between files and cannot be rolled back
          /\ disk' = [disk EXCEPT !.journal = [before |-> job[c].seen, after |-> job[c].incoming]]
          /\ Fail(TRUE) /\ Leave(c)
       \/ /\ UNCHANGED disk
          /\ Fail(Pending) /\ Leave(c)
    /\ UNCHANGED <<archives, legacy, closing, built, live, left>>

RecoverCheck(c) ==
    /\ At(c, "recover")
    /\ \/ Pending /\ Goto(c, "settle") /\ UNCHANGED holder
       \/ Leave(c)
    /\ UNCHANGED <<disk, archives, legacy, state, closing, built, live, left>>
RecoverRetire(c) ==
    /\ At(c, "settle") /\ Retire(c, "recovering")
    /\ UNCHANGED <<disk, archives, legacy, closing, built>>
Recover(c) ==
    /\ At(c, "recovering")
    /\ \/ /\ \E content \in {disk.journal.before, disk.journal.after} : disk' = [content |-> content, journal |-> NoJournal]
          /\ state' = [state EXCEPT !.receipt = None]
          /\ Goto(c, "load") /\ UNCHANGED holder
       \/ /\ UNCHANGED disk
          /\ Fail(Pending) /\ Leave(c)
    /\ UNCHANGED <<archives, legacy, closing, built, live, left>>

-----------------------------------------------------------------------------
\* Commands of an Application, through the handle they were admitted with.

Use(c, what) ==
    /\ At(c, "idle") /\ ~closing /\ state.phase = "ready" /\ state.application # 0
    /\ job' = [job EXCEPT ![c] = [NoJob EXCEPT !.at = what, !.app = state.application]]
    /\ UNCHANGED <<disk, archives, legacy, state, closing, holder, built, live, left>>
\* A write asks whether the Application closed and whether a journal stands in the way.
SaveSettings(c) ==
    /\ At(c, "save")
    /\ \/ /\ job[c].app \in live /\ ~Pending /\ Loads(disk.content)
          /\ \E s \in Usable :
                disk' = [disk EXCEPT !.content = s] /\ job' = [job EXCEPT ![c].at = "note", ![c].seen = s]
       \/ /\ job' = [job EXCEPT ![c].at = "note", ![c].seen = disk.content] /\ UNCHANGED disk
    /\ UNCHANGED <<archives, legacy, state, closing, holder, built, live, left>>
\* The import of a historical profile is a replacement of its own, and can stop half way.
ImportProfile(c) ==
    /\ At(c, "profile") /\ job' = [job EXCEPT ![c] = NoJob]
    /\ \/ /\ job[c].app \in live /\ ~Pending /\ Loads(disk.content)
          /\ \E s \in Usable \ {disk.content} :
                disk' \in {[disk EXCEPT !.content = s], [disk EXCEPT !.journal = [before |-> disk.content, after |-> s]]}
       \/ UNCHANGED disk
    /\ UNCHANGED <<archives, legacy, state, closing, holder, built, live, left>>
NoteSettings(c) ==
    /\ At(c, "note") /\ job' = [job EXCEPT ![c] = NoJob]
    /\ state' = IF job[c].app # state.application THEN state
                ELSE IF Loads(job[c].seen) THEN state
                ELSE [state EXCEPT !.phase = "recovery"]
    /\ UNCHANGED <<disk, archives, legacy, closing, holder, built, live, left>>
\* status: the catalog's fault is kept only if the Application it came from is still the one.
StatusFault(c) ==
    /\ At(c, "status") /\ job' = [job EXCEPT ![c] = NoJob]
    /\ state' \in {state, IF state.phase = "ready" /\ state.application = job[c].app
                          THEN [state EXCEPT !.phase = "recovery", !.pending = Pending] ELSE state}
    /\ UNCHANGED <<disk, archives, legacy, closing, holder, built, live, left>>

-----------------------------------------------------------------------------
\* Shutdown contains the published Application before it waits for an action in progress.

Close(c) ==
    /\ At(c, "idle") /\ closing' = TRUE
    /\ Goto(c, "contain")
    /\ UNCHANGED <<disk, archives, legacy, state, holder, built, live, left>>
ShutdownPublished(c) ==
    /\ At(c, "contain") /\ Shuts(state.application)
    /\ Goto(c, IF state.application \in left' THEN "refused" ELSE "await")
    /\ UNCHANGED <<disk, archives, legacy, state, closing, holder, built>>
\* Mutant: what was published while it waited stays
ShutdownOnce(c) ==
    /\ job[c].at \in {"await", "refused"} /\ holder = None
    /\ Goto(c, IF At(c, "await") THEN "down" ELSE "incomplete")
    /\ UNCHANGED <<disk, archives, legacy, state, closing, holder, built, live, left>>
\* The shutdown succeeds when both parts did.
ShutdownAgain(c) ==
    /\ job[c].at \in {"await", "refused"} /\ holder = None /\ Shuts(state.application)
    /\ Goto(c, IF At(c, "await") /\ state.application \notin left' THEN "down" ELSE "incomplete")
    /\ UNCHANGED <<disk, archives, legacy, state, closing, holder, built>>

\* The end of the process: only files stay.
Restart ==
    /\ state' = Loading /\ closing' = FALSE /\ holder' = None /\ live' = {} /\ left' = {}
    /\ job' = [c \in Callers |-> NoJob]
    /\ legacy' \in IF disk.content = Absent THEN {None, legacy} ELSE {None}
    /\ UNCHANGED <<disk, archives, built>>
EditFiles ==
    /\ ~Pending /\ \E content \in Contents \ {disk.content} : disk' = [disk EXCEPT !.content = content]
    /\ UNCHANGED <<archives, legacy, state, closing, holder, job, built, live, left>>
LoseArchive ==
    /\ \E a \in archives : archives' = archives \ {a}
    /\ UNCHANGED <<disk, legacy, state, closing, holder, job, built, live, left>>

Kinds == {"start", "initialize", "import", "retry", "snapshot", "restore", "recover"}
Next ==
    \/ \E c \in Callers :
        \/ \E kind \in Kinds : Begin(c, kind)
        \/ Load(c) \/ Make(c) \/ Made(c) \/ Publish(c) \/ Initialize(c) \/ ImportLegacy(c) \/ Retry(c)
        \/ SnapshotCapture(c) \/ SnapshotWrite(c) \/ RestoreCheck(c) \/ RestoreRetire(c) \/ Install(c)
        \/ RecoverCheck(c) \/ RecoverRetire(c) \/ Recover(c)
        \/ \E what \in {"save", "profile", "status"} : Use(c, what)
        \/ SaveSettings(c) \/ ImportProfile(c) \/ NoteSettings(c) \/ StatusFault(c)
        \/ Close(c) \/ ShutdownPublished(c) \/ ShutdownAgain(c)
    \/ Restart \/ EditFiles \/ LoseArchive
Spec == Init /\ [][Next]_bootstrapVars

-----------------------------------------------------------------------------
\* There is never a second Application at work, not even beside one whose shutdown failed; none takes
\* commands once a shutdown has returned and none is at work once it has succeeded; and a published one
\* that takes no commands is either closing or waiting for a repair (bootstrap.rs: retire, load,
\* shutdown).
AtWork == live \cup left
OneSession ==
    /\ Cardinality(AtWork) <= 1
    /\ \A c \in Callers : At(c, "incomplete") => live = {}
    /\ \A c \in Callers : At(c, "down") => AtWork = {}
    /\ state.phase = "ready" /\ state.application \notin live \cup {0} => closing

\* The step ReplacedIsPreserved allows.
ReplacedIsPreservedStep ==
    \A c \in Callers :
     /\ At(c, "install") /\ job' # job /\ job'[c].at \in {"load", "idle"} /\ disk' # disk => AtWork = {} /\ (Files => state.receipt = disk.content)
     /\ At(c, "recovering") /\ job'[c].at = "load" => AtWork = {}

\* A replacement takes away only what the receipt's archive was seen to hold, and no Application is at
\* work while it or a recovery changes the files (bootstrap.rs: restore_snapshot, recover_restore).
ReplacedIsPreserved == [][ReplacedIsPreservedStep]_bootstrapVars

-----------------------------------------------------------------------------
(* Theorems, for any callers and configurations.                            *)

Holding == {"load", "make", "made", "publish", "initialize", "import", "retry", "snapshot",
            "archive", "restore", "retire", "install", "recover", "settle", "recovering"}
Free == {"idle", "save", "profile", "status", "note", "contain", "await", "refused", "down",
         "incomplete"}
Phases == {"loading", "setup", "ready", "recovery"}
Journal == [before : Contents, after : Usable] \cup {NoJournal}

Jobs == [at : Holding \cup Free, kind : Kinds \cup {None}, app : Nat,
         seen : Contents \cup {None}, incoming : Usable \cup {None}]

TypeOK ==
    /\ disk \in [content : Contents, journal : Journal]
    /\ archives \subseteq Contents /\ legacy \in Usable \cup {None}
    /\ state \in [phase : Phases, application : Nat, pending : BOOLEAN,
                  receipt : Contents \cup {None}]
    /\ closing \in BOOLEAN /\ holder \in Callers \cup {None}
    /\ job \in [Callers -> Jobs]
    /\ built \in Nat /\ live \subseteq Nat \ {0} /\ left \subseteq Nat \ {0}

\* Between its retirement and its publication no Application is published.
Retired(c) ==
    \/ job[c].at \in {"make", "made", "publish", "install", "recovering"}
    \/ job[c].at = "load" /\ job[c].kind # "start"
Builds(c) == job[c].at \in {"made", "publish"}

JobFits(c) ==
    /\ job[c].at \in Holding <=> holder = c
    /\ Retired(c) => state.application = 0
    /\ Builds(c) => job[c].app \in live
    /\ job[c].at \in {"contain", "await", "refused", "down", "incomplete"} => closing
    /\ job[c].at \in {"down", "incomplete"} => holder = None /\ live = {}
    /\ job[c].at = "down" => left = {}
    /\ job[c].at \in {"retire", "install"} /\ job[c].seen \notin {Absent, Empty} =>
          state.receipt = job[c].seen
    /\ job[c].at \in {"archive", "retire", "install"} => job[c].seen \in Contents
    /\ job[c].at \in {"retire", "install"} => job[c].incoming \in Usable
    /\ job[c].at \in {"settle", "recovering"} => Pending
SessionFits ==
    /\ state.phase = "loading" => state.application = 0
    /\ left \subseteq {state.application} \ live
    /\ \A a \in live : a = state.application \/ \E c \in Callers : Builds(c) /\ job[c].app = a
    /\ state.phase = "ready" /\ state.application \notin live \cup {0} => closing

IInv == TypeOK /\ SessionFits /\ \A c \in Callers : JobFits(c)

\* What a shutdown of the published Application changes: it is no longer live, and only it can be left.
LEMMA ShutsDoes ==
    ASSUME IInv, Shuts(state.application)
    PROVE  /\ live' = live \ {state.application} /\ live' \subseteq Nat \ {0}
           /\ left' \subseteq Nat \ {0} /\ left' \subseteq {state.application} \ live'
           /\ state.application \notin live => left' = left
  <1>1. live \subseteq Nat \ {0} /\ left \subseteq Nat \ {0} /\ left \subseteq {state.application}
    BY DEF IInv, TypeOK, SessionFits
  <1>2. live' = live \ {state.application}
    BY DEF Shuts
  <1>3. left' \in {left, left \cup {state.application}}
    BY DEF Shuts
  <1>4. state.application \notin live => left' = left
    BY DEF Shuts
  <1> QED
    BY <1>1, <1>2, <1>3, <1>4

LEMMA LoadKeeps ==
    ASSUME BootstrapBounds, IInv, NEW c \in Callers, Load(c)
    PROVE  IInv'
  <1>1. CASE /\ job[c].kind = "start"
             /\ state.phase # "loading"
             /\ Leave(c) /\ UNCHANGED state
    <2>1. TypeOK'
      BY <1>1 DEF NoJob, Leave, Load, Free, Jobs, TypeOK, IInv
    <2>2. SessionFits'
      BY <1>1 DEF At, Leave, Load, Builds, SessionFits, IInv
    <2>3. ASSUME NEW d \in Callers PROVE JobFits(d)'
      BY <1>1 DEF BootstrapBounds, NoJob, At, Leave, Load, Holding, TypeOK, Retired, Builds,
         JobFits, IInv
    <2> QED
      BY <2>1, <2>2, <2>3 DEF IInv
  <1>2. CASE /\ ~Pending /\ disk.content \in {Absent, Empty}
             /\ job[c].kind # "start" \/ state.phase = "loading"
             /\ state' = [state EXCEPT !.phase = "setup", !.pending = FALSE]
             /\ Leave(c)
    <2>1. TypeOK'
      BY <1>2 DEF NoJob, Leave, Load, Free, Phases, Jobs, TypeOK, IInv
    <2>2. SessionFits'
      BY <1>2 DEF At, Leave, Load, Builds, SessionFits, IInv
    <2>3. ASSUME NEW d \in Callers PROVE JobFits(d)'
      BY <1>2 DEF BootstrapBounds, NoJob, Leave, Load, Holding, TypeOK, Retired, Builds, JobFits,
         IInv
    <2> QED
      BY <2>1, <2>2, <2>3 DEF IInv
  <1>3. CASE /\ Pending \/ disk.content = Bad
             /\ Fail(Pending) /\ Leave(c)
    <2>1. TypeOK'
      BY <1>3 DEF NoJob, Pending, Leave, Fail, Load, Free, Phases, Jobs, TypeOK, IInv
    <2>2. SessionFits'
      BY <1>3 DEF At, Leave, Fail, Load, Builds, SessionFits, IInv
    <2>3. ASSUME NEW d \in Callers PROVE JobFits(d)'
      BY <1>3 DEF BootstrapBounds, NoJob, At, Leave, Load, Holding, TypeOK, Retired, Builds,
         JobFits, IInv
    <2> QED
      BY <2>1, <2>2, <2>3 DEF IInv
  <1>4. CASE /\ ~Pending /\ Loads(disk.content)
             /\ job[c].kind # "start" \/ state.phase = "loading"
             /\ state' = [state EXCEPT !.pending = FALSE]
             /\ IF closing THEN Leave(c) ELSE Goto(c, "make") /\ UNCHANGED holder
    <2>1. TypeOK'
      <3>1. job' \in [Callers -> Jobs]
        <4>1. NoJob \in Jobs /\ [job[c] EXCEPT !.at = "make"] \in Jobs
          BY DEF NoJob, Jobs, Holding, Free, IInv, TypeOK
        <4> QED
          BY <1>4, <4>1 DEF Leave, Goto, IInv, TypeOK
      <3>2. disk' = disk /\ archives' = archives /\ legacy' = legacy /\ closing' = closing /\ built' = built /\ live' = live
        BY DEF Load
      <3>3. holder' \in Callers \cup {None}
        BY <1>4 DEF Leave, IInv, TypeOK
      <3> QED
        BY <1>4, <3>1, <3>2, <3>3 DEF Load, TypeOK, IInv
    <2>2. SessionFits'
      BY <1>4 DEF Pending, At, Goto, Leave, Load, Holding, TypeOK, Builds, SessionFits, IInv
    <2>3. ASSUME NEW d \in Callers PROVE JobFits(d)'
      BY <1>4 DEF BootstrapBounds, NoJob, At, Goto, Leave, Load, Holding, Jobs, TypeOK, Retired,
         Builds, JobFits, SessionFits, IInv
    <2> QED
      BY <2>1, <2>2, <2>3 DEF IInv
  <1> QED
    BY <1>1, <1>2, <1>3, <1>4 DEF Load, Loads, BootstrapBounds, Absent, Empty, Bad

LEMMA MakeKeeps ==
    ASSUME BootstrapBounds, IInv, NEW c \in Callers, Make(c)
    PROVE  IInv'
  <1>1. CASE /\ built' = built + 1 /\ live' = live \cup {built'}
             /\ job' = [job EXCEPT ![c].at = "made", ![c].app = built']
             /\ UNCHANGED <<state, holder>>
    <2>1. TypeOK'
      <3>1. built' \in Nat /\ live' \subseteq Nat \ {0}
        BY <1>1 DEF IInv, TypeOK
      <3>2. job' \in [Callers -> Jobs]
        <4>1. [job[c] EXCEPT !.at = "made", !.app = built'] \in Jobs
          BY ZenonT(60), <3>1 DEF IInv, TypeOK, Jobs, Holding
        <4>2. job' = [job EXCEPT ![c] = [job[c] EXCEPT !.at = "made", !.app = built']]
          BY <1>1 DEF IInv, TypeOK, Jobs
        <4> QED
          BY <4>1, <4>2 DEF IInv, TypeOK
      <3> QED
        BY <1>1, <3>1, <3>2 DEF Make, TypeOK, IInv
    <2>2. SessionFits'
      <3>1. left = {}
        BY DEF At, Make, TypeOK, Retired, JobFits, SessionFits, IInv
      <3> QED
        BY <1>1, <3>1 DEF At, Make, TypeOK, Builds, SessionFits, IInv
    <2>3. ASSUME NEW d \in Callers PROVE JobFits(d)'
      BY <1>1 DEF BootstrapBounds, At, Make, Holding, TypeOK, Retired, Builds, JobFits, IInv
    <2> QED
      BY <2>1, <2>2, <2>3 DEF IInv
  <1>2. CASE Fail(FALSE) /\ Leave(c) /\ UNCHANGED <<built, live>>
    <2>1. TypeOK'
      BY <1>2 DEF NoJob, Leave, Fail, Make, Free, Phases, Jobs, TypeOK, IInv
    <2>2. SessionFits'
      BY <1>2 DEF At, Leave, Fail, Make, Builds, SessionFits, IInv
    <2>3. ASSUME NEW d \in Callers PROVE JobFits(d)'
      BY <1>2 DEF BootstrapBounds, NoJob, At, Leave, Make, Holding, TypeOK, Retired, Builds,
         JobFits, IInv
    <2> QED
      BY <2>1, <2>2, <2>3 DEF IInv
  <1> QED
    BY <1>1, <1>2 DEF Make

LEMMA MadeKeeps ==
    ASSUME BootstrapBounds, IInv, NEW c \in Callers, Made(c)
    PROVE  IInv'
  <1>1. TypeOK'
    BY DEF NoJob, Goto, Leave, Made, Holding, Free, Jobs, TypeOK, IInv
  <1>2. SessionFits'
    BY DEF Goto, Leave, Made, Jobs, TypeOK, Builds, SessionFits, IInv
  <1>3. ASSUME NEW d \in Callers PROVE JobFits(d)'
    BY DEF BootstrapBounds, NoJob, At, Goto, Leave, Made, Holding, Jobs, TypeOK, Retired, Builds,
       JobFits, IInv
  <1> QED
    BY <1>1, <1>2, <1>3 DEF IInv

LEMMA PublishKeeps ==
    ASSUME BootstrapBounds, IInv, NEW c \in Callers, Publish(c)
    PROVE  IInv'
  <1>1. TypeOK'
    BY DEF NoJob, Leave, Publish, Free, Phases, Jobs, TypeOK, IInv
  <1>2. SessionFits'
    BY DEF At, Leave, Publish, TypeOK, Retired, Builds, JobFits, SessionFits, IInv
  <1>3. ASSUME NEW d \in Callers PROVE JobFits(d)'
    BY DEF BootstrapBounds, NoJob, At, Leave, Publish, Holding, TypeOK, Retired, Builds, JobFits,
       IInv
  <1> QED
    BY <1>1, <1>2, <1>3 DEF IInv

LEMMA InitializeKeeps ==
    ASSUME BootstrapBounds, IInv, NEW c \in Callers, Initialize(c)
    PROVE  IInv'
  <1>1. TypeOK'
    BY DEF Contents, NoJob, Goto, Leave, Initialize, Holding, Free, Jobs, TypeOK, IInv
  <1>2. SessionFits'
    BY DEF At, Goto, Leave, Initialize, TypeOK, Builds, SessionFits, IInv
  <1>3. ASSUME NEW d \in Callers PROVE JobFits(d)'
    BY DEF BootstrapBounds, NoJob, At, Goto, Leave, Initialize, Holding, Jobs, TypeOK, Retired,
       Builds, JobFits, IInv
  <1> QED
    BY <1>1, <1>2, <1>3 DEF IInv

LEMMA ImportLegacyKeeps ==
    ASSUME BootstrapBounds, IInv, NEW c \in Callers, ImportLegacy(c)
    PROVE  IInv'
  <1>1. CASE /\ state.application # 0 \/ legacy = None
             /\ Leave(c) /\ UNCHANGED <<disk, state>>
    <2>1. TypeOK'
      BY <1>1 DEF NoJob, Leave, ImportLegacy, Free, Jobs, TypeOK, IInv
    <2>2. SessionFits'
      BY <1>1 DEF At, Leave, ImportLegacy, Builds, SessionFits, IInv
    <2>3. ASSUME NEW d \in Callers PROVE JobFits(d)'
      BY <1>1 DEF BootstrapBounds, NoJob, At, Leave, ImportLegacy, Holding, TypeOK, Retired,
         Builds, JobFits, IInv
    <2> QED
      BY <2>1, <2>2, <2>3 DEF IInv
  <1>2. CASE /\ state.application = 0 /\ legacy # None
             /\ disk' = [disk EXCEPT !.content = legacy]
             /\ Goto(c, "load") /\ UNCHANGED <<holder, state>>
    <2>1. TypeOK'
      BY <1>2 DEF Contents, Goto, ImportLegacy, Holding, Phases, Jobs, TypeOK, IInv
    <2>2. SessionFits'
      BY <1>2 DEF At, Goto, ImportLegacy, Builds, SessionFits, IInv
    <2>3. ASSUME NEW d \in Callers PROVE JobFits(d)'
      BY <1>2 DEF At, Goto, ImportLegacy, Holding, Builds, JobFits, IInv
    <2> QED
      BY <2>1, <2>2, <2>3 DEF IInv
  <1>3. CASE /\ state.application = 0 /\ legacy # None
             /\ Fail(state.pending) /\ Leave(c) /\ UNCHANGED disk
    <2>1. TypeOK'
      BY <1>3 DEF NoJob, Leave, Fail, ImportLegacy, Free, Phases, Jobs, TypeOK, IInv
    <2>2. SessionFits'
      BY <1>3 DEF At, Leave, Fail, ImportLegacy, Builds, SessionFits, IInv
    <2>3. ASSUME NEW d \in Callers PROVE JobFits(d)'
      BY <1>3 DEF BootstrapBounds, NoJob, At, Leave, Fail, ImportLegacy, Holding, TypeOK, Builds,
         JobFits, IInv
    <2> QED
      BY <2>1, <2>2, <2>3 DEF IInv
  <1> QED
    BY <1>1, <1>2, <1>3 DEF ImportLegacy

LEMMA RetryKeeps ==
    ASSUME BootstrapBounds, IInv, NEW c \in Callers, Retry(c)
    PROVE  IInv'
  <1>1. CASE state.application = 0 /\ Goto(c, "load") /\ UNCHANGED <<state, holder, live, left>>
    <2>1. TypeOK'
      BY <1>1 DEF Goto, Retry, Holding, Jobs, TypeOK, IInv
    <2>2. SessionFits'
      BY <1>1 DEF At, Goto, Retry, Builds, SessionFits, IInv
    <2>3. ASSUME NEW d \in Callers PROVE JobFits(d)'
      BY <1>1 DEF At, Goto, Retry, Holding, Builds, JobFits, IInv
    <2> QED
      BY <2>1, <2>2, <2>3 DEF IInv
  <1>2. CASE state.application # 0 /\ Leave(c) /\ UNCHANGED <<state, live, left>>
    <2>1. TypeOK'
      BY <1>2 DEF NoJob, Leave, Retry, Free, Jobs, TypeOK, IInv
    <2>2. SessionFits'
      BY <1>2 DEF At, Leave, Retry, Builds, SessionFits, IInv
    <2>3. ASSUME NEW d \in Callers PROVE JobFits(d)'
      BY <1>2 DEF BootstrapBounds, NoJob, At, Leave, Retry, Holding, TypeOK, Retired, Builds,
         JobFits, IInv
    <2> QED
      BY <2>1, <2>2, <2>3 DEF IInv
  <1>3. CASE /\ state.application \in live /\ Shuts(state.application)
             /\ state.application \notin left'
             /\ state' = [state EXCEPT !.application = 0] /\ Goto(c, "load") /\ UNCHANGED holder
    <2>1. TypeOK'
      <3>1. job' \in [Callers -> Jobs]
        BY <1>3 DEF Goto, Holding, Jobs, TypeOK, IInv
      <3>2. state' \in [phase : Phases, application : Nat, pending : BOOLEAN,
                        receipt : Contents \cup {None}]
        BY <1>3 DEF TypeOK, IInv
      <3>3. live' \subseteq Nat \ {0} /\ left' \subseteq Nat \ {0}
        BY <1>3, ShutsDoes
      <3> QED
        BY <1>3, <3>1, <3>2, <3>3 DEF Retry, TypeOK, IInv
    <2>2. SessionFits'
      BY <1>3, ShutsDoes DEF At, Goto, Retry, Builds, SessionFits, IInv
    <2>3. ASSUME NEW d \in Callers PROVE JobFits(d)'
      BY <1>3, ShutsDoes DEF At, Goto, Retry, Holding, Builds, JobFits, IInv
    <2> QED
      BY <2>1, <2>2, <2>3 DEF IInv
  <1>4. CASE /\ state.application # 0 /\ Shuts(state.application)
             /\ Fail(state.pending) /\ Leave(c)
    <2>1. TypeOK'
      BY <1>4, ShutsDoes DEF NoJob, Leave, Fail, Retry, Free, Phases, Jobs, TypeOK, IInv
    <2>2. SessionFits'
      BY <1>4, ShutsDoes DEF At, Leave, Fail, Retry, Builds, SessionFits, IInv
    <2>3. ASSUME NEW d \in Callers PROVE JobFits(d)'
      BY <1>4, ShutsDoes DEF BootstrapBounds, NoJob, At, Leave, Retry, Holding, TypeOK, Retired, Builds,
         JobFits, IInv
    <2> QED
      BY <2>1, <2>2, <2>3 DEF IInv
  <1> QED
    BY <1>1, <1>2, <1>3, <1>4 DEF Retry, Retire

LEMMA SnapshotCaptureKeeps ==
    ASSUME BootstrapBounds, IInv, NEW c \in Callers, SnapshotCapture(c)
    PROVE  IInv'
  <1>1. TypeOK'
    BY DEF NoJob, Leave, SnapshotCapture, Holding, Free, Jobs, TypeOK, IInv
  <1>2. SessionFits'
    BY DEF At, Leave, SnapshotCapture, TypeOK, Builds, SessionFits, IInv
  <1>3. ASSUME NEW d \in Callers PROVE JobFits(d)'
    BY DEF BootstrapBounds, NoJob, At, Leave, SnapshotCapture, Holding, Jobs, TypeOK, Retired,
       Builds, JobFits, IInv
  <1> QED
    BY <1>1, <1>2, <1>3 DEF IInv

LEMMA SnapshotWriteKeeps ==
    ASSUME BootstrapBounds, IInv, NEW c \in Callers, SnapshotWrite(c)
    PROVE  IInv'
  <1>1. TypeOK'
    BY DEF NoJob, At, Leave, SnapshotWrite, Free, Jobs, TypeOK, JobFits, IInv
  <1>2. SessionFits'
    BY DEF At, Leave, SnapshotWrite, TypeOK, Builds, SessionFits, IInv
  <1>3. ASSUME NEW d \in Callers PROVE JobFits(d)'
    BY DEF BootstrapBounds, NoJob, At, Leave, SnapshotWrite, Holding, TypeOK, Retired, Builds,
       JobFits, IInv
  <1> QED
    BY <1>1, <1>2, <1>3 DEF IInv

LEMMA RestoreCheckKeeps ==
    ASSUME BootstrapBounds, IInv, NEW c \in Callers, RestoreCheck(c)
    PROVE  IInv'
  <1>1. TypeOK'
    BY DEF NoJob, Leave, RestoreCheck, Holding, Free, Jobs, TypeOK, IInv
  <1>2. SessionFits'
    BY DEF At, Leave, RestoreCheck, TypeOK, Builds, SessionFits, IInv
  <1>3. ASSUME NEW d \in Callers PROVE JobFits(d)'
    BY DEF BootstrapBounds, NoJob, Files, At, Leave, Preserved, RestoreCheck, Holding, Jobs,
       TypeOK, Retired, Builds, JobFits, IInv
  <1> QED
    BY <1>1, <1>2, <1>3 DEF IInv

LEMMA RestoreRetireKeeps ==
    ASSUME BootstrapBounds, IInv, NEW c \in Callers, RestoreRetire(c)
    PROVE  IInv'
  <1>1. CASE state.application = 0 /\ Goto(c, "install") /\ UNCHANGED <<state, holder, live, left>>
    <2>1. TypeOK'
      BY <1>1 DEF Goto, RestoreRetire, Holding, Jobs, TypeOK, IInv
    <2>2. SessionFits'
      BY <1>1 DEF At, Goto, RestoreRetire, Builds, SessionFits, IInv
    <2>3. ASSUME NEW d \in Callers PROVE JobFits(d)'
      BY <1>1 DEF At, Goto, RestoreRetire, Holding, Builds, JobFits, IInv
    <2> QED
      BY <2>1, <2>2, <2>3 DEF IInv
  <1>2. CASE state.application # 0 /\ Leave(c) /\ UNCHANGED <<state, live, left>>
    <2>1. TypeOK'
      BY <1>2 DEF NoJob, Leave, RestoreRetire, Free, Jobs, TypeOK, IInv
    <2>2. SessionFits'
      BY <1>2 DEF At, Leave, RestoreRetire, Builds, SessionFits, IInv
    <2>3. ASSUME NEW d \in Callers PROVE JobFits(d)'
      BY <1>2 DEF BootstrapBounds, NoJob, At, Leave, RestoreRetire, Holding, TypeOK, Retired,
         Builds, JobFits, IInv
    <2> QED
      BY <2>1, <2>2, <2>3 DEF IInv
  <1>3. CASE /\ state.application \in live /\ Shuts(state.application)
             /\ state.application \notin left'
             /\ state' = [state EXCEPT !.application = 0] /\ Goto(c, "install") /\ UNCHANGED holder
    <2>1. TypeOK'
      BY <1>3, ShutsDoes DEF Contents, Goto, RestoreRetire, Holding, Jobs, TypeOK, IInv
    <2>2. SessionFits'
      BY <1>3, ShutsDoes DEF At, Goto, RestoreRetire, Builds, SessionFits, IInv
    <2>3. ASSUME NEW d \in Callers PROVE JobFits(d)'
      BY <1>3, ShutsDoes DEF At, Goto, RestoreRetire, Holding, Builds, JobFits, IInv
    <2> QED
      BY <2>1, <2>2, <2>3 DEF IInv
  <1>4. CASE /\ state.application # 0 /\ Shuts(state.application)
             /\ Fail(state.pending) /\ Leave(c)
    <2>1. TypeOK'
      BY <1>4, ShutsDoes DEF NoJob, Leave, Fail, RestoreRetire, Free, Phases, Jobs, TypeOK, IInv
    <2>2. SessionFits'
      BY <1>4, ShutsDoes DEF At, Leave, Fail, RestoreRetire, Builds, SessionFits, IInv
    <2>3. ASSUME NEW d \in Callers PROVE JobFits(d)'
      BY <1>4, ShutsDoes DEF BootstrapBounds, NoJob, At, Leave, RestoreRetire, Holding, TypeOK, Retired,
         Builds, JobFits, IInv
    <2> QED
      BY <2>1, <2>2, <2>3 DEF IInv
  <1> QED
    BY <1>1, <1>2, <1>3, <1>4 DEF RestoreRetire, Retire

LEMMA InstallKeeps ==
    ASSUME BootstrapBounds, IInv, NEW c \in Callers, Install(c)
    PROVE  IInv'
  <1>1. CASE /\ Unchanged(c)
             /\ disk' = [disk EXCEPT !.content = job[c].incoming]
             /\ state' = [state EXCEPT !.receipt = None]
             /\ Goto(c, "load") /\ UNCHANGED holder
    <2>1. TypeOK'
      BY <1>1 DEF None, Empty, Contents, At, Goto, Install, Kinds, Holding, Free, Jobs, TypeOK,
         Builds, JobFits, IInv
    <2>2. SessionFits'
      BY <1>1 DEF At, Goto, Install, Builds, SessionFits, IInv
    <2>3. ASSUME NEW d \in Callers PROVE JobFits(d)'
      BY <1>1 DEF At, Goto, Install, Holding, TypeOK, Retired, Builds, JobFits, IInv
    <2> QED
      BY <2>1, <2>2, <2>3 DEF IInv
  <1>2. CASE /\ Unchanged(c)
             /\ disk' = [disk EXCEPT !.journal = [before |-> job[c].seen, after |-> job[c].incoming]]
             /\ Fail(TRUE) /\ Leave(c)
    <2>1. TypeOK'
      BY <1>2 DEF NoJob, At, Leave, Fail, Install, Free, Phases, Journal, Jobs, TypeOK, JobFits,
         IInv
    <2>2. SessionFits'
      BY <1>2 DEF At, Leave, Fail, Install, Builds, SessionFits, IInv
    <2>3. ASSUME NEW d \in Callers PROVE JobFits(d)'
      BY <1>2 DEF BootstrapBounds, NoJob, At, Leave, Install, Holding, TypeOK, Retired, Builds,
         JobFits, IInv
    <2> QED
      BY <2>1, <2>2, <2>3 DEF IInv
  <1>3. CASE /\ UNCHANGED disk
             /\ Fail(Pending) /\ Leave(c)
    <2>1. TypeOK'
      BY <1>3 DEF NoJob, Pending, Leave, Fail, Install, Free, Phases, Jobs, TypeOK, IInv
    <2>2. SessionFits'
      BY <1>3 DEF At, Leave, Fail, Install, Builds, SessionFits, IInv
    <2>3. ASSUME NEW d \in Callers PROVE JobFits(d)'
      BY <1>3 DEF BootstrapBounds, NoJob, At, Leave, Install, Holding, TypeOK, Retired, Builds,
         JobFits, IInv
    <2> QED
      BY <2>1, <2>2, <2>3 DEF IInv
  <1> QED
    BY <1>1, <1>2, <1>3 DEF Install

LEMMA RecoverCheckKeeps ==
    ASSUME BootstrapBounds, IInv, NEW c \in Callers, RecoverCheck(c)
    PROVE  IInv'
  <1>1. TypeOK'
    BY DEF NoJob, Goto, Leave, RecoverCheck, Holding, Free, Jobs, TypeOK, IInv
  <1>2. SessionFits'
    BY DEF At, Goto, Leave, RecoverCheck, TypeOK, Builds, SessionFits, IInv
  <1>3. ASSUME NEW d \in Callers PROVE JobFits(d)'
    BY DEF BootstrapBounds, NoJob, Pending, At, Goto, Leave, RecoverCheck, Holding, Jobs, TypeOK,
       Retired, Builds, JobFits, IInv
  <1> QED
    BY <1>1, <1>2, <1>3 DEF IInv

LEMMA RecoverRetireKeeps ==
    ASSUME BootstrapBounds, IInv, NEW c \in Callers, RecoverRetire(c)
    PROVE  IInv'
  <1>1. CASE state.application = 0 /\ Goto(c, "recovering") /\ UNCHANGED <<state, holder, live, left>>
    <2>1. TypeOK'
      BY <1>1 DEF Goto, RecoverRetire, Holding, Jobs, TypeOK, IInv
    <2>2. SessionFits'
      BY <1>1 DEF At, Goto, RecoverRetire, Builds, SessionFits, IInv
    <2>3. ASSUME NEW d \in Callers PROVE JobFits(d)'
      BY <1>1 DEF Pending, At, Goto, RecoverRetire, Holding, Builds, JobFits, IInv
    <2> QED
      BY <2>1, <2>2, <2>3 DEF IInv
  <1>2. CASE state.application # 0 /\ Leave(c) /\ UNCHANGED <<state, live, left>>
    <2>1. TypeOK'
      BY <1>2 DEF NoJob, Leave, RecoverRetire, Free, Jobs, TypeOK, IInv
    <2>2. SessionFits'
      BY <1>2 DEF At, Leave, RecoverRetire, Builds, SessionFits, IInv
    <2>3. ASSUME NEW d \in Callers PROVE JobFits(d)'
      BY <1>2 DEF BootstrapBounds, NoJob, At, Leave, RecoverRetire, Holding, TypeOK, Retired,
         Builds, JobFits, IInv
    <2> QED
      BY <2>1, <2>2, <2>3 DEF IInv
  <1>3. CASE /\ state.application \in live /\ Shuts(state.application)
             /\ state.application \notin left'
             /\ state' = [state EXCEPT !.application = 0] /\ Goto(c, "recovering") /\ UNCHANGED holder
    <2>1. TypeOK'
      BY <1>3, ShutsDoes DEF Contents, BootstrapBounds, Goto, RecoverRetire, Holding, Jobs, TypeOK, IInv
    <2>2. SessionFits'
      BY <1>3, ShutsDoes DEF At, Goto, RecoverRetire, Builds, SessionFits, IInv
    <2>3. ASSUME NEW d \in Callers PROVE JobFits(d)'
      BY <1>3, ShutsDoes DEF Pending, At, Goto, RecoverRetire, Holding, Builds, JobFits, IInv
    <2> QED
      BY <2>1, <2>2, <2>3 DEF IInv
  <1>4. CASE /\ state.application # 0 /\ Shuts(state.application)
             /\ Fail(state.pending) /\ Leave(c)
    <2>1. TypeOK'
      BY <1>4, ShutsDoes DEF NoJob, Leave, Fail, RecoverRetire, Free, Phases, Jobs, TypeOK, IInv
    <2>2. SessionFits'
      BY <1>4, ShutsDoes DEF At, Leave, Fail, RecoverRetire, Builds, SessionFits, IInv
    <2>3. ASSUME NEW d \in Callers PROVE JobFits(d)'
      BY <1>4, ShutsDoes DEF BootstrapBounds, NoJob, At, Leave, RecoverRetire, Holding, TypeOK, Retired,
         Builds, JobFits, IInv
    <2> QED
      BY <2>1, <2>2, <2>3 DEF IInv
  <1> QED
    BY <1>1, <1>2, <1>3, <1>4 DEF RecoverRetire, Retire

LEMMA RecoverKeeps ==
    ASSUME BootstrapBounds, IInv, NEW c \in Callers, Recover(c)
    PROVE  IInv'
  <1>1. CASE /\ \E content \in {disk.journal.before, disk.journal.after} :
                   disk' = [content |-> content, journal |-> NoJournal]
             /\ state' = [state EXCEPT !.receipt = None]
             /\ Goto(c, "load") /\ UNCHANGED holder
    <2>1. TypeOK'
      BY <1>1 DEF Contents, Pending, At, Goto, Recover, Kinds, Holding, Journal, Jobs, TypeOK,
         Retired, Builds, JobFits, IInv
    <2>2. SessionFits'
      BY <1>1 DEF At, Goto, Recover, Builds, SessionFits, IInv
    <2>3. ASSUME NEW d \in Callers PROVE JobFits(d)'
      BY <1>1 DEF At, Goto, Recover, Holding, TypeOK, Retired, Builds, JobFits, IInv
    <2> QED
      BY <2>1, <2>2, <2>3 DEF IInv
  <1>2. CASE /\ UNCHANGED disk
             /\ Fail(Pending) /\ Leave(c)
    <2>1. TypeOK'
      BY <1>2 DEF NoJob, Pending, Leave, Fail, Recover, Free, Phases, Jobs, TypeOK, IInv
    <2>2. SessionFits'
      BY <1>2 DEF At, Leave, Fail, Recover, Builds, SessionFits, IInv
    <2>3. ASSUME NEW d \in Callers PROVE JobFits(d)'
      BY <1>2 DEF BootstrapBounds, NoJob, At, Leave, Recover, Holding, TypeOK, Retired, Builds,
         JobFits, IInv
    <2> QED
      BY <2>1, <2>2, <2>3 DEF IInv
  <1> QED
    BY <1>1, <1>2 DEF Recover

LEMMA SaveSettingsKeeps ==
    ASSUME BootstrapBounds, IInv, NEW c \in Callers, SaveSettings(c)
    PROVE  IInv'
  <1>1. TypeOK'
    BY DEF Contents, SaveSettings, Free, Jobs, TypeOK, IInv
  <1>2. SessionFits'
    BY DEF At, SaveSettings, TypeOK, Builds, SessionFits, IInv
  <1>3. ASSUME NEW d \in Callers PROVE JobFits(d)'
    BY DEF Pending, At, SaveSettings, Holding, Jobs, TypeOK, Retired, Builds, JobFits, IInv
  <1> QED
    BY <1>1, <1>2, <1>3 DEF IInv

LEMMA ImportProfileKeeps ==
    ASSUME BootstrapBounds, IInv, NEW c \in Callers, ImportProfile(c)
    PROVE  IInv'
  <1>1. TypeOK'
    BY DEF Contents, NoJob, ImportProfile, Free, Journal, Jobs, TypeOK, IInv
  <1>2. SessionFits'
    BY DEF At, ImportProfile, Builds, SessionFits, IInv
  <1>3. ASSUME NEW d \in Callers PROVE JobFits(d)'
    BY DEF NoJob, Pending, At, ImportProfile, Holding, Retired, Builds, JobFits, IInv
  <1> QED
    BY <1>1, <1>2, <1>3 DEF IInv

LEMMA NoteSettingsKeeps ==
    ASSUME BootstrapBounds, IInv, NEW c \in Callers, NoteSettings(c)
    PROVE  IInv'
  <1>1. TypeOK'
    BY DEF NoJob, NoteSettings, Free, Phases, Jobs, TypeOK, IInv
  <1>2. SessionFits'
    BY DEF At, NoteSettings, Builds, SessionFits, IInv
  <1>3. ASSUME NEW d \in Callers PROVE JobFits(d)'
    BY DEF NoJob, Pending, At, NoteSettings, Holding, Retired, Builds, JobFits, IInv
  <1> QED
    BY <1>1, <1>2, <1>3 DEF IInv

LEMMA StatusFaultKeeps ==
    ASSUME BootstrapBounds, IInv, NEW c \in Callers, StatusFault(c)
    PROVE  IInv'
  <1>1. CASE state' = state
    <2>1. TypeOK'
      BY <1>1 DEF NoJob, StatusFault, Free, Jobs, TypeOK, IInv
    <2>2. SessionFits'
      BY <1>1 DEF At, StatusFault, Builds, SessionFits, IInv
    <2>3. ASSUME NEW d \in Callers PROVE JobFits(d)'
      BY <1>1 DEF NoJob, Pending, At, StatusFault, Holding, Retired, Builds, JobFits, IInv
    <2> QED
      BY <2>1, <2>2, <2>3 DEF IInv
  <1>2. CASE /\ state.phase = "ready" /\ state.application = job[c].app
             /\ state' = [state EXCEPT !.phase = "recovery", !.pending = Pending]
    <2>1. TypeOK'
      BY <1>2 DEF NoJob, Pending, StatusFault, Free, Phases, Jobs, TypeOK, IInv
    <2>2. SessionFits'
      BY <1>2 DEF StatusFault, Builds, SessionFits, IInv
    <2>3. ASSUME NEW d \in Callers PROVE JobFits(d)'
      BY <1>2 DEF NoJob, Pending, At, StatusFault, Holding, Retired, Builds, JobFits, IInv
    <2> QED
      BY <2>1, <2>2, <2>3 DEF IInv
  <1> QED
    BY <1>1, <1>2 DEF StatusFault

LEMMA CloseKeeps ==
    ASSUME BootstrapBounds, IInv, NEW c \in Callers, Close(c)
    PROVE  IInv'
  <1>1. TypeOK'
    BY DEF Goto, Close, Free, Jobs, TypeOK, IInv
  <1>2. SessionFits'
    BY DEF At, Goto, Close, Builds, SessionFits, IInv
  <1>3. ASSUME NEW d \in Callers PROVE JobFits(d)'
    BY DEF Pending, At, Goto, Close, Holding, Retired, Builds, JobFits, IInv
  <1> QED
    BY <1>1, <1>2, <1>3 DEF IInv

LEMMA ShutdownPublishedKeeps ==
    ASSUME BootstrapBounds, IInv, NEW c \in Callers, ShutdownPublished(c)
    PROVE  IInv'
  <1>0. Shuts(state.application)
    BY DEF ShutdownPublished
  <1>1. TypeOK'
    BY <1>0, ShutsDoes DEF Goto, ShutdownPublished, Free, Jobs, TypeOK, IInv
  <1>2. SessionFits'
    BY <1>0, ShutsDoes DEF At, Goto, ShutdownPublished, Builds, JobFits, SessionFits, IInv
  <1>3. ASSUME NEW d \in Callers PROVE JobFits(d)'
    BY <1>0, ShutsDoes DEF Pending, At, Goto, ShutdownPublished, Holding, TypeOK, Retired, Builds, JobFits, IInv
  <1> QED
    BY <1>1, <1>2, <1>3 DEF IInv

LEMMA ShutdownAgainKeeps ==
    ASSUME BootstrapBounds, IInv, NEW c \in Callers, ShutdownAgain(c)
    PROVE  IInv'
  <1>0. Shuts(state.application)
    BY DEF ShutdownAgain
  <1>1. TypeOK'
    BY <1>0, ShutsDoes DEF Goto, ShutdownAgain, Free, Jobs, TypeOK, IInv
  <1>2. SessionFits'
    BY <1>0, ShutsDoes DEF At, Goto, ShutdownAgain, Builds, JobFits, SessionFits, IInv
  <1>3. ASSUME NEW d \in Callers PROVE JobFits(d)'
    BY <1>0, ShutsDoes DEF BootstrapBounds, At, Goto, ShutdownAgain, Holding, Retired, Builds, JobFits,
       SessionFits, IInv
  <1> QED
    BY <1>1, <1>2, <1>3 DEF IInv

LEMMA BeginKeeps ==
    ASSUME BootstrapBounds, IInv, NEW c \in Callers, NEW kind \in Kinds, Begin(c, kind)
    PROVE  IInv'
  <1>1. TypeOK'
    <2>1. [NoJob EXCEPT !.at = IF kind = "start" THEN "load" ELSE kind, !.kind = kind] \in Jobs
      BY DEF NoJob, Jobs, Holding, Free, Kinds
    <2>2. job' \in [Callers -> Jobs]
      BY <2>1 DEF Begin, IInv, TypeOK
    <2> QED
      BY <2>1, <2>2 DEF Begin, TypeOK, IInv
  <1>2. SessionFits'
    BY DEF At, Begin, Builds, SessionFits, IInv
  <1>3. ASSUME NEW d \in Callers PROVE JobFits(d)'
    BY DEF BootstrapBounds, Begin, Kinds, Holding, TypeOK, Retired, Builds, JobFits, IInv
  <1> QED
    BY <1>1, <1>2, <1>3 DEF IInv

LEMMA UseKeeps ==
    ASSUME BootstrapBounds, IInv, NEW c \in Callers, NEW what \in {"save", "profile", "status"}, Use(c, what)
    PROVE  IInv'
  <1>1. TypeOK'
    <2>1. [NoJob EXCEPT !.at = what, !.app = state.application] \in Jobs
      BY DEF NoJob, Jobs, Free, IInv, TypeOK
    <2>2. job' \in [Callers -> Jobs]
      BY <2>1 DEF Use, IInv, TypeOK
    <2> QED
      BY <2>1, <2>2 DEF Use, TypeOK, IInv
  <1>2. SessionFits'
    BY DEF At, Use, Builds, SessionFits, IInv
  <1>3. ASSUME NEW d \in Callers PROVE JobFits(d)'
    BY DEF Pending, At, Use, Holding, Retired, Builds, JobFits, IInv
  <1> QED
    BY <1>1, <1>2, <1>3 DEF IInv

LEMMA RestartKeeps ==
    ASSUME BootstrapBounds, IInv, Restart
    PROVE  IInv'
  <1>1. TypeOK'
    BY DEF NoJob, Loading, Restart, Free, Phases, Jobs, TypeOK, IInv
  <1>2. SessionFits'
    BY DEF Loading, Restart, SessionFits, IInv
  <1>3. ASSUME NEW d \in Callers PROVE JobFits(d)'
    BY DEF BootstrapBounds, NoJob, Loading, Restart, Holding, Builds, JobFits, IInv
  <1> QED
    BY <1>1, <1>2, <1>3 DEF IInv

LEMMA EditFilesKeeps ==
    ASSUME BootstrapBounds, IInv, EditFiles
    PROVE  IInv'
  <1>1. TypeOK'
    BY DEF EditFiles, TypeOK, IInv
  <1>2. SessionFits'
    BY DEF EditFiles, Builds, SessionFits, IInv
  <1>3. ASSUME NEW d \in Callers PROVE JobFits(d)'
    BY DEF EditFiles, Retired, Builds, JobFits, IInv
  <1> QED
    BY <1>1, <1>2, <1>3 DEF IInv

LEMMA LoseArchiveKeeps ==
    ASSUME BootstrapBounds, IInv, LoseArchive
    PROVE  IInv'
  <1>1. TypeOK'
    BY DEF LoseArchive, TypeOK, IInv
  <1>2. SessionFits'
    BY DEF LoseArchive, Builds, SessionFits, IInv
  <1>3. ASSUME NEW d \in Callers PROVE JobFits(d)'
    BY DEF Pending, LoseArchive, Retired, Builds, JobFits, IInv
  <1> QED
    BY <1>1, <1>2, <1>3 DEF IInv

\* The first configuration, whatever it is, has no Application and nobody at work on it.
LEMMA InitFits == ASSUME BootstrapBounds, Init PROVE IInv
  <1>1. TypeOK
    <2>1. NoJob \in Jobs
      BY DEF NoJob, Jobs, Holding, Free
    <2> QED
      BY <2>1 DEF Init, TypeOK, Loading, Phases, Journal
  <1>2. SessionFits
    BY DEF Init, SessionFits, Loading
  <1>3. ASSUME NEW c \in Callers PROVE JobFits(c)
    BY DEF Init, JobFits, Retired, Builds, Holding, NoJob, BootstrapBounds
  <1> QED
    BY <1>1, <1>2, <1>3 DEF IInv

LEMMA StutterKeeps == ASSUME IInv, UNCHANGED bootstrapVars PROVE IInv'
  BY DEF bootstrapVars, IInv, TypeOK, SessionFits, JobFits, Retired, Builds, Pending

LEMMA StepKeeps == ASSUME BootstrapBounds, IInv, [Next]_bootstrapVars PROVE IInv'
  <1>1. CASE UNCHANGED bootstrapVars
    BY <1>1, StutterKeeps
  <1>2. ASSUME NEW c \in Callers, NEW kind \in Kinds, Begin(c, kind) PROVE IInv'
    BY <1>2, BeginKeeps
  <1>3. ASSUME NEW c \in Callers, NEW what \in {"save", "profile", "status"}, Use(c, what)
        PROVE  IInv'
    BY <1>3, UseKeeps
  <1>4. ASSUME NEW c \in Callers,
               \/ Load(c) \/ Make(c) \/ Made(c) \/ Publish(c)
               \/ Initialize(c) \/ ImportLegacy(c) \/ Retry(c)
        PROVE  IInv'
    BY <1>4, LoadKeeps, MakeKeeps, MadeKeeps, PublishKeeps, InitializeKeeps, ImportLegacyKeeps,
       RetryKeeps
  <1>5. ASSUME NEW c \in Callers,
               \/ SnapshotCapture(c) \/ SnapshotWrite(c)
               \/ RestoreCheck(c) \/ RestoreRetire(c) \/ Install(c)
               \/ RecoverCheck(c) \/ RecoverRetire(c) \/ Recover(c)
        PROVE  IInv'
    BY <1>5, SnapshotCaptureKeeps, SnapshotWriteKeeps, RestoreCheckKeeps, RestoreRetireKeeps,
       InstallKeeps, RecoverCheckKeeps, RecoverRetireKeeps, RecoverKeeps
  <1>6. ASSUME NEW c \in Callers,
               \/ SaveSettings(c) \/ ImportProfile(c) \/ NoteSettings(c) \/ StatusFault(c)
               \/ Close(c) \/ ShutdownPublished(c) \/ ShutdownAgain(c)
        PROVE  IInv'
    BY <1>6, SaveSettingsKeeps, ImportProfileKeeps, NoteSettingsKeeps, StatusFaultKeeps,
       CloseKeeps, ShutdownPublishedKeeps, ShutdownAgainKeeps
  <1>7. CASE Restart \/ EditFiles \/ LoseArchive
    BY <1>7, RestartKeeps, EditFilesKeeps, LoseArchiveKeeps
  <1> QED
    BY <1>1, <1>2, <1>3, <1>4, <1>5, <1>6, <1>7 DEF Next

\* Who builds an Application holds the configuration, and nothing is published meanwhile: of two
\* Applications at work neither could be the published one, and one caller builds one.
LEMMA OneAtWork == ASSUME IInv PROVE \A p, q \in AtWork : p = q
  <1> TAKE p, q \in AtWork
  <1>1. p # 0 /\ q # 0
    BY DEF IInv, TypeOK, AtWork
  <1>2. ASSUME NEW c \in Callers, Builds(c) PROVE state.application = 0 /\ holder = c
    BY <1>2 DEF IInv, JobFits, Retired, Builds, Holding
  <1>3. ASSUME NEW r \in AtWork, r # state.application
        PROVE  state.application = 0 /\ job[holder].app = r
    <2>1. PICK c \in Callers : Builds(c) /\ job[c].app = r
      BY <1>3 DEF IInv, SessionFits, AtWork
    <2> QED
      BY <1>2, <2>1
  <1> QED
    BY <1>1, <1>3

LEMMA SessionIsOne == ASSUME IInv PROVE OneSession
  <1>1. Cardinality(AtWork) <= 1
    <2>1. CASE AtWork = {}
      BY <2>1, FS_EmptySet
    <2>2. CASE AtWork # {}
      <3>1. PICK p \in AtWork : TRUE
        BY <2>2
      <3>2. AtWork = {p}
        BY <3>1, OneAtWork
      <3>3. Cardinality({p}) = 1
        BY FS_Singleton
      <3> QED
        BY <3>2, <3>3
    <2> QED
      BY <2>1, <2>2
  <1>2. /\ \A c \in Callers : At(c, "incomplete") => live = {}
        /\ \A c \in Callers : At(c, "down") => AtWork = {}
    BY DEF IInv, JobFits, At, AtWork
  <1>3. state.phase = "ready" /\ state.application \notin live \cup {0} => closing
    BY DEF IInv, SessionFits
  <1> QED
    BY <1>1, <1>2, <1>3 DEF OneSession

\* While a caller is about to put files in place it holds the configuration and nothing is published,
\* so nothing is at work.
LEMMA NothingAtWork ==
    ASSUME IInv, NEW c \in Callers, job[c].at \in {"install", "recovering"}
    PROVE  AtWork = {}
  <1>1. state.application = 0 /\ holder = c
    BY DEF IInv, JobFits, Retired, Holding
  <1>2. ASSUME NEW p \in AtWork PROVE FALSE
    <2>1. PICK h \in Callers : Builds(h)
      BY <1>1, <1>2 DEF IInv, TypeOK, SessionFits, AtWork
    <2> QED
      BY <1>1, <2>1 DEF IInv, JobFits, Builds, Holding
  <1> QED
    BY <1>2

\* Only Install moves a caller on from there: no other step touches what that caller is doing.
LEMMA OnlyInstall ==
    ASSUME IInv, Next, NEW c \in Callers, At(c, "install"),
           job'[c].at \in {"load", "idle"}, disk' # disk
    PROVE  Install(c)
  <1> USE DEF At, Goto, Leave, IInv, TypeOK
  <1>1. ASSUME NEW d \in Callers, NEW kind \in Kinds, Begin(d, kind) PROVE FALSE
    BY <1>1 DEF Begin
  <1>2. ASSUME NEW d \in Callers, NEW what \in {"save", "profile", "status"}, Use(d, what)
        PROVE  FALSE
    BY <1>2 DEF Use
  <1>3. ASSUME NEW d \in Callers,
               \/ Load(d) \/ Make(d) \/ Made(d) \/ Publish(d) \/ Retry(d)
               \/ SnapshotCapture(d) \/ SnapshotWrite(d) \/ RestoreCheck(d) \/ RestoreRetire(d)
               \/ RecoverCheck(d) \/ RecoverRetire(d) \/ NoteSettings(d) \/ StatusFault(d)
               \/ Close(d) \/ ShutdownPublished(d) \/ ShutdownAgain(d)
        PROVE  FALSE
    BY <1>3 DEF Load, Make, Made, Publish, Retry, SnapshotCapture, SnapshotWrite, RestoreCheck,
       RestoreRetire, RecoverCheck, RecoverRetire, NoteSettings, StatusFault, Close,
       ShutdownPublished, ShutdownAgain
  <1>4. ASSUME NEW d \in Callers, Initialize(d) \/ ImportLegacy(d) \/ Recover(d) PROVE FALSE
    <2>1. d # c
      BY <1>4 DEF Initialize, ImportLegacy, Recover
    <2>2. job'[c] = job[c]
      BY <1>4, <2>1 DEF Initialize, ImportLegacy, Recover
    <2> QED
      BY <2>2
  <1>5. ASSUME NEW d \in Callers, SaveSettings(d) \/ ImportProfile(d) PROVE FALSE
    <2>1. d # c
      BY <1>5 DEF SaveSettings, ImportProfile
    <2>2. job'[c] = job[c]
      BY <1>5, <2>1 DEF SaveSettings, ImportProfile
    <2> QED
      BY <2>2
  <1>6. ASSUME NEW d \in Callers, Install(d) PROVE d = c
    <2>1. CASE d # c
      <3>1. job'[c] = job[c]
        BY <1>6, <2>1 DEF Install
      <3> QED
        BY <3>1
    <2> QED
      BY <2>1
  <1>7. CASE Restart \/ EditFiles \/ LoseArchive
    BY <1>7 DEF Restart, EditFiles, LoseArchive
  <1> QED
    BY <1>1, <1>2, <1>3, <1>4, <1>5, <1>6, <1>7 DEF Next

LEMMA StepPreserves ==
    ASSUME BootstrapBounds, IInv, [Next]_bootstrapVars
    PROVE  [ReplacedIsPreservedStep]_bootstrapVars
  <1> SUFFICES ASSUME Next, NEW c \in Callers
               PROVE  /\ At(c, "install") /\ job' # job /\ job'[c].at \in {"load", "idle"} /\ disk' # disk
                            => AtWork = {} /\ (Files => state.receipt = disk.content)
                      /\ At(c, "recovering") /\ job'[c].at = "load" => AtWork = {}
    BY DEF ReplacedIsPreservedStep
  <1>1. At(c, "install") \/ At(c, "recovering") => AtWork = {}
    BY NothingAtWork DEF At
  <1>2. ASSUME At(c, "install"), job'[c].at \in {"load", "idle"}, disk' # disk, Files
        PROVE  state.receipt = disk.content
    <2>1. Install(c)
      BY <1>2, OnlyInstall
    <2>2. disk.content = job[c].seen
      BY <1>2, <2>1 DEF Install, Unchanged, Captures
    <2> QED
      BY <1>2, <2>2 DEF IInv, JobFits, At, Files
  <1> QED
    BY <1>1, <1>2

-----------------------------------------------------------------------------
\* What may ever be said of the session: its types and who may do what (bootstrap.rs).
THEOREM SessionCorrect == ASSUME BootstrapBounds PROVE Spec => []IInv
  <1>1. Init => IInv
    BY InitFits
  <1>2. IInv /\ [Next]_bootstrapVars => IInv'
    BY StepKeeps
  <1> QED
    BY <1>1, <1>2, PTL DEF Spec

\* There is never a second Application at work, not even beside one whose shutdown failed; none is once
\* a shutdown has succeeded; and a published one that takes no commands is closing or waits for a
\* repair (bootstrap.rs: retire, load, shutdown).
THEOREM SessionStaysOne == ASSUME BootstrapBounds PROVE Spec => []OneSession
  <1>1. IInv => OneSession
    BY SessionIsOne
  <1> QED
    BY <1>1, SessionCorrect, PTL

\* What a replacement takes away is what its receipt names, and no Application is at work while it or
\* a recovery puts files in place (bootstrap.rs: restore_snapshot, recover_restore).
THEOREM ReplacementPreserves == ASSUME BootstrapBounds PROVE Spec => ReplacedIsPreserved
  <1>1. IInv /\ [Next]_bootstrapVars => [ReplacedIsPreservedStep]_bootstrapVars
    BY StepPreserves
  <1> QED
    BY <1>1, SessionCorrect, PTL DEF Spec, ReplacedIsPreserved
=============================================================================
