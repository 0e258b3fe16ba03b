-------------------------- MODULE TargetPreparation --------------------------
(***************************************************************************)
(* How a native run finds the application it may drive, and launches it    *)
(* at most once (application/native_run.rs and its windows.rs,             *)
(* target/macos.rs, target/observation.rs, target/launch.rs, the           *)
(* application-launch crate).  Every probe of the script discovers the     *)
(* saved application among processes that start, exit and reuse pids; an   *)
(* approved launch is prepared, the application is looked for once more,   *)
(* and only then is the request admitted and submitted.                    *)
(***************************************************************************)
EXTENDS Naturals, FiniteSets, FiniteSetsExt

CONSTANTS Pids,        \* pids the candidates may have
          MaxBirths,   \* processes ever started
          MaxUpdates   \* changes of the installed application

VARIABLES platform,    \* "macos" or "windows"
          script,      \* a reviewed script, which needs no process proof on macOS
          approved,    \* the operator approved a launch
          control,     \* "on" or "stopped"
          admitted,    \* the operation's one launch was admitted
          proc,        \* the process of every pid, 0 without one
          image,       \* what every process runs
          births, installed,
          at,          \* where the probe is
          final,       \* the discovery is the one before the submission
          listed,      \* pids found at the start of the discovery
          life,        \* the process first seen under every pid
          sort,        \* what its code was found to be
          launch,      \* the receipt: "none", "accepted", "rejected", "uncertain"
          result,      \* the probe's answer, once it settled the preparation
          request,     \* the submitted request: "none", "open", "done"
          started,     \* the platform started a process for it
          quiet        \* no candidate ran at some instant since the resources were verified

world == <<proc, image, births, installed>>
scan == <<final, listed, life, sort>>
os == <<request, started>>
setting == <<platform, script, approved>>
vars == <<setting, control, admitted, world, at, scan, launch, result, os, quiet>>

Processes == 1..MaxBirths
Genuine == {"game", "moved"}     \* the saved application, at its path or translocated
Images == Genuine \cup {"fake", "odd"}   \* another program of its name; one of unknown code
NoTarget == [kind |-> "none", process |-> 0]
Fault == [kind |-> "fault", process |-> 0]
Running == {p \in Pids : proc[p] # 0}

Init ==
    /\ platform \in {"macos", "windows"} /\ script \in BOOLEAN
    /\ approved \in (IF platform = "windows" THEN {FALSE} ELSE BOOLEAN)
    /\ control = "on" /\ admitted = FALSE
    /\ proc = [p \in Pids |-> 0] /\ image = [s \in Processes |-> "none"]
    /\ births = 0 /\ installed = 0
    /\ at = "idle" /\ final = FALSE /\ listed = {} /\ launch = "none" /\ result = NoTarget
    /\ life = [p \in Pids |-> 0] /\ sort = [p \in Pids |-> "none"]
    /\ request = "none" /\ started = FALSE /\ quiet = FALSE

TypeOK ==
    /\ proc \in [Pids -> 0..MaxBirths] /\ image \in [Processes -> Images \cup {"none"}]
    /\ life \in [Pids -> 0..MaxBirths] /\ sort \in [Pids -> Images \cup {"none", "unread"}]
    /\ launch \in {"none", "accepted", "rejected", "uncertain"}
    /\ listed \subseteq Pids

---------------------------------------------------------------------------
(* The machine.                                                            *)

Becomes(p, s) ==
    /\ proc' = [proc EXCEPT ![p] = s]
    /\ quiet' = (quiet \/ \A q \in Pids : proc'[q] = 0)

Birth(p, kinds) ==
    /\ proc[p] = 0 /\ births < MaxBirths /\ births' = births + 1
    /\ \E i \in kinds : image' = [image EXCEPT ![births + 1] = i]
    /\ Becomes(p, births + 1)

Starts(p) ==
    /\ Birth(p, Images)
    /\ UNCHANGED <<setting, control, admitted, installed, at, scan, launch, result, os>>

Exits(p) ==
    /\ proc[p] # 0 /\ Becomes(p, 0)
    /\ UNCHANGED <<setting, control, admitted, image, births, installed, at, scan, launch,
                   result, os>>

Updated ==
    /\ installed < MaxUpdates /\ installed' = installed + 1
    /\ UNCHANGED <<setting, control, admitted, proc, image, births, at, scan, launch, result,
                   os, quiet>>

\* The platform completes the request: it starts the application, or brings
\* up the one that runs by then, or refuses; and it says which, or nothing.
Completes ==
    /\ request = "open" /\ request' = "done"
    /\ \/ \E p \in Pids : Birth(p, Genuine) /\ started' = TRUE
                          /\ launch' \in {"accepted", "uncertain"}
       \/ /\ Running # {} /\ launch' = "accepted"
          /\ UNCHANGED <<started, proc, image, births, quiet>>
       \/ launch' \in {"rejected", "uncertain"}
          /\ UNCHANGED <<started, proc, image, births, quiet>>
    /\ UNCHANGED <<setting, control, admitted, installed, at, scan, result>>

Stop ==
    /\ control = "on" /\ control' = "stopped"
    /\ UNCHANGED <<setting, admitted, world, at, scan, launch, result, os, quiet>>

---------------------------------------------------------------------------
(* Discovery.                                                              *)

Stays == UNCHANGED <<setting, control, admitted, world, os, launch>>

\* Only a probe without an application leaves the preparation open.
Refuses == at' = "ended" /\ result' = Fault /\ UNCHANGED <<scan, quiet>>
Moves(place) == at' = place /\ UNCHANGED <<scan, quiet, result>>
Working == at \notin {"idle", "ended", "submit", "settle"}

\* A stop is noticed at every step but the submission's own.
Stopped ==
    /\ control = "stopped" /\ (Working \/ at = "idle") /\ Refuses /\ Stays

Probe ==
    /\ at = "idle" /\ control = "on"
    /\ at' = "inspect" /\ final' = FALSE
    /\ Stays /\ UNCHANGED <<listed, life, sort, quiet, result>>

\* The saved installation is the one that was reviewed.
Inspect ==
    /\ at = "inspect" /\ control = "on"
    /\ IF installed = 0 THEN Moves("list") ELSE Refuses
    /\ Stays

\* What a discovery that found nothing means.
Absent ==
    IF final THEN Moves("admit")
    ELSE IF launch = "accepted" THEN Moves("idle")
    ELSE IF approved THEN Moves("recipe")
    ELSE Refuses

Found(s) == at' = "revalidate" /\ result' = [kind |-> "found", process |-> s]
            /\ UNCHANGED <<scan, quiet>>

\* A script on macOS needs the one running copy at the saved path; a moved
\* copy, and every other run, needs the whole proof.
ByPath == script /\ platform = "macos" /\ \A p \in Running : image[proc[p]] = "game"

List ==
    /\ at = "list" /\ control = "on"
    /\ IF ByPath
       THEN IF Running = {} THEN Absent
            ELSE IF Cardinality(Running) = 1 THEN Found(0) ELSE Refuses
       ELSE /\ listed' = Running /\ at' = "look"
            /\ life' = [p \in Pids |-> 0] /\ sort' = [p \in Pids |-> "none"]
            /\ UNCHANGED <<final, quiet, result>>
    /\ Stays

Unread == {p \in listed : sort[p] \in {"none", "unread"}}
Looked == Min(Unread)

\* candidate_snapshot, or the handle opened on Windows: the process that has
\* the pid now.
Snapshot ==
    /\ at = "look" /\ control = "on" /\ Unread # {} /\ sort[Looked] = "none"
    /\ IF proc[Looked] = 0 THEN Refuses
       ELSE /\ life' = [life EXCEPT ![Looked] = proc[Looked]]
            /\ sort' = [sort EXCEPT ![Looked] = "unread"]
            /\ UNCHANGED <<at, final, listed, quiet, result>>
    /\ Stays

\* Whose code is read: macOS asks by pid, Windows by the retained handle.
Shown(p) == IF platform = "windows" THEN life[p] ELSE proc[p]
Alive(s) == \E p \in Pids : proc[p] = s

\* The code running is compared with the installation.
Sign ==
    /\ at = "look" /\ control = "on" /\ Unread # {} /\ sort[Looked] = "unread"
    /\ IF Shown(Looked) = 0 \/ ~Alive(Shown(Looked)) THEN Refuses
       ELSE sort' = [sort EXCEPT ![Looked] = image[Shown(Looked)]]
            /\ UNCHANGED <<at, final, listed, life, quiet, result>>
    /\ Stays

\* Mutant: the same pid is the same process.
SameLifePid(p) == proc[p] # 0

\* A second snapshot, a second reading of the code and a last reading of the
\* lifetime find the process that was first seen under the pid.
SameLife(p) == proc[p] = life[p]

\* Every candidate is read a second time, those of other programs too.
Recheck ==
    /\ at = "look" /\ control = "on" /\ Unread = {}
    /\ IF platform = "windows" \/ \A p \in listed : SameLife(p) THEN Moves("close") ELSE Refuses
    /\ Stays

Matches == {p \in listed : sort[p] \in (IF platform = "windows" THEN {"game"} ELSE Genuine)}

\* summarize_revalidated: the installation, the cohort and every lifetime are
\* what they were.  A snapshot on Windows is taken once.
Unchanged ==
    /\ installed = 0
    /\ IF platform = "windows" THEN \A p \in Matches : Alive(life[p])
       ELSE Running = listed /\ \A p \in listed : SameLife(p)

Close ==
    /\ at = "close" /\ control = "on"
    /\ IF ~Unchanged \/ Cardinality(Matches) > 1 THEN Refuses
       ELSE IF Matches = {}
            THEN IF platform = "windows" \/ listed = {} THEN Absent ELSE Refuses
       ELSE IF platform = "macos" /\ \E p \in listed : sort[p] = "odd" THEN Refuses
       ELSE Found(life[CHOOSE p \in Matches : TRUE])
    /\ Stays

\* The target is handed over.  Windows asks the retained process again.
Revalidate ==
    /\ at = "revalidate" /\ control = "on"
    /\ IF platform = "windows" /\ (~Alive(result.process) \/ installed # 0) THEN Refuses
       ELSE Moves("ended")
    /\ Stays

---------------------------------------------------------------------------
(* The launch.                                                             *)

\* The recipe is captured, then revalidated once the request is prepared.
Recipe ==
    /\ at = "recipe" /\ control = "on"
    /\ IF installed = 0 THEN Moves("prepare") ELSE Refuses
    /\ Stays

Prepare ==
    /\ at = "prepare" /\ control = "on"
    /\ IF installed = 0 THEN Moves("resources") ELSE Refuses
    /\ Stays

\* Mutant: the discovery before the preparation is enough.
AfterResourcesAdmit == "admit"

\* The run's own resources are verified again; then the application is
\* looked for once more.
AfterResources == "inspect"

Resources ==
    /\ at = "resources" /\ control = "on"
    /\ \/ /\ at' = AfterResources /\ final' = TRUE /\ quiet' = (Running = {})
          /\ UNCHANGED <<listed, life, sort, result>>
       \/ Refuses
    /\ Stays

\* admit_launch: under the admission's lock, once, and never after a stop.
Admits == control = "on" /\ ~admitted /\ admitted' = TRUE

Admit ==
    /\ at = "admit"
    /\ \/ Admits /\ Moves("submit")
       \/ (control = "stopped" \/ admitted) /\ Refuses /\ UNCHANGED admitted
    /\ UNCHANGED <<setting, control, world, os, launch>>

Submit ==
    /\ at = "submit"
    /\ request' = "open" /\ at' = "settle"
    /\ UNCHANGED <<setting, control, admitted, world, scan, launch, result, started, quiet>>

\* The receipt is kept even when a stop came first; the next probe discovers
\* what was started.
Settle ==
    /\ at = "settle" /\ request = "done"
    /\ IF control = "on" /\ launch = "accepted" THEN Moves("idle") ELSE Refuses
    /\ Stays

Next ==
    \/ \E p \in Pids : Starts(p) \/ Exits(p)
    \/ Updated \/ Completes \/ Stop
    \/ Stopped \/ Probe \/ Inspect \/ List \/ Snapshot \/ Sign \/ Recheck \/ Close \/ Revalidate
    \/ Recipe \/ Prepare \/ Resources \/ Admit \/ Submit \/ Settle

Spec == Init /\ [][Next]_vars

---------------------------------------------------------------------------

\* The run never drives a program it did not prove, whatever starts, exits
\* or reuses a pid while it looks; and its receipt is the truth: what the
\* platform started is never reported as refused or as not requested.
PreparationIsExact ==
    /\ (at = "ended" /\ result.kind = "found" /\ result.process # 0)
           => image[result.process] \in (IF platform = "windows" THEN {"game"} ELSE Genuine)
    /\ started => launch \in {"accepted", "uncertain"}
    /\ request = "none" => launch = "none"
    /\ (at = "ended" /\ result.kind = "found") => launch \in {"none", "accepted"}

\* The step LaunchIsJustified allows.
LaunchIsJustifiedStep ==
    request # request' /\ request' = "open"
        => request = "none" /\ approved /\ admitted /\ quiet

\* A request leaves the program only for an approved launch that a stop did
\* not precede, at most once, and only when the application was seen not to
\* run after everything else about the run had been verified.
LaunchIsJustified == [][LaunchIsJustifiedStep]_vars
=============================================================================
