------------------------- MODULE PluginManagement -------------------------
(***************************************************************************)
(* Installation of the OMP adapter (plugin_management.rs, its target.rs,   *)
(* payload.rs and process.rs).  Application instances with data roots of   *)
(* their own manage one user installation by running the OMP client.  An   *)
(* action rests on what the operator reviewed, runs under an advisory lock *)
(* that a crash releases and behind a marker file that a crash leaves, and *)
(* its outcome is only what the command and a readback showed.             *)
(*                                                                         *)
(* The client is outside the code: a command may take effect or not,       *)
(* whatever it reports, and a tree that could not be settled runs on.      *)
(***************************************************************************)
EXTENDS Naturals, FiniteSets

CONSTANTS
    Managers,           \* application instances, one data root each
    Hosts,              \* situations of the user's machine
    Executables(_),     \* host -> the OMP executables found, [path, file]
    Redirected(_),      \* host -> whether OMP is told to use another directory
    Old(_),             \* executable -> older than the minimum, or not capable
    Roots,              \* bound: the registrations that are made from outside
    None,
    MaxWorks, MaxOutside    \* bounds

PluginAssumption == {MaxWorks, MaxOutside} \subseteq Nat

VARIABLES
    site,       \* the user installation, its marker and the machine
    lock,       \* the owner of the installation
    mgr,        \* the managers' memory
    work,       \* the operation each manager has under way
    disk,       \* each data root: its journal and its prepared copy
    loose       \* command trees whose manager lost them

vars == <<site, lock, mgr, work, disk, loose>>

-----------------------------------------------------------------------------
(* What is registered with OMP, and how an instance classifies it.          *)

Reg(kind, root) == [kind |-> kind, root |-> root]
Absent == Reg("absent", None)

Version(r) == CASE r.kind \in {"older", "predecessor"} -> 1 [] r.kind = "copy" -> 2 [] OTHER -> 3

Verdict(state, actions) == [state |-> state, actions |-> actions]
Conflict(actions) == Verdict("conflict", actions)

(* A prepared copy is exactly the files of its release, under its identity.  *)
Whole(r) == r.root = None \/ disk[r.root].copy = "whole"

(* A copy that another data root prepared is a recognised source, but not   *)
(* one of ours; a copied or doubled registration is never touched.          *)
Class(m, r) ==
    CASE r.kind = "absent" -> Verdict("absent", {"install"})
      [] r.kind \in {"copied", "doubled"} -> Conflict({})
      [] r.kind = "older" /\ r.root = m -> Verdict("update_available", {"update", "uninstall"})
      [] r.kind = "copy" /\ r.root = m /\ Whole(r) -> Verdict("current", {"uninstall"})
      [] (r.kind = "copy" /\ r.root # m /\ Whole(r)) \/ r.kind = "predecessor"
             -> Verdict("legacy", {"migrate", "uninstall"})
      [] OTHER -> Conflict({"uninstall"})

(* The client's list and the registration itself are read one by one.       *)
Classified(m, listed, r) ==
    IF (listed.kind = "absent") # (r.kind = "absent") THEN Conflict({})
    ELSE IF r.kind # "copied" /\ Version(listed) # Version(r) THEN Conflict({"uninstall"})
    ELSE Class(m, r)

NoFacts == [exe |-> None, reg |-> Absent, verdict |-> Verdict("unsupported", {})]

-----------------------------------------------------------------------------
NoWork == [at |-> "idle", kind |-> "none", action |-> "none", then |-> "none", exe |-> None, listed |-> Absent,
           admitted |-> NoFacts, facts |-> NoFacts, result |-> "none", status |-> "none",
           applied |-> FALSE, since |-> 0]
NoOutcome == [status |-> "none", applied |-> FALSE, quiet |-> TRUE]
Started == [up |-> TRUE, closing |-> FALSE, cancel |-> FALSE, checked |-> FALSE, unsettled |-> FALSE,
            reviewed |-> NoFacts, probed |-> None, last |-> NoOutcome]

Init ==
    /\ site = [reg |-> Absent, marker |-> FALSE, host |-> CHOOSE h \in Hosts : ~Redirected(h) /\
                  \E e \in Executables(h) : Executables(h) = {e} /\ ~Old(e), outside |-> 0, works |-> 0]
    /\ lock = None
    /\ mgr = [m \in Managers |-> Started]
    /\ work = [m \in Managers |-> NoWork]
    /\ disk = [m \in Managers |-> [journal |-> FALSE, copy |-> "none", owed |-> FALSE]]
    /\ loose = {}

(* `busy` in the code.                                                      *)
Busy(m) == work[m].at # "idle"
Admits(m) == mgr[m].up /\ ~mgr[m].closing /\ ~mgr[m].unsettled /\ ~Busy(m)

At(m, at) == work[m].at = at
Go(m, w) == work' = [work EXCEPT ![m] = w]
To(m, at) == Go(m, [work[m] EXCEPT !.at = at])

(* Ownership ends with the work, unless a tree could not even be recorded. *)
Released(m) == lock' = IF lock = m /\ ~mgr'[m].unsettled THEN None ELSE lock

-----------------------------------------------------------------------------
(* Observation, always under ownership.                                    *)

(* The first inspection reports a journaled action that nobody observed.    *)
Inspect(m) ==
    /\ Admits(m) /\ site.works < MaxWorks
    /\ LET owing == ~mgr[m].checked /\ disk[m].journal
       IN  /\ disk' = [disk EXCEPT ![m].journal = @ /\ ~owing, ![m].owed = @ /\ ~owing]
           /\ mgr' = [mgr EXCEPT ![m].checked = TRUE,
                                 ![m].last = IF owing THEN [NoOutcome EXCEPT !.status = "unknown"] ELSE @]
    /\ Go(m, [NoWork EXCEPT !.at = "lease", !.kind = "inspect", !.then = "view"])
    /\ site' = [site EXCEPT !.works = @ + 1]
    /\ UNCHANGED <<lock, loose>>

Lease(m) ==
    /\ At(m, "lease")
    /\ IF lock = None THEN lock' = m /\ To(m, "observe")
       ELSE UNCHANGED lock /\ To(m, "publish")
    /\ UNCHANGED <<site, mgr, disk, loose>>

(* What follows an observation depends on what it was for.                 *)
Observed(m, facts) ==
    LET then == work[m].then
        w == [work[m] EXCEPT !.facts = facts, !.at = CASE then = "view" -> "publish"
                                                      [] then = "recheck" -> "recheck"
                                                      [] then = "readback" -> "settle"]
    IN  Go(m, w) /\ (IF then = "view" THEN Released(m) ELSE UNCHANGED lock)

(* Variables and dotenv files that move OMP away from the normal target.    *)
Overridden == Redirected(site.host)

(* A review names its executable; otherwise exactly one must be found.      *)
Found(named) ==
    IF named = None THEN Executables(site.host) ELSE {e \in Executables(site.host) : e.path = named.path}

(* A remaining marker refuses everything.                                  *)
Observe(m) ==
    /\ At(m, "observe")
    /\ LET found == Found(work[m].admitted.exe)
       IN  IF site.marker \/ Overridden \/ Cardinality(found) # 1
           THEN UNCHANGED mgr /\ Observed(m, NoFacts)
           ELSE /\ Go(m, [work[m] EXCEPT !.at = "probe", !.exe = CHOOSE e \in found : TRUE])
                /\ UNCHANGED <<mgr, lock>>
    /\ UNCHANGED <<site, disk, loose>>

(* A tree that cannot be settled is recorded, or this instance refuses all  *)
(* later work and keeps the ownership it has.                               *)
MarkUnsettled(m) ==
    \/ site' = [site EXCEPT !.marker = TRUE] /\ UNCHANGED mgr
    \/ /\ mgr' = [mgr EXCEPT ![m].unsettled = ~site.marker \/ @]
       /\ UNCHANGED site

Known(m, facts) == [facts EXCEPT !.exe = work[m].exe]

(* A command starts only while shutdown has not interrupted this instance.  *)
Runs(m) == ~mgr[m].cancel

Probe(m) ==
    /\ At(m, "probe")
    /\ LET e == work[m].exe
           ran == mgr[m].probed = e \/ Runs(m)
       IN  \/ /\ ran
              /\ mgr' = [mgr EXCEPT ![m].probed = e]
              /\ IF Old(e) THEN Observed(m, Known(m, NoFacts)) ELSE To(m, "list") /\ UNCHANGED lock
              /\ UNCHANGED site
           \/ /\ mgr[m].probed # e
              /\ UNCHANGED <<site, mgr>> /\ Observed(m, NoFacts)
           \/ /\ mgr[m].probed # e /\ ran
              /\ MarkUnsettled(m) /\ Observed(m, NoFacts)
    /\ UNCHANGED <<disk, loose>>

List(m) ==
    /\ At(m, "list")
    /\ \/ /\ Runs(m)
          /\ Go(m, [work[m] EXCEPT !.at = "read", !.listed = site.reg])
          /\ UNCHANGED <<site, mgr, lock>>
       \/ UNCHANGED <<site, mgr>> /\ Observed(m, Known(m, NoFacts))
       \/ Runs(m) /\ MarkUnsettled(m) /\ Observed(m, Known(m, NoFacts))
    /\ UNCHANGED <<disk, loose>>

Read(m) ==
    /\ At(m, "read")
    /\ UNCHANGED <<site, mgr>>
    /\ Observed(m, [exe |-> work[m].exe, reg |-> site.reg, verdict |-> Classified(m, work[m].listed, site.reg)])
    /\ UNCHANGED <<disk, loose>>

(* The work ends; a view with actions carries a review that admits one.  An *)
(* inspection that may not be shown leaves the review there is.             *)
Publish(m) ==
    /\ At(m, "publish")
    /\ LET w == work[m]
           open == ~mgr[m].closing /\ ~mgr[m].unsettled
       IN  mgr' = [mgr EXCEPT ![m].reviewed = CASE ~open /\ w.kind = "inspect" -> @
                                                [] open /\ w.facts.verdict.actions # {} -> w.facts
                                                [] OTHER -> NoFacts,
                              ![m].last = IF w.kind = "apply"
                                          THEN [status |-> w.status, applied |-> w.applied,
                                                quiet |-> w.since = site.outside] ELSE @]
    /\ Go(m, NoWork)
    /\ UNCHANGED <<site, lock, disk, loose>>

-----------------------------------------------------------------------------
(* An action on what was reviewed.                                         *)

(* Any call consumes the review.                                           *)
Apply(m, action) ==
    /\ Admits(m) /\ site.works < MaxWorks
    /\ LET facts == mgr[m].reviewed
       IN  /\ mgr' = [mgr EXCEPT ![m].reviewed = NoFacts]
           /\ site' = [site EXCEPT !.works = @ + 1]
           /\ \/ /\ action \in facts.verdict.actions /\ lock = None
                 /\ lock' = m
                 /\ Go(m, [NoWork EXCEPT !.at = "prepare", !.kind = "apply", !.action = action,
                                         !.then = "recheck", !.admitted = facts, !.since = site.outside])
              \/ UNCHANGED <<lock, work>>            \* superseded, unavailable, or owned elsewhere
    /\ UNCHANGED <<disk, loose>>

(* The copy is staged, verified and published under its identity; one that  *)
(* exists is verified and never overwritten.                               *)
Prepare(m) ==
    /\ At(m, "prepare")
    /\ \/ /\ work[m].action = "uninstall" \/ disk[m].copy # "strange"
          /\ disk' = [disk EXCEPT ![m].copy = IF work[m].action = "uninstall" THEN @ ELSE "whole"]
          /\ To(m, "observe")
       \/ /\ work[m].action # "uninstall"
          /\ Go(m, [work[m] EXCEPT !.at = "observe", !.then = "view", !.status = "failed"])
          /\ UNCHANGED disk
    /\ UNCHANGED <<site, lock, mgr, loose>>

Ended(m, status) == Go(m, [work[m] EXCEPT !.at = "publish", !.status = status]) /\ Released(m)

Recheck(m) ==
    /\ At(m, "recheck")
    /\ UNCHANGED mgr
    /\ IF work[m].facts # work[m].admitted \/ mgr[m].closing THEN Ended(m, "failed")
       ELSE To(m, "fence") /\ UNCHANGED lock
    /\ UNCHANGED <<site, disk, loose>>

Fence(m) ==
    /\ At(m, "fence")
    /\ UNCHANGED mgr
    /\ \/ /\ ~site.marker
          /\ site' = [site EXCEPT !.marker = TRUE]
          /\ To(m, "journal") /\ UNCHANGED lock
       \/ UNCHANGED site /\ Ended(m, "failed")
    /\ UNCHANGED <<disk, loose>>

WriteJournal(m) ==
    /\ At(m, "journal")
    /\ UNCHANGED mgr
    /\ \/ /\ disk' = [disk EXCEPT ![m].journal = TRUE]
          /\ To(m, "dispatch") /\ UNCHANGED <<site, lock>>
       \/ /\ site' = [site EXCEPT !.marker = FALSE]
          /\ Ended(m, "failed") /\ UNCHANGED disk
    /\ UNCHANGED loose

Goal(m) == IF work[m].action = "uninstall" THEN Absent ELSE Reg("copy", m)

Dispatch(m) ==
    /\ At(m, "dispatch")
    /\ \/ /\ Runs(m)
          /\ disk' = [disk EXCEPT ![m].owed = TRUE]
          /\ To(m, "running")
       \/ /\ Go(m, [work[m] EXCEPT !.at = "lift", !.result = "not_started"])
          /\ UNCHANGED disk
    /\ UNCHANGED <<site, lock, mgr, loose>>

TakesEffect(m) ==
    /\ At(m, "running") /\ ~work[m].applied
    /\ site' = [site EXCEPT !.reg = Goal(m)]
    /\ Go(m, [work[m] EXCEPT !.applied = TRUE])
    /\ UNCHANGED <<lock, mgr, disk, loose>>

(* The command returns, is ended early with its whole tree gone, or its    *)
(* tree cannot be confirmed gone; the fence is that tree's record.         *)
Returned(m) ==
    /\ At(m, "running")
    /\ \E result \in {"ok", "refused", "started", "unsettled"} :
          /\ Go(m, [work[m] EXCEPT !.at = "lift", !.result = result])
          /\ loose' = (IF result = "unsettled" THEN loose \cup {[goal |-> Goal(m), by |-> m]} ELSE loose)
    /\ UNCHANGED <<site, lock, mgr, disk>>

(* Without a readback the journal stays for the next inspection.            *)
Unread(m, result) ==
    /\ UNCHANGED mgr
    /\ disk' = [disk EXCEPT ![m].journal = @ /\ result # "not_started"]
    /\ Ended(m, IF result = "not_started" THEN "failed" ELSE "unknown")

\* Mutant: the fence is lifted whatever became of the command.
LiftAnyway(m) ==
    /\ At(m, "lift")
    /\ \E kept \in {site.marker, FALSE} : site' = [site EXCEPT !.marker = kept]
    /\ IF mgr[m].cancel THEN Unread(m, work[m].result)
       ELSE /\ Go(m, [work[m] EXCEPT !.at = "observe", !.then = "readback"])
            /\ UNCHANGED <<lock, mgr, disk>>
    /\ UNCHANGED loose

Lift(m) ==
    /\ At(m, "lift")
    /\ \E kept \in {site.marker, work[m].result = "unsettled"} : site' = [site EXCEPT !.marker = kept]
    /\ IF mgr[m].cancel THEN Unread(m, work[m].result)
       ELSE /\ Go(m, [work[m] EXCEPT !.at = "observe", !.then = "readback"])
            /\ UNCHANGED <<lock, mgr, disk>>
    /\ UNCHANGED loose

(* The outcome, from the command's result and the readback only.            *)
Outcome(w, intended) ==
    CASE w.result = "not_started" -> "failed"
      [] w.result \in {"started", "unsettled"} -> "unknown"
      [] w.result = "ok" -> IF intended THEN "verified" ELSE "unknown"
      [] w.result = "refused" -> IF w.facts = w.admitted THEN "failed" ELSE "unknown"

Settle(m) ==
    /\ At(m, "settle")
    /\ LET w == work[m]
           intended == IF w.action = "uninstall" THEN w.facts.verdict.state = "absent"
                       ELSE w.facts.verdict.state = "current" /\ w.facts.reg = Goal(m)
       IN  IF mgr[m].cancel THEN Unread(m, w.result)
           ELSE /\ disk' = [disk EXCEPT ![m].journal = @ /\ w.result = "unsettled",
                                        ![m].owed = @ /\ w.result = "unsettled"]
                /\ UNCHANGED mgr
                /\ Ended(m, Outcome(w, intended))
    /\ UNCHANGED <<site, loose>>

-----------------------------------------------------------------------------
(* Shutdown, crash and restart; the operator and the machine.               *)

Shutdown(m) ==
    /\ mgr[m].up /\ ~mgr[m].closing
    /\ mgr' = [mgr EXCEPT ![m].closing = TRUE, ![m].reviewed = NoFacts]
    /\ UNCHANGED <<site, lock, work, disk, loose>>

(* Once idle, or once the drain has passed.                                *)
Cancel(m) ==
    /\ mgr[m].closing /\ ~mgr[m].cancel
    /\ mgr' = [mgr EXCEPT ![m].cancel = TRUE]
    /\ UNCHANGED <<site, lock, work, disk, loose>>

(* The process ends: its lock goes with it, its command need not.           *)
Exit(m) ==
    /\ mgr[m].up
    /\ mgr' = [mgr EXCEPT ![m] = [Started EXCEPT !.up = FALSE]]
    /\ lock' = IF lock = m THEN None ELSE lock
    /\ loose' = (IF At(m, "running") THEN loose \cup {[goal |-> Goal(m), by |-> m]} ELSE loose)
    /\ Go(m, NoWork)
    /\ UNCHANGED <<site, disk>>

Restart(m) ==
    /\ ~mgr[m].up
    /\ mgr' = [mgr EXCEPT ![m].up = TRUE]
    /\ UNCHANGED <<site, lock, work, disk, loose>>

Straggler(c) ==
    /\ \/ loose' = loose \ {c} /\ UNCHANGED site
       \/ site' = [site EXCEPT !.reg = c.goal] /\ UNCHANGED loose
    /\ UNCHANGED <<lock, mgr, work, disk>>

(* Asked to by the refusal, and only once the command is known to be gone.  *)
Reconcile ==
    /\ site.marker /\ lock = None /\ loose = {}
    /\ site' = [site EXCEPT !.marker = FALSE]
    /\ UNCHANGED <<lock, mgr, work, disk, loose>>

Outside ==
    /\ site.outside < MaxOutside
    /\ \/ \E r \in Roots : site' = [site EXCEPT !.reg = r, !.outside = @ + 1] /\ UNCHANGED disk
       \/ \E h \in Hosts : site' = [site EXCEPT !.host = h, !.outside = @ + 1] /\ UNCHANGED disk
       \/ \E m \in Managers : /\ disk[m].copy = "whole"
                              /\ disk' = [disk EXCEPT ![m].copy = "strange"]
                              /\ site' = [site EXCEPT !.outside = @ + 1]
    /\ UNCHANGED <<lock, mgr, work, loose>>

Next ==
    \/ \E m \in Managers :
          \/ Inspect(m) \/ Lease(m) \/ Observe(m) \/ Probe(m) \/ List(m) \/ Read(m) \/ Publish(m)
          \/ \E action \in {"install", "update", "migrate", "uninstall"} : Apply(m, action)
          \/ Prepare(m) \/ Recheck(m) \/ Fence(m) \/ WriteJournal(m) \/ Dispatch(m) \/ TakesEffect(m)
          \/ Returned(m) \/ Lift(m) \/ Settle(m)
          \/ Shutdown(m) \/ Cancel(m) \/ Exit(m) \/ Restart(m)
    \/ \E c \in loose : Straggler(c)
    \/ Reconcile \/ Outside

Spec == Init /\ [][Next]_vars

-----------------------------------------------------------------------------
Running == {m \in Managers : At(m, "running")}

(* Over every instance, restart and shutdown: at most one changing command   *)
(* tree of the application exists, and while one may still run the marker   *)
(* keeps every instance from starting a client command; it was started on   *)
(* exactly the reviewed registration and executable; a verified outcome had *)
(* its effect and a failed one had none; and a started action that nobody   *)
(* observed is on record until an inspection reports it.                   *)
InstallationIsSafe ==
    /\ Cardinality(Running) + Cardinality(loose) <= 1
    /\ Running \cup {c.by : c \in loose} # {} => site.marker
    /\ loose # {} => \A m \in Managers : ~At(m, "probe") /\ ~At(m, "list")
    /\ \A m \in Running : /\ lock = m
                          /\ work[m].since = site.outside /\ ~work[m].applied
                                => site.reg = work[m].admitted.reg
    /\ \A m \in Managers :
          /\ LET o == mgr[m].last
             IN  o.quiet => /\ o.status = "verified" => o.applied
                            /\ o.status = "failed" => ~o.applied
          /\ disk[m].owed /\ ~At(m, "running") /\ ~At(m, "lift") /\ work[m].then # "readback" => disk[m].journal
=============================================================================
