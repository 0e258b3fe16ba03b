---------------------------- MODULE ResourceSetup ----------------------------
(***************************************************************************)
(* The recognition resources one data directory keeps: model sets and the  *)
(* runtime, downloaded into a staging directory, verified, and published   *)
(* by one rename (ocr_setup.rs, ocr_setup/download.rs, runtime.rs,         *)
(* files.rs, runtime/archive.rs).  Several instances of the program share  *)
(* the directory; each may be cancelled, fail or be killed at any step,    *)
(* and other programs edit the same files.                                 *)
(*                                                                         *)
(* A directory is a function from the names it holds to what each holds:   *)
(* the item whose reviewed bytes it is, or "other".  Verifying a set of    *)
(* files is one step; so is removing a known staging tree, unless it fails *)
(* half-way.                                                               *)
(***************************************************************************)
EXTENDS Naturals, FiniteSets

CONSTANTS Instances,     \* processes that share the data directory
          Models,        \* model sets, one for each profile
          Runtimes,      \* runtime installations, one for each platform
          Files(_),      \* the catalogued files of an item
          None,          \* no directory, no holder
          MaxJobs,       \* bound: jobs of all instances
          MaxOutside     \* bound: edits by other programs

VARIABLES root,          \* the owned directory: "absent", "unmarked" (made, marker not yet written), "owned"
          lock,          \* the instance that holds .setup.lock
          stage,         \* the two staging directories
          disk,          \* the published installations
          job,           \* the job of each instance
          jobs, outside  \* jobs begun, edits made

vars == <<root, lock, stage, disk, job, jobs, outside>>

Items == Models \cup Runtimes
Stages == {"models", "runtime"}
StageOf(i) == IF i \in Models THEN "models" ELSE "runtime"

\* Every name a cleanup may remove from a staging directory: an interrupted
\* job may have staged another model set than the one selected now.
KnownModels == UNION {Files(i) : i \in Models} \cup {"receipt", "notices"}
KnownRuntime == UNION {Files(i) : i \in Runtimes} \cup {"receipt", "archive"}
Known(s) == IF s = "models" THEN KnownModels ELSE KnownRuntime

\* Size and digest of every catalogued file.
Good(d, i) == Files(i) \subseteq DOMAIN d /\ \A f \in Files(i) : d[f] = i

Received(d, i) == "receipt" \in DOMAIN d /\ d["receipt"] = i

\* A model set is accepted with its receipt and notices; a runtime only when
\* it also holds nothing else.
WholeModels(d, i) == d # None /\ Received(d, i) /\ "notices" \in DOMAIN d /\ Good(d, i)
WholeRuntime(d, i) == d # None /\ Received(d, i) /\ DOMAIN d = Files(i) \cup {"receipt"} /\ Good(d, i)
Whole(d, i) == IF i \in Models THEN WholeModels(d, i) ELSE WholeRuntime(d, i)

\* A directory that holds nothing.
Empty == <<>>

Put(d, f, c) == [n \in DOMAIN d \cup {f} |-> IF n = f THEN c ELSE d[n]]

Idle == [at |-> "idle", item |-> None, todo |-> {}, cancel |-> FALSE,
         did |-> FALSE, reply |-> "none", touched |-> FALSE, leased |-> FALSE]

Init ==
    /\ root = "absent"
    /\ lock = None
    /\ stage = [s \in Stages |-> None]
    /\ disk = [i \in Items |-> None]
    /\ job = [p \in Instances |-> Idle]
    /\ jobs = 0 /\ outside = 0

TypeOK ==
    /\ root \in {"absent", "unmarked", "owned"}
    /\ lock \in Instances \cup {None}
    /\ \A p \in Instances : job[p].item \in Items \cup {None}
    /\ jobs \in 0..MaxJobs /\ outside \in 0..MaxOutside

\* download of an item, or an inspection (item None) of what is installed.
Begin(p, i) ==
    /\ job[p].at = "idle"
    /\ jobs < MaxJobs
    /\ jobs' = jobs + 1
    /\ job' = [job EXCEPT ![p] = [Idle EXCEPT !.at = "own", !.item = i]]
    /\ UNCHANGED <<root, lock, stage, disk, outside>>

\* ocr_setup_cancel: the flag may rise at any step.
Cancel(p) ==
    /\ job[p].at \notin {"idle", "done"}
    /\ ~job[p].cancel
    /\ job' = [job EXCEPT ![p].cancel = TRUE]
    /\ UNCHANGED <<root, lock, stage, disk, jobs, outside>>

\* The error path returns through the caller's cleanup once there is a
\* staging directory of this job, and directly before.
Fails(p) ==
    [job[p] EXCEPT !.at = IF job[p].at \in {"fetch", "extract", "finish", "publish", "rename"}
                          THEN "undo" ELSE "leave",
                   !.reply = IF job[p].cancel THEN "cancelled" ELSE "failed"]

Refuse(p) == job' = [job EXCEPT ![p] = Fails(p)]

\* A check of the flag, an I/O error or a refused transfer ends the job's
\* current step at any point where the code can return an error.
Fail(p) ==
    /\ job[p].at \in {"own", "mark", "lease", "look", "fetch", "extract", "finish", "publish", "rename"}
    /\ Refuse(p)
    /\ UNCHANGED <<root, lock, stage, disk, jobs, outside>>

\* owned: a directory without its marker is refused, whoever made it; an
\* inspection does not create it, and then holds no lease.
Own(p) ==
    /\ job[p].at = "own" /\ ~job[p].cancel
    /\ \/ /\ root = "absent" /\ job[p].item # None
          /\ root' = "unmarked"
          /\ job' = [job EXCEPT ![p].at = "mark"]
       \/ /\ root = "absent" /\ job[p].item = None
          /\ job' = [job EXCEPT ![p].at = "look"]
          /\ UNCHANGED root
       \/ /\ root = "owned"
          /\ job' = [job EXCEPT ![p].at = "lease"]
          /\ UNCHANGED root
       \/ /\ root = "unmarked"
          /\ Refuse(p)
          /\ UNCHANGED root
    /\ UNCHANGED <<lock, stage, disk, jobs, outside>>

Mark(p) ==
    /\ job[p].at = "mark"
    /\ root' = "owned"
    /\ job' = [job EXCEPT ![p].at = "lease"]
    /\ UNCHANGED <<lock, stage, disk, jobs, outside>>

\* Mutant: the lock file is opened but a lock held elsewhere is not respected.
LeaseShared(p) ==
    /\ job[p].at = "lease"
    /\ lock' = p /\ job' = [job EXCEPT ![p].at = "clean", ![p].leased = TRUE]
    /\ UNCHANGED <<root, stage, disk, jobs, outside>>

\* lease: the lock is tried, never waited for.
Lease(p) ==
    /\ job[p].at = "lease"
    /\ IF lock = None
       THEN lock' = p /\ job' = [job EXCEPT ![p].at = "clean", ![p].leased = TRUE]
       ELSE Refuse(p) /\ UNCHANGED lock
    /\ UNCHANGED <<root, stage, disk, jobs, outside>>

\* Mutant: what is recognised is removed, and so is the directory.
RemovableAlways(s) == s \in Stages

\* cleanup_tree: the whole tree is recognised before the first removal.
Removable(s) == stage[s] # None => DOMAIN stage[s] \subseteq Known(s)

\* The staging directories a cleanup removes; one that is not recognised
\* is kept whole, and a failing removal leaves some of its files.
Cleaned(p, names, next) ==
    \/ /\ \A s \in names : Removable(s)
       /\ stage' = [s \in Stages |-> IF s \in names THEN None ELSE stage[s]]
       /\ job' = [job EXCEPT ![p] = next]
    \/ \E s \in names :
          /\ stage[s] # None
          /\ \/ ~Removable(s) /\ UNCHANGED stage
             \/ /\ Removable(s)
                /\ \E kept \in SUBSET DOMAIN stage[s] :
                      stage' = [stage EXCEPT ![s] = [n \in kept |-> stage[s][n]]]
          /\ job' = [job EXCEPT ![p] = [Fails(p) EXCEPT !.at = "leave", !.reply = "incomplete"]]

Clean(p) ==
    /\ job[p].at = "clean"
    /\ Cleaned(p, Stages, [job[p] EXCEPT !.at = "look"])
    /\ UNCHANGED <<root, lock, disk, jobs, outside>>

\* What is already published is verified and reused, never replaced; what
\* is not is staged.
Look(p) ==
    LET i == job[p].item IN
    /\ job[p].at = "look" /\ i # None
    /\ IF disk[i] = None
       THEN /\ stage' = [stage EXCEPT ![StageOf(i)] = Empty]
            /\ job' = [job EXCEPT ![p].at = "fetch",
                          ![p].todo = IF i \in Models THEN Files(i) ELSE {"archive"}]
       ELSE /\ UNCHANGED stage
            /\ IF Whole(disk[i], i) /\ ~job[p].cancel
               THEN job' = [job EXCEPT ![p].at = "leave", ![p].reply = "complete"]
               ELSE Refuse(p)
    /\ UNCHANGED <<root, lock, disk, jobs, outside>>

\* An inspection proposes a configuration only when every item it reads
\* verifies; what it reads is a model set and a runtime.
Inspect(p) ==
    /\ job[p].at = "look" /\ job[p].item = None
    /\ \E m \in Models, r \in Runtimes :
          LET found == Whole(disk[m], m) /\ Whole(disk[r], r) IN
          IF job[p].cancel THEN Refuse(p)
          ELSE job' = [job EXCEPT ![p].at = "leave",
                          ![p].reply = IF found THEN "proposed" ELSE "complete"]
    /\ UNCHANGED <<root, lock, stage, disk, jobs, outside>>

FirstOf(todo) == CHOOSE f \in todo : TRUE

\* One transfer into a new file: the flag is read between blocks, the size
\* and the digest decide, and a refused transfer leaves its bytes in staging.
Fetch(p) ==
    LET i == job[p].item
        f == FirstOf(job[p].todo) IN
    /\ job[p].at = "fetch" /\ job[p].todo # {}
    /\ \/ /\ ~job[p].cancel /\ f \notin DOMAIN stage[StageOf(i)]
          /\ stage' = [stage EXCEPT ![StageOf(i)] = Put(@, f, i)]
          /\ job' = [job EXCEPT ![p].todo = @ \ {f}]
       \/ /\ stage' = [stage EXCEPT ![StageOf(i)] = Put(@, f, "other")]
          /\ Refuse(p)
    /\ UNCHANGED <<root, lock, disk, jobs, outside>>

\* The runtime's archive is verified as staged, not as claimed by the
\* transfer (and the directory of a ZIP is read before any member).
CheckArchive(p) ==
    LET i == job[p].item
        d == stage["runtime"] IN
    /\ job[p].at = "fetch" /\ job[p].todo = {} /\ i \in Runtimes
    /\ IF "archive" \in DOMAIN d /\ d["archive"] = i /\ ~job[p].cancel
       THEN job' = [job EXCEPT ![p].at = "extract"]
       ELSE Refuse(p)
    /\ UNCHANGED <<root, lock, stage, disk, jobs, outside>>

\* The members copied to new files of their own names, one by one.
Copied(d, i, some) == [n \in DOMAIN d \cup some |-> IF n \in some THEN i ELSE d[n]]

\* The reviewed members are copied out of the archive, which is opened
\* anew: each is verified as it is copied, and a refusal leaves those
\* already copied.  Then the archive is removed.
Extract(p) ==
    LET i == job[p].item
        d == stage["runtime"] IN
    /\ job[p].at = "extract"
    /\ IF d["archive"] = i /\ Files(i) \cap DOMAIN d = {} /\ ~job[p].cancel
       THEN /\ stage' = [stage EXCEPT !["runtime"] =
                [n \in DOMAIN Copied(d, i, Files(i)) \ {"archive"} |-> Copied(d, i, Files(i))[n]]]
            /\ job' = [job EXCEPT ![p].at = "finish"]
       ELSE /\ \E some \in SUBSET (Files(i) \ DOMAIN d) :
                  stage' = [stage EXCEPT !["runtime"] = Copied(d, i, some)]
            /\ Refuse(p)
    /\ UNCHANGED <<root, lock, disk, jobs, outside>>

\* A model set: the files are verified, then notices and receipt written.
\* A runtime: the receipt is written, then the installation verified.
Finish(p) ==
    LET i == job[p].item
        d == stage[StageOf(i)]
        n == IF i \in Models THEN Put(Put(d, "notices", i), "receipt", i) ELSE Put(d, "receipt", i) IN
    /\ \/ job[p].at = "finish" /\ i \in Runtimes
       \/ job[p].at = "fetch" /\ job[p].todo = {} /\ i \in Models
    /\ IF DOMAIN d \cap {"receipt", "notices"} = {} /\ Good(d, i) /\ (i \in Models \/ Whole(n, i)) /\ ~job[p].cancel
       THEN /\ stage' = [stage EXCEPT ![StageOf(i)] = n]
            /\ job' = [job EXCEPT ![p].at = "publish"]
       ELSE /\ stage' = [stage EXCEPT ![StageOf(i)] = IF i \in Models THEN d ELSE n]
            /\ Refuse(p)
    /\ UNCHANGED <<root, lock, disk, jobs, outside>>

\* The flag and the destination are read just before the rename.
Publish(p) ==
    /\ job[p].at = "publish"
    /\ IF ~job[p].cancel /\ disk[job[p].item] = None
       THEN job' = [job EXCEPT ![p].at = "rename"]
       ELSE Refuse(p)
    /\ UNCHANGED <<root, lock, stage, disk, jobs, outside>>

\* A directory that another program makes after the check is replaced only
\* while it is empty.
Takes(i) == disk[i] = None \/ disk[i] = Empty

\* Mutant: the flag is read again after the rename.
RenameThenCheck(p) ==
    LET i == job[p].item IN
    /\ job[p].at = "rename"
    /\ IF Takes(i)
       THEN /\ disk' = [disk EXCEPT ![i] = stage[StageOf(i)]]
            /\ stage' = [stage EXCEPT ![StageOf(i)] = None]
            /\ \E late \in BOOLEAN :
                  job' = [job EXCEPT ![p].at = "leave", ![p].did = TRUE, ![p].cancel = late,
                              ![p].reply = IF late THEN "cancelled" ELSE "complete"]
       ELSE Refuse(p) /\ UNCHANGED <<disk, stage>>
    /\ UNCHANGED <<root, lock, jobs, outside>>

\* The rename is the commit point: a later cancellation does not undo it.
Rename(p) ==
    LET i == job[p].item IN
    /\ job[p].at = "rename"
    /\ IF Takes(i)
       THEN /\ disk' = [disk EXCEPT ![i] = stage[StageOf(i)]]
            /\ stage' = [stage EXCEPT ![StageOf(i)] = None]
            /\ job' = [job EXCEPT ![p].at = "leave", ![p].reply = "complete", ![p].did = TRUE]
       ELSE Refuse(p) /\ UNCHANGED <<disk, stage>>
    /\ UNCHANGED <<root, lock, jobs, outside>>

\* The failed job removes what it staged; a failing cleanup is reported.
Undo(p) ==
    /\ job[p].at = "undo"
    /\ Cleaned(p, IF job[p].item \in Models THEN Stages ELSE {"runtime"}, [job[p] EXCEPT !.at = "leave"])
    /\ UNCHANGED <<root, lock, disk, jobs, outside>>

\* The lease ends with the call.
Leave(p) ==
    /\ job[p].at = "leave"
    /\ lock' = IF job[p].leased THEN None ELSE lock
    /\ job' = [job EXCEPT ![p].at = "done", ![p].leased = FALSE]
    /\ UNCHANGED <<root, stage, disk, jobs, outside>>

Taken(p) ==
    /\ job[p].at = "done"
    /\ job' = [job EXCEPT ![p] = Idle]
    /\ UNCHANGED <<root, lock, stage, disk, jobs, outside>>

\* The process ends; the system releases its lock and nothing else.
Crash(p) ==
    /\ job[p].at \notin {"idle", "done"}
    /\ lock' = IF job[p].leased THEN None ELSE lock
    /\ job' = [job EXCEPT ![p] = Idle]
    /\ UNCHANGED <<root, stage, disk, jobs, outside>>

\* Another program adds to or damages a staging directory, or damages,
\* removes or makes an installation.
EditStage(s, f) ==
    /\ outside < MaxOutside /\ stage[s] # None
    /\ f \in DOMAIN stage[s] \cup {"foreign"}
    /\ outside' = outside + 1
    /\ stage' = [stage EXCEPT ![s] = Put(@, f, "other")]
    /\ job' = [p \in Instances |->
                  IF job[p].item # None /\ job[p].at \in {"publish", "rename"} /\ StageOf(job[p].item) = s
                  THEN [job[p] EXCEPT !.touched = TRUE] ELSE job[p]]
    /\ UNCHANGED <<root, lock, disk, jobs>>

EditDisk(i, d) ==
    /\ outside < MaxOutside /\ root = "owned" /\ d # disk[i]
    /\ outside' = outside + 1
    /\ disk' = [disk EXCEPT ![i] = d]
    /\ UNCHANGED <<root, lock, stage, job, jobs>>

Step(p) ==
    \/ \E i \in Items \cup {None} : Begin(p, i)
    \/ Cancel(p) \/ Fail(p)
    \/ Own(p) \/ Mark(p) \/ Lease(p) \/ Clean(p)
    \/ Look(p) \/ Inspect(p)
    \/ Fetch(p) \/ CheckArchive(p) \/ Extract(p) \/ Finish(p) \/ Publish(p) \/ Rename(p)
    \/ Undo(p) \/ Leave(p) \/ Taken(p) \/ Crash(p)

Outside ==
    \/ \E s \in Stages : \E f \in Known(s) \cup {"foreign"} : EditStage(s, f)
    \/ \E i \in Items : \E d \in {None, Empty, [f \in Files(i) |-> "other"]} : EditDisk(i, d)

Next == (\E p \in Instances : Step(p)) \/ Outside

Spec == Init /\ [][Next]_vars

(***************************************************************************)
(* An outcome is true of the job: "complete" only with an installation     *)
(* this job published or verified, any other reply only when it published  *)
(* nothing, so that a cancellation that comes after the rename does not    *)
(* hide it; and a job that failed without reporting an incomplete cleanup  *)
(* leaves no staging behind while it still holds the lease.  Only one      *)
(* instance is ever past the lease.                                        *)
(***************************************************************************)
SetupIsTrue ==
    /\ \A p, q \in Instances : job[p].leased /\ job[q].leased => p = q
    /\ \A p \in Instances :
          /\ job[p].did => job[p].reply = "complete"
          /\ (job[p].at = "leave" /\ job[p].leased /\ job[p].item # None
                /\ job[p].reply \in {"failed", "cancelled", "complete"}) =>
                stage[StageOf(job[p].item)] = None

(***************************************************************************)
(* Setup never replaces or removes an installation, publishes only what    *)
(* verified whole (unless another program changed the staging directory    *)
(* between the verification and the rename), touches staging only under    *)
(* the lease, and never removes an entry it does not know.                 *)
(***************************************************************************)
\* The step SetupKeeps allows.
SetupKeepsStep ==
    outside' = outside =>
       /\ \A i \in Items : disk'[i] # disk[i] =>
             /\ Takes(i)
             /\ \E p \in Instances : /\ job[p].leased /\ job[p].item = i
                                     /\ job[p].touched \/ Whole(disk'[i], i)
       /\ \A s \in Stages : stage'[s] # stage[s] =>
             /\ \E p \in Instances : job[p].leased /\ lock = p
             /\ stage[s] # None /\ "foreign" \in DOMAIN stage[s] =>
                   \/ stage'[s] # None /\ "foreign" \in DOMAIN stage'[s]
                   \/ \E i \in Items : disk'[i] = stage[s]

SetupKeeps == [][SetupKeepsStep]_vars
=============================================================================
