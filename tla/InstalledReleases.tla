-------------------------- MODULE InstalledReleases --------------------------
(***************************************************************************)
(* Signed releases below the data root and the archives exported from it  *)
(* (apps/desktop/src-tauri/src/distribution.rs and                        *)
(* distribution/installed.rs).                                            *)
(*                                                                         *)
(* An installed release is one file, filed under the key that signed it   *)
(* and named for the digest of its bytes.  Importers of any process share *)
(* one data root: an import holds the file lock `.import.lock` from the   *)
(* conflict check to the end of publication and publishes a verified      *)
(* staging file by a rename that replaces nothing.  An export writes the  *)
(* same kind of staging file beside a chosen destination and takes no     *)
(* lock.  Another program may place, alter or remove files at any time,   *)
(* and a process may die, which closes its lock.                          *)
(***************************************************************************)
EXTENDS Naturals, FiniteSets

CONSTANTS
    Importers,      \* calls that may run at the same time, in any process
    Artifacts,      \* archives, each standing for the digest of its bytes
    Release(_),     \* the package and release version an archive declares
    Key(_),         \* the fingerprint of the key that signed it
    Keys,           \* signer folders that may exist
    Limit,          \* MAX_INSTALLED
    None,           \* no artifact
    Strange,        \* a file of another program
    MaxEdits        \* bound: files changed by another program

InstalledAssumption ==
    /\ \A a \in Artifacts : Key(a) \in Keys
    /\ Limit \in Nat \ {0}
    /\ None \notin Artifacts /\ Strange \notin Artifacts \cup {None}
    /\ MaxEdits \in Nat

VARIABLES
    entry,      \* what stands at <key>/<package>/<artifact>.mmpkg
    saved,      \* the file at the chosen export destination
    lock,       \* the call that holds .import.lock, or "free"
    call,       \* where each call stands
    foreign,    \* history: locations another program has written or removed
    edits       \* the number of its changes so far

vars == <<entry, saved, lock, call, foreign, edits>>

(* "exact" is a file with the artifact's own bytes; "other" is anything    *)
(* else that may stand under that name: altered bytes, a link, a folder.   *)
Entry == {"none", "exact", "other"}
Steps == {"idle", "begin", "lock", "scan", "count", "compare", "write", "staged",
          "publish", "sync", "done"}
Outcomes == {"none", "committed", "unchanged", "refused"}

Idle == [at |-> "idle", kind |-> "import", artifact |-> None, staging |-> "none",
         cancel |-> FALSE, outcome |-> "none"]

InstalledTypeOK ==
    /\ entry \in [Keys -> [Artifacts -> Entry]]
    /\ saved \in Artifacts \cup {None, Strange}
    /\ lock \in Importers \cup {"free"}
    /\ call \in [Importers ->
           [at : Steps, kind : {"import", "export"}, artifact : Artifacts \cup {None},
            staging : {"none", "partial", "whole"}, cancel : BOOLEAN, outcome : Outcomes]]
    /\ foreign \subseteq Keys \X Artifacts
    /\ edits \in 0 .. MaxEdits

Init ==
    /\ entry = [k \in Keys |-> [a \in Artifacts |-> "none"]]
    /\ saved = None
    /\ lock = "free"
    /\ call = [i \in Importers |-> Idle]
    /\ foreign = {}
    /\ edits = 0

-----------------------------------------------------------------------------
(* What the folders hold.                                                  *)

Signers(a) == {k \in Keys : entry[k][a] # "none"}
Catalog == {l \in Keys \X Artifacts : entry[l[1]][l[2]] # "none"}
Verifies(k, a) == entry[k][a] = "exact" /\ k = Key(a)
Releases(p) == {l \in Catalog : Release(l[2])[1] = p}

(* What a consumer of the reference gets: exactly one location, and its    *)
(* bytes, signature, signer folder and package checked on this call.       *)
Installed(a) == \E k \in Keys : Signers(a) = {k} /\ Verifies(k, a)

At(i, step) == [call EXCEPT ![i].at = step]
Ends(i, outcome) == [call EXCEPT ![i].at = "done", ![i].staging = "none",
                                 ![i].outcome = outcome]
Released(i) == IF lock = i THEN "free" ELSE lock

(* An early return: the call's own staging file goes, and so does its lock.*)
Refuse(i) ==
    /\ call' = Ends(i, "refused")
    /\ lock' = Released(i)
    /\ UNCHANGED <<entry, saved, foreign, edits>>

Step(i, from, to) ==
    /\ call[i].at = from
    /\ call' = At(i, to)
    /\ UNCHANGED <<entry, saved, lock, foreign, edits>>

-----------------------------------------------------------------------------
(* A prepared archive is published; its bytes were verified when it was    *)
(* captured (an import) or built (an export).                              *)
Prepare(i, a, kind) ==
    /\ call[i].at = "idle"
    /\ call' = [call EXCEPT ![i] = [Idle EXCEPT !.at = "begin", !.kind = kind,
                                                !.artifact = a]]
    /\ UNCHANGED <<entry, saved, lock, foreign, edits>>

Cancel(i) ==
    /\ call[i].at \notin {"idle", "done"}
    /\ ~call[i].cancel
    /\ call' = [call EXCEPT ![i].cancel = TRUE]
    /\ UNCHANGED <<entry, saved, lock, foreign, edits>>

Checked(i, from) ==
    /\ call[i].at = from
    /\ call[i].cancel
    /\ Refuse(i)

(* The early cancellation check, and for an export the look at a           *)
(* destination that already exists.                                        *)
Begin(i) ==
    \/ Checked(i, "begin")
    \/ /\ ~call[i].cancel
       /\ call[i].kind = "import"
       /\ Step(i, "begin", "lock")
    \/ /\ ~call[i].cancel
       /\ call[i].kind = "export"
       /\ saved = None
       /\ Step(i, "begin", "write")
    \/ /\ call[i].at = "begin"
       /\ call[i].kind = "export"
       /\ saved # None
       /\ Refuse(i)

\* Mutant: the lock file is opened and not locked.
LockOpened(i) ==
    /\ call[i].at = "lock"
    /\ lock' = i
    /\ call' = At(i, "scan")
    /\ UNCHANGED <<entry, saved, foreign, edits>>

(* try_lock never waits: a second import is refused as busy.               *)
Lock(i) ==
    /\ call[i].at = "lock"
    /\ \/ /\ lock = "free"
          /\ lock' = i
          /\ call' = At(i, "scan")
          /\ UNCHANGED <<entry, saved, foreign, edits>>
       \/ /\ lock # "free"
          /\ Refuse(i)

(* The same artifact in another signer's folder is a conflict; in its own  *)
(* it is reported unchanged after it verified once more.                   *)
Scan(i) ==
    LET new == call[i].artifact IN
    /\ call[i].at = "scan"
    /\ \/ /\ Signers(new) = {}
          /\ Step(i, "scan", "count")
       \/ /\ Signers(new) # {}
          /\ ~(Signers(new) = {Key(new)} /\ Verifies(Key(new), new))
          /\ Refuse(i)
       \/ /\ Signers(new) = {Key(new)}
          /\ Verifies(Key(new), new)
          /\ call' = Ends(i, "unchanged")
          /\ lock' = Released(i)
          /\ UNCHANGED <<entry, saved, foreign, edits>>

Count(i) ==
    \/ Cardinality(Catalog) < Limit /\ Step(i, "count", "compare")
    \/ call[i].at = "count" /\ Cardinality(Catalog) >= Limit /\ Refuse(i)

(* Every installed release of this package must verify, and none may bear  *)
(* this release version.                                                   *)
Admits(a) ==
    \A l \in Releases(Release(a)[1]) : Verifies(l[1], l[2]) /\ Release(l[2]) # Release(a)

Compare(i) ==
    /\ call[i].at = "compare"
    /\ \/ /\ Admits(call[i].artifact)
          /\ ~call[i].cancel
          /\ Step(i, "compare", "write")
       \/ /\ ~Admits(call[i].artifact) \/ call[i].cancel
          /\ Refuse(i)

(* The private staging file, written in chunks with a cancellation check   *)
(* before each, then read back and compared.                               *)
Write(i) ==
    \/ Checked(i, "write")
    \/ /\ call[i].at = "write"
       /\ call[i].staging = "none"
       /\ call' = [call EXCEPT ![i].staging = "partial"]
       /\ UNCHANGED <<entry, saved, lock, foreign, edits>>
    \/ /\ call[i].at = "write"
       /\ call[i].staging = "partial"
       /\ ~call[i].cancel
       /\ call' = [call EXCEPT ![i].staging = "whole", ![i].at = "staged"]
       /\ UNCHANGED <<entry, saved, lock, foreign, edits>>

(* The last cancellation check; after it the rename is attempted.          *)
Staged(i) ==
    \/ Checked(i, "staged")
    \/ ~call[i].cancel /\ Step(i, "staged", "publish")

\* Mutant: the rename replaces what stands under the name.
PublishReplacing(i) ==
    LET new == call[i].artifact IN
    /\ call[i].at = "publish"
    /\ IF call[i].kind = "import"
       THEN entry' = [entry EXCEPT ![Key(new)][new] = "exact"] /\ UNCHANGED saved
       ELSE saved' = new /\ UNCHANGED entry
    /\ call' = [call EXCEPT ![i].at = "sync", ![i].staging = "none",
                            ![i].outcome = "committed"]
    /\ UNCHANGED <<lock, foreign, edits>>

Publish(i) ==
    LET new == call[i].artifact IN
    /\ call[i].at = "publish"
    /\ \/ /\ call[i].kind = "import"
          /\ entry[Key(new)][new] = "none"
          /\ entry' = [entry EXCEPT ![Key(new)][new] = "exact"]
          /\ UNCHANGED saved
          /\ call' = [call EXCEPT ![i].at = "sync", ![i].staging = "none",
                                  ![i].outcome = "committed"]
          /\ UNCHANGED <<lock, foreign, edits>>
       \/ /\ call[i].kind = "export"
          /\ saved = None
          /\ saved' = new
          /\ UNCHANGED entry
          /\ call' = [call EXCEPT ![i].at = "sync", ![i].staging = "none",
                                  ![i].outcome = "committed"]
          /\ UNCHANGED <<lock, foreign, edits>>
       \/ /\ IF call[i].kind = "import" THEN entry[Key(new)][new] # "none" ELSE saved # None
          /\ Refuse(i)

(* A failed directory sync is reported beside the commit, never instead.   *)
Sync(i) ==
    /\ call[i].at = "sync"
    /\ call' = At(i, "done")
    /\ lock' = Released(i)
    /\ UNCHANGED <<entry, saved, foreign, edits>>

(* Any file operation before the rename may fail.                          *)
Fault(i) ==
    /\ call[i].at \in {"begin", "lock", "scan", "count", "compare", "write", "staged", "publish"}
    /\ Refuse(i)

(* The process dies: its lock closes and its staging file stays behind,    *)
(* under a private name no import counts.                                  *)
Crash(i) ==
    /\ call[i].at \notin {"idle", "done"}
    /\ call' = [call EXCEPT ![i] = Idle]
    /\ lock' = Released(i)
    /\ UNCHANGED <<entry, saved, foreign, edits>>

(* Another program writes or removes a file.                               *)
Edit(k, a, e) ==
    /\ edits < MaxEdits
    /\ entry[k][a] # e
    /\ entry' = [entry EXCEPT ![k][a] = e]
    /\ foreign' = foreign \cup {<<k, a>>}
    /\ edits' = edits + 1
    /\ UNCHANGED <<saved, lock, call>>

EditSaved ==
    /\ edits < MaxEdits
    /\ saved' = (IF saved = None THEN Strange ELSE None)
    /\ edits' = edits + 1
    /\ UNCHANGED <<entry, lock, call, foreign>>

Run(i) ==
    \/ Begin(i) \/ Lock(i) \/ Scan(i) \/ Count(i) \/ Compare(i) \/ Write(i)
    \/ Staged(i) \/ Publish(i) \/ Sync(i)

Next ==
    \/ \E i \in Importers :
          \/ \E a \in Artifacts, kind \in {"import", "export"} : Prepare(i, a, kind)
          \/ Cancel(i) \/ Run(i) \/ Fault(i) \/ Crash(i)
    \/ \E k \in Keys, a \in Artifacts, e \in Entry : Edit(k, a, e)
    \/ EditSaved

Spec == Init /\ [][Next]_vars

-----------------------------------------------------------------------------
(* Whatever importers run at once, cancel or crash in whatever order, two   *)
(* different artifacts of one release version stand installed only where    *)
(* another program put one of them, every release an import installed is    *)
(* under its own signer's folder, and the catalog stays within the limit    *)
(* listing accepts.                                                         *)
ReleasesAgree ==
    /\ \A l, m \in Catalog :
          (l[2] # m[2] /\ Release(l[2]) = Release(m[2])) => {l, m} \cap foreign # {}
    /\ \A l \in Catalog \ foreign : Verifies(l[1], l[2])
    /\ foreign = {} => Cardinality(Catalog) <= Limit

(* The only step by which a call changes a published file is the rename of  *)
(* its own complete staging copy onto a free name: nothing is replaced or   *)
(* removed; it reports the commit with that step; and no such step follows  *)
(* a cancellation the call could still see when its copy was complete.      *)
\* The step OnlyAdded allows.
OnlyAddedStep ==
    LET Mine(i) == call'[i] # call[i] /\ edits' = edits
        Commits(i) == call[i].outcome # "committed" /\ call'[i].outcome = "committed"
    IN  /\ (entry' # entry \/ saved' # saved) /\ edits' = edits =>
              \E i \in Importers :
                 /\ Mine(i) /\ Commits(i) /\ call[i].staging = "whole"
                 /\ \/ saved' = saved /\
                       \E l \in Keys \X Artifacts :
                          /\ entry[l[1]][l[2]] = "none"
                          /\ entry' = [entry EXCEPT ![l[1]][l[2]] = "exact"]
                    \/ entry' = entry /\ saved = None /\ saved' = call[i].artifact
        /\ \A i \in Importers : Commits(i) => entry' # entry \/ saved' # saved
        /\ \A i \in Importers :
              call[i].at = "staged" /\ call[i].cancel => call'[i].at # "publish"

OnlyAdded == [][OnlyAddedStep]_vars
=============================================================================
