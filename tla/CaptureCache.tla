---------------------------- MODULE CaptureCache ----------------------------
(***************************************************************************)
(* The machine-local originals of one package (capture_cache.rs):          *)
(* <root>/caches/<package>, one image and one temporary per capture.       *)
(* Captures of one Workspace are persisted after the application's state   *)
(* is unlocked, so calls overlap; the user may open the folder, replace it *)
(* or put links in it; the process may end between any two system calls.   *)
(***************************************************************************)
EXTENDS Naturals, FiniteSets

CONSTANTS Calls,       \* commands that may be in flight
          MaxFolders,  \* folders ever created for the package
          MaxCalls,    \* calls begun
          MaxOutside   \* edits of other programs, and restarts

VARIABLES path,     \* what the package's path leads to: a folder, Elsewhere or Nowhere
          folder,   \* what every folder holds under the two names
          call,     \* every command: its kind, its place, the folder it holds
          begun, outside

vars == <<path, folder, call, begun, outside>>

Folders == 1..MaxFolders
Elsewhere == 0                    \* the directory a link on the path leads to
Nowhere == MaxFolders + 1
Names == {"image", "pending"}
Absent == [by |-> "none", whole |-> TRUE]
Alien == [by |-> "link", whole |-> TRUE]     \* a link, a second hard link or a directory
Mine == [by |-> "user", whole |-> TRUE]      \* a file of another program
Empty == [n \in Names |-> Absent]
Idle == [kind |-> "none", at |-> "idle", held |-> Elsewhere, seen |-> {}, torn |-> FALSE]

Init ==
    /\ path = Nowhere /\ folder = [d \in Folders \cup {Elsewhere} |->
                                     IF d = Elsewhere THEN [Empty EXCEPT !["image"] = Mine]
                                                      ELSE Empty]
    /\ call = [c \in Calls |-> Idle] /\ begun = 0 /\ outside = 0

TypeOK ==
    /\ path \in Folders \cup {Elsewhere, Nowhere}
    /\ folder \in [Folders \cup {Elsewhere} -> [Names -> [by : Calls \cup {"none", "link", "user"},
                                                         whole : BOOLEAN]]]
    /\ \A c \in Calls : call[c].held \in Folders \cup {Elsewhere} /\ call[c].seen \subseteq Names

\* A call ends with what it answers: a failure, or its success.
Ends(c, answer) == call' = [call EXCEPT ![c] = [Idle EXCEPT !.at = answer]]
Goes(c, place) == call' = [call EXCEPT ![c].at = place]
At(c, kinds, place) == call[c].kind \in kinds /\ call[c].at = place
Unmoved == UNCHANGED <<path, begun, outside>>

\* A folder's modification time moves with its entries: a measurement that
\* looks at the folder sees afterwards that they changed.
Disturbs(d, other) ==
    [c \in Calls |-> IF At(c, {"measure"}, "list") /\ other[c].held = d
                     THEN [other[c] EXCEPT !.torn = TRUE] ELSE other[c]]

Puts(d, name, file) == folder' = [folder EXCEPT ![d][name] = file]

---------------------------------------------------------------------------

Begin(c) ==
    /\ call[c].at \in {"idle", "done", "failed"} /\ begun < MaxCalls
    /\ begun' = begun + 1
    /\ \E k \in {"persist", "open", "measure"} :
           call' = [call EXCEPT ![c] = [Idle EXCEPT !.kind = k, !.at = "check"]]
    /\ UNCHANGED <<path, folder, outside>>

\* check_ancestors: a link anywhere on the path refuses the call.  What is
\* missing is created, or there is nothing to read.
Check(c) ==
    /\ call[c].at = "check"
    /\ IF path = Elsewhere THEN Ends(c, "failed")
       ELSE IF call[c].kind = "persist" THEN Goes(c, "create")
       ELSE IF path = Nowhere THEN Ends(c, "done")
       ELSE Goes(c, "enter")
    /\ Unmoved /\ UNCHANGED folder

Fresh == {d \in Folders : folder[d] = Empty /\ path # d /\ \A c \in Calls : call[c].held # d}

\* ensure_directories creates what is missing; a link that came meanwhile
\* is a directory to create, and is refused by the second look.
Create(c) ==
    /\ At(c, {"persist"}, "create")
    /\ \/ path = Nowhere /\ \E d \in Fresh : path' = d /\ Goes(c, "recheck")
       \/ path # Nowhere /\ Goes(c, "recheck") /\ UNCHANGED path
       \/ Ends(c, "failed") /\ UNCHANGED path
    /\ UNCHANGED <<folder, begun, outside>>

Recheck(c) ==
    /\ At(c, {"persist"}, "recheck")
    /\ IF path = Elsewhere THEN Ends(c, "failed") ELSE Goes(c, "enter")
    /\ Unmoved /\ UNCHANGED folder

\* PackageDirectory::open: the components are opened one by one without
\* following a link, and the folder is retained for what follows.
Reaches == path \in Folders

Enter(c) ==
    /\ At(c, {"persist", "open"}, "enter")
    /\ IF ~Reaches THEN Ends(c, "failed")
       ELSE call' = [call EXCEPT ![c].at = IF call[c].kind = "open" THEN "read" ELSE "reserve",
                                 ![c].held = path]
    /\ Unmoved /\ UNCHANGED folder

\* open_image: the entry is opened inside the retained folder, and a link
\* or an extra hard link is refused.
Read(c) ==
    /\ At(c, {"open"}, "read")
    /\ LET file == folder[call[c].held]["image"] IN
       IF file = Alien THEN Ends(c, "failed") ELSE Ends(c, "done")
    /\ Unmoved /\ UNCHANGED folder

---------------------------------------------------------------------------
(* persist.                                                                *)

\* Mutant: a temporary that is already there is written again.
ReservableAnyway(d) == TRUE

\* The temporary is created exclusively, so only its creator may remove it.
Reservable(d) == folder[d]["pending"] = Absent

\* create_pending: another writer's temporary, or one a crash left behind,
\* refuses the call and is left alone.
Reserve(c) ==
    /\ At(c, {"persist"}, "reserve")
    /\ LET d == call[c].held IN
       IF Reservable(d)
       THEN /\ Puts(d, "pending", [by |-> c, whole |-> FALSE])
            /\ call' = Disturbs(d, [call EXCEPT ![c].at = "write"])
       ELSE Ends(c, "failed") /\ UNCHANGED folder
    /\ Unmoved

\* The whole PNG is written and synced before it is published.
Write(c) ==
    /\ At(c, {"persist"}, "write")
    /\ \/ Puts(call[c].held, "pending", [by |-> c, whole |-> TRUE]) /\ Goes(c, "publish")
       \/ Goes(c, "clean") /\ UNCHANGED folder
    /\ Unmoved

\* The rename inside the retained folder; it replaces a link, never follows
\* it.
Publish(c) ==
    /\ At(c, {"persist"}, "publish")
    /\ LET d == call[c].held IN
       \/ /\ folder' = [folder EXCEPT ![d]["image"] = folder[d]["pending"],
                                      ![d]["pending"] = Absent]
          /\ call' = Disturbs(d, [call EXCEPT ![c] = [Idle EXCEPT !.at = "done"]])
       \/ Goes(c, "clean") /\ UNCHANGED folder
    /\ Unmoved

\* remove: the call's own temporary, unless that fails too.
Clean(c) ==
    /\ At(c, {"persist"}, "clean")
    /\ LET d == call[c].held
           over == [call EXCEPT ![c] = [Idle EXCEPT !.at = "failed"]] IN
       \/ Puts(d, "pending", Absent) /\ call' = Disturbs(d, over)
       \/ call' = over /\ UNCHANGED folder
    /\ Unmoved

---------------------------------------------------------------------------
(* measure.                                                                *)

Before(c) ==
    /\ At(c, {"measure"}, "enter")
    /\ IF path \notin Folders THEN Ends(c, "failed")
       ELSE call' = [call EXCEPT ![c].at = "list", ![c].held = path]
    /\ Unmoved /\ UNCHANGED folder

\* One entry of the opened folder; an entry that is no regular file of its
\* own refuses the whole measurement.
Lists(c) ==
    /\ At(c, {"measure"}, "list")
    /\ \E n \in Names \ call[c].seen :
           /\ folder[call[c].held][n] # Absent
           /\ IF folder[call[c].held][n] = Alien THEN Ends(c, "failed")
              ELSE call' = [call EXCEPT ![c].seen = @ \cup {n}]
    /\ Unmoved /\ UNCHANGED folder

\* Mutant: only the folder's identity is compared.
SettledById(c) == path = call[c].held

\* The folder is the one that was looked at, and nothing in it changed.
Settled(c) == path = call[c].held /\ ~call[c].torn

\* The end of the listing and the second look.  The listing may or may not
\* show an entry that came while it ran.
After(c) ==
    /\ At(c, {"measure"}, "list")
    /\ call[c].torn \/ \A n \in Names \ call[c].seen : folder[call[c].held][n] = Absent
    /\ IF Settled(c)
       THEN call' = [call EXCEPT ![c].at = "done"]
       ELSE Ends(c, "failed")
    /\ Unmoved /\ UNCHANGED folder

---------------------------------------------------------------------------
(* Other programs and restarts.                                            *)

\* The folder is moved away and nothing or a link is left in its place; the
\* folder itself is not put back.
Substitute ==
    /\ outside < MaxOutside /\ outside' = outside + 1
    /\ path' \in {Nowhere, Elsewhere} /\ path' # path
    /\ UNCHANGED <<folder, call, begun>>

\* An image is removed, or a link takes its name.
EditImage ==
    /\ outside < MaxOutside /\ outside' = outside + 1
    /\ path \in Folders
    /\ \E file \in {Absent, Alien} :
           /\ folder[path]["image"] # file /\ Puts(path, "image", file)
    /\ call' = Disturbs(path, call)
    /\ UNCHANGED <<path, begun>>

\* The process ends; what its calls had written stays.
Restart ==
    /\ outside < MaxOutside /\ outside' = outside + 1
    /\ call' = [c \in Calls |-> Idle]
    /\ UNCHANGED <<path, folder, begun>>

Next ==
    \/ \E c \in Calls :
           \/ Begin(c) \/ Check(c) \/ Create(c) \/ Recheck(c) \/ Enter(c) \/ Read(c)
           \/ Reserve(c) \/ Write(c) \/ Publish(c) \/ Clean(c)
           \/ Before(c) \/ Lists(c) \/ After(c)
    \/ Substitute \/ EditImage \/ Restart

Spec == Init /\ [][Next]_vars

---------------------------------------------------------------------------

\* A reader never meets half a PNG and a measurement is never half a total:
\* whatever two overlapping writers, a failed write, a crash and the user's
\* own edits leave, an image under its published name is whole, a temporary
\* belongs to the one call that may publish or remove it, and a total that
\* is answered counts every entry of the folder it measured.
CacheIsWhole ==
    /\ \A d \in Folders : folder[d]["image"].whole
    /\ \A c \in Calls : At(c, {"persist"}, "write") \/ At(c, {"persist"}, "publish")
                            => folder[call[c].held]["pending"].by = c

\* The step CacheKeepsToItself allows.
CacheKeepsToItselfStep ==
    /\ folder'[Elsewhere] = folder[Elsewhere]
    /\ \A c \in Calls :
           At(c, {"measure"}, "list") /\ call'[c].at = "done"
               => \A n \in Names : n \in call[c].seen <=> folder[call[c].held][n] # Absent

\* No call changes anything outside the cache, and the total it answers
\* counts what is there, wherever the path led meanwhile.
CacheKeepsToItself == [][CacheKeepsToItselfStep]_vars
=============================================================================
