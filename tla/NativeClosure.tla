---------------------------- MODULE NativeClosure ----------------------------
(***************************************************************************)
(* Discovery of the image-processing libraries and everything they load,   *)
(* from their headers alone (ocr_setup/native.rs and native/binary.rs): a  *)
(* worklist of libraries, each with the stack of runpaths its loaders      *)
(* declared.  The same library can be reached through several loaders, and *)
(* a dependency of it then names a different file in each: the answer is   *)
(* given only when every loader context agrees, and when no file changed   *)
(* while the others were read.                                             *)
(*                                                                         *)
(* What is installed is a record:                                          *)
(*   os        "mach" or "pe"                                              *)
(*   required  the modules looked for first                                *)
(*   at        what each approved directory holds under each name          *)
(*   home      the directory a library lies in                             *)
(*   rpaths    the runpaths a library declares, in order ("loader" is the  *)
(*             directory of the declaring library)                         *)
(*   deps      the names a library loads                                   *)
(* Reading a library's header is one step with the visit that needs it.    *)
(***************************************************************************)
EXTENDS Naturals, Sequences, FiniteSets, SequencesExt

CONSTANTS Worlds,        \* the installations considered
          Libs,          \* libraries
          Dirs,          \* approved directories
          SystemDir,     \* the Windows directory, for the known runtime names only
          Msvc,          \* those names
          System,        \* names the operating system provides
          Cost(_),       \* header bytes read for a library
          MaxRead, MaxLibraries, MaxContexts, MaxEdges, MaxStack,
          MaxChanges     \* bound: files replaced by other programs

VARIABLES world,         \* what is installed
          version,       \* how often each file was replaced
          at,            \* "scan", "walk", "check", "done", "refused"
          why,           \* the reason of a refusal
          pending,       \* libraries to visit, with inherited runpaths
          images,        \* libraries read, with the version read
          contexts,      \* <<library, stack>> already visited
          bindings,      \* <<library, name, target>>
          edges, bytes,  \* references followed, header bytes read
          cancel

vars == <<world, version, at, why, pending, images, contexts, bindings, edges, bytes, cancel>>

Absent == "absent"
Elsewhere == "outside"   \* a link that leaves the approved directories
Provided == "provided"   \* loaded from the operating system

Init ==
    /\ world \in Worlds
    /\ version = [l \in Libs |-> 0]
    /\ at = "scan" /\ why = "none"
    /\ pending = <<>>
    /\ images = [l \in {} |-> 0]
    /\ contexts = {} /\ bindings = {}
    /\ edges = 0 /\ bytes = 0
    /\ cancel = FALSE

TypeOK ==
    /\ at \in {"scan", "walk", "check", "done", "refused"}
    /\ DOMAIN images \subseteq Libs
    /\ edges \in 0..MaxEdges /\ bytes \in 0..MaxRead

\* The one file a set of directory entries names, or why there is none.
Unique(found) ==
    IF Elsewhere \in found THEN Elsewhere
    ELSE IF Cardinality(found) > 1 THEN "ambiguous"
    ELSE IF found = {} THEN Absent ELSE CHOOSE l \in found : TRUE

Entries(w, name) == {w.at[<<d, name>>] : d \in Dirs} \ {Absent}

\* resolve_pe: only the approved directories, and for a known runtime name
\* that none of them holds the system directory.
OnWindows(w, name) ==
    IF name \in System THEN Provided
    ELSE IF Entries(w, name) = {} /\ name \in Msvc THEN w.at[<<SystemDir, name>>]
    ELSE Unique(Entries(w, name))

\* expand_loader: an inherited "loader" entry belongs to the image that
\* declared it, not to the one that is loading.
Expanded(w, entry) == IF entry.path = "loader" THEN w.home[entry.owner] ELSE entry.path

\* resolve_mach: the loader stops at the first entry that exists.
OnMac(w, name, stack) ==
    LET hits == {k \in 1..Len(stack) : w.at[<<Expanded(w, stack[k]), name>>] # Absent} IN
    IF name \in System THEN Provided
    ELSE IF hits = {} THEN Absent
    ELSE w.at[<<Expanded(w, stack[CHOOSE k \in hits : \A h \in hits : k <= h]), name>>]

Resolved(w, name, stack) == IF w.os = "mach" THEN OnMac(w, name, stack) ELSE OnWindows(w, name)

\* Its own runpaths first, then those its loaders declared, each once.
Own(w, l) == [k \in 1..Len(w.rpaths[l]) |-> [owner |-> l, path |-> w.rpaths[l][k]]]

RECURSIVE Once(_)
Once(s) == IF s = <<>> THEN <<>>
           ELSE <<Head(s)>> \o Once(SelectSeq(Tail(s), LAMBDA e : e # Head(s)))

Stack(w, l, inherited) == Once(Own(w, l) \o inherited)

Refuse(reason) ==
    /\ at' = "refused" /\ why' = reason
    /\ UNCHANGED <<pending, images, contexts, bindings, edges, bytes>>

\* The required modules, each of which must name one file.
Scan ==
    LET found == [r \in world.required |-> Unique(Entries(world, r))] IN
    /\ at = "scan" /\ ~cancel
    /\ IF \E r \in world.required : found[r] \notin Libs
       THEN Refuse("required")
       ELSE /\ at' = "walk"
            /\ pending' = SetToSeq({[lib |-> found[r], stack |-> <<>>] : r \in world.required})
            /\ UNCHANGED <<why, images, contexts, bindings, edges, bytes>>
    /\ UNCHANGED <<world, version, cancel>>

\* A library already read is not read again; its version is the one read.
Read(l) == IF l \in DOMAIN images THEN images
           ELSE [k \in DOMAIN images \cup {l} |-> IF k = l THEN version[l] ELSE images[k]]

\* Mutant: a library is visited once, whatever loads it.
KnownLibrary(l, stack) == \E c \in contexts : c[1] = l

\* A context is a library with its stack of runpaths.
Known(l, stack) == <<l, stack>> \in contexts

\* One entry of the worklist: the image is read, then every dependency of a
\* new loader context is resolved and must agree with earlier contexts.
Visit ==
    LET l == Head(pending).lib
        stack == Stack(world, l, Head(pending).stack)
        new == l \notin DOMAIN images
        cost == IF new THEN bytes + Cost(l) ELSE bytes
        targets == [n \in world.deps[l] |-> Resolved(world, n, stack)]
        bound == bindings \cup {<<l, n, targets[n]>> : n \in world.deps[l]} IN
    /\ at = "walk" /\ pending # <<>> /\ ~cancel
    /\ IF \/ new /\ Cardinality(DOMAIN images) >= MaxLibraries
          \/ cost > MaxRead \/ Len(stack) > MaxStack
       THEN Refuse("bound")
       ELSE IF Known(l, stack)
       THEN /\ pending' = Tail(pending)
            /\ UNCHANGED <<at, why, images, contexts, bindings, edges, bytes>>
       ELSE IF Cardinality(contexts) >= MaxContexts \/ edges + Cardinality(world.deps[l]) > MaxEdges
       THEN Refuse("bound")
       ELSE IF \E n \in world.deps[l] : targets[n] \notin Libs \cup {Provided}
       THEN Refuse("unresolved")
       ELSE IF \E a, b \in bound : a[1] = b[1] /\ a[2] = b[2] /\ a[3] # b[3]
       THEN Refuse("disagree")
       ELSE /\ images' = Read(l) /\ bytes' = cost
            /\ contexts' = contexts \cup {<<l, stack>>}
            /\ edges' = edges + Cardinality(world.deps[l])
            /\ bindings' = bound
            /\ pending' = Tail(pending) \o
                  SetToSeq({[lib |-> targets[n], stack |-> stack] :
                               n \in {d \in world.deps[l] : targets[d] # Provided}})
            /\ UNCHANGED <<at, why>>
    /\ UNCHANGED <<world, version, cancel>>

Walked ==
    /\ at = "walk" /\ pending = <<>>
    /\ at' = "check"
    /\ UNCHANGED <<world, version, why, pending, images, contexts, bindings, edges, bytes, cancel>>

\* Mutant: only the last look at each file counts.
UnchangedAssumed == TRUE

\* Every file is still the one that was read.
Unchanged == \A l \in DOMAIN images : version[l] = images[l]

Check ==
    /\ at = "check"
    /\ IF Unchanged /\ ~cancel
       THEN at' = "done" /\ UNCHANGED <<why, pending, images, contexts, bindings, edges, bytes>>
       ELSE Refuse("changed")
    /\ UNCHANGED <<world, version, cancel>>

Cancel ==
    /\ at \in {"scan", "walk", "check"} /\ ~cancel
    /\ cancel' = TRUE
    /\ UNCHANGED <<world, version, at, why, pending, images, contexts, bindings, edges, bytes>>

Cancelled ==
    /\ cancel /\ at \in {"scan", "walk"}
    /\ Refuse("cancelled")
    /\ UNCHANGED <<world, version, cancel>>

\* Another program replaces a library by one that loads the same names.
Replace(l) ==
    /\ at \in {"walk", "check"}
    /\ \A k \in Libs : version[k] < MaxChanges
    /\ version' = [version EXCEPT ![l] = @ + 1]
    /\ UNCHANGED <<world, at, why, pending, images, contexts, bindings, edges, bytes, cancel>>

Next ==
    \/ Scan \/ Visit \/ Walked \/ Check \/ Cancel \/ Cancelled
    \/ \E l \in Libs : Replace(l)

Spec == Init /\ [][Next]_vars

(***************************************************************************)
(* The loader's own view, as reference: from the required modules, the     *)
(* contexts reached after k loads.                                         *)
(***************************************************************************)
RECURSIVE Loaded(_, _)
Loaded(w, k) ==
    IF k = 0
    THEN {<<l, Stack(w, l, <<>>)>> : l \in {Unique(Entries(w, r)) : r \in w.required} \cap Libs}
    ELSE LET before == Loaded(w, k - 1) IN
         before \cup UNION {{<<t, Stack(w, t, c[2])>> : t \in {Resolved(w, n, c[2]) : n \in w.deps[c[1]]} \cap Libs}
                               : c \in before}

\* The closure is answered only when it is exactly what would be loaded:
\* every dependency of every loader context resolves, contexts that load
\* the same name from the same library agree, no library is missing or
\* superfluous, and every file is still the one whose header was read.
ClosureIsExact ==
    at = "done" =>
        LET truth == Loaded(world, MaxContexts) IN
        /\ DOMAIN images = {c[1] : c \in truth}
        /\ \A c \in truth : \A n \in world.deps[c[1]] :
              Resolved(world, n, c[2]) \in Libs \cup {Provided}
        /\ \A c, d \in truth : c[1] = d[1] =>
              \A n \in world.deps[c[1]] : Resolved(world, n, c[2]) = Resolved(world, n, d[2])
        /\ \A l \in DOMAIN images : images[l] = version[l]
=============================================================================
