----------------------------- MODULE MCExchange ------------------------------
(***************************************************************************)
(* What the application exchanges with the disk, with other programs and   *)
(* with other processes, one component per behaviour: `part` names the one *)
(* that runs.  The components share nothing, so they share the registers   *)
(* x1, x2, ... and a behaviour leaves those it has no use for at zero.     *)
(***************************************************************************)
EXTENDS Naturals, FiniteSets, SequencesExt, TLC

CONSTANTS Parts,    \* the components this run covers
          a, b,     \* importers, data roots: interchangeable
          p, q,     \* two data roots, one of which a predecessor used
          none, strange
Symmetry == Permutations({a, b})

\* InstalledReleases: two archives of one release under different keys, and a later release.
Release(archive) == <<"p", IF archive = "a3" THEN 2 ELSE 1>>
Key(archive) == IF archive = "a2" THEN "k2" ELSE "k1"
\* DraftCollaboration: a package with both files and one without the second.
Drafted(second) == [f1 |-> "x", f2 |-> second, d |-> "x"]
\* CollaborationHost
Does(request) == IF request = "e" THEN "edit" ELSE "command"
\* PluginManagement: an OMP executable, the same replaced, a second one too old, none of them.
One == [path |-> 1, file |-> 1]
Other == [path |-> 1, file |-> 2]
TooOld == [path |-> 2, file |-> 3]
Executables(host) == CASE host = "one" -> {One} [] host = "replaced" -> {Other}
                       [] host = "two" -> {One, TooOld} [] host = "old" -> {TooOld}
IsRedirected(host) == FALSE
IsOld(executable) == executable = TooOld
Registered(kind, root) == [kind |-> kind, root |-> root]
Roots == {Registered("predecessor", none), Registered("older", p), Registered("copied", none)}
\* ResourceSetup
FilesOf(key) == IF key = "m" THEN {"det", "rec"} ELSE {"lib"}
\* PackageCapture: a manifest that declares one file or two, the second in a directory of its own.
Dir(name) == IF name = "b" THEN "sub" ELSE "root"
May(name) == IF name = "m" THEN {"ma", "mab"} ELSE {"x", "y"}
Parses(content) == content \in {"ma", "mab"}
Declares(content) == IF content = "ma" THEN {"m", "a"} ELSE {"m", "a", "b"}
NotY(content) == content # "y"
Size(content) == IF content = "y" THEN 2 ELSE 1
\* PackageArchive: archives of an index, a signature, a manifest and up to two further members
\* whose names may differ in case only, their directory changed in one place.
Unit(v) == <<"data", v>>
Lower(name) == IF name = "A" THEN "a" ELSE name
Allowance(data) == IF data = <<Unit(1)>> THEN 1 ELSE 2
Member(name, data) == [name |-> name, data |-> data]
Written(member) == <<<<"head", member.name, Len(member.data)>>>> \o member.data
Bodies ==
    {<<Member("i", <<Unit(1)>>), Member("s", <<>>), Member("m", manifest)>> \o rest :
        manifest \in {<<Unit(1)>>, <<Unit(2)>>},
        rest \in UNION {[1..n -> [name : {"a", "A"}, data : {<<Unit(1)>>, <<Unit(1), Unit(2)>>}]] : n \in 0..2}}
Cells(body) == FlattenSeq([k \in DOMAIN body |-> Written(body[k])])
Directory(body) ==
    [k \in DOMAIN body |-> [name |-> body[k].name, size |-> Len(body[k].data), plain |-> TRUE,
                            offset |-> Len(Cells(SubSeq(body, 1, k - 1)))]]
Perturbed(d) ==
    {d, Append(d, d[Len(d)]), [d EXCEPT ![3].plain = FALSE]}
    \cup {[d EXCEPT ![k].offset = offset] : k \in DOMAIN d, offset \in 0..4}
    \cup {[d EXCEPT ![k].size = size] : k \in DOMAIN d, size \in 0..2}
    \cup {[d EXCEPT ![k].name = name] : k \in DOMAIN d, name \in {"a", "m", "z"}}
    \cup {RemoveAt(d, k) : k \in DOMAIN d}
Facts(body) ==
    [name \in {body[k].name : k \in 3..Len(body)} |->
        body[CHOOSE k \in 3..Len(body) : body[k].name = name].data]
Signed == {[name \in {"m", "a"} |-> <<Unit(1)>>], [name \in {"m"} |-> <<Unit(2)>>]}
Archive(body, directory, facts, signed) ==
    [cells |-> Cells(body), directory |-> directory, facts |-> facts, signed |-> signed]
Archives ==
    UNION {{Archive(body, d, Facts(body), TRUE) : d \in Perturbed(Directory(body))}
           \cup {Archive(body, Directory(body), facts, signed) :
                    facts \in {Facts(body)} \cup Signed, signed \in BOOLEAN} : body \in Bodies}
\* NativeClosure: three libraries in two directories, found from one of them or from the system.
Names == {"A", "b", "c"}
Libraries == {"LA", "LB", "LC"}
Places == {"d1", "d2", "sys"} \X Names
At(b1, b2, c1, c2) ==
    [place \in Places |->
        CASE place = <<"d1", "A">> -> "LA" [] place = <<"d1", "b">> -> b1 [] place = <<"d2", "b">> -> b2
          [] place = <<"d1", "c">> -> c1 [] place = <<"d2", "c">> -> c2 [] place = <<"sys", "c">> -> "LC"
          [] OTHER -> "absent"]
Layouts == {At(b1, b2, c1, c2) : b1 \in {"absent", "LB"}, b2 \in {"absent", "LC", "outside"},
                                 c1 \in {"absent", "LB", "LC"}, c2 \in {"absent", "LA", "LC"}}
Home == [l \in Libraries |-> IF l = "LC" THEN "d2" ELSE "d1"]
Each(la, lb, lc) == [l \in Libraries |-> CASE l = "LA" -> la [] l = "LB" -> lb [] l = "LC" -> lc]
Worlds ==
    [os : {"mach", "pe"}, required : {{"A"}, {"A", "b"}}, at : Layouts, home : {Home},
     rpaths : {Each(la, lb, lc) : la \in {<<"d1">>, <<"d1", "d2">>, <<"d2", "loader">>},
                                  lb \in {<<>>, <<"d2">>}, lc \in {<<>>, <<"loader">>}},
     deps : {Each({"b", "c"}, lb, lc) : lb \in {{"c"}, {"s"}}, lc \in {{}, {"b"}}}]
Cost(l) == IF l = "LA" THEN 2 ELSE 1

VARIABLES part, x1, x2, x3, x4, x5, x6, x7, x8, x9, x10, x11, x12, x13, x14, x15, x16, x17, x18,
    x19
registers == <<part, x1, x2, x3, x4, x5, x6, x7, x8, x9, x10, x11, x12, x13, x14, x15, x16, x17,
    x18, x19>>
spare12 == <<x12, x13, x14, x15, x16, x17, x18, x19>>
Empty12 == x12 = 0 /\ x13 = 0 /\ x14 = 0 /\ x15 = 0 /\ x16 = 0 /\ x17 = 0 /\ x18 = 0 /\ x19 = 0
spare11 == <<x11, spare12>>
Empty11 == x11 = 0 /\ Empty12
spare10 == <<x10, spare11>>
Empty10 == x10 = 0 /\ Empty11
spare9 == <<x9, spare10>>
Empty9 == x9 = 0 /\ Empty10
spare8 == <<x8, spare9>>
Empty8 == x8 = 0 /\ Empty9
spare7 == <<x7, spare8>>
Empty7 == x7 = 0 /\ Empty8
spare6 == <<x6, spare7>>
Empty6 == x6 = 0 /\ Empty7
spare5 == <<x5, spare6>>
Empty5 == x5 = 0 /\ Empty6
spare4 == <<x4, spare5>>
Empty4 == x4 = 0 /\ Empty5

I1 == INSTANCE InstalledReleases WITH
    entry <- x1, saved <- x2, lock <- x3, call <- x4, foreign <- x5, edits <- x6,
    Importers <- {a, b}, Artifacts <- {"a1", "a2"}, Release <- Release, Key <- Key,
    Keys <- {"k1", "k2"}, Limit <- 1, None <- none, Strange <- strange, MaxEdits <- 1
I2 == INSTANCE InstalledReleases WITH
    entry <- x1, saved <- x2, lock <- x3, call <- x4, foreign <- x5, edits <- x6,
    Importers <- {a, b}, Artifacts <- {"a1", "a2", "a3"}, Release <- Release, Key <- Key,
    Keys <- {"k1", "k2"}, Limit <- 2, None <- none, Strange <- strange, MaxEdits <- 0
Packed == INSTANCE PackageArchive WITH
    archive <- x1, stage <- x2, at <- x3, local <- x4, members <- x5, charged <- x6, read <- x7,
    Archives <- Archives, Folded <- Lower, Payload <- {"m", "a", "A", "b"}, Manifest <- "m",
    Index <- "i", Signature <- "s", Allowance <- Allowance, MaxMembers <- 5, PackageBytes <- 4
S1 == INSTANCE DraftCollaboration WITH
    session <- x1, lineage <- x2, counter <- x3, agent <- x4, ticket <- x5, disturbed <- x6,
    Files <- {"f1", "f2"}, Logical <- {"d"}, Contents <- {"x", "y"}, Absent <- "absent",
    Drafts <- {Drafted("x"), Drafted("absent")}, Owners <- {"o1"}, Paths <- {"p1"},
    History <- 2, Page <- 1, MaxVersion <- 4, MaxSerial <- 2, MaxRevision <- 1
S2 == INSTANCE DraftCollaboration WITH
    session <- x1, lineage <- x2, counter <- x3, agent <- x4, ticket <- x5, disturbed <- x6,
    Files <- {"f1", "f2"}, Logical <- {"d"}, Contents <- {"x", "y"}, Absent <- "absent",
    Drafts <- {Drafted("x"), Drafted("absent")}, Owners <- {"o1"}, Paths <- {"p1"},
    History <- 1, Page <- 1, MaxVersion <- 4, MaxSerial <- 2, MaxRevision <- 1
H1 == INSTANCE CollaborationHost WITH
    client <- x1, link <- x2, hub <- x3, pending <- x4, claim <- x5, window <- x6, owner <- x7,
    applied <- x8, Requests <- {"c"}, Kind <- Does, MaxClients <- 1, MaxPending <- 1,
    MaxStarts <- 2, MaxOwners <- 2
H2 == INSTANCE CollaborationHost WITH
    client <- x1, link <- x2, hub <- x3, pending <- x4, claim <- x5, window <- x6, owner <- x7,
    applied <- x8, Requests <- {"e", "c"}, Kind <- Does, MaxClients <- 1, MaxPending <- 1,
    MaxStarts <- 1, MaxOwners <- 1
A1 == INSTANCE CollaborationAgent WITH
    agent <- x1, call <- x2, desk <- x3, shown <- x4, Resources <- {"f1"},
    Offered <- {"describe", "read", "edit"}, Pages <- 2, Active <- 2, MaxCalls <- 5,
    MaxOwners <- 2, MaxVersion <- 2
A2 == INSTANCE CollaborationAgent WITH
    agent <- x1, call <- x2, desk <- x3, shown <- x4, Resources <- {"f1"},
    Offered <- {"describe", "read", "edit", "validate", "refresh", "open"}, Pages <- 2,
    Active <- 2, MaxCalls <- 3, MaxOwners <- 2, MaxVersion <- 2
G1 == INSTANCE PluginManagement WITH
    site <- x1, lock <- x2, mgr <- x3, work <- x4, disk <- x5, loose <- x6, Managers <- {p, q},
    Hosts <- {"one", "replaced", "two", "old"}, Executables <- Executables,
    Redirected <- IsRedirected, Old <- IsOld, Roots <- Roots, None <- none, MaxWorks <- 2,
    MaxOutside <- 1
G2 == INSTANCE PluginManagement WITH
    site <- x1, lock <- x2, mgr <- x3, work <- x4, disk <- x5, loose <- x6, Managers <- {p, q},
    Hosts <- {"one", "replaced", "two", "old"}, Executables <- Executables,
    Redirected <- IsRedirected, Old <- IsOld, Roots <- Roots, None <- none, MaxWorks <- 3,
    MaxOutside <- 0
Setup == INSTANCE ResourceSetup WITH
    root <- x1, lock <- x2, stage <- x3, disk <- x4, job <- x5, jobs <- x6, outside <- x7,
    Instances <- {a, b}, Models <- {"m"}, Runtimes <- {"r"}, Files <- FilesOf, None <- none,
    MaxJobs <- 2, MaxOutside <- 1
Closure == INSTANCE NativeClosure WITH
    world <- x1, version <- x2, at <- x3, why <- x4, pending <- x5, images <- x6,
    contexts <- x7, bindings <- x8, edges <- x9, bytes <- x10, cancel <- x11, Worlds <- Worlds,
    Libs <- Libraries, Dirs <- {"d1", "d2"}, SystemDir <- "sys", Msvc <- {"c"}, System <- {"s"},
    Cost <- Cost, MaxRead <- 4, MaxLibraries <- 3, MaxContexts <- 5, MaxEdges <- 6,
    MaxStack <- 3, MaxChanges <- 1
Log == INSTANCE ApplicationLog WITH
    process <- x1, sequence <- x2, gui <- x3, file <- x4, guiDropped <- x5, fileDropped <- x6,
    fileErrors <- x7, written <- x8, available <- x9, accepting <- x10, finished <- x11,
    timedOut <- x12, writing <- x13, at <- x14, stopping <- x15, disk <- x16, torn <- x17,
    offered <- x18, taken <- x19, GuiCapacity <- 1, FileCapacity <- 1, FileRecords <- 1,
    MaxEntries <- 4, MaxProcesses <- 2
Source == INSTANCE SourcePublication WITH
    disk <- x1, pending <- x2, scratch <- x3, call <- x4, told <- x5, faults <- x6,
    edited <- x7, late <- x8, created <- x9, Count <- 4, Before <- <<"a", "none", "c", "k">>,
    After <- <<"b", "b", "none", "b">>, Absent <- "none", Foreign <- "other", MaxFaults <- 2,
    MaxEdits <- 1
Crop == INSTANCE CropAssets WITH
    saved <- x1, declared <- x2, referred <- x3, Definitions <- {1, 2}, Assets <- {1, 2, 3},
    Pixels <- {1, 2}
Capture == INSTANCE PackageCapture WITH
    file <- x1, stale <- x2, edits <- x3, phase <- x4, purpose <- x5, taken <- x6,
    reading <- x7, due <- x8, checked <- x9, during <- x10, Names <- {"m", "a", "b"},
    Manifest <- "m", Dir <- Dir, Contents <- {"ma", "mab", "x", "y"}, May <- May,
    Absent <- "none", Parses <- Parses, Declares <- Declares, Usable <- NotY, Size <- Size,
    FileLimit <- 3, ByteLimit <- 4, MaxEdits <- 2
Cache == INSTANCE CaptureCache WITH
    path <- x1, folder <- x2, call <- x3, begun <- x4, outside <- x5, Calls <- {a, b},
    MaxFolders <- 2, MaxCalls <- 3, MaxOutside <- 2

MCInit ==
    /\ part \in Parts
    /\ \/ part = "releases" /\ I1!Init /\ Empty7
       \/ part = "versions" /\ I2!Init /\ Empty7
       \/ part = "archive" /\ Packed!Init /\ Empty8
       \/ part = "sharing" /\ S1!Init /\ Empty7
       \/ part = "notices" /\ S2!Init /\ Empty7
       \/ part = "restarts" /\ H1!Init /\ Empty9
       \/ part = "requests" /\ H2!Init /\ Empty9
       \/ part = "edits" /\ A1!Init /\ Empty5
       \/ part = "agent" /\ A2!Init /\ Empty5
       \/ part = "plugin" /\ G1!Init /\ Empty7
       \/ part = "plugins" /\ G2!Init /\ Empty7
       \/ part = "setup" /\ Setup!Init /\ Empty8
       \/ part = "closure" /\ Closure!Init /\ Empty12
       \/ part = "log" /\ Log!Init
       \/ part = "publication" /\ Source!Init /\ Empty10
       \/ part = "crops" /\ Crop!Init /\ Empty4
       \/ part = "package" /\ Capture!Init /\ Empty11
       \/ part = "cache" /\ Cache!Init /\ Empty6
MCNext ==
    /\ part' = part
    /\ \/ part = "releases" /\ I1!Next /\ UNCHANGED spare7
       \/ part = "versions" /\ I2!Next /\ UNCHANGED spare7
       \/ part = "archive" /\ Packed!Next /\ UNCHANGED spare8
       \/ part = "sharing" /\ S1!Next /\ UNCHANGED spare7
       \/ part = "notices" /\ S2!Next /\ UNCHANGED spare7
       \/ part = "restarts" /\ H1!Next /\ UNCHANGED spare9
       \/ part = "requests" /\ H2!Next /\ UNCHANGED spare9
       \/ part = "edits" /\ A1!Next /\ UNCHANGED spare5
       \/ part = "agent" /\ A2!Next /\ UNCHANGED spare5
       \/ part = "plugin" /\ G1!Next /\ UNCHANGED spare7
       \/ part = "plugins" /\ G2!Next /\ UNCHANGED spare7
       \/ part = "setup" /\ Setup!Next /\ UNCHANGED spare8
       \/ part = "closure" /\ Closure!Next /\ UNCHANGED spare12
       \/ part = "log" /\ Log!Next
       \/ part = "publication" /\ Source!Next /\ UNCHANGED spare10
       \/ part = "crops" /\ Crop!Next /\ UNCHANGED spare4
       \/ part = "package" /\ Capture!Next /\ UNCHANGED spare11
       \/ part = "cache" /\ Cache!Next /\ UNCHANGED spare6
MCSpec == MCInit /\ [][MCNext]_registers

ASSUME /\ I1!InstalledAssumption /\ I2!InstalledAssumption /\ S1!CollaborationAssumption
       /\ H1!HostAssumption /\ H2!HostAssumption /\ A1!AgentAssumption /\ A2!AgentAssumption
       /\ G1!PluginAssumption /\ G2!PluginAssumption /\ Source!PublicationConstants
       /\ Crop!AssetConstants /\ Capture!CaptureAssumption

\* What importing, publishing, capturing and caching leave is whole, whatever runs beside them and
\* wherever they stop: an accepted release is one archive's verified bytes, an accepted archive hides
\* nothing, the files of a publication are one side's, a captured package was on the disk at one
\* time, and a published image is whole (installed.rs, archive.rs, publication.rs, capture.rs,
\* capture_cache.rs).
FilesAreWhole == /\ part = "releases" => I1!ReleasesAgree
                 /\ part = "versions" => I2!ReleasesAgree
                 /\ part = "archive" => Packed!NothingHidden
                 /\ part = "publication" => Source!PublicationIsWhole
                 /\ part = "package" => Capture!CaptureIsReal
                 /\ part = "cache" => Cache!TypeOK /\ Cache!CacheIsWhole
\* What a collaborator is told is true and complete: notices name every change it has not seen, a
\* request is answered with what became of it, and a fence holds until the agent has read what it
\* doubts (authoring-controller.ts, collaboration/transport.rs, client.mjs).
AgentsAreFenced == /\ part = "sharing" => S1!NoticesAreComplete
                   /\ part = "notices" => S2!NoticesAreComplete
                   /\ part = "restarts" => H1!OutcomesAreTrue
                   /\ part = "requests" => H2!OutcomesAreTrue
                   /\ part = "edits" => A1!FencesHold
                   /\ part = "agent" => A2!FencesHold
\* A plugin is registered only with the copy it names, an installed resource is what its catalogue
\* fixes, an answered closure is what a loader would load, and a log entry is on the disk, shown or
\* counted (plugin_management.rs, ocr_setup.rs, native.rs, logging.rs).
ResourcesAreTrue == /\ part = "plugin" => G1!InstallationIsSafe
                    /\ part = "plugins" => G2!InstallationIsSafe
                    /\ part = "setup" => Setup!TypeOK /\ Setup!SetupIsTrue
                    /\ part = "closure" => Closure!TypeOK /\ Closure!ClosureIsExact
                    /\ part = "log" => Log!TypeOK /\ Log!EntriesAreAccounted
\* No step takes away what is not its own: releases and models are only added, another program's
\* bytes are kept, a crop others refer to keeps its pixels, an edit rests on what was read, and of
\* the log the oldest leaves first (installed.rs, publication.rs, recognition.rs, logging.rs).
OthersAreKept == [][/\ part = "releases" => I1!OnlyAddedStep
                    /\ part = "versions" => I2!OnlyAddedStep
                    /\ part = "sharing" => S1!EditsRestOnReadsStep
                    /\ part = "notices" => S2!EditsRestOnReadsStep
                    /\ part = "setup" => Setup!SetupKeepsStep
                    /\ part = "log" => Log!OldestLeavesFirstStep
                    /\ part = "publication" => Source!OthersAreKeptStep
                    /\ part = "crops" => Crop!CropsAreKeptStep
                    /\ part = "cache" => Cache!CacheKeepsToItselfStep]_registers
=============================================================================
