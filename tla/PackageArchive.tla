--------------------------- MODULE PackageArchive ---------------------------
(***************************************************************************)
(* Reading one captured .mmpkg archive                                    *)
(* (apps/desktop/src-tauri/src/distribution/archive.rs, format.rs and the *)
(* verified_payload of distribution.rs).                                  *)
(*                                                                         *)
(* An archive is a run of cells, each the header of a member or one unit   *)
(* of its data, followed by a directory that says where each member        *)
(* starts and how long it is.  The preflight walks the directory and the   *)
(* cells together before a member is read; the signed index then decides   *)
(* which members may be read, and package.json how much of them.           *)
(***************************************************************************)
EXTENDS Naturals, Sequences, FiniteSets
LOCAL INSTANCE SequencesExt
LOCAL INSTANCE FiniteSetsExt

CONSTANTS
    Archives,       \* archives offered for import
    Folded(_),      \* a member name without its case
    Payload,        \* names below package/ that are portable
    Manifest,       \* package/package.json
    Index, Signature,   \* the two members of the envelope
    Allowance(_),   \* units of the other files a manifest's content admits
    MaxMembers, PackageBytes

VARIABLES
    archive,    \* the archive being read
    stage,
    at,         \* directory entries the preflight has passed
    local,      \* cells it has accounted for
    members,    \* the members found so far
    charged,    \* payload units reserved, the manifest's excluded
    read        \* payload members decoded: name -> their data

vars == <<archive, stage, at, local, members, charged, read>>

(* An archive: its cells, its directory and the facts its envelope signs.   *)
(* A header cell is <<"head", name, units>>; any other cell is data.        *)
(* A directory entry is [name, offset, size, plain]: plain when it is a      *)
(* regular unencrypted file of a supported kind.                             *)
Cells == archive.cells
Directory == archive.directory
Entry == Directory[at + 1]

(* The facts of the index: name -> the data the digest stands for, and      *)
(* whether the signature over the exact index bytes holds.                  *)
Facts == archive.facts

Init ==
    /\ archive \in Archives
    /\ stage = "preflight" /\ at = 0 /\ local = 0
    /\ members = <<>> /\ charged = 0 /\ read = <<>>

Goto(next) ==
    /\ stage' = next
    /\ UNCHANGED <<archive, at, local, members, charged, read>>
Refuse == Goto("refused")

Names == {members[i].name : i \in DOMAIN members}
Total == FoldLeft(LAMBDA n, m : n + m.size, 0, SelectSeq(members, LAMBDA m : m.name \in Payload))

-----------------------------------------------------------------------------
(* The preflight.                                                          *)

Listed(name) == name \in Payload \cup {Index, Signature}

\* Mutant: bytes may stand between two members.
LocalAfter(entry) ==
    /\ entry.offset >= local
    /\ entry.offset + entry.size < Len(Cells)
    /\ Cells[entry.offset + 1] = <<"head", entry.name, entry.size>>

(* The local header stands exactly where the previous member ended, names  *)
(* the same member with the same size, and its data ends before the        *)
(* directory.                                                              *)
Local(entry) ==
    /\ entry.offset = local
    /\ entry.offset + entry.size < Len(Cells)
    /\ Cells[entry.offset + 1] = <<"head", entry.name, entry.size>>

Admissible(entry) ==
    /\ entry.plain
    /\ Listed(entry.name)
    /\ \A m \in Names : Folded(m) # Folded(entry.name)
    /\ entry.name \in Payload => Total + entry.size <= PackageBytes
    /\ Local(entry)

TooMany == at = 0 /\ Len(Directory) > MaxMembers

Preflight ==
    /\ stage = "preflight" /\ at < Len(Directory)
    /\ \/ /\ ~TooMany /\ Admissible(Entry)
          /\ at' = at + 1
          /\ local' = Entry.offset + 1 + Entry.size
          /\ members' = Append(members, Entry)
          /\ UNCHANGED <<archive, stage, charged, read>>
       \/ (TooMany \/ ~Admissible(Entry)) /\ Refuse

(* Nothing is left over between the last member and the directory, and the *)
(* envelope is complete.                                                   *)
Preflighted ==
    /\ stage = "preflight" /\ at = Len(Directory)
    /\ IF local = Len(Cells) /\ {Index, Signature} \subseteq Names
       THEN Goto("envelope")
       ELSE Refuse

-----------------------------------------------------------------------------
(* The envelope.                                                           *)

Member(name) == CHOOSE m \in Range(members) : m.name = name
Data(name) == SubSeq(Cells, Member(name).offset + 2, Member(name).offset + 1 + Member(name).size)

(* The signature holds over the index, whose facts are sorted, unique and   *)
(* portable; the payload members are exactly the ones it lists, with        *)
(* exactly the lengths it gives; and package.json is among them.            *)
Envelope ==
    /\ stage = "envelope"
    /\ IF /\ archive.signed
          /\ Names \ {Index, Signature} = DOMAIN Facts
          /\ \A name \in DOMAIN Facts : Member(name).size = Len(Facts[name])
          /\ Manifest \in DOMAIN Facts
       THEN Goto("manifest")
       ELSE Refuse

Digest(name) == Data(name) = Facts[name]

Others == DOMAIN Facts \ {Manifest}
Lengths == MapThenSumSet(LAMBDA name : Len(Facts[name]), Others)

Decode(name) == read' = [n \in DOMAIN read \cup {name} |-> IF n = name THEN Data(name) ELSE read[n]]

(* package.json comes first; what it declares admits the signed lengths     *)
(* before anything else is reserved or decompressed.                       *)
ReadManifest ==
    /\ stage = "manifest"
    /\ IF Digest(Manifest) /\ Lengths <= Allowance(Data(Manifest))
       THEN /\ Decode(Manifest)
            /\ stage' = "files"
            /\ UNCHANGED <<archive, at, local, members, charged>>
       ELSE Refuse

ReadFile(name) ==
    /\ stage = "files" /\ name \in Others \ DOMAIN read
    /\ IF Digest(name)
       THEN Decode(name) /\ UNCHANGED stage
       ELSE read' = <<>> /\ stage' = "refused"
    /\ charged' = charged + Member(name).size
    /\ UNCHANGED <<archive, at, local, members>>

Verified ==
    /\ stage = "files" /\ Others \subseteq DOMAIN read
    /\ Goto("verified")

Next ==
    \/ Preflight \/ Preflighted \/ Envelope \/ ReadManifest \/ Verified
    \/ stage = "files" /\ \E name \in Others : ReadFile(name)

Spec == Init /\ [][Next]_vars

-----------------------------------------------------------------------------
(* Of every archive offered, only one whose bytes are all accounted for is  *)
(* read: each cell belongs to exactly one member the directory lists, no    *)
(* two members share a name in any case; what comes out is exactly what     *)
(* the valid signature covers; and no payload is reserved beyond what its   *)
(* own signed manifest admits.                                              *)
NothingHidden ==
    /\ stage \in {"envelope", "manifest", "files", "verified"} =>
          /\ \A c \in 1 .. Len(Cells) :
                Cardinality({i \in DOMAIN Directory :
                    c \in Directory[i].offset + 1 .. Directory[i].offset + 1 + Directory[i].size}) = 1
          /\ \A i, j \in DOMAIN Directory :
                Folded(Directory[i].name) = Folded(Directory[j].name) => i = j
    /\ stage = "verified" => archive.signed /\ read = Facts
    /\ charged > 0 => Manifest \in DOMAIN read /\ charged <= Allowance(read[Manifest])
=============================================================================
