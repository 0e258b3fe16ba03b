--------------------------- MODULE PackageCapture ---------------------------
(***************************************************************************)
(* Capturing a package directory that another program may be editing, and *)
(* admitting what was captured as an inventory or an editable draft       *)
(* (tools/runtime-comparison/src/inventory/capture.rs, draft.rs and        *)
(* validation.rs).                                                         *)
(*                                                                         *)
(* The first pass walks the directories and reads every file, comparing    *)
(* the file's stamp (identity, length and times) before and after.  The    *)
(* second compares stamp, bytes and directory membership once more, and    *)
(* then every stamp and membership a last time.  Nothing is locked.        *)
(***************************************************************************)
EXTENDS Naturals, FiniteSets
LOCAL INSTANCE FiniteSetsExt

CONSTANTS
    Names,          \* files that may stand in the package; Manifest is one
    Manifest,       \* package.json
    Dir(_),         \* the directory a file stands in
    Contents,       \* what a file may hold
    May(_),         \* bound: what a file of this name is ever given
    Absent,         \* no file
    Parses(_),      \* the content is a manifest this application admits
    Declares(_),    \* the files a manifest declares, itself included
    Usable(_),      \* the content is valid for the kind it is declared as
    Size(_),        \* its bytes
    FileLimit, ByteLimit,   \* bounds of one revision
    MaxEdits        \* bound: changes made by the other program

CaptureAssumption ==
    /\ Manifest \in Names
    /\ Absent \notin Contents
    /\ \A c \in Contents : Size(c) \in Nat
    /\ {FileLimit, ByteLimit, MaxEdits} \subseteq Nat

VARIABLES
    file,       \* what stands under each name
    stale,      \* names changed since the capture took their stamp: a change
                \* always gives a file another stamp, and never an earlier one
    edits,
    phase,      \* where the capture stands
    purpose,    \* what the package is captured for
    taken,      \* the bytes captured so far
    reading,    \* the file being read, or Absent
    due,        \* files the directory listings still have to return
    checked,    \* directories and files the running comparison has passed
    during      \* history: the package at each moment since the capture began

vars == <<file, stale, edits, phase, purpose, taken, reading, due, checked, during>>

Held == Contents \cup {Absent}
Dirs == {Dir(f) : f \in Names}
Standing(state) == {f \in Names : state[f] # Absent}
Files == Standing(taken)

(* A recovery read may hold the union of two revisions. *)
Revisions == IF purpose = "recovery" THEN 2 ELSE 1
Bytes(set) == MapThenSumSet(LAMBDA f : Size(taken[f]), set)

CaptureTypeOK ==
    /\ {file, taken} \subseteq [Names -> Held]
    /\ stale \subseteq Names /\ due \subseteq Names
    /\ edits \in 0 .. MaxEdits
    /\ phase \in {"idle", "collect", "verify", "again", "admit", "captured", "refused"}
    /\ purpose \in {"inventory", "draft", "recovery"}
    /\ reading \in Names \cup {Absent}
    /\ checked \subseteq Names \cup Dirs
    /\ during \subseteq [Names -> Held]

Init ==
    /\ file \in {m \in [Names -> Held] : \A f \in Names : m[f] \in May(f) \cup {Absent}}
    /\ Parses(file[Manifest]) /\ Standing(file) = Declares(file[Manifest])
    /\ stale = {} /\ edits = 0 /\ phase = "idle"
    /\ purpose \in {"inventory", "draft", "recovery"}
    /\ taken = [f \in Names |-> Absent]
    /\ reading = Absent /\ due = {} /\ checked = {} /\ during = {}

Environment == <<file, stale, edits, during>>
Ends(outcome) ==
    /\ phase' = outcome
    /\ UNCHANGED <<Environment, purpose, taken, reading, due, checked>>

Running == phase \in {"collect", "verify", "again", "admit"}

-----------------------------------------------------------------------------
Start ==
    /\ phase = "idle"
    /\ phase' = "collect"
    /\ due' = Standing(file)
    /\ during' = {file}
    /\ stale' = {}
    /\ UNCHANGED <<file, edits, purpose, taken, reading, checked>>

(* A listing returns every file that stands throughout; one that comes or  *)
(* goes meanwhile it may return or not.  The stamp is taken, and the count *)
(* and size are charged, before the file is opened.                        *)
Open(f) ==
    /\ phase = "collect" /\ reading = Absent
    /\ file[f] # Absent /\ taken[f] = Absent
    /\ Cardinality(Files) < FileLimit * Revisions
    /\ Bytes(Files) + Size(file[f]) <= ByteLimit * Revisions
    /\ reading' = f
    /\ due' = due \ {f}
    /\ stale' = stale \ {f}
    /\ UNCHANGED <<file, edits, during, phase, purpose, taken, checked>>

TooMuch(f) ==
    /\ phase = "collect" /\ reading = Absent
    /\ file[f] # Absent /\ taken[f] = Absent
    /\ \/ Cardinality(Files) >= FileLimit * Revisions
       \/ Bytes(Files) + Size(file[f]) > ByteLimit * Revisions
    /\ Ends("refused")

(* The bytes count only if the stamp is the same once they were read. *)
Read ==
    /\ phase = "collect" /\ reading # Absent /\ reading \notin stale
    /\ taken' = [taken EXCEPT ![reading] = file[reading]]
    /\ reading' = Absent
    /\ UNCHANGED <<Environment, phase, purpose, due, checked>>

ReadChanged ==
    /\ phase = "collect" /\ reading # Absent /\ reading \in stale
    /\ Ends("refused")

Collected ==
    /\ phase = "collect" /\ reading = Absent
    /\ due = {}
    /\ phase' = "verify"
    /\ UNCHANGED <<Environment, purpose, taken, reading, due, checked>>

-----------------------------------------------------------------------------
(* The comparisons.  Stamps are kept by path, so a directory is compared    *)
(* before the files in it.                                                 *)

Members(d) == {f \in Standing(file) : Dir(f) = d} \subseteq Files

\* Mutant: the second pass does not look at the files again.
SameAnyway(f) == TRUE
Same(f) == f \notin stale /\ file[f] = taken[f]

Passes(x) ==
    /\ checked' = checked \cup {x}
    /\ UNCHANGED <<Environment, phase, purpose, taken, reading, due>>

Comparing == phase \in {"verify", "again"}

CompareDir(d) ==
    /\ Comparing /\ d \notin checked
    /\ \/ Members(d) /\ Passes(d)
       \/ ~Members(d) /\ Ends("refused")

CompareFile(f) ==
    /\ Comparing /\ f \in Files \ checked /\ Dir(f) \in checked
    /\ \/ Same(f) /\ Passes(f)
       \/ ~Same(f) /\ Ends("refused")

Compared ==
    /\ Comparing /\ checked = Dirs \cup Files
    /\ phase' = (IF phase = "verify" THEN "again" ELSE "admit")
    /\ checked' = {}
    /\ UNCHANGED <<Environment, purpose, taken, reading, due>>

(* What was captured is one whole package: a manifest this application     *)
(* admits, every file it declares and no other.  A draft may still hold    *)
(* content that does not execute; an inventory may not.  A recovery read   *)
(* is kept as bytes.                                                       *)
Whole == Parses(taken[Manifest]) /\ Files = Declares(taken[Manifest])
Executable == \A f \in Files : Usable(taken[f])
Admitted ==
    CASE purpose = "recovery" -> TRUE
      [] purpose = "draft" -> Whole
      [] purpose = "inventory" -> Whole /\ Executable

Admit ==
    /\ phase = "admit"
    /\ \/ Admitted /\ Ends("captured")
       \/ ~Admitted /\ Ends("refused")

(* The deadline passes, the run is stopped or a file operation fails. *)
Abort == Running /\ Ends("refused")

(* The other program writes, creates or removes one file. *)
Edit(f, c) ==
    /\ edits < MaxEdits /\ file[f] # c
    /\ file' = [file EXCEPT ![f] = c]
    /\ stale' = stale \cup {f}
    /\ due' = due \ (IF c = Absent THEN {f} ELSE {})
    /\ edits' = edits + 1
    /\ during' = (IF Running THEN during \cup {file'} ELSE during)
    /\ UNCHANGED <<phase, purpose, taken, reading, checked>>

Next ==
    \/ Start \/ Read \/ ReadChanged \/ Collected \/ Compared \/ Admit \/ Abort
    \/ \E f \in Names : Open(f) \/ TooMuch(f) \/ CompareFile(f)
    \/ \E d \in Dirs : CompareDir(d)
    \/ \E f \in Names : \E c \in May(f) \cup {Absent} : Edit(f, c)

Spec == Init /\ [][Next]_vars

-----------------------------------------------------------------------------
(* However the files change while they are read, an accepted capture is     *)
(* one the directory really held: at one moment of the capture every        *)
(* captured file stood with exactly those bytes, and for each directory     *)
(* there was a moment at which nothing else stood in it.  So an inventory   *)
(* never joins a manifest of one revision to files of another.              *)
CaptureIsReal ==
    phase \in {"captured", "admit"} =>
        /\ \E m \in during : \A f \in Files : m[f] = taken[f]
        /\ \A d \in Dirs : \E m \in during :
              \A f \in Names : Dir(f) = d => m[f] = taken[f]
        /\ Cardinality(Files) <= FileLimit * Revisions
        /\ Bytes(Files) <= ByteLimit * Revisions
=============================================================================
