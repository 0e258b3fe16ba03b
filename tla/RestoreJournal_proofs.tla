----------------------- MODULE RestoreJournal_proofs -----------------------
(***************************************************************************)
(* Theorems about RestoreJournal, for every number of files, any contents  *)
(* and any number of crashes, failed steps and edits.                      *)
(*                                                                         *)
(* Placed ties the place the code is at to the evidence on disk: paths are *)
(* converged while the journal is complete and nothing is committed, and   *)
(* everything behind the commit runs in the direction the marker names.    *)
(* Agreed carries what Verify saw to the commit: only edits come between.  *)
(***************************************************************************)
EXTENDS RestoreJournal, FiniteSetTheorems, TLAPS

Converging == {"check", "path", "install", "commit"}
Committed  == {"verified", "clean", "close"}

Placed ==
  /\ proc.pc = "stage" => ~Pending
  /\ proc.pc \in Converging => journal.here /\ marker = "none"
  /\ proc.pc \in Committed => marker = Direction(proc.back)
  /\ proc.pc = "clean" => journal.here
  /\ proc.pc = "close" => ~journal.here
  /\ proc.pc = "install" => proc.at \in Paths
  /\ proc.pc # "idle" => told = "nothing"

Agreed == proc.pc = "commit" => Holds(Target(proc.back))

IInv == TypeOK /\ Placed /\ Agreed /\ NeverMixed /\ RecoveryHasItsEvidence

(* Both generations hold files of known contents, and never foreign bytes. *)
LEMMA TargetIs ==
  ASSUME RestoreAssumption
  PROVE
  /\ \A back \in BOOLEAN : /\ Target(back) \in [Paths -> Contents]
                           /\ \A p \in Paths : Target(back)[p] # Foreign
                           /\ Target(back) \in {Before, After}
  /\ \A p \in Paths : Before[p] \in Contents \ {Foreign} /\ After[p] \in Contents \ {Foreign}
  /\ Absent \in Contents /\ Foreign \in Contents /\ Foreign # Absent
  BY DEF RestoreAssumption, Target

(* What is left of a step that gives up.                                   *)
LEMMA GivenUp ==
  ASSUME TypeOK, Placed, Agreed, NeverMixed, GiveUp, UNCHANGED <<live, journal, marker>>
  PROVE  /\ proc' \in [pc : PCs, call : {"none", "publish", "recover"},
                       back : BOOLEAN, at : Nat]
         /\ told' \in {"nothing", "refused", "pending", "installed", "rolled back"}
         /\ proc'.pc # "idle" => proc'.pc = "check" /\ journal.here /\ marker = "none"
         /\ proc'.pc # "idle" => told' = "nothing"
         /\ told' = "installed" => Holds(After)
         /\ told' = "rolled back" => Holds(Before)
  <1>1. proc \in [pc : PCs, call : {"none", "publish", "recover"}, back : BOOLEAN, at : Nat]
    BY DEF TypeOK
  <1>2. ASSUME NEW what, Report(what)
        PROVE  /\ proc' \in [pc : PCs, call : {"none", "publish", "recover"},
                              back : BOOLEAN, at : Nat]
               /\ proc'.pc = "idle" /\ told' = what
    BY <1>2 DEF Report, Idle, PCs
  <1>3. CASE At("stage") /\ Report("refused")
    BY <1>3 DEF Report, Idle, PCs
  <1>4. CASE /\ proc.pc \in {"check", "path", "install"}
             /\ proc' = [proc EXCEPT !.pc = "check", !.back = TRUE, !.at = 1]
             /\ UNCHANGED told
    BY <1>1, <1>4 DEF Placed, Converging, PCs
  <1>5. CASE Report("pending")
    BY <1>5 DEF Report, Idle, PCs
  <1>6. CASE /\ proc.pc \in {"commit", "verified", "clean", "close"}
             /\ Report(Outcome(proc.back))
    <2>1. Holds(Target(proc.back))
      BY <1>1, <1>6 DEF Placed, Agreed, NeverMixed, Committed, Direction
    <2>2. told' = IF proc.back THEN "rolled back" ELSE "installed"
      BY <1>6 DEF Report, Outcome
    <2>3. proc.back => Target(proc.back) = Before
      BY DEF Target
    <2>4. ~proc.back => Target(proc.back) = After
      BY DEF Target
    <2> QED
      BY <1>1, <1>2, <1>6, <2>1, <2>2, <2>3, <2>4
  <1> QED
    BY <1>3, <1>4, <1>5, <1>6 DEF GiveUp

(* Where the code is, with its locals.                                     *)
LEMMA ProcIs ==
  ASSUME IInv
  PROVE  proc \in [pc : PCs, call : {"none", "publish", "recover"}, back : BOOLEAN, at : Nat]
  BY DEF IInv, TypeOK

(* A step that leaves the files and the evidence alone.                    *)
LEMMA QuietStep ==
  ASSUME IInv, UNCHANGED <<live, journal, marker, edited>>, faults' \in 0..MaxFaults,
         proc' \in [pc : PCs, call : {"none", "publish", "recover"},
                    back : BOOLEAN, at : Nat],
         told' \in {"nothing", "refused", "pending", "installed", "rolled back"},
         Placed', Agreed',
         told' = "installed" => Holds(After), told' = "rolled back" => Holds(Before)
  PROVE  IInv' /\ SafeStep
  <1>1. /\ Holds(After)' <=> Holds(After)
        /\ Holds(Before)' <=> Holds(Before)
        /\ Holds(Target(marker = "back"))' <=> Holds(Target(marker = "back"))
        /\ Pending' <=> Pending
        /\ \A p \in Paths : Known(p)' <=> Known(p)
    BY DEF Holds, Pending, Known, Target
  <1>2. TypeOK'
    BY DEF IInv, TypeOK
  <1>3. NeverMixed'
    BY <1>1 DEF IInv, NeverMixed
  <1>4. RecoveryHasItsEvidence'
    BY <1>1 DEF IInv, RecoveryHasItsEvidence
  <1>5. ForeignBytesKept
    BY DEF ForeignBytesKept
  <1> QED
    BY <1>2, <1>3, <1>4, <1>5 DEF IInv, SafeStep

LEMMA GiveUpKeeps ==
  ASSUME IInv, GiveUp, UNCHANGED <<live, journal, marker, edited>>, faults' \in 0..MaxFaults
  PROVE  IInv' /\ SafeStep
  <1>1. TypeOK /\ Placed /\ Agreed /\ NeverMixed
    BY DEF IInv
  <1>2. /\ proc' \in [pc : PCs, call : {"none", "publish", "recover"},
                      back : BOOLEAN, at : Nat]
        /\ told' \in {"nothing", "refused", "pending", "installed", "rolled back"}
        /\ proc'.pc # "idle" => proc'.pc = "check" /\ journal.here /\ marker = "none"
        /\ proc'.pc # "idle" => told' = "nothing"
        /\ told' = "installed" => Holds(After)
        /\ told' = "rolled back" => Holds(Before)
    BY <1>1, GivenUp
  <1>3. Placed' /\ Agreed'
    BY <1>2 DEF Placed, Agreed, Converging, Committed
  <1> QED
    BY <1>2, <1>3, QuietStep

----------------------------------------------------------------------------
(* Each action keeps the invariant and is a safe step.                     *)

(* What the steps that only move on have in common.                        *)
LEMMA Moved ==
  ASSUME RestoreAssumption, IInv, NEW pc \in PCs, Go(pc),
         UNCHANGED <<live, journal, marker, told, faults, edited>>,
         told = "nothing",
         pc = "stage" => ~Pending,
         pc \in Converging => journal.here /\ marker = "none",
         pc \in Committed => marker = Direction(proc.back),
         pc = "clean" => journal.here, pc = "close" => ~journal.here,
         pc = "install" => proc.at \in Paths,
         pc = "commit" => Holds(Target(proc.back))
  PROVE  IInv' /\ SafeStep
  <1>1. proc \in [pc : PCs, call : {"none", "publish", "recover"}, back : BOOLEAN, at : Nat]
    BY DEF IInv, TypeOK
  <1>2. /\ proc' \in [pc : PCs, call : {"none", "publish", "recover"},
                      back : BOOLEAN, at : Nat]
        /\ proc'.pc = pc /\ proc'.back = proc.back /\ proc'.at = proc.at
    BY <1>1 DEF Go
  <1>3. Placed'
    BY <1>2 DEF Placed, Pending, Direction
  <1>4. Agreed'
    BY <1>2 DEF Agreed, Holds, Target
  <1>5. faults' \in 0..MaxFaults /\ told' = "nothing"
    BY DEF IInv, TypeOK
  <1> QED
    BY <1>2, <1>3, <1>4, <1>5, QuietStep

LEMMA PublishStep ==
  ASSUME RestoreAssumption, IInv, Publish \/ \E back \in BOOLEAN : Recover(back)
  PROVE  IInv' /\ SafeStep
  <1>1. /\ faults' \in 0..MaxFaults
        /\ UNCHANGED <<live, journal, marker, edited>>
    BY DEF IInv, TypeOK, Publish, Recover
  <1>2. CASE proc' = Idle /\ told' \in {"refused", "pending"}
    <2>1. proc' \in [pc : PCs, call : {"none", "publish", "recover"},
                     back : BOOLEAN, at : Nat] /\ proc'.pc = "idle"
      BY <1>2 DEF Idle, PCs
    <2>2. Placed' /\ Agreed'
      BY <2>1 DEF Placed, Agreed, Converging, Committed
    <2> QED
      BY <1>1, <1>2, <2>1, <2>2, QuietStep
  <1>3. CASE marker # "none" /\ proc' = Idle /\ told' = Outcome(marker = "back")
    <2>1. proc' \in [pc : PCs, call : {"none", "publish", "recover"},
                     back : BOOLEAN, at : Nat] /\ proc'.pc = "idle"
      BY <1>3 DEF Idle, PCs
    <2>2. Placed' /\ Agreed'
      BY <2>1 DEF Placed, Agreed, Converging, Committed
    <2>3. Holds(Target(marker = "back"))
      BY <1>3 DEF IInv, NeverMixed
    <2>4. /\ told' \in {"installed", "rolled back"}
          /\ told' = "installed" => Holds(After)
          /\ told' = "rolled back" => Holds(Before)
      BY <1>3, <2>3 DEF Outcome, Target
    <2> QED
      BY <1>1, <2>1, <2>2, <2>4, QuietStep
  <1>4. CASE /\ proc' = [pc |-> "stage", call |-> "publish", back |-> FALSE, at |-> 1]
             /\ told' = "nothing" /\ ~Pending
    <2>1. Placed' /\ Agreed'
      BY <1>1, <1>4 DEF Placed, Agreed, Converging, Committed, Pending
    <2> QED
      BY <1>1, <1>4, <2>1, QuietStep DEF PCs
  <1>5. ASSUME NEW back \in BOOLEAN, told' = "nothing", Pending,
               marker = "none" \/ marker = Direction(back),
               proc' = [pc |-> IF marker = "none" THEN "check" ELSE "verified",
                        call |-> "recover", back |-> back, at |-> 1]
        PROVE  IInv' /\ SafeStep
    <2>1. Placed' /\ Agreed'
      BY <1>1, <1>5 DEF Placed, Agreed, Converging, Committed, Pending, Direction
    <2> QED
      BY <1>1, <1>5, <2>1, QuietStep DEF PCs
  <1> QED
    BY <1>2, <1>3, <1>4, <1>5 DEF Publish, Recover, Report

LEMMA PublishJournalStep ==
  ASSUME RestoreAssumption, IInv, PublishJournal
  PROVE  IInv' /\ SafeStep
  <1>1. CASE GiveUp /\ UNCHANGED journal
    BY <1>1, GiveUpKeeps DEF PublishJournal, IInv, TypeOK
  <1>2. CASE /\ live = Before /\ Go("check") /\ UNCHANGED told
             /\ journal' = [here |-> TRUE, record |-> TRUE, images |-> TRUE, held |-> {}]
    <2>1. UNCHANGED <<live, marker, faults, edited>> /\ proc.pc = "stage"
      BY DEF PublishJournal, At
    <2>2. marker = "none" /\ told = "nothing"
      BY <2>1 DEF IInv, Placed, Pending
    <2>3. /\ proc' \in [pc : PCs, call : {"none", "publish", "recover"},
                         back : BOOLEAN, at : Nat]
          /\ proc'.pc = "check"
      BY <1>2 DEF IInv, TypeOK, Go, PCs
    <2>4. TypeOK'
      BY <1>2, <2>1, <2>3 DEF IInv, TypeOK
    <2>5. Placed' /\ Agreed'
      BY <1>2, <2>1, <2>2, <2>3 DEF Placed, Agreed, Converging, Committed
    <2>6. NeverMixed'
      BY <1>2, <2>1, <2>2 DEF NeverMixed, Pending
    <2>7. RecoveryHasItsEvidence'
      BY <1>2, <2>1 DEF RecoveryHasItsEvidence, Known
    <2>8. ForeignBytesKept
      BY <2>1 DEF ForeignBytesKept
    <2> QED
      BY <2>4, <2>5, <2>6, <2>7, <2>8 DEF IInv, SafeStep
  <1> QED
    BY <1>1, <1>2 DEF PublishJournal

LEMMA LookStep ==
  ASSUME RestoreAssumption, IInv, CheckLive \/ Verify \/ VerifyCommitted
  PROVE  IInv' /\ SafeStep
  <1>1. UNCHANGED <<live, journal, marker, faults, edited>> /\ faults' \in 0..MaxFaults
    BY DEF IInv, TypeOK, CheckLive, Verify, VerifyCommitted
  <1>2. CASE GiveUp
    BY <1>1, <1>2, GiveUpKeeps
  <1>3. CASE At("check") /\ Go("path") /\ UNCHANGED told
    BY <1>1, <1>3, Moved DEF At, IInv, Placed, Converging, Committed, PCs
  <1>4. CASE At("path") /\ live = Target(proc.back) /\ Go("commit") /\ UNCHANGED told
    BY <1>1, <1>4, Moved DEF At, IInv, Placed, Converging, Committed, PCs, Holds
  <1>5. CASE /\ At("verified") /\ Go(IF journal.here THEN "clean" ELSE "close")
             /\ UNCHANGED told
    <2> DEFINE pc == IF journal.here THEN "clean" ELSE "close"
    <2>1. /\ pc \in PCs /\ pc \in {"clean", "close"}
          /\ pc = "clean" => journal.here
          /\ pc = "close" => ~journal.here
      BY DEF PCs
    <2>2. Go(pc)
      BY <1>5
    <2> HIDE DEF pc
    <2> QED
      BY <1>1, <1>5, <2>1, <2>2, Moved DEF At, IInv, Placed, Converging, Committed
  <1> QED
    BY <1>2, <1>3, <1>4, <1>5 DEF CheckLive, Verify, VerifyCommitted

LEMMA SkipStep ==
  ASSUME RestoreAssumption, IInv, Skip
  PROVE  IInv' /\ SafeStep
  <1>1. /\ UNCHANGED <<live, journal, marker, told, faults, edited>>
        /\ proc' = [proc EXCEPT !.at = @ + 1] /\ proc.pc = "path" /\ faults' \in 0..MaxFaults
    BY DEF Skip, At, IInv, TypeOK
  <1>2. /\ proc' \in [pc : PCs, call : {"none", "publish", "recover"},
                       back : BOOLEAN, at : Nat]
        /\ proc'.pc = "path" /\ proc'.back = proc.back
    BY <1>1, ProcIs
  <1>3. Placed' /\ Agreed'
    BY <1>1, <1>2 DEF IInv, Placed, Agreed, Converging, Committed
  <1>4. told' = "nothing"
    BY <1>1 DEF IInv, Placed
  <1> QED
    BY <1>1, <1>2, <1>3, <1>4, QuietStep

(* The files change while nothing is committed: known contents only.       *)
LEMMA FilesStep ==
  ASSUME RestoreAssumption, IInv, proc.pc \in {"path", "install"},
         UNCHANGED <<marker, told, faults, edited>>,
         NEW p \in Paths, NEW bytes \in {Before[p], After[p], Absent},
         live' = [live EXCEPT ![p] = bytes],
         journal' \in [here : BOOLEAN, record : BOOLEAN, images : BOOLEAN,
                       held : SUBSET (Paths \X Contents)],
         \A h \in journal'.held : h[2] \in Generations(h[1]),
         journal'.here = journal.here, journal'.record = journal.record,
         journal'.images = journal.images,
         proc' \in [pc : PCs, call : {"none", "publish", "recover"},
                    back : BOOLEAN, at : Nat],
         proc'.pc \in {"path", "install"}, proc'.pc = "install" => proc'.at \in Paths,
         live[p] # Foreign \/ bytes = live[p]
  PROVE  IInv' /\ SafeStep
  <1>1. journal.here /\ marker = "none" /\ told = "nothing"
    BY DEF IInv, Placed, Converging
  <1>bytes. bytes \in Contents
    BY TargetIs
  <1>2. /\ live'[p] = bytes /\ \A q \in Paths : q # p => live'[q] = live[q]
    BY <1>bytes DEF IInv, TypeOK
  <1>3. TypeOK'
    BY <1>2, <1>bytes DEF IInv, TypeOK
  <1>4. Placed' /\ Agreed'
    BY <1>1 DEF Placed, Agreed, Converging, Committed
  <1>5. NeverMixed'
    BY <1>1 DEF NeverMixed, Pending
  <1>6. RecoveryHasItsEvidence'
    BY <1>1, <1>2 DEF IInv, RecoveryHasItsEvidence, Pending, Known
  <1>7. ForeignBytesKept
    BY <1>2 DEF ForeignBytesKept
  <1> QED
    BY <1>3, <1>4, <1>5, <1>6, <1>7 DEF IInv, SafeStep

LEMMA DisplaceStep ==
  ASSUME RestoreAssumption, IInv, Displace
  PROVE  IInv' /\ SafeStep
  <1> DEFINE p == proc.at
  <1>1. CASE GiveUp /\ UNCHANGED <<live, journal>>
    BY <1>1, GiveUpKeeps DEF Displace, IInv, TypeOK
  <1>2. CASE /\ Known(p) /\ Go("install") /\ UNCHANGED told
             /\ live' = [live EXCEPT ![p] = Absent]
             /\ journal' = [journal EXCEPT !.held = @ \cup ({<<p, live[p]>>} \ {<<p, Absent>>})]
    <2>1. /\ p \in Paths /\ proc.pc = "path" /\ UNCHANGED <<marker, told, faults, edited>>
      BY <1>2 DEF Displace, At
    <2>2. /\ proc' \in [pc : PCs, call : {"none", "publish", "recover"},
                         back : BOOLEAN, at : Nat]
          /\ proc'.pc = "install" /\ proc'.at \in Paths
      BY <1>2, <2>1 DEF IInv, TypeOK, Go, PCs
    <2>3. live[p] \in {Before[p], After[p], Absent} /\ live[p] \in Contents
      BY <1>2, <2>1 DEF Known, IInv, TypeOK
    <2>4. live[p] # Foreign
      BY <2>1, <2>3, TargetIs
    <2>5. live[p] # Absent => live[p] \in Generations(p)
      BY <2>3 DEF Generations
    <2>6. journal \in [here : BOOLEAN, record : BOOLEAN, images : BOOLEAN,
                       held : SUBSET (Paths \X Contents)]
          /\ \A h \in journal.held : h[2] \in Generations(h[1])
      BY DEF IInv, TypeOK
    <2> DEFINE more == {<<p, live[p]>>} \ {<<p, Absent>>}
    <2>7. /\ more \in SUBSET (Paths \X Contents)
          /\ \A h \in more : h[2] \in Generations(h[1])
      BY <2>1, <2>3, <2>5
    <2> HIDE DEF more
    <2>8. /\ journal' \in [here : BOOLEAN, record : BOOLEAN, images : BOOLEAN,
                            held : SUBSET (Paths \X Contents)]
          /\ journal'.held = journal.held \cup more
          /\ journal'.here = journal.here /\ journal'.record = journal.record
          /\ journal'.images = journal.images
      BY <1>2, <2>6, <2>7 DEF more
    <2>9. \A h \in journal'.held : h[2] \in Generations(h[1])
      BY <2>6, <2>7, <2>8
    <2> HIDE DEF p
    <2> QED
      BY <1>2, <2>1, <2>2, <2>4, <2>8, <2>9, FilesStep
  <1> QED
    BY <1>1, <1>2 DEF Displace

LEMMA InstallStep ==
  ASSUME RestoreAssumption, IInv, Install
  PROVE  IInv' /\ SafeStep
  <1> DEFINE p == proc.at
  <1>1. CASE GiveUp /\ UNCHANGED live
    BY <1>1, GiveUpKeeps DEF Install, IInv, TypeOK
  <1>2. CASE /\ ~(Desired(p) # Absent /\ live[p] # Absent)
             /\ live' = IF Desired(p) = Absent THEN live ELSE [live EXCEPT ![p] = Desired(p)]
             /\ proc' = [proc EXCEPT !.pc = "path", !.at = @ + 1]
             /\ UNCHANGED told
    <2>1. proc.pc = "install" /\ p \in Paths /\ UNCHANGED <<journal, marker, told, faults, edited>>
      BY <1>2 DEF Install, At, IInv, Placed
    <2>2. /\ proc' \in [pc : PCs, call : {"none", "publish", "recover"},
                         back : BOOLEAN, at : Nat]
          /\ proc'.pc = "path"
      <3>1. proc' = [proc EXCEPT !.pc = "path", !.at = @ + 1]
        BY <1>2
      <3>2. proc.at + 1 \in Nat /\ "path" \in PCs
        BY ProcIs DEF PCs
      <3> QED
        BY <3>1, <3>2, ProcIs
    <2>3. Desired(p) \in {Before[p], After[p]} /\ Foreign # Absent
      BY TargetIs DEF Desired, Target
    <2>4. /\ journal' \in [here : BOOLEAN, record : BOOLEAN, images : BOOLEAN,
                            held : SUBSET (Paths \X Contents)]
          /\ \A h \in journal'.held : h[2] \in Generations(h[1])
          /\ journal'.here = journal.here /\ journal'.record = journal.record
          /\ journal'.images = journal.images
      BY <2>1 DEF IInv, TypeOK
    <2>5. CASE Desired(p) = Absent
      <3>1. UNCHANGED <<live, journal, marker, edited>> /\ faults' \in 0..MaxFaults
            /\ told' = "nothing"
        BY <1>2, <2>1, <2>5 DEF IInv, TypeOK, Placed
      <3>2. Placed' /\ Agreed'
        BY <2>1, <2>2, <3>1 DEF IInv, Placed, Agreed, Converging, Committed
      <3> QED
        BY <2>2, <3>1, <3>2, QuietStep
    <2>6. CASE Desired(p) # Absent
      <3>1. live' = [live EXCEPT ![p] = Desired(p)] /\ live[p] # Foreign
        BY <1>2, <2>3, <2>6
      <3> HIDE DEF p
      <3> QED
        BY <2>1, <2>2, <2>3, <2>4, <3>1, FilesStep
    <2> QED
      BY <2>5, <2>6
  <1> QED
    BY <1>1, <1>2 DEF Install

LEMMA CommitStep ==
  ASSUME RestoreAssumption, IInv, Commit
  PROVE  IInv' /\ SafeStep
  <1>1. CASE GiveUp /\ UNCHANGED marker
    BY <1>1, GiveUpKeeps DEF Commit, IInv, TypeOK
  <1>2. CASE /\ live = Target(proc.back) /\ Go("verified") /\ UNCHANGED told
             /\ marker' = Direction(proc.back)
    <2>1. UNCHANGED <<live, journal, faults, edited>> /\ proc.pc = "commit"
      BY DEF Commit, At
    <2>2. told = "nothing"
      BY <2>1 DEF IInv, Placed
    <2>3. /\ proc' \in [pc : PCs, call : {"none", "publish", "recover"},
                         back : BOOLEAN, at : Nat]
          /\ proc'.pc = "verified" /\ proc'.back = proc.back
      BY <1>2, ProcIs DEF Go, PCs
    <2>4. TypeOK'
      BY <1>2, <2>1, <2>3 DEF IInv, TypeOK, Direction
    <2>5. Placed' /\ Agreed'
      BY <1>2, <2>1, <2>2, <2>3 DEF Placed, Agreed, Converging, Committed, Direction
    <2>6. marker' # "none" /\ Target(marker' = "back") = Target(proc.back)
      BY <1>2, ProcIs DEF Direction, Target
    <2>7. NeverMixed'
      BY <1>2, <2>1, <2>2, <2>6 DEF NeverMixed, Pending, Holds, Target
    <2>8. RecoveryHasItsEvidence'
      BY <2>6 DEF RecoveryHasItsEvidence
    <2>9. ForeignBytesKept
      BY <2>1 DEF ForeignBytesKept
    <2> QED
      BY <2>4, <2>5, <2>7, <2>8, <2>9 DEF IInv, SafeStep
  <1> QED
    BY <1>1, <1>2 DEF Commit

LEMMA CleanStep ==
  ASSUME RestoreAssumption, IInv, CleanJournal
  PROVE  IInv' /\ SafeStep
  <1>1. /\ UNCHANGED <<live, marker, told, faults, edited>> /\ proc.pc = "clean"
        /\ journal.here
    BY DEF CleanJournal, At, IInv, Placed
  <1>2. marker # "none" /\ marker = Direction(proc.back) /\ told = "nothing"
    BY <1>1, ProcIs DEF IInv, Placed, Committed, Direction
  <1>3. /\ journal \in [here : BOOLEAN, record : BOOLEAN, images : BOOLEAN,
                        held : SUBSET (Paths \X Contents)]
        /\ \A h \in journal.held : h[2] \in Generations(h[1])
    BY DEF IInv, TypeOK
  <1>4. /\ journal' \in [here : BOOLEAN, record : BOOLEAN, images : BOOLEAN,
                         held : SUBSET (Paths \X Contents)]
        /\ journal'.held \subseteq journal.held
        /\ \/ proc' = proc /\ journal'.here = journal.here
           \/ Go("close") /\ ~journal'.here
    <2>1. ASSUME NEW h \in journal.held, journal' = [journal EXCEPT !.held = @ \ {h}]
          PROVE  /\ journal' \in [here : BOOLEAN, record : BOOLEAN, images : BOOLEAN,
                                  held : SUBSET (Paths \X Contents)]
                 /\ journal'.held \subseteq journal.held /\ journal'.here = journal.here
      BY <1>3, <2>1
    <2>2. ASSUME \/ journal' = [journal EXCEPT !.record = FALSE]
                 \/ journal' = [journal EXCEPT !.images = FALSE]
          PROVE  /\ journal' \in [here : BOOLEAN, record : BOOLEAN, images : BOOLEAN,
                                  held : SUBSET (Paths \X Contents)]
                 /\ journal'.held \subseteq journal.held /\ journal'.here = journal.here
      BY <1>3, <2>2
    <2>3. /\ NoJournal \in [here : BOOLEAN, record : BOOLEAN, images : BOOLEAN,
                            held : SUBSET (Paths \X Contents)]
          /\ NoJournal.held = {} /\ ~NoJournal.here
      BY DEF NoJournal
    <2> QED
      BY <2>1, <2>2, <2>3 DEF CleanJournal
  <1>5. /\ proc' \in [pc : PCs, call : {"none", "publish", "recover"},
                       back : BOOLEAN, at : Nat]
        /\ proc'.back = proc.back
        /\ \/ proc'.pc = "clean" /\ journal'.here
           \/ proc'.pc = "close" /\ ~journal'.here
    BY <1>1, <1>4, ProcIs DEF Go, PCs
  <1>6. TypeOK'
    BY <1>1, <1>3, <1>4, <1>5 DEF IInv, TypeOK
  <1>7. Placed' /\ Agreed'
    BY <1>1, <1>2, <1>5 DEF Placed, Agreed, Converging, Committed, Direction
  <1>8. NeverMixed'
    BY <1>1, <1>2 DEF IInv, NeverMixed, Pending, Holds, Target
  <1>9. RecoveryHasItsEvidence' /\ ForeignBytesKept
    BY <1>1, <1>2 DEF RecoveryHasItsEvidence, ForeignBytesKept
  <1> QED
    BY <1>6, <1>7, <1>8, <1>9 DEF IInv, SafeStep

LEMMA CloseStep ==
  ASSUME RestoreAssumption, IInv, Close
  PROVE  IInv' /\ SafeStep
  <1>1. CASE UNCHANGED marker /\ GiveUp
    BY <1>1, GiveUpKeeps DEF Close, IInv, TypeOK
  <1>2. CASE /\ live = Target(proc.back) /\ marker' = "none"
             /\ Report(Outcome(proc.back))
    <2>1. /\ UNCHANGED <<live, journal, faults, edited>> /\ proc.pc = "close"
          /\ ~journal.here
      BY DEF Close, At, IInv, Placed
    <2>2. /\ proc' \in [pc : PCs, call : {"none", "publish", "recover"},
                         back : BOOLEAN, at : Nat]
          /\ proc'.pc = "idle"
      BY <1>2 DEF Report, Idle, PCs
    <2>3. told' = IF proc.back THEN "rolled back" ELSE "installed"
      BY <1>2 DEF Report, Outcome
    <2>4. TypeOK'
      BY <1>2, <2>1, <2>2, <2>3 DEF IInv, TypeOK
    <2>5. Placed' /\ Agreed'
      BY <2>2 DEF Placed, Agreed, Converging, Committed
    <2>6. /\ proc.back => Holds(Before)' /\ told' = "rolled back"
          /\ ~proc.back => Holds(After)' /\ told' = "installed"
      BY <1>2, <2>1, <2>3 DEF Holds, Target
    <2>7. NeverMixed'
      BY <1>2, <2>6 DEF NeverMixed
    <2>8. RecoveryHasItsEvidence'
      BY <1>2, <2>1 DEF RecoveryHasItsEvidence, Pending
    <2>9. ForeignBytesKept
      BY <2>1 DEF ForeignBytesKept
    <2> QED
      BY <2>4, <2>5, <2>6, <2>7, <2>8, <2>9 DEF IInv, SafeStep
  <1> QED
    BY <1>1, <1>2 DEF Close

LEMMA FaultStep ==
  ASSUME RestoreAssumption, IInv, Fail \/ Crash
  PROVE  IInv' /\ SafeStep
  <1>1. /\ UNCHANGED <<live, journal, marker, edited>>
        /\ faults' = faults + 1 /\ faults < MaxFaults
    BY DEF Fail, Crash
  <1>faults. faults' \in 0..MaxFaults
    <2>1. faults \in 0..MaxFaults /\ MaxFaults \in Nat
      BY DEF IInv, TypeOK, RestoreAssumption
    <2> QED
      BY <1>1, <2>1
  <1>2. CASE GiveUp
    BY <1>1, <1>2, <1>faults, GiveUpKeeps
  <1>3. CASE Report("nothing")
    <2>1. /\ proc' \in [pc : PCs, call : {"none", "publish", "recover"},
                         back : BOOLEAN, at : Nat]
          /\ proc'.pc = "idle" /\ told' = "nothing"
      BY <1>3 DEF Report, Idle, PCs
    <2>2. Placed' /\ Agreed'
      BY <2>1 DEF Placed, Agreed, Converging, Committed
    <2> QED
      BY <1>1, <1>faults, <2>1, <2>2, QuietStep
  <1> QED
    BY <1>2, <1>3 DEF Fail, Crash

(* An edit takes its path out of every claim about the files.              *)
LEMMA EditHolds ==
  ASSUME NEW p \in Paths, NEW bytes \in Contents, live \in [Paths -> Contents], Edit(p, bytes)
  PROVE  /\ Holds(Before) => Holds(Before)'
         /\ Holds(After) => Holds(After)'
         /\ \A back \in BOOLEAN : Holds(Target(back)) => Holds(Target(back))'
         /\ \A q \in Paths \ edited' : q \notin edited /\ live'[q] = live[q]
  BY DEF Edit, Holds, Target

LEMMA EditStep ==
  ASSUME RestoreAssumption, IInv, NEW p \in Paths, NEW bytes \in Contents, Edit(p, bytes)
  PROVE  IInv' /\ SafeStep
  <1>1. /\ UNCHANGED <<journal, marker, proc, told, faults>>
        /\ live \in [Paths -> Contents]
    BY DEF Edit, IInv, TypeOK
  <1>2. TypeOK'
    BY DEF Edit, IInv, TypeOK
  <1>3. Placed'
    BY <1>1 DEF IInv, Placed, Pending, Direction
  <1>4. Agreed'
    BY <1>1, EditHolds, ProcIs DEF IInv, Agreed
  <1>5. NeverMixed'
    BY <1>1, EditHolds DEF IInv, NeverMixed, Pending
  <1>6. RecoveryHasItsEvidence'
    BY <1>1, EditHolds DEF IInv, RecoveryHasItsEvidence, Pending, Known
  <1>7. ForeignBytesKept
    BY <1>1 DEF ForeignBytesKept
  <1> QED
    BY <1>2, <1>3, <1>4, <1>5, <1>6, <1>7 DEF IInv, SafeStep

LEMMA NextSafe ==
  ASSUME RestoreAssumption, IInv, Next
  PROVE  IInv' /\ SafeStep
  <1>1. CASE Publish \/ \E back \in BOOLEAN : Recover(back)
    BY <1>1, PublishStep
  <1>2. CASE Step
    BY <1>2, PublishJournalStep, LookStep, SkipStep, DisplaceStep, InstallStep,
       CommitStep, CleanStep, CloseStep DEF Step
  <1>3. CASE Fail \/ Crash
    BY <1>3, FaultStep
  <1>4. CASE \E p \in Paths, bytes \in Contents : Edit(p, bytes)
    BY <1>4, EditStep
  <1> QED
    BY <1>1, <1>2, <1>3, <1>4 DEF Next

LEMMA InitIInv ==
  ASSUME RestoreAssumption, Init
  PROVE  IInv
  <1>1. /\ NoJournal \in [here : BOOLEAN, record : BOOLEAN, images : BOOLEAN,
                          held : SUBSET (Paths \X Contents)]
        /\ NoJournal.held = {} /\ ~NoJournal.here
    BY DEF NoJournal
  <1>2. /\ Idle \in [pc : PCs, call : {"none", "publish", "recover"},
                     back : BOOLEAN, at : Nat]
        /\ Idle.pc = "idle"
    BY DEF Idle, PCs
  <1>3. Before \in [Paths -> Contents] /\ 0 \in 0..MaxFaults
    BY DEF RestoreAssumption
  <1>4. TypeOK
    BY <1>1, <1>2, <1>3 DEF Init, TypeOK
  <1>5. Placed /\ Agreed
    BY <1>2 DEF Init, Placed, Agreed, Converging, Committed
  <1>6. NeverMixed /\ RecoveryHasItsEvidence
    BY <1>1 DEF Init, NeverMixed, RecoveryHasItsEvidence, Pending, Holds
  <1> QED
    BY <1>4, <1>5, <1>6 DEF IInv

LEMMA StutterIInv == IInv /\ UNCHANGED vars => IInv'
  BY ZenonT(60) DEF vars, IInv, TypeOK, Placed, Agreed, NeverMixed, RecoveryHasItsEvidence, Pending,
         Known, Holds, Target, Direction, Converging, Committed

LEMMA Invariance == RestoreAssumption /\ Spec => []IInv
  <1> SUFFICES ASSUME RestoreAssumption PROVE Spec => []IInv
    OBVIOUS
  <1>1. Init => IInv
    BY InitIInv
  <1>2. IInv /\ [Next]_vars => IInv'
    BY NextSafe, StutterIInv
  <1> QED
    BY <1>1, <1>2, PTL DEF Spec

(* Every variable keeps its type, and the journal holds displaced files of *)
(* the two generations only.                                               *)
THEOREM TypeCorrect == RestoreAssumption /\ Spec => []TypeOK
  <1>1. IInv => TypeOK
    BY DEF IInv
  <1> QED
    BY <1>1, Invariance, PTL

(* However often the transaction is interrupted, resumed and reversed, the *)
(* files are one generation or there is complete evidence to make them one;*)
(* a reported outcome is true; foreign bytes stay where they are.          *)
THEOREM TransactionsAreSafe == RestoreAssumption /\ Spec => TransactionIsSafe
  <1> SUFFICES ASSUME RestoreAssumption PROVE Spec => TransactionIsSafe
    OBVIOUS
  <1>1. IInv /\ [Next]_vars => [SafeStep]_vars
    BY NextSafe
  <1> QED
    BY <1>1, Invariance, PTL DEF Spec, TransactionIsSafe

----------------------------------------------------------------------------
(* The refinement.  Which generation is stored can be read off the files   *)
(* once the journal is gone, as long as a file in which the generations    *)
(* differ was not edited: Distinct bounds the edits by that.               *)
Distinct == Cardinality({p \in Paths : Before[p] # After[p]}) > MaxEdits
FewEdits == Cardinality(edited) <= MaxEdits
RefInv   == IInv /\ FewEdits

LEMMA NextFewEdits ==
  ASSUME FewEdits, Next
  PROVE  FewEdits'
  <1>1. CASE \E p \in Paths, bytes \in Contents : Edit(p, bytes)
    BY <1>1 DEF Edit, FewEdits
  <1>2. CASE UNCHANGED edited
    BY <1>2 DEF FewEdits
  <1> QED
    BY <1>1, <1>2 DEF Next, Publish, Recover, Fail, Crash, Step, PublishJournal, CheckLive,
       Skip, Displace, Install, Verify, Commit, VerifyCommitted, CleanJournal, Close

(* Some file in which the generations differ is not edited.                *)
LEMMA Differing ==
  ASSUME RestoreAssumption, Distinct,
         NEW E \in SUBSET Paths, Cardinality(E) <= MaxEdits
  PROVE  \E p \in Paths \ E : Before[p] # After[p]
  <1> DEFINE D == {p \in Paths : Before[p] # After[p]}
  <1>1. IsFiniteSet(Paths) /\ MaxEdits \in Nat
    <2>1. Files \in Nat /\ MaxEdits \in Nat
      BY DEF RestoreAssumption
    <2> QED
      BY <2>1, FS_Interval DEF Paths
  <1>2. IsFiniteSet(E) /\ IsFiniteSet(D)
    BY <1>1, FS_Subset
  <1>3. ~(D \subseteq E)
    <2> SUFFICES ASSUME D \subseteq E PROVE FALSE
      OBVIOUS
    <2>1. Cardinality(D) <= Cardinality(E)
      BY <1>2, FS_Subset
    <2>2. /\ Cardinality(D) \in Nat /\ Cardinality(E) \in Nat
          /\ Cardinality(D) > MaxEdits
      BY <1>2, FS_CardinalityType DEF Distinct
    <2> QED
      BY <1>1, <2>1, <2>2
  <1> QED
    BY <1>3

LEMMA Exclusive ==
  ASSUME RestoreAssumption, Distinct, TypeOK, FewEdits
  PROVE  ~(Holds(Before) /\ Holds(After))
  BY Differing DEF TypeOK, FewEdits, Holds

(* A step that leaves the evidence alone is a stutter of the swap.         *)
LEMMA StoredKept ==
  ASSUME UNCHANGED marker, journal'.here = journal.here,
         \/ marker # "none" \/ journal.here
         \/ UNCHANGED <<live, edited>>
  PROVE  UNCHANGED Swap!swap
  BY DEF Swap!swap, Stored, Stage, Target, Holds

LEMMA StepImplements ==
  ASSUME RestoreAssumption, Distinct, RefInv, Next
  PROVE  Swap!Next \/ UNCHANGED Swap!swap
  <1>1. IInv /\ TypeOK /\ Placed /\ NeverMixed
    BY DEF RefInv, IInv
  <1>2. IInv' /\ TypeOK' /\ FewEdits' /\ NeverMixed'
    BY NextSafe, NextFewEdits DEF RefInv, IInv
  <1>3. /\ ~(Holds(Before) /\ Holds(After))
        /\ ~(Holds(Before)' /\ Holds(After)')
    <2>1. ~(Holds(Before) /\ Holds(After))
      BY <1>1, Exclusive DEF RefInv
    <2>2. \E p \in Paths \ edited' : Before[p] # After[p]
      BY <1>2, Differing DEF TypeOK, FewEdits
    <2> QED
      BY <2>1, <2>2 DEF Holds
  <1>4. CASE Publish \/ Fail \/ Crash \/ \E back \in BOOLEAN : Recover(back)
    BY <1>4, StoredKept DEF Publish, Fail, Crash, Recover
  <1>5. CASE PublishJournal
    <2>1. CASE UNCHANGED journal
      BY <1>5, <2>1, StoredKept DEF PublishJournal
    <2>2. CASE live = Before /\ journal'.here
      <3>1. marker = "none" /\ marker' = "none" /\ ~journal.here
        BY <1>1, <1>5 DEF PublishJournal, At, Placed, Pending
      <3>2. Holds(Before) /\ ~Holds(After)
        BY <1>3, <2>2 DEF Holds
      <3> QED
        BY <2>2, <3>1, <3>2 DEF Stored, Stage, Swap!Next, Swap!Open
    <2> QED
      BY <1>5, <2>1, <2>2 DEF PublishJournal
  <1>6. CASE CheckLive \/ Skip \/ Verify \/ VerifyCommitted
    BY <1>6, StoredKept DEF CheckLive, Skip, Verify, VerifyCommitted
  <1>7. CASE Displace \/ Install
    <2>1. journal.here /\ UNCHANGED marker
      BY <1>1, <1>7 DEF Displace, Install, At, Placed, Converging
    <2>2. journal'.here = journal.here
      BY <1>1, <1>7 DEF Displace, Install, TypeOK
    <2> QED
      BY <2>1, <2>2, StoredKept
  <1>8. CASE Commit
    <2>1. CASE UNCHANGED marker
      BY <1>8, <2>1, StoredKept DEF Commit
    <2>2. CASE marker' = Direction(proc.back)
      <3>1. marker = "none" /\ journal.here
        BY <1>1, <1>8 DEF Commit, At, Placed, Converging
      <3>2. marker' # "none" /\ Target(marker' = "back") \in {Before, After}
        BY <2>2 DEF Direction, Target
      <3>3. /\ Stage = "open" /\ Stage' = "decided"
            /\ Stored' \in {Before, After}
        BY <3>1, <3>2 DEF Stage, Stored, Target
      <3> QED
        BY <3>3 DEF Swap!Next, Swap!Decide
    <2> QED
      BY <1>8, <2>1, <2>2 DEF Commit
  <1>9. CASE CleanJournal
    <2>1. marker # "none" /\ UNCHANGED marker
      BY <1>1, <1>9, ProcIs DEF CleanJournal, At, Placed, Committed, Direction
    <2> QED
      BY <2>1 DEF Swap!swap, Stored, Stage, Target
  <1>10. CASE Close
    <2>1. CASE UNCHANGED marker
      BY <1>10, <2>1, StoredKept DEF Close
    <2>2. CASE live = Target(proc.back) /\ marker' = "none"
      <3>1. /\ marker = Direction(proc.back) /\ proc.back \in BOOLEAN
            /\ ~journal.here /\ UNCHANGED <<live, journal, edited>>
        BY <1>1, <1>10, ProcIs DEF Close, At, Placed, Committed
      <3>2. marker # "none" /\ Target(marker = "back") = Target(proc.back)
        BY <3>1 DEF Direction, Target
      <3>3. Stored = Target(proc.back) /\ Stage = "decided" /\ Stage' = "settled"
        BY <2>2, <3>1, <3>2 DEF Stored, Stage
      <3>4. /\ proc.back => Target(proc.back) = Before /\ Holds(Before)'
            /\ ~proc.back => Target(proc.back) = After /\ Holds(After)'
        BY <2>2, <3>1 DEF Target, Holds
      <3>5. Stored' = Target(proc.back)
        BY <1>3, <2>2, <3>1, <3>4 DEF Stored
      <3> QED
        BY <3>3, <3>5 DEF Swap!Next, Swap!Close
    <2> QED
      BY <1>10, <2>1, <2>2 DEF Close
  <1>11. CASE \E p \in Paths, bytes \in Contents : Edit(p, bytes)
    <2>1. PICK p \in Paths, bytes \in Contents : Edit(p, bytes)
      BY <1>11
    <2>2. UNCHANGED <<journal, marker>>
      BY <2>1 DEF Edit
    <2>3. CASE marker # "none" \/ journal.here
      BY <2>2, <2>3, StoredKept
    <2>4. CASE ~(marker # "none" \/ journal.here)
      <3>1. Holds(Before) \/ Holds(After)
        BY <1>1, <2>4 DEF NeverMixed, Pending
      <3>2. (Holds(Before) => Holds(Before)') /\ (Holds(After) => Holds(After)')
        BY <1>1, <2>1, EditHolds DEF TypeOK
      <3> QED
        BY <1>3, <2>2, <2>4, <3>1, <3>2 DEF Swap!swap, Stored, Stage
    <2> QED
      BY <2>3, <2>4
  <1> QED
    BY <1>4, <1>5, <1>6, <1>7, <1>8, <1>9, <1>10, <1>11 DEF Next, Step

(* The transaction implements the atomic swap of the two generations:      *)
(* whatever is interrupted, the store holds one of them, and an open       *)
(* transaction is decided once, by the completion marker.                  *)
THEOREM SwapIsImplemented == RestoreAssumption /\ Distinct /\ Spec => ImplementsSwap
  <1> SUFFICES ASSUME RestoreAssumption, Distinct PROVE Spec => ImplementsSwap
    OBVIOUS
  <1>1. Init => RefInv /\ Swap!Init
    <2> SUFFICES ASSUME Init PROVE RefInv /\ Swap!Init
      OBVIOUS
    <2>1. IInv /\ TypeOK
      BY InitIInv DEF IInv
    <2>2. FewEdits
      BY FS_EmptySet DEF Init, FewEdits, RestoreAssumption
    <2>3. Holds(Before) /\ ~Holds(After)
      BY <2>1, <2>2, Exclusive DEF Init, Holds
    <2>4. marker = "none" /\ ~journal.here
      BY DEF Init, NoJournal
    <2> QED
      BY <2>1, <2>2, <2>3, <2>4 DEF RefInv, Swap!Init, Stored, Stage
  <1>2. RefInv /\ [Next]_vars => RefInv'
    <2> SUFFICES ASSUME RefInv, [Next]_vars PROVE RefInv'
      OBVIOUS
    <2>1. CASE Next
      BY <2>1, NextSafe, NextFewEdits DEF RefInv
    <2>2. CASE UNCHANGED vars
      BY <2>2, StutterIInv DEF RefInv, FewEdits, vars
    <2> QED
      BY <2>1, <2>2
  <1>3. RefInv /\ [Next]_vars => [Swap!Next]_(Swap!swap)
    <2> SUFFICES ASSUME RefInv, [Next]_vars PROVE Swap!Next \/ UNCHANGED Swap!swap
      OBVIOUS
    <2>1. CASE Next
      BY <2>1, StepImplements
    <2>2. CASE UNCHANGED vars
      BY <2>2, StoredKept DEF vars
    <2> QED
      BY <2>1, <2>2
  <1> QED
    BY <1>1, <1>2, <1>3, PTL DEF Spec, ImplementsSwap, Swap!Spec
=============================================================================
