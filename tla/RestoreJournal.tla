--------------------------- MODULE RestoreJournal ---------------------------
(***************************************************************************)
(* The configuration transaction of apps/desktop/src-tauri/src/restore.rs: *)
(* a journal directory with both generations, per-file displacement and    *)
(* installation, a completion marker that commits the outcome, and the     *)
(* removal of the journal behind that marker.  Restore and profile import  *)
(* share it.                                                               *)
(*                                                                         *)
(* One action is one durable change of the directory tree.  The process    *)
(* may crash between any two, any step may fail, and somebody may edit the *)
(* files between any two: the store lock excludes writers of this process  *)
(* only.  Inspecting one file and renaming it is one step.  The journal's  *)
(* own temporaries and the containers that remove_emptied_containers()     *)
(* retires are left out: neither is read back.                             *)
(***************************************************************************)
EXTENDS Naturals, FiniteSets

CONSTANTS Files,           \* number of managed paths, in path order
          Contents,        \* what a path may hold
          Before, After,   \* the two generations: content by path
          Absent,          \* the content of a path that holds no file
          Foreign,         \* bytes of neither generation
          MaxFaults,       \* bound: crashes and failed steps
          MaxEdits         \* bound: files edited from outside

Paths == 1..Files

RestoreAssumption ==
  /\ Files \in Nat /\ MaxFaults \in Nat /\ MaxEdits \in Nat
  /\ Absent \in Contents /\ Foreign \in Contents \ {Absent}
  /\ Before \in [Paths -> Contents \ {Foreign}]
  /\ After \in [Paths -> Contents \ {Foreign}]

VARIABLES live,     \* the managed configuration files
          journal,  \* .restore-journal: its record, its preimages, the displaced files
          marker,   \* .restore-completion: the committed direction, or "none"
          proc,     \* the transaction code: where it is, and its locals
          told,     \* what the last call reported of the configuration
          faults,   \* crashes and failed steps so far
          edited    \* history: paths edited from outside

vars == <<live, journal, marker, proc, told, faults, edited>>

NoJournal == [here |-> FALSE, record |-> FALSE, images |-> FALSE, held |-> {}]
Idle == [pc |-> "idle", call |-> "none", back |-> FALSE, at |-> 1]

Target(back)    == IF back THEN Before ELSE After
(* Mutant: the marker names the other direction.                           *)
DirectionSwapped(back) == IF back THEN "forward" ELSE "back"

Direction(back) == IF back THEN "back" ELSE "forward"
Outcome(back)   == IF back THEN "rolled back" ELSE "installed"
Pending  == journal.here \/ marker # "none"
Known(p) == live[p] \in {Before[p], After[p], Absent}

At(pc) == proc.pc = pc
Go(pc) == proc' = [proc EXCEPT !.pc = pc]
Report(what) == proc' = Idle /\ told' = what

Init ==
  /\ live = Before
  /\ journal = NoJournal
  /\ marker = "none"
  /\ proc = Idle
  /\ told = "nothing"
  /\ faults = 0
  /\ edited = {}

(* A step that cannot go on: a publication that is not decided yet rolls   *)
(* itself back, anything later leaves its evidence for recovery.           *)
GiveUp ==
  \/ At("stage") /\ Report("refused")
  \/ /\ proc.pc \in {"check", "path", "install"}
     /\ IF proc.call = "publish" /\ ~proc.back
        THEN /\ proc' = [proc EXCEPT !.pc = "check", !.back = TRUE, !.at = 1]
             /\ UNCHANGED told
        ELSE Report("pending")
  \/ /\ proc.pc \in {"commit", "verified", "clean", "close"}
     /\ Report(Outcome(proc.back))

----------------------------------------------------------------------------
(* publish(): the live generation must be the one the caller observed, both*)
(* when the transaction is admitted and after both generations are staged. *)

Publish ==
  /\ At("idle") /\ ~Pending
  /\ IF live = Before
     THEN /\ proc' = [pc |-> "stage", call |-> "publish", back |-> FALSE, at |-> 1]
          /\ told' = "nothing"
     ELSE Report("refused")
  /\ UNCHANGED <<live, journal, marker, faults, edited>>

PublishJournal ==
  /\ At("stage")
  /\ IF live = Before
     THEN /\ journal' = [here |-> TRUE, record |-> TRUE, images |-> TRUE, held |-> {}]
          /\ Go("check") /\ UNCHANGED told
     ELSE GiveUp /\ UNCHANGED journal
  /\ UNCHANGED <<live, marker, faults, edited>>

(* Mutant: a committed transaction, too, needs its journal to be loaded.   *)
RecoverLoaded(back) ==
  /\ At("idle") /\ Pending
  /\ IF marker # "none" /\ marker # Direction(back)
     THEN Report(Outcome(marker = "back"))
     ELSE IF ~(journal.record /\ journal.images)
     THEN Report("pending")
     ELSE /\ proc' = [pc |-> IF marker = "none" THEN "check" ELSE "verified",
                      call |-> "recover", back |-> back, at |-> 1]
          /\ told' = "nothing"
  /\ UNCHANGED <<live, journal, marker, faults, edited>>

(* recover(): a committed direction is only finished; otherwise the journal*)
(* is loaded and either direction applied.                                 *)
Recover(back) ==
  /\ At("idle") /\ Pending
  /\ IF marker # "none" /\ marker # Direction(back)
     THEN Report(Outcome(marker = "back"))
     ELSE IF marker = "none" /\ ~(journal.record /\ journal.images)
     THEN Report("pending")
     ELSE /\ proc' = [pc |-> IF marker = "none" THEN "check" ELSE "verified",
                      call |-> "recover", back |-> back, at |-> 1]
          /\ told' = "nothing"
  /\ UNCHANGED <<live, journal, marker, faults, edited>>

----------------------------------------------------------------------------
(* apply(): converge every path, in order, from the bytes it holds now.    *)

CheckLive ==
  /\ At("check")
  /\ IF \A p \in Paths : Known(p) THEN Go("path") /\ UNCHANGED told ELSE GiveUp
  /\ UNCHANGED <<live, journal, marker, faults, edited>>

Desired(p) == Target(proc.back)[p]

Skip ==
  /\ At("path") /\ proc.at \in Paths /\ live[proc.at] = Desired(proc.at)
  /\ proc' = [proc EXCEPT !.at = @ + 1]
  /\ UNCHANGED <<live, journal, marker, told, faults, edited>>

(* Mutant: whatever bytes a path holds are moved out of the way.           *)
DisplaceBlind ==
  LET p == proc.at IN
  /\ At("path") /\ p \in Paths /\ live[p] # Desired(p)
  /\ Go("install") /\ UNCHANGED told
  /\ live' = [live EXCEPT ![p] = Absent]
  /\ journal' = [journal EXCEPT !.held = @ \cup ({<<p, live[p]>>} \ {<<p, Absent>>})]
  /\ UNCHANGED <<marker, faults, edited>>

(* The current bytes move under the journal; a copy that is already held   *)
(* there is removed instead.  Bytes of neither generation are refused.     *)
Displace ==
  LET p == proc.at IN
  /\ At("path") /\ p \in Paths /\ live[p] # Desired(p)
  /\ IF ~Known(p) THEN GiveUp /\ UNCHANGED <<live, journal>>
     ELSE /\ Go("install") /\ UNCHANGED told
          /\ live' = [live EXCEPT ![p] = Absent]
          /\ journal' = [journal EXCEPT !.held = @ \cup ({<<p, live[p]>>} \ {<<p, Absent>>})]
  /\ UNCHANGED <<marker, faults, edited>>

Install ==
  LET p == proc.at IN
  /\ At("install")
  /\ IF Desired(p) # Absent /\ live[p] # Absent THEN GiveUp /\ UNCHANGED live
     ELSE /\ live' = IF Desired(p) = Absent THEN live ELSE [live EXCEPT ![p] = Desired(p)]
          /\ proc' = [proc EXCEPT !.pc = "path", !.at = @ + 1]
          /\ UNCHANGED told
  /\ UNCHANGED <<journal, marker, faults, edited>>

Verify ==
  /\ At("path") /\ proc.at \notin Paths
  /\ IF live = Target(proc.back) THEN Go("commit") /\ UNCHANGED told ELSE GiveUp
  /\ UNCHANGED <<live, journal, marker, faults, edited>>

----------------------------------------------------------------------------
(* finish(): commit the outcome with a marker at the root, remove the      *)
(* journal behind it, then remove the marker.                              *)

(* Mutant: the journal is removed without a marker.                        *)
CommitUnmarked ==
  /\ At("commit")
  /\ IF live = Target(proc.back) THEN Go("verified") /\ UNCHANGED told ELSE GiveUp
  /\ UNCHANGED <<live, journal, marker, faults, edited>>

Commit ==
  /\ At("commit")
  /\ IF live = Target(proc.back)
     THEN /\ marker' = Direction(proc.back)
          /\ Go("verified") /\ UNCHANGED told
     ELSE GiveUp /\ UNCHANGED marker
  /\ UNCHANGED <<live, journal, faults, edited>>

(* Mutant: the marker is removed before the journal.                       *)
VerifyCommittedFirst ==
  /\ At("verified")
  /\ IF live = Target(proc.back) THEN Go("close") /\ UNCHANGED told ELSE GiveUp
  /\ UNCHANGED <<live, journal, marker, faults, edited>>

VerifyCommitted ==
  /\ At("verified")
  /\ IF live = Target(proc.back)
     THEN Go(IF journal.here THEN "clean" ELSE "close") /\ UNCHANGED told
     ELSE GiveUp
  /\ UNCHANGED <<live, journal, marker, faults, edited>>

(* Journal files go in name order: displaced files, the record, preimages. *)
CleanJournal ==
  /\ At("clean")
  /\ \/ \E h \in journal.held : journal' = [journal EXCEPT !.held = @ \ {h}] /\ UNCHANGED proc
     \/ /\ journal.held = {} /\ journal.record
        /\ journal' = [journal EXCEPT !.record = FALSE] /\ UNCHANGED proc
     \/ /\ journal.held = {} /\ ~journal.record /\ journal.images
        /\ journal' = [journal EXCEPT !.images = FALSE] /\ UNCHANGED proc
     \/ /\ journal.held = {} /\ ~journal.record /\ ~journal.images
        /\ journal' = NoJournal /\ Go("close")
  /\ UNCHANGED <<live, marker, told, faults, edited>>

Close ==
  /\ At("close")
  /\ IF live = Target(proc.back)
     THEN marker' = "none" /\ Report(Outcome(proc.back))
     ELSE UNCHANGED marker /\ GiveUp
  /\ UNCHANGED <<live, journal, faults, edited>>

----------------------------------------------------------------------------
(* The environment: a step fails, the process dies, a file is edited.      *)

Fail ==
  /\ ~At("idle") /\ faults < MaxFaults
  /\ faults' = faults + 1
  /\ GiveUp
  /\ UNCHANGED <<live, journal, marker, edited>>

Crash ==
  /\ ~At("idle") /\ faults < MaxFaults
  /\ faults' = faults + 1
  /\ Report("nothing")
  /\ UNCHANGED <<live, journal, marker, edited>>

Edit(p, bytes) ==
  /\ live[p] # bytes
  /\ Cardinality(edited \cup {p}) <= MaxEdits
  /\ live' = [live EXCEPT ![p] = bytes]
  /\ edited' = edited \cup {p}
  /\ UNCHANGED <<journal, marker, proc, told, faults>>

Step ==
  \/ PublishJournal \/ CheckLive \/ Skip \/ Displace \/ Install \/ Verify
  \/ Commit \/ VerifyCommitted \/ CleanJournal \/ Close

Next ==
  \/ Publish \/ Step
  \/ \E back \in BOOLEAN : Recover(back)
  \/ Fail \/ Crash
  \/ \E p \in Paths, bytes \in Contents : Edit(p, bytes)

(* A running transaction goes on, and the operator keeps trying both       *)
(* recovery commands while evidence is pending.                            *)
Fairness == WF_vars(Step) /\ \A back \in BOOLEAN : SF_vars(Recover(back))

Spec == Init /\ [][Next]_vars /\ Fairness

----------------------------------------------------------------------------
PCs == {"idle", "stage", "check", "path", "install", "commit", "verified", "clean", "close"}

Generations(p) == {Before[p], After[p]} \ {Absent}

(* Every variable keeps its type; the journal holds displaced files of the *)
(* two generations only.                                                   *)
TypeOK ==
  /\ live \in [Paths -> Contents]
  /\ journal \in [here : BOOLEAN, record : BOOLEAN, images : BOOLEAN,
                  held : SUBSET (Paths \X Contents)]
  /\ \A h \in journal.held : h[2] \in Generations(h[1])
  /\ marker \in {"none", "back", "forward"}
  /\ proc \in [pc : PCs, call : {"none", "publish", "recover"}, back : BOOLEAN, at : Nat]
  /\ told \in {"nothing", "refused", "pending", "installed", "rolled back"}
  /\ faults \in 0..MaxFaults
  /\ edited \subseteq Paths

Holds(generation) == \A p \in Paths \ edited : live[p] = generation[p]

(* The configuration is never left mixed: without recovery evidence every  *)
(* file nobody edited belongs to one generation, and a committed outcome is*)
(* the generation the files hold.  A report that it was installed, or rolled*)
(* back, is true of every file nobody edited.                              *)
NeverMixed ==
  /\ ~Pending => Holds(Before) \/ Holds(After)
  /\ marker # "none" => Holds(Target(marker = "back"))
  /\ told = "installed" => Holds(After)
  /\ told = "rolled back" => Holds(Before)

(* Until the outcome is committed, everything recovery reads is there: the *)
(* record, both sets of preimages, and in each file either a known content *)
(* or an edit.                                                             *)
RecoveryHasItsEvidence ==
  Pending /\ marker = "none" =>
    /\ journal.record /\ journal.images
    /\ \A p \in Paths \ edited : Known(p)

(* Bytes that are in neither generation are never displaced or overwritten *)
(* by the transaction, however often it is resumed and in which direction. *)
ForeignBytesKept ==
  \A p \in Paths : live[p] = Foreign /\ live'[p] # Foreign => UNCHANGED proc

SafeStep == NeverMixed' /\ RecoveryHasItsEvidence' /\ ForeignBytesKept

(* The three together, of each step and the state it leads to.             *)
TransactionIsSafe == [][SafeStep]_vars

(* Recovery evidence does not stay: operations that are retried end it,    *)
(* unless an edit stands in their way.                                     *)
RecoveryEnds == Pending ~> (~Pending \/ edited # {})

(* What the transaction shows as an atomic swap of the generations.        *)
Stored ==
  IF marker # "none" THEN Target(marker = "back")
  ELSE IF journal.here THEN Before
  ELSE IF Holds(After) THEN After ELSE IF Holds(Before) THEN Before ELSE live
Stage == IF marker # "none" THEN "decided" ELSE IF journal.here THEN "open" ELSE "settled"

(* The transaction implements that swap; the files nobody edited show it   *)
(* once the journal is gone.                                               *)
Swap == INSTANCE AtomicSwap WITH stored <- Stored, stage <- Stage
ImplementsSwap == Swap!Spec
=============================================================================
