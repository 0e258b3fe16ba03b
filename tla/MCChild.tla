------------------------------ MODULE MCChild ------------------------------
(* A child process of Control (its control reader, main thread and          *)
(* dispatcher) and a configuration transaction of RestoreJournal (one file  *)
(* changed, one created, one removed, one kept).  The two share no state:   *)
(* `part` says which one a behaviour is of.                                 *)
EXTENDS MCControl

CONSTANTS a, b, d, k, Absent, Foreign  \* contents of a configuration file

VARIABLES part, live, journal, marker, proc, told, faults, edited

Old == <<a, Absent, d, k>>
New == <<b, b, Absent, k>>

R == INSTANCE RestoreJournal WITH
  Files <- 4, Contents <- {a, b, d, k, Absent, Foreign}, Before <- Old, After <- New,
  MaxFaults <- 3, MaxEdits <- 1

ASSUME R!RestoreAssumption

files == <<live, journal, marker, proc, told, faults, edited>>
both == <<vars, files, part>>

BothInit == part \in {"child", "restore"} /\ Init /\ R!Init

InChild(A)   == part = "child" /\ A /\ UNCHANGED <<files, part>>
InRestore(A) == part = "restore" /\ A /\ UNCHANGED <<vars, part>>

BothNext == InChild(Next) \/ InRestore(R!Next)

(* Control's fairness, for the behaviours that are of it: a control reader  *)
(* is owed a frame only there.  RestoreJournal's actions under fairness are *)
(* disabled while it rests in its initial state.                            *)
BothFairness ==
  /\ \A t \in Threads : WF_vars(part = "child" /\ Step(t))
  /\ \A t \in Threads : Reads(t) => WF_vars(part = "child" /\ Call(t))
  /\ WF_files(part = "restore" /\ R!Step)
  /\ \A back \in BOOLEAN : SF_files(part = "restore" /\ R!Recover(back))

BothSpec == BothInit /\ [][BothNext]_both /\ BothFairness

----------------------------------------------------------------------------
(* A configuration transaction (restore.rs) never leaves the files mixed,   *)
(* keeps everything recovery reads until the outcome is committed, and never*)
(* displaces bytes of neither generation.                                   *)
TransactionIsSafe == R!TransactionIsSafe

(* The transaction is an atomic swap of the two generations (apply, finish, *)
(* recover_with in restore.rs).                                             *)
ImplementsSwap == R!ImplementsSwap

(* Recovery evidence does not stay: operations that are retried end it,     *)
(* unless an edit stands in their way (recover_with in restore.rs).         *)
RecoveryEnds == R!RecoveryEnds
=============================================================================
