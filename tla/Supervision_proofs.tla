------------------------ MODULE Supervision_proofs ------------------------
(***************************************************************************)
(* Theorems about Supervision, for every number of startup requests and    *)
(* every set of time bounds.                                               *)
(***************************************************************************)
EXTENDS Supervision, SequenceTheorems, TLAPS

----------------------------------------------------------------------------
(* The queues: which messages one holds, how often, and in what order.     *)

Has(s, S)        == \E i \in DOMAIN s : s[i] \in S
Only(s, S)       == \A i \in DOMAIN s : s[i] \in S
Once(s, S)       == \A i, j \in DOMAIN s : s[i] \in S /\ s[j] \in S => i = j
Ordered(s, S, T) == \A i, j \in DOMAIN s : i < j /\ s[i] \in S => s[j] \notin T

Named(names) == {m \in Events : m.event \in names}
Requests     == Named({"TargetProbe"})
Natives      == Named({"NativeTransition"})
Started      == Named({"ChildStarted"})
Settlements  == Named({"EntrySettled", "Terminal"})
Terminals    == Named({"Terminal"})
Cut          == Named({"Incomplete"})
Replies      == {m \in Commands : m.command = "prepared"}
Stops        == {m \in Commands : m.command # "prepared"}

LEMMA Emptied ==
  /\ \A S : ~Has(<<>>, S) /\ Only(<<>>, S) /\ Once(<<>>, S)
  /\ \A S, T : Ordered(<<>>, S, T)
  BY DEF Has, Only, Once, Ordered

LEMMA Appended ==
  ASSUME NEW T, NEW s \in Seq(T), NEW e \in T
  PROVE  /\ Append(s, e) \in Seq(T)
         /\ \A S : Has(Append(s, e), S) <=> Has(s, S) \/ e \in S
         /\ \A S : Only(Append(s, e), S) <=> Only(s, S) /\ e \in S
         /\ \A S : Once(s, S) /\ (e \in S => ~Has(s, S)) => Once(Append(s, e), S)
         /\ \A S, U : Ordered(s, S, U) /\ (e \in U => ~Has(s, S)) => Ordered(Append(s, e), S, U)
  <1> DEFINE n == Len(s)
             a == Append(s, e)
  <1>1. /\ n \in Nat /\ DOMAIN s = 1..n
        /\ a \in Seq(T) /\ DOMAIN a = 1..(n + 1)
        /\ \A i \in 1..n : a[i] = s[i]
        /\ a[n + 1] = e
    BY AppendProperties, LenProperties
  <1> HIDE DEF n, a
  <1>2. \A i \in DOMAIN a : i \in DOMAIN s \/ i = n + 1
    BY <1>1
  <1>3. n + 1 \in DOMAIN a /\ \A i \in DOMAIN s : i \in DOMAIN a /\ i < n + 1 /\ i # n + 1 /\ ~(n + 1 < i)
    BY <1>1
  <1>4. \A S : Has(a, S) <=> Has(s, S) \/ e \in S
    BY <1>1, <1>2, <1>3 DEF Has
  <1>5. \A S : Only(a, S) <=> Only(s, S) /\ e \in S
    BY <1>1, <1>2, <1>3 DEF Only
  <1>6. ASSUME NEW S, Once(s, S), e \in S => ~Has(s, S) PROVE Once(a, S)
    BY <1>1, <1>2, <1>3, <1>6 DEF Once, Has
  <1>7. ASSUME NEW S, NEW U, Ordered(s, S, U), e \in U => ~Has(s, S) PROVE Ordered(a, S, U)
    <2> SUFFICES ASSUME NEW i \in DOMAIN a, NEW j \in DOMAIN a, i < j, a[i] \in S
                 PROVE  a[j] \notin U
      BY DEF Ordered
    <2>1. i \in DOMAIN s
      BY <1>1
    <2>2. CASE j = n + 1
      BY <1>1, <1>7, <2>1, <2>2 DEF Has
    <2>3. CASE j \in DOMAIN s
      BY <1>1, <1>7, <2>1, <2>3 DEF Ordered
    <2> QED
      BY <1>2, <2>2, <2>3
  <1> QED
    BY <1>1, <1>4, <1>5, <1>6, <1>7 DEF a

LEMMA Headed ==
  ASSUME NEW T, NEW s \in Seq(T), s # <<>>
  PROVE  /\ Head(s) \in T /\ Tail(s) \in Seq(T)
         /\ \A S : Has(s, S) <=> Head(s) \in S \/ Has(Tail(s), S)
         /\ \A S : Only(s, S) <=> Head(s) \in S /\ Only(Tail(s), S)
         /\ \A S : Once(s, S) => Once(Tail(s), S) /\ (Head(s) \in S => ~Has(Tail(s), S))
         /\ \A S, U : Ordered(s, S, U) =>
              Ordered(Tail(s), S, U) /\ (Head(s) \in S => ~Has(Tail(s), U))
  <1> DEFINE n == Len(s)
             r == Tail(s)
             h == Head(s)
  <1>1. /\ n \in Nat \ {0} /\ DOMAIN s = 1..n
        /\ h \in T /\ r \in Seq(T) /\ DOMAIN r = 1..(n - 1)
        /\ \A i \in 1..(n - 1) : r[i] = s[i + 1]
        /\ s[1] = h
    <2>1. Len(r) = n - 1 /\ r \in Seq(T) /\ h \in T /\ n \in Nat \ {0}
      BY HeadTailProperties, EmptySeq
    <2>2. DOMAIN r = 1..(n - 1) /\ DOMAIN s = 1..n
      BY <2>1, LenProperties
    <2> QED
      BY <2>1, <2>2, HeadTailProperties
  <1> HIDE DEF n, r, h
  <1>2. /\ 1 \in DOMAIN s
        /\ \A i \in DOMAIN r : i \in Int /\ i + 1 \in DOMAIN s /\ r[i] = s[i + 1] /\ 1 < i + 1 /\ 1 # i + 1
    BY <1>1
  <1>3. \A j \in DOMAIN s : j = 1 \/ \E i \in DOMAIN r : j = i + 1
    <2> SUFFICES ASSUME NEW j \in DOMAIN s, j # 1 PROVE j - 1 \in DOMAIN r /\ j = (j - 1) + 1
      OBVIOUS
    <2> QED
      BY <1>1
  <1>4. \A S : Has(s, S) <=> h \in S \/ Has(r, S)
    BY <1>1, <1>2, <1>3 DEF Has
  <1>5. \A S : Only(s, S) <=> h \in S /\ Only(r, S)
    BY <1>1, <1>2, <1>3 DEF Only
  <1>6. ASSUME NEW S, Once(s, S) PROVE Once(r, S) /\ (h \in S => ~Has(r, S))
    <2>1. Once(r, S)
      <3> SUFFICES ASSUME NEW i \in DOMAIN r, NEW j \in DOMAIN r, r[i] \in S, r[j] \in S PROVE i = j
        BY DEF Once
      <3>1. i + 1 = j + 1
        BY <1>2, <1>6 DEF Once
      <3> QED
        BY <1>2, <3>1
    <2>2. h \in S => ~Has(r, S)
      BY <1>1, <1>2, <1>6 DEF Once, Has
    <2> QED
      BY <2>1, <2>2
  <1>7. ASSUME NEW S, NEW U, Ordered(s, S, U) PROVE Ordered(r, S, U) /\ (h \in S => ~Has(r, U))
    <2>1. Ordered(r, S, U)
      <3> SUFFICES ASSUME NEW i \in DOMAIN r, NEW j \in DOMAIN r, i < j, r[i] \in S
                   PROVE  r[j] \notin U
        BY DEF Ordered
      <3>1. i + 1 < j + 1
        BY <1>2
      <3> QED
        BY <1>2, <1>7, <3>1 DEF Ordered
    <2>2. h \in S => ~Has(r, U)
      BY <1>1, <1>2, <1>7 DEF Ordered, Has
    <2> QED
      BY <2>1, <2>2
  <1> QED
    BY <1>1, <1>4, <1>5, <1>6, <1>7 DEF r, h

LEMMA Sized ==
  ASSUME NEW T, NEW s \in Seq(T), NEW S
  PROVE  /\ Only(s, S) /\ Once(s, S) => Len(s) <= 1
         /\ Only(s, S) /\ ~Has(s, S) => s = <<>>
         /\ Only(s, T) /\ (~Has(s, S) => Only(s, T \ S))
         /\ \A U : Only(s, S) /\ (\A m \in T : m \in S => m \in U) => Only(s, U)
  <1>1. Len(s) \in Nat /\ DOMAIN s = 1..Len(s) /\ \A i \in DOMAIN s : s[i] \in T
    BY LenProperties, ElementOfSeq
  <1>2. ASSUME Only(s, S), Once(s, S) PROVE Len(s) <= 1
    <2> SUFFICES ASSUME Len(s) > 1 PROVE FALSE
      BY <1>1
    <2>1. 1 \in DOMAIN s /\ 2 \in DOMAIN s
      BY <1>1
    <2> QED
      BY <1>2, <2>1 DEF Only, Once
  <1>3. ASSUME Only(s, S), ~Has(s, S) PROVE s = <<>>
    <2> SUFFICES ASSUME s # <<>> PROVE FALSE
      OBVIOUS
    <2>1. Len(s) # 0
      BY EmptySeq
    <2>2. 1 \in DOMAIN s
      BY <1>1, <2>1
    <2> QED
      BY <1>3, <2>2 DEF Only, Has
  <1>4. Only(s, T) /\ (~Has(s, S) => Only(s, T \ S))
    BY <1>1 DEF Only, Has
  <1>5. \A U : Only(s, S) /\ (\A m \in T : m \in S => m \in U) => Only(s, U)
    BY <1>1 DEF Only
  <1> QED
    BY <1>2, <1>3, <1>4, <1>5

LEMMA Widened ==
  ASSUME NEW T, NEW s \in Seq(T), NEW S, Only(s, S), NEW U, \A m \in T : m \in S => m \in U
  PROVE  Only(s, U)
  <1>1. \A i \in DOMAIN s : s[i] \in T
    BY ElementOfSeq, LenProperties
  <1> QED
    BY <1>1 DEF Only

(* A queue that holds none of S holds only what is not in S.               *)
LEMMA Without ==
  ASSUME NEW T, NEW s \in Seq(T), NEW S, ~Has(s, S), NEW U, \A m \in T : m \in S \/ m \in U
  PROVE  Only(s, U)
  <1>1. \A i \in DOMAIN s : s[i] \in T
    BY ElementOfSeq, LenProperties
  <1> QED
    BY <1>1 DEF Has, Only

----------------------------------------------------------------------------
(* Types.                                                                  *)

(* A stop that only says that the entry was published comes after it, no   *)
(* derived timeout was published, and there is no child before it is       *)
(* spawned.                                                                *)
Ended == {"clean", "finished", "parked"}
SettledLate == /\ child.stop = "settled" => child.main \in Ended
               /\ child.main \in Ended => child.primary # "derived"
Unborn == sup.pc = "ready" => child.main = "none"

Types == TypeOK /\ SettledLate /\ Unborn

LEMMA InitTypes == Init => Types
  <1> SUFFICES ASSUME Init PROVE Types
    OBVIOUS
  <1>1. sup \in Supervisors
    BY SupervisionAssumption DEF Init, Supervisors, Published, Primaries, Faults
  <1>2. prep \in Probes /\ child \in Children /\ child.stop = "none"
    BY DEF Init, Probes, Children, Primaries
  <1>3. record \in Records
    BY DEF Init, Records, NoRecord, Published, Primaries
  <1> QED
    BY <1>1, <1>2, <1>3, EmptySeq DEF Init, Types, TypeOK, SettledLate, Unborn

(* What the supervisor reads of its Control.                               *)
LEMMA ObservedType ==
  ASSUME Types
  PROVE  /\ Observed \in Reasons \cup {"none"} /\ StopCause \in Reasons
         /\ First(ctl, "cancelled") \in Reasons
         /\ ctl # "none" => Observed = ctl
  BY DEF Types, TypeOK, Observed, StopCause, First, Reasons

LEMMA EventTypes ==
  /\ \A name \in {"ChildStarted", "TargetProbe", "NativeTransition", "StopRequested",
                  "EntrySettled", "Terminal", "Incomplete"} : Event(name) \in Events
  /\ \A n \in Nat : [Event("TargetProbe") EXCEPT !.seq = n] \in Events
  /\ \A p \in Published : [Event("EntrySettled") EXCEPT !.primary = p] \in Events
  /\ \A p \in Published, e, c \in BOOLEAN :
       [Event("Terminal") EXCEPT !.primary = p, !.entered = e, !.clean = c] \in Events
  BY DEF Event, Events, Published, Primaries, Reasons

LEMMA CommandTypes ==
  /\ \A why \in Reasons : Stop(why) \in Commands
  /\ \A n \in Nat, o \in Outcomes : Prepared(n, o) \in Commands
  BY DEF Stop, Prepared, Commands, Outcomes, Reasons

(* What the supervisor makes of a frame.                                   *)
LEMMA ReceiveTypes ==
  ASSUME Types, NEW m \in Events, Receive(m)
  PROVE  /\ sup' \in Supervisors /\ ctl' \in Reasons \cup {"none"} /\ prep' \in Probes
         /\ sup'.pc = sup.pc
  <1> USE DEF Types, TypeOK
  <1>1. Observed \in Reasons \cup {"none"} /\ First(ctl, "cancelled") \in Reasons
    BY ObservedType
  <1>2. m.seq \in Nat /\ m.primary \in Published /\ m.entered \in BOOLEAN /\ m.clean \in BOOLEAN
    BY DEF Events
  <1>3. CASE ReceiveProbe(m)
    <2>1. CASE ctl' = ctl /\ prep' = prep /\ sup' = [sup EXCEPT !.fault = "Transport"]
      BY <2>1 DEF Supervisors, Faults
    <2>2. CASE ctl' = Observed /\ prep' = prep /\ sup' = [sup EXCEPT !.fault = Observed]
               /\ Observed # "none"
      BY <1>1, <2>2 DEF Supervisors, Faults
    <2>3. CASE /\ sup' = [sup EXCEPT !.seq = m.seq, !.pending = m.seq] /\ ctl' = ctl
               /\ prep' = [prep EXCEPT !.worker = "running", !.probe = FALSE]
      BY <1>2, <2>3 DEF Supervisors, Probes
    <2> QED
      BY <1>3, <2>1, <2>2, <2>3 DEF ReceiveProbe
  <1>4. CASE ReceiveTransition
    BY <1>1, <1>4 DEF ReceiveTransition, Supervisors, Faults
  <1>5. CASE ReceiveSettlement(m)
    <2>1. sup' \in Supervisors /\ sup'.pc = sup.pc
      BY ZenonT(60), <1>2, <1>5 DEF ReceiveSettlement, Supervisors, Faults
    <2> QED
      BY <1>1, <1>5, <2>1 DEF ReceiveSettlement
  <1>6. CASE /\ UNCHANGED <<ctl, prep>>
             /\ \/ sup' = [sup EXCEPT !.fault = "Incomplete"]
                \/ sup' = [sup EXCEPT !.built = TRUE,
                                      !.fault = IF sup.built THEN "Transport" ELSE @]
                \/ sup' = [sup EXCEPT !.sawStop = TRUE]
    BY <1>6 DEF Supervisors, Faults
  <1> QED
    BY <1>3, <1>4, <1>5, <1>6 DEF Receive

(* A child that dies may leave a frame cut short.                          *)
LEMMA DiesTypes ==
  ASSUME Types, NEW code \in {"none", "ok", "err", "124", "killed"}, Dies(code)
  PROVE  /\ child' = [child EXCEPT !.exit = code] /\ child' \in Children
         /\ out' \in Seq(Events)
         /\ out' = out \/ out' = Append(out, Event("Incomplete"))
  <1> USE DEF Types, TypeOK
  <1>1. child' = [child EXCEPT !.exit = code] /\ child' \in Children
    BY DEF Dies, Children
  <1>2. PICK cut \in {<<>>, <<Event("Incomplete")>>} : out' = out \o cut
    BY DEF Dies
  <1>3. Event("Incomplete") \in Events
    BY EventTypes
  <1>4. CASE cut = <<>>
    BY <1>1, <1>2, <1>4, ConcatEmptySeq
  <1>5. CASE cut = <<Event("Incomplete")>>
    <2>1. out' = Append(out, Event("Incomplete"))
      BY <1>2, <1>3, <1>5, AppendIsConcat
    <2> QED
      BY <1>1, <1>3, <2>1, AppendProperties
  <1> QED
    BY <1>2, <1>4, <1>5

(* A child reports what it was settled with.                               *)
LEMMA PrimaryTypes ==
  ASSUME Types
  PROVE  /\ SettledPrimary \in Published
         /\ SettledPrimary # "derived"
         /\ \A p \in Endings : child.main \in {"run", "wait"} => p \in Primaries
  BY DEF Types, TypeOK, SettledLate, Children, SettledPrimary, Endings, Published, Primaries,
         Reasons, Ended

(* The steps of the child leave the supervisor alone.                      *)
LEMMA ChildTypes ==
  ASSUME Types, ChildNext
  PROVE  /\ Alive /\ UNCHANGED <<sup, ctl, due, prep, cmds, writer, record, lost>>
         /\ Types'
  <1> USE DEF Types, TypeOK
  <1>1. Alive /\ UNCHANGED <<sup, ctl, due, prep, cmds, writer, record, lost>>
    BY DEF ChildNext, ChildStarts, ChildStep, RequestTarget, CheckRequest, EmitRequest,
           ReadCommand, ControlLost, AnnounceStop, ChildTimeout, TakeReply, EnterWorkflow,
           EntryEnds, SettleEntry, Terminate, ChildExits, Watchdog, ChildCrash
  <1>2. SUFFICES child' \in Children /\ pipe' \in Seq(Commands) /\ out' \in Seq(Events)
                 /\ SettledLate'
    BY <1>1 DEF Unborn, Alive
  <1>3. ASSUME NEW m \in Events, Emit(m) PROVE out' \in Seq(Events)
    BY <1>3, AppendProperties DEF Emit
  <1>4. CASE ChildStarts
    <2>1. Event("ChildStarted") \in Events
      BY EventTypes
    <2> QED
      BY <1>3, <1>4, <2>1 DEF ChildStarts, ChildStep, Children, SettledLate, Ended
  <1>5. CASE RequestTarget
    <2>1. child.linkSeq + 1 \in Nat
      BY DEF Children
    <2>2. child' = [child EXCEPT !.main = "wait", !.linkSeq = child.linkSeq + 1,
                                 !.awaiting = TRUE, !.asking = "asked"]
          /\ child.stop = "none"
      BY <1>5 DEF RequestTarget
    <2>3. child' \in Children /\ SettledLate'
      BY <2>1, <2>2 DEF Children, SettledLate, Ended
    <2> QED
      BY <1>5, <2>3 DEF RequestTarget
  <1>6. CASE CheckRequest
    BY <1>6 DEF CheckRequest, Children, SettledLate, Ended
  <1>7. CASE EmitRequest
    <2>1. [Event("TargetProbe") EXCEPT !.seq = child.linkSeq] \in Events
      BY EventTypes DEF Children
    <2> QED
      BY <1>3, <1>7, <2>1 DEF EmitRequest, Children, SettledLate, Ended
  <1>8. CASE ReadCommand
    <2>1. Head(pipe) \in Commands /\ Tail(pipe) \in Seq(Commands)
      BY <1>8, HeadTailProperties DEF ReadCommand
    <2> DEFINE m == Head(pipe)
    <2>2. m.command \in Reasons \cup {"prepared"} /\ m.reply \in Outcomes
      BY <2>1 DEF Commands
    <2> HIDE DEF m
    <2>3. CASE m.command # "prepared"
               /\ child' = [child EXCEPT !.stop = Inherit(@, m.command), !.reader = "adopted"]
      <3>1. Inherit(child.stop, m.command) \in Reasons \cup {"derived", "stage", "settled"}
            /\ (Inherit(child.stop, m.command) = "settled" => child.stop = "settled")
        BY <2>2, <2>3 DEF Inherit, Children, Reasons
      <3>2. child' \in Children /\ SettledLate'
        BY ZenonT(60), <2>3, <3>1 DEF Children, SettledLate, Ended
      <3> QED
        BY <1>8, <2>1, <3>2 DEF ReadCommand
    <2>4. CASE child' = [child EXCEPT !.awaiting = FALSE, !.reply = m.reply]
      <3>1. child' \in Children /\ SettledLate'
        BY <2>2, <2>4 DEF Children, SettledLate, Ended
      <3> QED
        BY <1>8, <2>1, <3>1 DEF ReadCommand
    <2>5. CASE child' = [child EXCEPT !.stop = First(@, "cancelled"), !.reader = "adopted",
                                      !.invalid = TRUE]
      <3>1. child' \in Children /\ SettledLate'
        BY ZenonT(60), <2>5 DEF Children, SettledLate, Ended, First, Reasons
      <3> QED
        BY <1>8, <2>1, <3>1 DEF ReadCommand
    <2> QED
      BY <1>8, <2>3, <2>4, <2>5 DEF ReadCommand, m
  <1>9. CASE ControlLost
    BY <1>9 DEF ControlLost, Children, SettledLate, Ended, First, Reasons
  <1>10. CASE AnnounceStop
    <2>1. Event("StopRequested") \in Events
      BY EventTypes
    <2> QED
      BY <1>3, <1>10, <2>1 DEF AnnounceStop, Children, SettledLate, Ended
  <1>11. CASE \E why \in {"derived", "stage"} : ChildTimeout(why)
    BY ZenonT(60), <1>11 DEF ChildTimeout, Children, SettledLate, Ended
  <1>12. CASE TakeReply
    <2> DEFINE fault == child.reply = "fault"
    <2>1. child' = [child EXCEPT !.reply = "none", !.main = IF fault THEN "settle" ELSE "run",
                                 !.primary = IF fault THEN "Script" ELSE @,
                                 !.bound = child.reply = "target"]
      BY <1>12 DEF TakeReply
    <2>2. (child.reply = "target") \in BOOLEAN /\ "Script" \in Primaries
      BY DEF Primaries
    <2>3. child' \in Children /\ SettledLate'
      <3> HIDE DEF fault
      <3> QED
        BY ZenonT(60), <1>12, <2>1, <2>2 DEF TakeReply, Children, SettledLate, Ended
    <2> QED
      BY <1>12, <2>3 DEF TakeReply
  <1>13. CASE EnterWorkflow
    <2>1. Event("NativeTransition") \in Events
      BY EventTypes
    <2> QED
      BY <1>3, <1>13, <2>1 DEF EnterWorkflow, Children, SettledLate, Ended
  <1>14. CASE \E p \in Endings : EntryEnds(p)
    <2>1. PICK p \in Endings : EntryEnds(p)
      BY <1>14
    <2>2. p \in Primaries
      BY <2>1, PrimaryTypes DEF EntryEnds
    <2> QED
      BY <2>1, <2>2 DEF EntryEnds, Children, SettledLate, Ended
  <1>15. CASE SettleEntry
    <2>1. SettledPrimary \in Published /\ SettledPrimary # "derived"
      BY PrimaryTypes
    <2>2. [Event("EntrySettled") EXCEPT !.primary = SettledPrimary] \in Events
      BY <2>1, EventTypes
    <2>3. SettledPrimary \in Primaries
      BY <2>1 DEF Published
    <2>4. First(child.stop, "settled") \in Reasons \cup {"none", "derived", "stage", "settled"}
      BY DEF First, Children
    <2>5. child' \in Children /\ SettledLate'
      <3> HIDE DEF SettledPrimary
      <3> QED
        BY <1>15, <2>1, <2>3, <2>4 DEF SettleEntry, Children, SettledLate, Ended
    <2> QED
      BY <1>3, <1>15, <2>2, <2>5 DEF SettleEntry
  <1>16. CASE \E clean \in BOOLEAN : Terminate(clean)
    <2>1. PICK clean \in BOOLEAN : Terminate(clean)
      BY <1>16
    <2>2. child.primary \in Published
      BY <2>1 DEF Terminate, SettledLate, Ended, Children, Published
    <2>3. [Event("Terminal") EXCEPT !.primary = child.primary, !.entered = child.entered,
                                    !.clean = clean] \in Events
      BY <2>2, EventTypes DEF Children
    <2>4. child' \in Children /\ SettledLate'
      BY <2>1 DEF Terminate, Children, SettledLate, Ended
    <2> QED
      BY <1>3, <2>1, <2>3, <2>4 DEF Terminate
  <1>17. CASE ChildExits
    BY <1>17 DEF ChildExits, Children, SettledLate, Ended
  <1>18. CASE Watchdog
    BY <1>18, DiesTypes DEF Watchdog, Children, SettledLate, Ended
  <1>19. CASE ChildCrash
    BY <1>19, DiesTypes DEF ChildCrash, Children, SettledLate, Ended
  <1> QED
    BY <1>4, <1>5, <1>6, <1>7, <1>8, <1>9, <1>10, <1>11, <1>12, <1>13, <1>14, <1>15, <1>16,
       <1>17, <1>18, <1>19 DEF ChildNext

(* The steps of the supervisor.                                            *)
LEMMA SupTypes ==
  ASSUME Types, SupNext
  PROVE  Types' /\ UNCHANGED <<due, writer, pipe>>
  <1> USE DEF Types, TypeOK
  <1>1. /\ Observed \in Reasons \cup {"none"} /\ StopCause \in Reasons
        /\ First(ctl, "cancelled") \in Reasons
    BY ObservedType
  <1>2. UNCHANGED <<due, writer, pipe>>
    BY DEF SupNext, Refuse, Spawn, Drain, EndDrain, Poll, Reaped, Decide, CancelProbe,
           JoinProbe, FinalDrain, Conclude
  <1>3. ASSUME NEW pc \in {"drain", "poll", "settle", "finish", "done", "join"},
               sup' = [sup EXCEPT !.pc = pc]
        PROVE  sup' \in Supervisors /\ Unborn'
    BY <1>3 DEF Supervisors, Unborn
  <1>4. CASE Refuse
    <2>1. sup' \in Supervisors /\ Unborn'
      BY <1>3, <1>4 DEF Refuse
    <2>2. record' \in Records
      BY <1>1, <1>4 DEF Refuse, Records, NoRecord, Faults
    <2> QED
      BY <1>1, <1>4, <2>1, <2>2 DEF Refuse, SettledLate
  <1>5. CASE Spawn
    <2>1. child' = [child EXCEPT !.main = "boot"] /\ child.main = "none"
      BY <1>5 DEF Spawn, Unborn
    <2>2. child' \in Children /\ SettledLate'
      BY <2>1 DEF Children, SettledLate, Ended
    <2>3. sup' \in Supervisors /\ Unborn'
      BY <1>3, <1>5 DEF Spawn
    <2> QED
      BY <1>5, <2>2, <2>3 DEF Spawn
  <1>6. CASE Drain \/ FinalDrain
    <2>1. Head(out) \in Events /\ Tail(out) \in Seq(Events)
      BY <1>6, Headed DEF Drain, FinalDrain
    <2>2. CASE UNCHANGED <<sup, ctl, prep>>
      BY <1>6, <2>1, <2>2 DEF Drain, FinalDrain, SettledLate, Unborn
    <2>3. CASE Receive(Head(out))
      <3>1. /\ sup' \in Supervisors /\ ctl' \in Reasons \cup {"none"} /\ prep' \in Probes
            /\ sup'.pc = sup.pc
        BY <2>1, <2>3, ReceiveTypes
      <3> QED
        BY <1>6, <2>1, <3>1 DEF Drain, FinalDrain, SettledLate, Unborn
    <2> QED
      BY <1>6, <2>2, <2>3 DEF Drain, FinalDrain
  <1>7. CASE EndDrain
    BY <1>3, <1>7 DEF EndDrain, SettledLate
  <1>8. CASE Reaped
    <2>1. sup' \in Supervisors /\ Unborn'
      BY <1>8 DEF Reaped, Supervisors, Unborn
    <2> QED
      BY <1>8, <2>1 DEF Reaped, SettledLate
  <1>9. CASE Poll
    <2> DEFINE finished == sup.pending # 0 /\ prep.worker \in Outcomes
               answer == finished /\ sup.entry = "none" /\ sup.stop = "none"
               room == Len(cmds) < CmdCapacity
    <2>1. prep' \in Probes
      <3>1. (prep.worker # "nothing") \in BOOLEAN /\ (prep.worker = "fault") \in BOOLEAN
        OBVIOUS
      <3>2. Collected \in Probes
        BY <3>1 DEF Collected, Probes
      <3> QED
        BY <1>9, <3>2 DEF Poll
    <2>2. cmds' \in Seq(Commands)
      <3>1. finished => Answer \in Commands
        BY CommandTypes DEF Answer, Supervisors
      <3>2. finished => Append(cmds, Answer) \in Seq(Commands)
        BY <3>1, Appended
      <3>3. cmds' = cmds \/ (finished /\ cmds' = Append(cmds, Answer))
        BY <1>9 DEF Poll
      <3> HIDE DEF finished
      <3> QED
        BY <3>2, <3>3
    <2>3. sup' \in Supervisors /\ Unborn' /\ lost' \in BOOLEAN
      <3>1. sup' = [sup EXCEPT !.pc = "decide",
                               !.pending = IF finished THEN 0 ELSE sup.pending,
                               !.fault = IF answer /\ ~room THEN "Transport" ELSE sup.fault]
            /\ lost' \in BOOLEAN
        BY <1>9 DEF Poll
      <3> HIDE DEF finished, answer, room
      <3> QED
        BY <3>1 DEF Supervisors, Faults, Unborn
    <2> QED
      BY <1>9, <2>1, <2>2, <2>3 DEF Poll, SettledLate
  <1>10. CASE Decide
    <2> DEFINE stop == IF StopDue THEN StopCause ELSE sup.stop
               send == StopDue /\ ~sup.cut
    <2>1. stop \in Reasons \cup {"none"} /\ (send => stop \in Reasons)
      BY <1>1 DEF Supervisors
    <2>2. ctl' \in {ctl, Observed, First(Observed, stop)}
      BY <1>10 DEF Decide
    <2>3. cmds' = cmds \/ (send /\ cmds' = Append(cmds, Stop(stop)))
      BY <1>10 DEF Decide
    <2>4. sup' = [sup EXCEPT !.stop = stop,
                    !.open = sup.open /\ ~StopDue /\ ~Overdue(stop),
                    !.forced = Overdue(stop),
                    !.pc = IF Overdue(stop) THEN "settle" ELSE "drain"]
      BY <1>10 DEF Decide
    <2>5. Overdue(stop) \in BOOLEAN /\ StopDue \in BOOLEAN
      BY DEF Overdue, StopDue
    <2> HIDE DEF stop, send
    <2>6. ctl' \in Reasons \cup {"none"}
      <3>1. First(Observed, stop) \in {Observed, stop}
        BY DEF First
      <3> QED
        BY <1>1, <2>1, <2>2, <3>1
    <2>7. cmds' \in Seq(Commands) /\ lost' \in BOOLEAN
      <3>1. send => Append(cmds, Stop(stop)) \in Seq(Commands)
        BY <2>1, CommandTypes, Appended
      <3>2. lost' \in BOOLEAN
        BY <1>10 DEF Decide
      <3> QED
        BY <2>3, <3>1, <3>2
    <2>8. sup' \in Supervisors /\ Unborn'
      <3> DEFINE over == Overdue(stop)
                 open == sup.open /\ ~StopDue /\ ~over
      <3>1. over \in BOOLEAN /\ open \in BOOLEAN
        BY <2>5 DEF Supervisors
      <3>2. sup' = [sup EXCEPT !.stop = stop, !.open = open, !.forced = over,
                               !.pc = IF over THEN "settle" ELSE "drain"]
        BY <2>4
      <3> HIDE DEF over, open
      <3> QED
        BY <2>1, <3>1, <3>2 DEF Supervisors, Unborn
    <2>9. child' \in Children /\ out' \in Seq(Events) /\ SettledLate'
      <3>1. CASE Dies("killed")
        BY <3>1, DiesTypes DEF SettledLate, Children
      <3>2. CASE UNCHANGED <<child, out>>
        BY <3>2 DEF SettledLate
      <3> QED
        BY <1>10, <3>1, <3>2 DEF Decide
    <2> QED
      BY <1>2, <1>10, <2>6, <2>7, <2>8, <2>9 DEF Decide
  <1>11. CASE CancelProbe
    BY <1>1, <1>3, <1>11 DEF CancelProbe, SettledLate
  <1>12. CASE JoinProbe
    <2>1. prep' \in Probes
      BY <1>12 DEF JoinProbe, Probes
    <2> QED
      BY <1>3, <1>12, <2>1 DEF JoinProbe, SettledLate
  <1>13. CASE Conclude
    <2> DEFINE fault == IF sup.fault # "none" THEN sup.fault
               ELSE IF writer = "failed" \/ (~sup.built /\ sup.terminal) THEN "Transport"
               ELSE "none"
    <2>1. fault \in Faults
      BY DEF Supervisors, Faults
    <2>2. sup' = [sup EXCEPT !.pc = "done", !.fault = fault]
      BY <1>13 DEF Conclude
    <2>3. record' = [status |-> IF CleanExit /\ PrimaryFault(fault) = "none" THEN "PASS" ELSE "FAIL",
                     primary |-> PrimaryFault(fault), clean |-> CleanExit,
                     accounted |-> Accounted(fault), entered |-> sup.terminal /\ sup.entered,
                     settled |-> ~prep.failure]
      BY <1>13 DEF Conclude
    <2> HIDE DEF fault
    <2>4. sup' \in Supervisors /\ Unborn'
      BY <2>1, <2>2 DEF Supervisors, Unborn
    <2>5. PrimaryFault(fault) \in Published \cup Faults \cup {"Startup", "Preparation"}
      BY <2>1 DEF PrimaryFault, Supervisors, Published, Primaries
    <2>6. CleanExit \in BOOLEAN /\ Accounted(fault) \in BOOLEAN
          /\ (sup.terminal /\ sup.entered) \in BOOLEAN /\ (~prep.failure) \in BOOLEAN
      BY DEF CleanExit, Accounted, Supervisors, Probes
    <2>7. record' \in Records
      BY <2>3, <2>5, <2>6 DEF Records
    <2> QED
      BY <1>13, <2>4, <2>7 DEF Conclude, SettledLate
  <1> QED
    BY <1>2, <1>4, <1>5, <1>6, <1>7, <1>8, <1>9, <1>10, <1>11, <1>12, <1>13 DEF SupNext

(* The writer moves the first command to the child's stdin or drops it.    *)
LEMMA WriterTypes ==
  ASSUME Types, Write \/ WriterEnds
  PROVE  Types' /\ UNCHANGED <<sup, ctl, due, prep, out, child, record, lost>>
  <1> USE DEF Types, TypeOK
  <1>1. CASE Write
    <2>1. Head(cmds) \in Commands /\ cmds' \in Seq(Commands)
      BY <1>1, Headed DEF Write
    <2>2. pipe' = pipe \/ pipe' = Append(pipe, Head(cmds))
      BY <1>1 DEF Write
    <2>3. pipe' \in Seq(Commands)
      <3>1. Append(pipe, Head(cmds)) \in Seq(Commands)
        BY <2>1, Appended
      <3> QED
        BY <2>2, <3>1
    <2>4. writer' \in {"open", "closed", "failed"}
      BY <1>1 DEF Write
    <2> QED
      BY <1>1, <2>1, <2>3, <2>4 DEF Write, SettledLate, Unborn
  <1>2. CASE WriterEnds
    BY <1>2 DEF WriterEnds, SettledLate, Unborn
  <1> QED
    BY <1>1, <1>2

LEMMA NextTypes == ASSUME Types, [Next]_vars PROVE Types'
  <1>1. CASE UNCHANGED vars
    BY <1>1 DEF vars, Types, TypeOK, SettledLate, Unborn
  <1>2. CASE OperatorStop \/ \E b \in Bounds : Pass(b)
    BY <1>2 DEF OperatorStop, Pass, Types, TypeOK, SettledLate, Unborn, Reasons
  <1>3. ASSUME NEW o \in Outcomes, ProbeReturns(o) PROVE Types'
    <2>1. prep' \in Probes /\ ctl' \in Reasons \cup {"none"}
      BY <1>3, ObservedType DEF ProbeReturns, Types, TypeOK, Probes
    <2> QED
      BY <1>3, <2>1 DEF ProbeReturns, Types, TypeOK, SettledLate, Unborn
  <1> QED
    BY <1>1, <1>2, <1>3, WriterTypes, ChildTypes, SupTypes DEF Next

----------------------------------------------------------------------------
(* What the proofs are about: an inductive invariant in parts.             *)

(* The supervisor leaves its loop only when the child is dead, and leaves  *)
(* settlement only when the probe has returned.                            *)
Loop == {"ready", "drain", "poll", "decide"}
Phases ==
  /\ sup.pc = "ready" => child.main = "none" /\ prep.worker = "none"
  /\ child.main = "none" => child.exit = "none" /\ sup.pc \in {"ready", "done"}
  /\ sup.pc \in {"settle", "join", "finish"} => child.exit # "none"
  /\ sup.pc = "done" => child.exit # "none" \/ child.main = "none"
  /\ sup.pc \in {"finish", "done"} => prep.worker = "none"
  /\ sup.forced => sup.pc \notin Loop /\ child.exit # "none"
  /\ child.exit = "ok" => child.main = "finished"

(* A startup request is in one place: with the thread that sends it, among *)
(* the frames, with the supervisor, or, answered, in the command channel or*)
(* the child's stdin.  Wherever it is, the child still waits for it.       *)
Asked     == child.asking # "idle"
Requested == Has(out, Requests)
Pending   == sup.pending # 0
Answered  == Has(cmds, Replies)
Replied   == Has(pipe, Replies)
Numbered(n) == {m \in Events : m.event = "TargetProbe" => m.seq = n}
Answers(n)  == {m \in Commands : m.command = "prepared" => m.seq = n}

OneRequest ==
  /\ Once(out, Requests) /\ Once(cmds, Replies) /\ Once(pipe, Replies)
  /\ Asked => ~Requested /\ ~Pending /\ ~Answered /\ ~Replied
  /\ Requested => ~Pending /\ ~Answered /\ ~Replied
  /\ Pending => ~Answered /\ ~Replied
  /\ Answered => ~Replied
  /\ Asked \/ Requested \/ Pending \/ Answered \/ Replied => child.awaiting
  /\ child.awaiting => child.reply = "none"
  /\ Only(out, Numbered(child.linkSeq))
  /\ Pending => sup.pending = child.linkSeq
  /\ Only(cmds, Answers(child.linkSeq)) /\ Only(pipe, Answers(child.linkSeq))
  /\ ~child.invalid

(* The stop is the last command: before it is sent, the channel holds at   *)
(* most the answer to the one request.                                     *)
Roomy ==
  /\ sup.stop = "none" => ~Has(cmds, Stops) /\ ~Has(pipe, Stops)
  /\ ~lost

(* The frames tell what the child settled with, and arrive in order.       *)
Faithful ==
  {m \in Events :
     /\ m.event \in {"EntrySettled", "Terminal"} => child.main \in Ended /\ m.primary = child.primary
     /\ m.event = "Terminal" => /\ child.main \in {"finished", "parked"}
                                /\ m.entered = child.entered /\ m.clean = child.clean}
InOrder(s) ==
  /\ Once(s, Terminals)
  /\ Once(s, Started) /\ Ordered(s, Terminals, Started)
  /\ Ordered(s, Settlements, Natives)
Frames ==
  /\ InOrder(out) /\ Only(out, Faithful)
  /\ sup.entry # "none" => child.main \in Ended /\ sup.entry = child.primary
  /\ sup.terminal => /\ child.main \in {"finished", "parked"} /\ sup.entry = child.primary
                     /\ sup.entered = child.entered /\ sup.clean = child.clean
                     /\ sup.built /\ ~Has(out, Terminals)
  /\ child.main \in {"none", "boot", "run", "wait"} <=> child.primary = "none"
  /\ sup.built => ~Has(out, Started)
  /\ child.main \in {"none", "boot"} =>
       /\ ~sup.built /\ ~Has(out, Started)
       /\ child.asking = "idle" /\ child.reader = "on" /\ child.stop = "none"
  /\ child.main \notin {"none", "boot"} /\ ~sup.built => Has(out, Started)
  /\ sup.entry # "none" => ~Has(out, Natives)
  /\ child.exit \in {"none", "ok"} => ~Has(out, Cut)

(* A request that is on its way is the next one, and finds the probe idle  *)
(* and its capability at hand; a child whose target was found, or whose    *)
(* probe failed, makes no other.  A child that stopped waiting was stopped.*)
Found == {m \in Commands : m.command = "prepared" => m.reply # "nothing"}
Unanswerable == {"none", "Returned", "Script", "TargetExited"}
Probing ==
  /\ sup.pc \in Loop /\ ~Pending => prep.worker = "none" /\ prep.probe
  /\ sup.pc \in Loop /\ Pending => prep.worker # "none"
  /\ Asked \/ Requested => child.linkSeq = sup.seq + 1
  /\ Pending \/ Answered \/ Replied \/ ~child.awaiting => child.linkSeq = sup.seq
  /\ prep.bound =>
       /\ ~Asked /\ ~Requested /\ ~Pending
       /\ \/ child.awaiting \/ child.reply \in {"target", "fault"} \/ child.bound
          \/ child.main \in Ended \cup {"settle"}
       /\ child.reply # "nothing"
       /\ Only(cmds, Found) /\ Only(pipe, Found)
  /\ child.awaiting =>
       \/ child.main = "wait"
       \/ /\ child.main \in Ended \cup {"settle"}
          /\ child.primary \notin Unanswerable /\ child.stop \notin {"none", "settled"}

(* The one stop names the cause that is latched in the Control, and a child*)
(* whose stdin ends has adopted it.                                        *)
Told(c) == {m \in Commands : m.command \in Reasons => m.command = c}
Causes ==
  /\ sup.stop = "none" /\ ~sup.forced =>
       child.reader = "on" /\ (child.exit = "none" => writer = "open" /\ sup.open)
  /\ Once(cmds, Stops)
  /\ Only(cmds, Told(ctl)) /\ Only(pipe, Told(ctl))
  /\ sup.fault \in Reasons => sup.fault = ctl
  /\ child.primary = "derived" => child.stop \in Reasons \cup {"derived"}
  /\ ~sup.cut =>
       /\ sup.stop # "none" => ctl = sup.stop
       /\ child.exit = "none" /\ sup.stop # "none" /\ child.reader = "on" =>
            Has(cmds, Stops) \/ Has(pipe, Stops)
       /\ child.exit = "none" /\ writer # "open" => sup.stop # "none" /\ ~Has(cmds, Stops)
       /\ child.stop \in Reasons => child.stop = ctl
       /\ child.reader # "on" => child.stop \notin {"none", "derived"}
       /\ child.primary \in Reasons => child.primary = ctl

(* Nothing that happens without a stop or a crash is a protocol fault.     *)
Quiet == /\ child.stop \in {"none", "settled"} /\ sup.stop = "none"
         /\ child.exit \in {"none", "ok"}
Calm == Quiet => writer # "failed" /\ sup.fault \in Reasons \cup {"none"}

(* The record is what the supervisor found when it returned.               *)
Account ==
  [status |-> IF CleanExit /\ PrimaryFault(sup.fault) = "none" THEN "PASS" ELSE "FAIL",
   primary |-> PrimaryFault(sup.fault), clean |-> CleanExit, accounted |-> Accounted(sup.fault),
   entered |-> sup.terminal /\ sup.entered, settled |-> ~prep.failure]
Refused == [NoRecord EXCEPT !.status = "FAIL", !.primary = ctl, !.clean = TRUE]
Recorded ==
  /\ sup.pc # "done" => record = NoRecord
  /\ sup.pc = "done" => \/ record = Refused /\ ctl # "none"
                        \/ record = Account /\ writer # "open" 

----------------------------------------------------------------------------
(* What the supervisor makes of a frame, part by part.                     *)

LEMMA ReceiveEffect ==
  ASSUME Types, NEW m \in Events, Receive(m)
  PROVE  /\ sup'.pc = sup.pc /\ sup'.cut = sup.cut /\ sup'.stop = sup.stop
         /\ sup'.forced = sup.forced /\ sup'.open = sup.open
         /\ ctl # "none" => ctl' = ctl
         /\ m \in Requests => ReceiveProbe(m)
         /\ m \notin Requests => prep' = prep /\ sup'.seq = sup.seq /\ sup'.pending = sup.pending
         /\ m \in Settlements => sup'.entry = m.primary
         /\ m \notin Settlements => sup'.entry = sup.entry
         /\ m \in Terminals => sup'.terminal /\ sup'.entered = m.entered /\ sup'.clean = m.clean
         /\ m \notin Terminals =>
              sup'.terminal = sup.terminal /\ sup'.entered = sup.entered /\ sup'.clean = sup.clean
         /\ m \in Started => sup'.built
         /\ m \notin Started => sup'.built = sup.built
  <1> USE DEF Named, Requests, Settlements, Terminals, Started
  <1>1. sup \in Supervisors /\ (ctl # "none" => Observed = ctl /\ First(ctl, "cancelled") = ctl)
    BY DEF Types, TypeOK, Observed, First
  <1>2. CASE m \in Requests
    <2>1. ReceiveProbe(m)
      BY <1>2 DEF Receive
    <2> QED
      BY <1>1, <1>2, <2>1 DEF ReceiveProbe, Supervisors
  <1>3. CASE m.event = "NativeTransition"
    BY <1>1, <1>3 DEF Receive, ReceiveTransition, Supervisors
  <1>4. CASE m \in Settlements
    <2>1. ReceiveSettlement(m)
      BY <1>4 DEF Receive
    <2> QED
      BY <1>1, <1>4, <2>1 DEF ReceiveSettlement, Supervisors
  <1>5. CASE m.event \in {"Incomplete", "ChildStarted", "StopRequested"}
    BY <1>1, <1>5 DEF Receive, Supervisors
  <1> QED
    BY <1>2, <1>3, <1>4, <1>5 DEF Events

(* An accepted request: its number is the next one, and the probe runs.    *)
LEMMA ProbeEffect ==
  ASSUME Types, NEW m \in Requests, ReceiveProbe(m)
  PROVE  \/ sup'.pending = sup.pending /\ sup'.seq = sup.seq /\ prep' = prep
         \/ /\ sup.pending = 0 /\ m.seq = sup.seq + 1 /\ sup.entry = "none" /\ CanRequest
            /\ sup'.pending = m.seq /\ sup'.seq = m.seq
            /\ prep' = [prep EXCEPT !.worker = "running", !.probe = FALSE]
  <1>1. sup \in Supervisors
    BY DEF Types, TypeOK
  <1> QED
    BY <1>1 DEF ReceiveProbe, Supervisors

(* The control reader touches the stop and the reply, and nothing else.    *)
LEMMA ReaderKeeps ==
  ASSUME Types, ReadCommand \/ ControlLost
  PROVE  /\ Alive /\ child.main # "boot"
         /\ out' = out /\ child'.main = child.main /\ child'.exit = child.exit
         /\ child'.linkSeq = child.linkSeq /\ child'.asking = child.asking
         /\ child'.bound = child.bound /\ child'.entered = child.entered
         /\ child'.primary = child.primary /\ child'.clean = child.clean
  <1>1. child \in Children
    BY DEF Types, TypeOK
  <1>2. CASE ControlLost
    BY <1>1, <1>2 DEF Children, ControlLost
  <1>3. CASE ReadCommand
    <2> DEFINE m == Head(pipe)
    <2>1. /\ out' = out /\ Alive /\ child.main # "boot"
          /\ \/ child' = [child EXCEPT !.stop = Inherit(@, m.command), !.reader = "adopted"]
             \/ child' = [child EXCEPT !.awaiting = FALSE, !.reply = m.reply]
             \/ child' = [child EXCEPT !.stop = First(@, "cancelled"), !.reader = "adopted",
                                       !.invalid = TRUE]
      BY <1>3 DEF ReadCommand
    <2> HIDE DEF m
    <2> QED
      BY <1>1, <2>1 DEF Children
  <1> QED
    BY <1>2, <1>3

----------------------------------------------------------------------------
(* Each part of the invariant is kept by every step.                       *)

LEMMA NextPhases == ASSUME Types, Phases, [Next]_vars PROVE Phases'
  <1> USE DEF Phases, Loop
  <1>1. /\ sup \in Supervisors /\ child \in Children /\ prep \in Probes
        /\ out \in Seq(Events)
    BY DEF Types, TypeOK
  <1>2. CASE UNCHANGED vars
    BY <1>2 DEF vars
  <1>3. CASE OperatorStop \/ (\E b \in Bounds : Pass(b)) \/ Write \/ WriterEnds
    BY <1>3 DEF OperatorStop, Pass, Write, WriterEnds
  <1>4. ASSUME NEW o \in Outcomes, ProbeReturns(o) PROVE Phases'
    BY <1>1, <1>4 DEF ProbeReturns
  <1>5. CASE ChildNext
    <2>1. Alive /\ UNCHANGED <<sup, prep>>
      BY <1>5, ChildTypes
    <2>2. child'.main # "none" /\ (child'.exit = "ok" => child'.main = "finished")
      <3>1. CASE Watchdog \/ ChildCrash
        <4>1. child' = [child EXCEPT !.exit = "124"] \/ child' = [child EXCEPT !.exit = "err"]
          BY <3>1 DEF Watchdog, ChildCrash, Dies
        <4> QED
          BY <1>1, <2>1, <4>1 DEF Children, Alive
      <3>2. CASE ReadCommand \/ ControlLost
        BY <2>1, <3>2, ReaderKeeps DEF Alive
      <3>3. CASE AnnounceStop \/ TakeReply \/ EnterWorkflow \/ \E p \in Endings : EntryEnds(p)
        BY <1>1, <2>1, <3>3 DEF Children, Alive, AnnounceStop, TakeReply, EnterWorkflow, EntryEnds
      <3>4. CASE ChildStarts \/ RequestTarget \/ CheckRequest \/ EmitRequest
        BY <1>1, <2>1, <3>4 DEF Children, Alive, ChildStarts, ChildStep, RequestTarget,
           CheckRequest, EmitRequest
      <3>5. CASE SettleEntry \/ ChildExits
                 \/ (\E why \in {"derived", "stage"} : ChildTimeout(why))
                 \/ \E clean \in BOOLEAN : Terminate(clean)
        BY ZenonT(60), <1>1, <2>1, <3>5 DEF Children, Alive, SettleEntry, ChildExits, ChildTimeout, Terminate
      <3> QED
        BY <1>5, <3>1, <3>2, <3>3, <3>4, <3>5 DEF ChildNext
    <2> QED
      BY <2>1, <2>2 DEF Alive
  <1>6. CASE SupNext
    <2>1. CASE Refuse
      BY <1>1, <2>1 DEF Refuse, Supervisors
    <2>2. CASE Spawn
      BY <1>1, <2>2 DEF Spawn, Supervisors, Children
    <2>3. CASE Drain \/ FinalDrain
      <3>1. out # <<>> /\ UNCHANGED child
        BY <2>3 DEF Drain, FinalDrain
      <3>2. Head(out) \in Events
        BY <1>1, <3>1, Headed
      <3>3. sup'.pc = sup.pc /\ sup'.forced = sup.forced
        BY <2>3, <3>2, ReceiveEffect DEF Drain, FinalDrain
      <3>4. FinalDrain => prep' = prep
        BY <3>2, ReceiveEffect DEF FinalDrain, Requests, Named
      <3> QED
        BY <1>1, <2>3, <3>1, <3>3, <3>4 DEF Drain, FinalDrain
    <2>4. CASE EndDrain \/ Poll \/ Reaped
      BY <1>1, <2>4 DEF EndDrain, Poll, Reaped, Supervisors
    <2>5. CASE Decide
      <3>1. PICK over \in BOOLEAN :
              /\ sup'.pc = IF over THEN "settle" ELSE "drain"
              /\ sup'.forced = over
              /\ IF over THEN Dies("killed") ELSE child' = child
        <4> DEFINE stop == IF StopDue THEN StopCause ELSE sup.stop
        <4>1. Overdue(stop) \in BOOLEAN
          BY DEF Overdue
        <4>2. /\ sup'.pc = IF Overdue(stop) THEN "settle" ELSE "drain"
              /\ sup'.forced = Overdue(stop)
          BY <1>1, <2>5 DEF Decide, Supervisors
        <4>3. IF Overdue(stop) THEN Dies("killed") ELSE child' = child
          BY <2>5 DEF Decide
        <4> QED
          BY <4>1, <4>2, <4>3
      <3>2. sup.pc = "decide" /\ child.exit = "none" /\ prep' = prep
        BY <2>5 DEF Decide
      <3>3. CASE over
        <4>1. child' = [child EXCEPT !.exit = "killed"]
          BY <3>1, <3>3 DEF Dies
        <4> QED
          BY <1>1, <3>1, <3>2, <3>3, <4>1 DEF Children
      <3>4. CASE ~over
        BY <1>1, <3>1, <3>2, <3>4
      <3> QED
        BY <3>3, <3>4
    <2>6. CASE CancelProbe \/ JoinProbe \/ Conclude
      BY ZenonT(60), <1>1, <2>6 DEF CancelProbe, JoinProbe, Conclude, Supervisors, Probes
    <2> QED
      BY <1>6, <2>1, <2>2, <2>3, <2>4, <2>5, <2>6 DEF SupNext
  <1> QED
    BY <1>2, <1>3, <1>4, <1>5, <1>6 DEF Next

----------------------------------------------------------------------------
(* One request at a time.                                                  *)

(* The queues after a step that adds no request and no reply.              *)
LEMMA FramesKept ==
  ASSUME Types, OneRequest, out' = out \/ \E e \in Events \ Requests : out' = Append(out, e)
  PROVE  /\ Has(out', Requests) => Has(out, Requests)
         /\ Once(out', Requests) /\ Only(out', Numbered(child.linkSeq))
  <1>1. out \in Seq(Events)
    BY DEF Types, TypeOK
  <1>2. CASE out' = out
    BY <1>2 DEF OneRequest
  <1>3. ASSUME NEW e \in Events \ Requests, out' = Append(out, e)
        PROVE  /\ Has(out', Requests) => Has(out, Requests)
               /\ Once(out', Requests) /\ Only(out', Numbered(child.linkSeq))
    <2>1. e \in Events /\ e \in Numbered(child.linkSeq) /\ e \notin Requests
      BY DEF Requests, Named, Numbered
    <2>2. Has(Append(out, e), Requests) => Has(out, Requests)
      BY <1>1, <2>1, Appended
    <2>3. Once(Append(out, e), Requests)
      BY <1>1, <2>1, Appended DEF OneRequest
    <2>4. Only(Append(out, e), Numbered(child.linkSeq))
      BY <1>1, <2>1, Appended DEF OneRequest
    <2> QED
      BY <1>3, <2>2, <2>3, <2>4
  <1> QED
    BY <1>2, <1>3

(* Only the forwarding thread emits a request.                             *)
LEMMA ChildEmits ==
  ASSUME Types, ChildNext, ~EmitRequest
  PROVE  out' = out \/ \E e \in Events \ Requests : out' = Append(out, e)
  <1> USE DEF Requests, Named
  <1>1. CASE ChildStarts
    <2>1. Event("ChildStarted") \in Events \ Requests
      BY EventTypes DEF Event
    <2> QED
      BY <1>1, <2>1 DEF ChildStarts, Emit
  <1>2. CASE AnnounceStop
    <2>1. Event("StopRequested") \in Events \ Requests
      BY EventTypes DEF Event
    <2> QED
      BY <1>2, <2>1 DEF AnnounceStop, Emit
  <1>3. CASE EnterWorkflow
    <2>1. Event("NativeTransition") \in Events \ Requests
      BY EventTypes DEF Event
    <2> QED
      BY <1>3, <2>1 DEF EnterWorkflow, Emit
  <1>4. CASE SettleEntry
    <2>1. [Event("EntrySettled") EXCEPT !.primary = SettledPrimary] \in Events \ Requests
      BY EventTypes, PrimaryTypes DEF Event
    <2> QED
      BY <1>4, <2>1 DEF SettleEntry, Emit
  <1>5. ASSUME NEW clean \in BOOLEAN, Terminate(clean)
        PROVE  \E e \in Events \ Requests : out' = Append(out, e)
    <2> DEFINE e == [Event("Terminal") EXCEPT !.primary = child.primary,
                                              !.entered = child.entered, !.clean = clean]
    <2>1. child.primary \in Published /\ child.entered \in BOOLEAN
      BY <1>5 DEF Terminate, Types, TypeOK, SettledLate, Children, Published, Ended
    <2>2. e \in Events \ Requests
      BY <2>1, EventTypes DEF Event
    <2>3. out' = Append(out, e)
      BY <1>5 DEF Terminate, Emit
    <2> QED
      BY <2>2, <2>3
  <1>6. CASE Watchdog \/ ChildCrash
    <2>1. PICK code \in {"124", "err"} : Dies(code)
      BY <1>6 DEF Watchdog, ChildCrash
    <2>2. out' = out \/ out' = Append(out, Event("Incomplete"))
      BY <2>1, DiesTypes
    <2>3. Event("Incomplete") \in Events \ Requests
      BY EventTypes DEF Event
    <2> QED
      BY <2>2, <2>3
  <1>7. CASE RequestTarget \/ CheckRequest \/ ReadCommand \/ ControlLost \/ TakeReply \/ ChildExits
             \/ (\E why \in {"derived", "stage"} : ChildTimeout(why))
             \/ \E p \in Endings : EntryEnds(p)
    BY <1>7 DEF RequestTarget, CheckRequest, ReadCommand, ControlLost, TakeReply, ChildExits,
       ChildTimeout, EntryEnds
  <1> QED
    BY <1>1, <1>2, <1>3, <1>4, <1>5, <1>6, <1>7 DEF ChildNext

(* The request moves from the child's main thread to the forwarding thread,*)
(* to the frames, and back as the reply that the reader takes.             *)
LEMMA ChildOneRequest == ASSUME Types, OneRequest, ChildNext PROVE OneRequest'
  <1>1. /\ Alive /\ sup' = sup /\ cmds' = cmds
        /\ child \in Children /\ out \in Seq(Events) /\ pipe \in Seq(Commands)
    BY ChildTypes DEF Types, TypeOK
  <1>2. CASE RequestTarget
    <2>1. /\ out' = out /\ pipe' = pipe /\ ~child.awaiting /\ child.reply = "none"
          /\ child'.awaiting /\ child'.asking = "asked" /\ child'.reply = "none"
          /\ child'.invalid = child.invalid
      BY <1>1, <1>2 DEF RequestTarget, Children
    <2>2. ~Has(out, Requests) /\ ~Has(cmds, Replies) /\ ~Has(pipe, Replies) /\ sup.pending = 0
      BY <2>1 DEF OneRequest, Requested, Answered, Replied, Pending
    <2>3. /\ Only(out, Numbered(child'.linkSeq))
          /\ Only(cmds, Answers(child'.linkSeq)) /\ Only(pipe, Answers(child'.linkSeq))
      <3>1. /\ \A m \in Events : m \in Requests \/ m \in Numbered(child'.linkSeq)
            /\ \A m \in Commands : m \in Replies \/ m \in Answers(child'.linkSeq)
        BY DEF Numbered, Answers, Requests, Replies, Named
      <3>2. Only(out, Numbered(child'.linkSeq))
        BY <1>1, <2>2, <3>1, Without
      <3>3. cmds \in Seq(Commands)
        BY DEF Types, TypeOK
      <3>4. Only(cmds, Answers(child'.linkSeq))
        BY <2>2, <3>1, <3>3, Without
      <3>5. Only(pipe, Answers(child'.linkSeq))
        BY <1>1, <2>2, <3>1, Without
      <3> QED
        BY <3>2, <3>4, <3>5
    <2> QED
      BY <1>1, <2>1, <2>2, <2>3 DEF OneRequest, Asked, Requested, Pending, Answered, Replied
  <1>3. CASE EmitRequest
    <2> DEFINE e == [Event("TargetProbe") EXCEPT !.seq = child.linkSeq]
    <2>1. e \in Events /\ e \in Requests /\ e \in Numbered(child.linkSeq)
      BY <1>1, EventTypes DEF Children, Requests, Named, Numbered, Event
    <2>2. /\ out' = Append(out, e) /\ pipe' = pipe /\ child.asking = "checked"
          /\ child'.asking = "idle" /\ child'.awaiting = child.awaiting
          /\ child'.reply = child.reply /\ child'.linkSeq = child.linkSeq
          /\ child'.invalid = child.invalid
      BY <1>1, <1>3 DEF EmitRequest, Emit, Children
    <2> HIDE DEF e
    <2>3. /\ ~Has(out, Requests) /\ ~Has(cmds, Replies) /\ ~Has(pipe, Replies) /\ sup.pending = 0
          /\ child.awaiting
      BY <2>2 DEF OneRequest, Asked, Requested, Answered, Replied, Pending
    <2>4. Once(Append(out, e), Requests) /\ Only(Append(out, e), Numbered(child.linkSeq))
      BY <1>1, <2>1, <2>3, Appended DEF OneRequest
    <2> QED
      BY <1>1, <2>2, <2>3, <2>4 DEF OneRequest, Asked, Requested, Pending, Answered, Replied
  <1>4. CASE ReadCommand
    <2> DEFINE m == Head(pipe)
    <2>1. pipe # <<>> /\ pipe' = Tail(pipe) /\ out' = out /\ m \in Commands
      BY <1>1, <1>4, Headed DEF ReadCommand
    <2>2. /\ child'.asking = child.asking /\ child'.linkSeq = child.linkSeq
          /\ m \notin Replies =>
               child'.awaiting = child.awaiting /\ child'.reply = child.reply
               /\ child'.invalid = child.invalid
          /\ m \in Replies /\ Accepts(m) =>
               ~child'.awaiting /\ child'.invalid = child.invalid
      BY <1>1, <1>4, <2>1 DEF ReadCommand, Children, Replies
    <2>3. /\ Has(Tail(pipe), Replies) => Has(pipe, Replies)
          /\ Once(Tail(pipe), Replies) /\ Only(Tail(pipe), Answers(child.linkSeq))
          /\ m \in Answers(child.linkSeq)
          /\ m \in Replies => Has(pipe, Replies) /\ ~Has(Tail(pipe), Replies)
      BY <1>1, <2>1, Headed DEF OneRequest
    <2>4. CASE m \notin Replies
      <3> HIDE DEF m
      <3> QED
        BY <1>1, <2>1, <2>2, <2>3, <2>4 DEF OneRequest, Asked, Requested, Pending, Answered, Replied
    <2>5. CASE m \in Replies
      <3>1. Accepts(m)
        BY <2>3, <2>5 DEF OneRequest, Replied, Accepts, Answers, Replies
      <3> HIDE DEF m
      <3> QED
        BY <1>1, <2>1, <2>2, <2>3, <2>5, <3>1
        DEF OneRequest, Asked, Requested, Pending, Answered, Replied
    <2> QED
      BY <2>4, <2>5
  <1>5. CASE ~RequestTarget /\ ~EmitRequest /\ ~ReadCommand
    <2>1. /\ Has(out', Requests) => Has(out, Requests)
          /\ Once(out', Requests) /\ Only(out', Numbered(child.linkSeq))
      BY <1>5, ChildEmits, FramesKept
    <2>2. /\ pipe' = pipe
          /\ child'.asking \in {child.asking, "idle", "checked"}
          /\ (child.asking = "idle" => child'.asking = "idle")
          /\ child'.awaiting = child.awaiting /\ child'.linkSeq = child.linkSeq
          /\ child'.invalid = child.invalid /\ child'.reply \in {child.reply, "none"}
      <3>1. CASE ChildStarts \/ CheckRequest \/ ControlLost \/ AnnounceStop \/ TakeReply
                 \/ (\E why \in {"derived", "stage"} : ChildTimeout(why)) \/ EnterWorkflow
        BY <1>1, <3>1 DEF Children, ChildStarts, ChildStep, CheckRequest, ControlLost,
           AnnounceStop, TakeReply, ChildTimeout, EnterWorkflow
      <3>2. CASE (\E p \in Endings : EntryEnds(p)) \/ SettleEntry
                 \/ (\E clean \in BOOLEAN : Terminate(clean)) \/ ChildExits
                 \/ Watchdog \/ ChildCrash
        BY <1>1, <3>2 DEF Children, EntryEnds, SettleEntry, Terminate, ChildExits, Watchdog,
           ChildCrash, Dies
      <3> QED
        BY <1>5, <3>1, <3>2 DEF ChildNext
    <2> QED
      BY <1>1, <2>1, <2>2 DEF OneRequest, Asked, Requested, Pending, Answered, Replied
  <1> QED
    BY <1>2, <1>3, <1>4, <1>5

(* One round of the loop ends with a stop that is due, and with a kill when*)
(* the child has overrun a bound.                                          *)
LEMMA DecideEffect ==
  ASSUME Types, Decide
  PROVE  /\ sup.pc = "decide" /\ child.exit = "none"
         /\ UNCHANGED <<due, prep, writer, pipe, record>>
         /\ sup'.stop = IF StopDue THEN StopCause ELSE sup.stop
         /\ sup'.open = (sup.open /\ ~StopDue /\ ~sup'.forced)
         /\ sup'.cut = sup.cut /\ sup'.seq = sup.seq /\ sup'.pending = sup.pending
         /\ sup'.entry = sup.entry /\ sup'.fault = sup.fault /\ sup'.terminal = sup.terminal
         /\ sup'.entered = sup.entered /\ sup'.clean = sup.clean /\ sup'.built = sup.built
         /\ sup'.sawStop = sup.sawStop
         /\ sup.stop # "none" => ctl' = ctl
         /\ sup.stop = "none" =>
              ctl' = IF StopDue /\ ~sup.cut THEN StopCause ELSE Observed
         /\ IF StopDue /\ ~sup.cut /\ Len(cmds) < CmdCapacity
            THEN cmds' = Append(cmds, Stop(StopCause)) ELSE cmds' = cmds
         /\ lost' = (lost \/ (StopDue /\ ~sup.cut /\ ~(Len(cmds) < CmdCapacity)))
         /\ sup'.forced =>
              /\ sup'.pc = "settle" /\ child' = [child EXCEPT !.exit = "killed"]
              /\ out' = out \/ out' = Append(out, Event("Incomplete"))
         /\ ~sup'.forced => sup'.pc = "drain" /\ child' = child /\ out' = out
  <1> DEFINE stop == IF StopDue THEN StopCause ELSE sup.stop
             over == Overdue(stop)
  <1>1. sup \in Supervisors /\ StopDue \in BOOLEAN /\ over \in BOOLEAN
    BY DEF Types, TypeOK, StopDue, Overdue
  <1>2. sup' = [sup EXCEPT !.stop = stop, !.open = sup.open /\ ~StopDue /\ ~over,
                           !.forced = over, !.pc = IF over THEN "settle" ELSE "drain"]
    BY DEF Decide
  <1>3. IF over THEN Dies("killed") ELSE UNCHANGED <<child, out>>
    BY DEF Decide
  <1>4. /\ sup.pc = "decide" /\ child.exit = "none"
        /\ UNCHANGED <<due, prep, writer, pipe, record>>
    BY DEF Decide
  <1>5. ctl' = IF sup.stop # "none" THEN ctl
               ELSE IF StopDue /\ ~sup.cut THEN First(Observed, stop) ELSE Observed
    BY DEF Decide
  <1>6. /\ IF StopDue /\ ~sup.cut /\ Len(cmds) < CmdCapacity
           THEN cmds' = Append(cmds, Stop(stop)) ELSE cmds' = cmds
        /\ lost' = (lost \/ (StopDue /\ ~sup.cut /\ ~(Len(cmds) < CmdCapacity)))
    BY DEF Decide
  <1>7. StopDue => stop = StopCause /\ First(Observed, stop) = StopCause
    BY DEF First, StopCause
  <1>8. StopDue => sup.stop = "none"
    BY DEF StopDue
  <1> HIDE DEF stop, over
  <1>9. /\ sup'.forced = over /\ sup'.pc = (IF over THEN "settle" ELSE "drain")
        /\ sup'.stop = stop /\ sup'.open = (sup.open /\ ~StopDue /\ ~over)
        /\ sup'.cut = sup.cut /\ sup'.seq = sup.seq /\ sup'.pending = sup.pending
        /\ sup'.entry = sup.entry /\ sup'.fault = sup.fault /\ sup'.terminal = sup.terminal
        /\ sup'.entered = sup.entered /\ sup'.clean = sup.clean /\ sup'.built = sup.built
        /\ sup'.sawStop = sup.sawStop
    BY <1>1, <1>2 DEF Supervisors
  <1>10. over => /\ child' = [child EXCEPT !.exit = "killed"]
                 /\ out' = out \/ out' = Append(out, Event("Incomplete"))
    BY <1>3, DiesTypes
  <1>11. stop = IF StopDue THEN StopCause ELSE sup.stop
    BY DEF stop
  <1>12. ~over => child' = child /\ out' = out
    BY <1>3
  <1>13. /\ over => sup'.pc = "settle"
         /\ ~over => sup'.pc = "drain"
    BY <1>9
  <1>14. IF StopDue /\ ~sup.cut /\ Len(cmds) < CmdCapacity
         THEN cmds' = Append(cmds, Stop(StopCause)) ELSE cmds' = cmds
    BY <1>6, <1>7
  <1>15. /\ sup.stop # "none" => ctl' = ctl
         /\ sup.stop = "none" => ctl' = IF StopDue /\ ~sup.cut THEN StopCause ELSE Observed
    BY <1>5, <1>7
  <1> QED
    BY <1>4, <1>6, <1>9, <1>10, <1>11, <1>12, <1>13, <1>14, <1>15

(* A finished probe is collected, and answers the request that waits for it*)
(* unless the entry has settled or a stop was sent.                        *)
Finished == sup.pending # 0 /\ prep.worker \in Outcomes
Replying == Finished /\ sup.entry = "none" /\ sup.stop = "none"
LEMMA PollEffect ==
  ASSUME Types, Poll
  PROVE  /\ sup.pc = "poll" /\ sup'.pc = "decide"
         /\ UNCHANGED <<ctl, due, writer, pipe, out, child, record>>
         /\ prep' = IF Finished THEN Collected ELSE prep
         /\ sup'.pending = IF Finished THEN 0 ELSE sup.pending
         /\ sup'.cut = sup.cut /\ sup'.seq = sup.seq /\ sup'.stop = sup.stop
         /\ sup'.entry = sup.entry /\ sup'.terminal = sup.terminal
         /\ sup'.entered = sup.entered /\ sup'.clean = sup.clean /\ sup'.built = sup.built
         /\ sup'.sawStop = sup.sawStop /\ sup'.open = sup.open /\ sup'.forced = sup.forced
         /\ IF Replying /\ Len(cmds) < CmdCapacity
            THEN cmds' = Append(cmds, Prepared(sup.pending, prep.worker)) ELSE cmds' = cmds
         /\ lost' = (lost \/ (Replying /\ ~(Len(cmds) < CmdCapacity)))
         /\ sup'.fault = IF Replying /\ ~(Len(cmds) < CmdCapacity) THEN "Transport" ELSE sup.fault
  <1>1. sup \in Supervisors
    BY DEF Types, TypeOK
  <1> QED
    BY <1>1 DEF Poll, Finished, Replying, Answer, Supervisors

(* The supervisor takes the request off the frames and puts the answer in  *)
(* the command channel.                                                    *)
LEMMA SupOneRequest == ASSUME Types, OneRequest, SupNext PROVE OneRequest'
  <1>1. /\ sup \in Supervisors /\ child \in Children /\ prep \in Probes
        /\ out \in Seq(Events) /\ cmds \in Seq(Commands)
    BY DEF Types, TypeOK
  <1>2. CASE Drain \/ FinalDrain
    <2> DEFINE m == Head(out)
    <2>1. /\ out # <<>> /\ out' = Tail(out) /\ UNCHANGED <<cmds, pipe, child>>
      BY <1>2 DEF Drain, FinalDrain
    <2>2. m \in Events
      BY <1>1, <2>1, Headed
    <2>3. /\ Has(Tail(out), Requests) => Has(out, Requests)
          /\ Once(Tail(out), Requests) /\ Only(Tail(out), Numbered(child.linkSeq))
          /\ m \in Requests => Has(out, Requests) /\ ~Has(Tail(out), Requests)
          /\ m \in Numbered(child.linkSeq)
      BY <1>1, <2>1, Headed DEF OneRequest
    <2>4. \/ sup'.pending = sup.pending
          \/ m \in Requests /\ sup'.pending = m.seq /\ sup.pending = 0
      <3>1. CASE Receive(m) /\ m \in Requests
        <4>1. ReceiveProbe(m)
          BY <2>2, <3>1, ReceiveEffect
        <4> QED
          BY <3>1, <4>1, ProbeEffect
      <3>2. CASE Receive(m) /\ m \notin Requests
        BY <2>2, <3>2, ReceiveEffect
      <3>3. CASE sup' = sup
        BY <3>3
      <3> QED
        BY <1>2, <3>1, <3>2, <3>3 DEF Drain, FinalDrain
    <2> HIDE DEF m
    <2>5. CASE sup'.pending = sup.pending
      BY <2>1, <2>3, <2>5 DEF OneRequest, Asked, Requested, Pending, Answered, Replied
    <2>6. CASE m \in Requests /\ sup'.pending = m.seq
      <3>1. m.seq = child.linkSeq
        BY <2>3, <2>6 DEF Numbered, Requests, Named
      <3> QED
        BY <2>1, <2>3, <2>6, <3>1 DEF OneRequest, Asked, Requested, Pending, Answered, Replied
    <2> QED
      BY <2>4, <2>5, <2>6
  <1>3. CASE Poll
    <2>1. /\ UNCHANGED <<pipe, out, child>>
          /\ sup'.pending = IF Finished THEN 0 ELSE sup.pending
          /\ IF Replying /\ Len(cmds) < CmdCapacity
             THEN cmds' = Append(cmds, Prepared(sup.pending, prep.worker)) ELSE cmds' = cmds
      BY <1>3, PollEffect
    <2>2. CASE Replying /\ Len(cmds) < CmdCapacity
      <3> DEFINE e == Prepared(sup.pending, prep.worker)
      <3>1. e \in Commands /\ e \in Replies
        BY <1>1, <2>2, CommandTypes DEF Replying, Finished, Supervisors, Prepared, Replies
      <3>2. Pending /\ sup'.pending = 0 /\ cmds' = Append(cmds, e)
        BY <2>1, <2>2 DEF Replying, Finished, Pending
      <3>3. sup.pending = child.linkSeq /\ ~Has(cmds, Replies)
        BY <3>2 DEF OneRequest, Answered
      <3>4. e \in Answers(child.linkSeq)
        BY <3>1, <3>3 DEF Answers, Prepared
      <3> HIDE DEF e
      <3>5. /\ Once(Append(cmds, e), Replies) /\ Only(Append(cmds, e), Answers(child.linkSeq))
        BY <1>1, <3>1, <3>3, <3>4, Appended DEF OneRequest
      <3> QED
        BY <2>1, <3>2, <3>3, <3>5 DEF OneRequest, Asked, Requested, Pending, Answered, Replied
    <2>3. CASE cmds' = cmds
      BY <2>1, <2>3 DEF OneRequest, Asked, Requested, Pending, Answered, Replied
    <2> QED
      BY <2>1, <2>2, <2>3
  <1>4. CASE Decide
    <2>1. /\ pipe' = pipe /\ sup'.pending = sup.pending
          /\ child' = child \/ child' = [child EXCEPT !.exit = "killed"]
          /\ out' = out \/ out' = Append(out, Event("Incomplete"))
          /\ cmds' = cmds \/ cmds' = Append(cmds, Stop(StopCause))
      BY <1>4, DecideEffect
    <2>2. /\ child'.asking = child.asking /\ child'.awaiting = child.awaiting
          /\ child'.linkSeq = child.linkSeq /\ child'.invalid = child.invalid
          /\ child'.reply = child.reply
      BY <1>1, <2>1 DEF Children
    <2>3. Event("Incomplete") \in Events \ Requests
      BY EventTypes DEF Event, Requests, Named
    <2>4. /\ Has(out', Requests) => Has(out, Requests)
          /\ Once(out', Requests) /\ Only(out', Numbered(child.linkSeq))
      BY <2>1, <2>3, FramesKept
    <2>5. /\ Has(cmds', Replies) => Has(cmds, Replies)
          /\ Once(cmds', Replies) /\ Only(cmds', Answers(child.linkSeq))
      <3> DEFINE e == Stop(StopCause)
      <3>1. e \in Commands /\ e \notin Replies /\ e \in Answers(child.linkSeq)
        BY CommandTypes, ObservedType DEF Stop, Replies, Answers, Reasons
      <3> HIDE DEF e
      <3>2. /\ Has(Append(cmds, e), Replies) => Has(cmds, Replies)
            /\ Once(Append(cmds, e), Replies) /\ Only(Append(cmds, e), Answers(child.linkSeq))
        BY <1>1, <3>1, Appended DEF OneRequest
      <3> QED
        BY <2>1, <3>2 DEF OneRequest, e
    <2> QED
      BY <2>1, <2>2, <2>4, <2>5 DEF OneRequest, Asked, Requested, Pending, Answered, Replied
  <1>5. CASE Refuse \/ Spawn \/ EndDrain \/ Reaped \/ CancelProbe \/ JoinProbe \/ Conclude
    <2>1. UNCHANGED <<out, cmds, pipe>> /\ sup'.pending = sup.pending
      BY <1>1, <1>5 DEF Supervisors, Refuse, Spawn, EndDrain, Reaped, CancelProbe, JoinProbe, Conclude
    <2>2. /\ child'.asking = child.asking /\ child'.awaiting = child.awaiting
          /\ child'.linkSeq = child.linkSeq /\ child'.invalid = child.invalid
          /\ child'.reply = child.reply
      BY <1>1, <1>5 DEF Children, Refuse, Spawn, EndDrain, Reaped, CancelProbe, JoinProbe, Conclude
    <2> QED
      BY <2>1, <2>2 DEF OneRequest, Asked, Requested, Pending, Answered, Replied
  <1> QED
    BY <1>2, <1>3, <1>4, <1>5 DEF SupNext

(* The writer moves the answer from the channel to the child's stdin.      *)
LEMMA WriterOneRequest == ASSUME Types, OneRequest, Write \/ WriterEnds PROVE OneRequest'
  <1>1. cmds \in Seq(Commands) /\ pipe \in Seq(Commands) /\ UNCHANGED <<sup, out, child>>
    BY WriterTypes DEF Types, TypeOK
  <1>2. CASE WriterEnds
    BY <1>1, <1>2 DEF WriterEnds, OneRequest, Asked, Requested, Pending, Answered, Replied
  <1>3. CASE Write
    <2> DEFINE m == Head(cmds)
    <2>1. cmds # <<>> /\ cmds' = Tail(cmds) /\ (pipe' = pipe \/ pipe' = Append(pipe, m))
      BY <1>3 DEF Write
    <2>2. /\ m \in Commands
          /\ Has(Tail(cmds), Replies) => Has(cmds, Replies)
          /\ Once(Tail(cmds), Replies) /\ Only(Tail(cmds), Answers(child.linkSeq))
          /\ m \in Answers(child.linkSeq)
          /\ m \in Replies => Has(cmds, Replies) /\ ~Has(Tail(cmds), Replies)
      BY <1>1, <2>1, Headed DEF OneRequest
    <2> HIDE DEF m
    <2>3. m \in Replies => ~Has(pipe, Replies)
      BY <2>2 DEF OneRequest, Answered, Replied
    <2>4. /\ Has(Append(pipe, m), Replies) <=> Has(pipe, Replies) \/ m \in Replies
          /\ Once(Append(pipe, m), Replies) /\ Only(Append(pipe, m), Answers(child.linkSeq))
      BY <1>1, <2>2, <2>3, Appended DEF OneRequest
    <2> QED
      BY <1>1, <2>1, <2>2, <2>3, <2>4 DEF OneRequest, Asked, Requested, Pending, Answered, Replied
  <1> QED
    BY <1>2, <1>3

LEMMA NextOneRequest == ASSUME Types, OneRequest, [Next]_vars PROVE OneRequest'
  <1>1. CASE UNCHANGED vars
    BY <1>1 DEF vars, OneRequest, Asked, Requested, Pending, Answered, Replied
  <1>2. CASE OperatorStop \/ (\E b \in Bounds : Pass(b)) \/ \E o \in Outcomes : ProbeReturns(o)
    <2>1. UNCHANGED <<sup, cmds, pipe, out, child>>
      BY <1>2 DEF OperatorStop, Pass, ProbeReturns
    <2> QED
      BY <2>1 DEF OneRequest, Asked, Requested, Pending, Answered, Replied
  <1> QED
    BY <1>1, <1>2, SupOneRequest, WriterOneRequest, ChildOneRequest DEF Next

----------------------------------------------------------------------------
(* The channel has room for the one answer and for the one stop.           *)

LEMMA NextRoomy ==
  ASSUME CmdCapacity >= 2, Types, OneRequest, Roomy, [Next]_vars PROVE Roomy'
  <1>1. /\ sup \in Supervisors /\ child \in Children /\ CmdCapacity \in Nat
        /\ out \in Seq(Events) /\ cmds \in Seq(Commands) /\ pipe \in Seq(Commands)
    BY SupervisionAssumption DEF Types, TypeOK
  <1>2. CASE UNCHANGED vars
    BY <1>2 DEF vars, Roomy
  <1>3. CASE OperatorStop \/ (\E b \in Bounds : Pass(b)) \/ \E o \in Outcomes : ProbeReturns(o)
    <2>1. UNCHANGED <<sup, cmds, pipe, lost>>
      BY <1>3 DEF OperatorStop, Pass, ProbeReturns
    <2> QED
      BY <2>1 DEF Roomy
  <1>4. CASE Drain \/ FinalDrain
    <2>1. out # <<>> /\ UNCHANGED <<cmds, pipe, lost>>
      BY <1>4 DEF Drain, FinalDrain
    <2>2. Head(out) \in Events
      BY <1>1, <2>1, Headed
    <2>3. sup'.stop = sup.stop
      BY <1>4, <2>2, ReceiveEffect DEF Drain, FinalDrain
    <2> QED
      BY <2>1, <2>3 DEF Roomy
  <1>5. CASE Poll
    <2>1. CASE Replying
      <3> DEFINE e == Prepared(sup.pending, prep.worker)
      <3>1. ~Has(cmds, Replies) /\ ~Has(cmds, Stops) /\ ~Has(pipe, Stops)
        BY <2>1 DEF Replying, Finished, OneRequest, Pending, Answered, Roomy
      <3>2. Only(cmds, Stops)
        BY <1>1, <3>1, Without DEF Stops, Replies
      <3>3. cmds = <<>>
        BY <1>1, <3>1, <3>2, Sized
      <3>4. Len(cmds) = 0 /\ Len(cmds) < CmdCapacity
        BY <1>1, <3>3, EmptySeq
      <3>5. cmds' = Append(cmds, e) /\ ~lost' /\ pipe' = pipe /\ sup'.stop = sup.stop
        BY <1>5, <2>1, <3>4, PollEffect DEF Roomy
      <3>6. e \in Commands /\ e \notin Stops
        BY <1>1, <2>1, CommandTypes DEF Replying, Finished, Supervisors, Prepared, Stops
      <3> HIDE DEF e
      <3>7. ~Has(Append(cmds, e), Stops)
        BY <1>1, <3>1, <3>6, Appended
      <3> QED
        BY <3>1, <3>5, <3>7 DEF Roomy
    <2>2. CASE ~Replying
      BY <1>5, <2>2, PollEffect DEF Roomy
    <2> QED
      BY <2>1, <2>2
  <1>6. CASE Decide
    <2>1. CASE StopDue
      <3>1. ~Has(cmds, Stops) /\ StopCause # "none" /\ Once(cmds, Replies)
        BY <2>1, ObservedType DEF Roomy, StopDue, OneRequest, Reasons
      <3>2. Only(cmds, Replies)
        BY <1>1, <3>1, Without DEF Stops, Replies
      <3>3. Len(cmds) <= 1
        BY <1>1, <3>1, <3>2, Sized
      <3>4. Len(cmds) < CmdCapacity
        BY <1>1, <3>3, LenProperties
      <3>5. ~lost' /\ sup'.stop # "none"
        BY <1>6, <2>1, <3>1, <3>4, DecideEffect DEF Roomy
      <3> QED
        BY <3>5 DEF Roomy
    <2>2. CASE ~StopDue
      BY <1>6, <2>2, DecideEffect DEF Roomy
    <2> QED
      BY <2>1, <2>2
  <1>7. CASE Refuse \/ Spawn \/ EndDrain \/ Reaped \/ CancelProbe \/ JoinProbe \/ Conclude
    <2>1. UNCHANGED <<cmds, pipe, lost>> /\ sup'.stop = sup.stop
      BY <1>1, <1>7 DEF Supervisors, Refuse, Spawn, EndDrain, Reaped, CancelProbe, JoinProbe, Conclude
    <2> QED
      BY <2>1 DEF Roomy
  <1>8. CASE WriterEnds
    BY <1>8 DEF WriterEnds, Roomy
  <1>9. CASE Write
    <2> DEFINE m == Head(cmds)
    <2>1. /\ cmds # <<>> /\ cmds' = Tail(cmds) /\ (pipe' = pipe \/ pipe' = Append(pipe, m))
          /\ UNCHANGED <<sup, lost>>
      BY <1>9 DEF Write
    <2>2. m \in Commands /\ (Has(cmds, Stops) <=> m \in Stops \/ Has(Tail(cmds), Stops))
      BY <1>1, <2>1, Headed
    <2> HIDE DEF m
    <2>3. Has(Append(pipe, m), Stops) <=> Has(pipe, Stops) \/ m \in Stops
      BY <1>1, <2>2, Appended
    <2> QED
      BY <2>1, <2>2, <2>3 DEF Roomy
  <1>10. CASE ChildNext
    <2>1. UNCHANGED <<sup, cmds, lost>>
      BY <1>10, ChildTypes
    <2>2. pipe' = pipe \/ (pipe # <<>> /\ pipe' = Tail(pipe))
      BY <1>10 DEF ChildNext, ChildStarts, ChildStep, RequestTarget, CheckRequest, EmitRequest,
         ReadCommand, ControlLost, AnnounceStop, ChildTimeout, TakeReply, EnterWorkflow,
         EntryEnds, SettleEntry, Terminate, ChildExits, Watchdog, ChildCrash
    <2>3. Has(pipe', Stops) => Has(pipe, Stops)
      BY <1>1, <2>2, Headed
    <2> QED
      BY <2>1, <2>3 DEF Roomy
  <1> QED
    BY <1>2, <1>3, <1>4, <1>5, <1>6, <1>7, <1>8, <1>9, <1>10 DEF Next, SupNext

----------------------------------------------------------------------------
(* The frames tell the truth about the child, in the order it wrote them.  *)

LEMMA InOrderAppended ==
  ASSUME NEW s \in Seq(Events), NEW e \in Events, InOrder(s),
         e \in Terminals => ~Has(s, Terminals),
         e \in Started => ~Has(s, Started) /\ ~Has(s, Terminals),
         e \in Natives => ~Has(s, Settlements)
  PROVE  InOrder(Append(s, e))
  BY Appended DEF InOrder

LEMMA InOrderTail ==
  ASSUME NEW s \in Seq(Events), s # <<>>, InOrder(s)
  PROVE  /\ InOrder(Tail(s))
         /\ Head(s) \in Terminals => ~Has(Tail(s), Terminals) /\ ~Has(Tail(s), Started)
         /\ Head(s) \in Started => ~Has(Tail(s), Started)
         /\ Head(s) \in Settlements => ~Has(Tail(s), Natives)
  BY Headed DEF InOrder

(* A child that has settled changes nothing that it has reported.          *)
LEMMA FaithfulGrows ==
  ASSUME Types, Only(out, Faithful),
         child.main \in Ended => child'.main \in Ended /\ child'.primary = child.primary,
         child.main \in {"finished", "parked"} =>
           child'.main = child.main /\ child'.entered = child.entered /\ child'.clean = child.clean
  PROVE  Only(out, Faithful')
  <1>1. out \in Seq(Events)
    BY DEF Types, TypeOK
  <1>2. \A m \in Events : m \in Faithful => m \in Faithful'
    BY DEF Faithful, Ended
  <1> QED
    BY <1>1, <1>2, Widened

(* Before the entry is published, no frame tells of it.                    *)
LEMMA NotYetTold ==
  ASSUME Types, Frames
  PROVE  /\ child.main \notin Ended => ~Has(out, Settlements) /\ ~Has(out, Terminals)
         /\ child.main = "clean" => ~Has(out, Terminals)
  BY DEF Frames, Only, Has, Faithful, Settlements, Terminals, Named, Ended

LEMMA ChildFrames == ASSUME Types, Frames, ChildNext PROVE Frames'
  <1>1. /\ Alive /\ sup' = sup
        /\ child \in Children /\ out \in Seq(Events) /\ SettledLate
    BY ChildTypes DEF Types, TypeOK
  <1> USE DEF Started, Natives, Settlements, Terminals, Cut, Named
  <1>2. CASE RequestTarget \/ CheckRequest \/ ReadCommand \/ ControlLost \/ TakeReply \/ ChildExits
             \/ (\E why \in {"derived", "stage"} : ChildTimeout(why))
             \/ \E p \in Endings : EntryEnds(p)
    <2>1. /\ out' = out
          /\ child.main \in Ended =>
               /\ child'.main = child.main /\ child'.primary = child.primary
               /\ child'.entered = child.entered /\ child'.clean = child.clean
          /\ child.main \notin {"none", "boot"} /\ child'.main \notin {"none", "boot"}
          /\ child'.main \in {"none", "boot", "run", "wait"} <=> child'.primary = "none"
          /\ child.exit \in {"none", "ok"}
      <3>1. CASE RequestTarget \/ CheckRequest
        BY ZenonT(60), <1>1, <3>1 DEF Frames, Children, Alive, Ended, RequestTarget, CheckRequest
      <3>2. CASE ReadCommand \/ ControlLost
        BY <1>1, <3>2, ReaderKeeps DEF Frames, Alive, Ended
      <3>3. CASE TakeReply
        BY <1>1, <3>3 DEF Frames, Children, Alive, Ended, TakeReply
      <3>4. CASE ChildExits \/ \E why \in {"derived", "stage"} : ChildTimeout(why)
        BY <1>1, <3>4 DEF Frames, Children, Alive, Ended, ChildExits, ChildTimeout
      <3>5. ASSUME NEW p \in Endings, EntryEnds(p)
            PROVE  /\ out' = out /\ child.main \in {"run", "wait"} /\ child'.main = "settle"
                   /\ child'.primary = p /\ p # "none" /\ child.exit = "none"
        <4>1. p # "none"
          BY DEF Endings
        <4> QED
          BY <1>1, <3>5, <4>1 DEF Children, Alive, EntryEnds
      <3> QED
        BY <1>2, <3>1, <3>2, <3>3, <3>4, <3>5 DEF Ended
    <2>2. Only(out, Faithful')
      BY <2>1, FaithfulGrows DEF Frames, Ended
    <2> QED
      BY <1>1, <2>1, <2>2 DEF Frames, Ended
  <1>3. ASSUME NEW e \in Events, out' = Append(out, e),
               e \in Faithful', Only(out, Faithful'),
               child'.main \in {"none", "boot", "run", "wait"} <=> child'.primary = "none",
               child.main \notin {"none", "boot"} => child'.main \notin {"none", "boot"},
               child'.main \in {"none", "boot"} =>
                 child'.asking = "idle" /\ child'.reader = "on" /\ child'.stop = "none",
               child.main \in Ended => child'.main \in Ended /\ child'.primary = child.primary,
               child.main \in {"finished", "parked"} =>
                 child'.main = child.main /\ child'.entered = child.entered /\ child'.clean = child.clean,
               e \in Started <=> child.main = "boot" /\ child'.main \notin {"none", "boot"},
               e \in Terminals => child.main = "clean",
               e \in Natives => child.main = "run",
               e \in Cut => child'.exit \notin {"none", "ok"}
        PROVE  Frames'
    <2>1. InOrder(Append(out, e))
      BY <1>1, <1>3, NotYetTold, InOrderAppended DEF Frames, Ended
    <2>2. /\ Only(Append(out, e), Faithful')
          /\ Has(Append(out, e), Terminals) <=> Has(out, Terminals) \/ e \in Terminals
          /\ Has(Append(out, e), Started) <=> Has(out, Started) \/ e \in Started
          /\ Has(Append(out, e), Natives) <=> Has(out, Natives) \/ e \in Natives
          /\ Has(Append(out, e), Cut) <=> Has(out, Cut) \/ e \in Cut
      BY <1>1, <1>3, Appended
    <2>3. child.exit = "none"
      BY <1>1 DEF Alive
    <2> HIDE DEF Started, Natives, Settlements, Terminals, Cut, Named
    <2>4. child.main # "none"
      BY <1>1 DEF Alive
    <2>5. /\ sup'.entry # "none" => child'.main \in Ended /\ sup'.entry = child'.primary
          /\ sup'.terminal => /\ child'.main \in {"finished", "parked"} /\ sup'.entry = child'.primary
                              /\ sup'.entered = child'.entered /\ sup'.clean = child'.clean
                              /\ sup'.built /\ ~Has(out', Terminals)
      BY <1>1, <1>3, <2>2 DEF Frames, Ended
    <2>6. /\ sup'.built => ~Has(out', Started)
          /\ child'.main \in {"none", "boot"} => ~sup'.built /\ ~Has(out', Started)
          /\ child'.main \notin {"none", "boot"} /\ ~sup'.built => Has(out', Started)
      BY <1>1, <1>3, <2>2, <2>4 DEF Frames
    <2>7. /\ sup'.entry # "none" => ~Has(out', Natives)
          /\ child'.exit \in {"none", "ok"} => ~Has(out', Cut)
      BY <1>1, <1>3, <2>2, <2>3 DEF Frames, Ended
    <2> QED
      BY <1>3, <2>1, <2>2, <2>5, <2>6, <2>7 DEF Frames
  <1>4. CASE ChildStarts
    <2> DEFINE e == Event("ChildStarted")
    <2>1. e \in Events /\ e.event = "ChildStarted"
      BY EventTypes DEF Event
    <2>2. /\ out' = Append(out, e) /\ child.main = "boot" /\ child'.main = "run"
          /\ child'.primary = child.primary
      BY <1>1, <1>4 DEF ChildStarts, ChildStep, Emit, Children
    <2> HIDE DEF e
    <2>3. Only(out, Faithful') /\ e \in Faithful'
      BY <2>1, <2>2, FaithfulGrows DEF Frames, Faithful, Ended
    <2>4. child.primary = "none"
      BY <2>2 DEF Frames
    <2> QED
      BY <1>3, <2>1, <2>2, <2>3, <2>4 DEF Ended
  <1>5. CASE EmitRequest \/ AnnounceStop \/ EnterWorkflow
    <2>1. PICK e \in Events :
            /\ e.event \in {"TargetProbe", "StopRequested", "NativeTransition"}
            /\ e.event = "NativeTransition" => child.main = "run"
            /\ out' = Append(out, e)
            /\ child'.main = child.main /\ child'.primary = child.primary
            /\ child'.clean = child.clean
            /\ child.main # "run" => child'.entered = child.entered
            /\ child.main \notin {"none", "boot"}
      <3>1. CASE EmitRequest
        <4> DEFINE e == [Event("TargetProbe") EXCEPT !.seq = child.linkSeq]
        <4>1. e \in Events /\ e.event = "TargetProbe"
          BY <1>1, EventTypes DEF Children, Event
        <4>2. /\ out' = Append(out, e) /\ child'.main = child.main
              /\ child'.primary = child.primary /\ child'.clean = child.clean
              /\ child'.entered = child.entered /\ child.asking # "idle"
          BY <1>1, <3>1 DEF EmitRequest, Emit, Children
        <4>3. child.main \notin {"none", "boot"}
          BY <4>2 DEF Frames
        <4> QED
          BY <4>1, <4>2, <4>3
      <3>2. CASE AnnounceStop
        <4>1. Event("StopRequested") \in Events /\ Event("StopRequested").event = "StopRequested"
          BY EventTypes DEF Event
        <4>2. /\ out' = Append(out, Event("StopRequested")) /\ child'.main = child.main
              /\ child'.primary = child.primary /\ child'.clean = child.clean
              /\ child'.entered = child.entered /\ child.main \notin {"none", "boot"}
          BY <1>1, <3>2 DEF AnnounceStop, Emit, Children, Frames
        <4> QED
          BY <4>1, <4>2
      <3>3. CASE EnterWorkflow
        <4>1. /\ Event("NativeTransition") \in Events
              /\ Event("NativeTransition").event = "NativeTransition"
          BY EventTypes DEF Event
        <4>2. /\ out' = Append(out, Event("NativeTransition")) /\ child'.main = child.main
              /\ child'.primary = child.primary /\ child'.clean = child.clean
              /\ child.main = "run"
          BY <1>1, <3>3 DEF EnterWorkflow, Emit, Children
        <4> QED
          BY <4>1, <4>2
      <3> QED
        BY <1>5, <3>1, <3>2, <3>3
    <2>2. e \in Faithful' /\ e \notin Started /\ e \notin Terminals /\ e \notin Cut
          /\ (e \in Natives => child.main = "run")
      BY <2>1 DEF Faithful
    <2>3. Only(out, Faithful')
      BY <2>1, FaithfulGrows DEF Frames, Ended
    <2>4. child'.main \in {"none", "boot", "run", "wait"} <=> child'.primary = "none"
      BY <2>1 DEF Frames
    <2> QED
      BY <1>3, <2>1, <2>2, <2>3, <2>4 DEF Ended
  <1>6. CASE SettleEntry
    <2> DEFINE e == [Event("EntrySettled") EXCEPT !.primary = SettledPrimary]
    <2>1. e \in Events /\ e.event = "EntrySettled" /\ e.primary = SettledPrimary
      BY EventTypes, PrimaryTypes DEF Event
    <2>2. /\ out' = Append(out, e) /\ child.main = "settle" /\ child'.main = "clean"
          /\ child'.primary = SettledPrimary
      BY <1>1, <1>6 DEF SettleEntry, Emit, Children
    <2> HIDE DEF e
    <2>3. Only(out, Faithful') /\ e \in Faithful'
      BY <2>1, <2>2, FaithfulGrows DEF Frames, Faithful, Ended
    <2>4. SettledPrimary # "none"
      BY <2>2 DEF Frames, SettledPrimary
    <2>5. e \notin Started /\ e \notin Terminals /\ e \notin Cut /\ e \notin Natives
      BY <2>1
    <2> QED
      BY <1>3, <2>1, <2>2, <2>3, <2>4, <2>5 DEF Ended
  <1>7. ASSUME NEW clean \in BOOLEAN, Terminate(clean) PROVE Frames'
    <2> DEFINE e == [Event("Terminal") EXCEPT !.primary = child.primary,
                                              !.entered = child.entered, !.clean = clean]
    <2>1. child.main = "clean" /\ child.primary \in Published /\ child.entered \in BOOLEAN
      BY <1>1, <1>7 DEF Terminate, SettledLate, Children, Published, Ended
    <2>2. /\ e \in Events /\ e.event = "Terminal" /\ e.primary = child.primary
          /\ e.entered = child.entered /\ e.clean = clean
      BY <2>1, EventTypes DEF Event
    <2>3. /\ out' = Append(out, e) /\ child'.main \in {"finished", "parked"}
          /\ child'.primary = child.primary /\ child'.entered = child.entered
          /\ child'.clean = clean
      BY <1>1, <1>7 DEF Terminate, Emit, Children
    <2> HIDE DEF e
    <2>4. Only(out, Faithful') /\ e \in Faithful'
      BY <2>1, <2>2, <2>3, FaithfulGrows DEF Frames, Faithful, Ended
    <2>5. e \notin Started /\ e \notin Cut /\ e \notin Natives
      BY <2>2
    <2>6. child.primary # "none"
      BY <2>1 DEF Frames
    <2> QED
      BY <1>3, <2>1, <2>2, <2>3, <2>4, <2>5, <2>6 DEF Ended
  <1>8. CASE Watchdog \/ ChildCrash
    <2>1. PICK code \in {"124", "err"} : Dies(code)
      BY <1>8 DEF Watchdog, ChildCrash
    <2>2. /\ child' = [child EXCEPT !.exit = code]
          /\ out' = out \/ out' = Append(out, Event("Incomplete"))
      BY <2>1, DiesTypes
    <2>3. /\ child'.main = child.main /\ child'.primary = child.primary
          /\ child'.entered = child.entered /\ child'.clean = child.clean
          /\ child'.asking = child.asking /\ child'.reader = child.reader
          /\ child'.stop = child.stop /\ child'.exit \notin {"none", "ok"}
      BY <1>1, <2>2 DEF Children
    <2>4. Only(out, Faithful')
      BY <2>3, FaithfulGrows DEF Frames
    <2>5. CASE out' = out
      BY <1>1, <2>3, <2>4, <2>5 DEF Frames
    <2>6. CASE out' = Append(out, Event("Incomplete"))
      <3> DEFINE e == Event("Incomplete")
      <3>1. e \in Events /\ e.event = "Incomplete"
        BY EventTypes DEF Event
      <3> HIDE DEF e
      <3>2. /\ e \in Faithful' /\ e \notin Started /\ e \notin Natives /\ e \notin Terminals
            /\ out' = Append(out, e)
        BY <2>6, <3>1 DEF Faithful, e
      <3> QED
        BY <1>3, <2>3, <2>4, <3>1, <3>2 DEF Frames
    <2> QED
      BY <2>2, <2>5, <2>6
  <1> QED
    BY <1>2, <1>4, <1>5, <1>6, <1>7, <1>8 DEF ChildNext

(* The supervisor believes what it reads, and reads everything but the     *)
(* requests and transitions that are left when it ends.                    *)
LEMMA DrainFrames == ASSUME Types, Frames, Drain \/ FinalDrain PROVE Frames'
  <1> DEFINE m == Head(out)
  <1>1. out \in Seq(Events) /\ out # <<>> /\ out' = Tail(out) /\ child' = child
    BY DEF Drain, FinalDrain, Types, TypeOK
  <1>2. /\ m \in Events /\ m \in Faithful /\ Only(Tail(out), Faithful)
        /\ Has(out, Started) <=> m \in Started \/ Has(Tail(out), Started)
        /\ Has(out, Natives) <=> m \in Natives \/ Has(Tail(out), Natives)
        /\ Has(out, Cut) <=> m \in Cut \/ Has(Tail(out), Cut)
        /\ Has(out, Terminals) <=> m \in Terminals \/ Has(Tail(out), Terminals)
    BY <1>1, Headed DEF Frames
  <1>3. /\ InOrder(Tail(out))
        /\ m \in Terminals => ~Has(Tail(out), Terminals) /\ ~Has(Tail(out), Started)
        /\ m \in Started => ~Has(Tail(out), Started)
        /\ m \in Settlements => ~Has(Tail(out), Natives)
    BY <1>1, InOrderTail DEF Frames
  <1>4. Only(Tail(out), Faithful')
    <2>1. Faithful' = Faithful
      BY <1>1 DEF Faithful
    <2> QED
      BY <1>2, <2>1
  <1>5. /\ sup'.entry = IF m \in Settlements THEN m.primary ELSE sup.entry
        /\ m \in Terminals =>
             sup'.terminal /\ sup'.entered = m.entered /\ sup'.clean = m.clean
        /\ m \notin Terminals =>
             sup'.terminal = sup.terminal /\ sup'.entered = sup.entered /\ sup'.clean = sup.clean
        /\ m \in Started => sup'.built
        /\ m \notin Started => sup'.built = sup.built
    <2>1. CASE Receive(m)
      BY <1>2, <2>1, ReceiveEffect
    <2>2. CASE sup' = sup /\ m.event \in {"TargetProbe", "NativeTransition"}
      BY <2>2 DEF Settlements, Terminals, Started, Named
    <2> QED
      BY <2>1, <2>2 DEF Drain, FinalDrain
  <1>6. m \in Terminals => m \in Settlements /\ m \notin Started
    BY DEF Terminals, Settlements, Started, Named
  <1>7. /\ m \in Settlements => child.main \in Ended /\ m.primary = child.primary
        /\ m \in Terminals => /\ child.main \in {"finished", "parked"}
                              /\ m.entered = child.entered /\ m.clean = child.clean
    BY <1>2 DEF Faithful, Settlements, Terminals, Named
  <1> HIDE DEF m
  <1>8. m \in Terminals => sup'.built
    BY <1>2, <1>3, <1>5, <1>7 DEF Frames, Ended
  <1>9. /\ sup'.entry # "none" => child'.main \in Ended /\ sup'.entry = child'.primary
        /\ sup'.terminal => /\ child'.main \in {"finished", "parked"} /\ sup'.entry = child'.primary
                            /\ sup'.entered = child'.entered /\ sup'.clean = child'.clean
                            /\ sup'.built /\ ~Has(Tail(out), Terminals)
    BY <1>1, <1>2, <1>3, <1>5, <1>6, <1>7, <1>8 DEF Frames
  <1>10. /\ sup'.built => ~Has(Tail(out), Started)
         /\ child'.main \in {"none", "boot"} => ~sup'.built /\ ~Has(Tail(out), Started)
         /\ child'.main \notin {"none", "boot"} /\ ~sup'.built => Has(Tail(out), Started)
    BY <1>1, <1>2, <1>3, <1>5 DEF Frames
  <1>11. /\ sup'.entry # "none" => ~Has(Tail(out), Natives)
         /\ child'.exit \in {"none", "ok"} => ~Has(Tail(out), Cut)
    BY <1>1, <1>2, <1>3, <1>5 DEF Frames
  <1> QED
    BY <1>1, <1>3, <1>4, <1>9, <1>10, <1>11 DEF Frames

LEMMA SupFrames == ASSUME Types, Frames, SupNext PROVE Frames'
  <1>1. /\ sup \in Supervisors /\ child \in Children /\ out \in Seq(Events)
        /\ sup.pc = "ready" => child.main = "none"
    BY DEF Types, TypeOK, Unborn
  <1>2. CASE Decide
    <2>1. /\ sup'.entry = sup.entry /\ sup'.terminal = sup.terminal /\ sup'.entered = sup.entered
          /\ sup'.clean = sup.clean /\ sup'.built = sup.built
          /\ \/ child' = child /\ out' = out
             \/ /\ child' = [child EXCEPT !.exit = "killed"]
                /\ out' = out \/ out' = Append(out, Event("Incomplete"))
      BY <1>2, DecideEffect
    <2>2. CASE child' = child /\ out' = out
      BY <2>1, <2>2 DEF Frames, Faithful
    <2>3. CASE child' = [child EXCEPT !.exit = "killed"]
      <3>1. /\ child'.main = child.main /\ child'.primary = child.primary
            /\ child'.entered = child.entered /\ child'.clean = child.clean
            /\ child'.asking = child.asking /\ child'.reader = child.reader
            /\ child'.stop = child.stop /\ child'.exit \notin {"none", "ok"}
        BY <1>1, <2>3 DEF Children
      <3>2. Only(out, Faithful')
        BY <3>1, FaithfulGrows DEF Frames
      <3>3. CASE out' = out
        BY <2>1, <3>1, <3>2, <3>3 DEF Frames
      <3>4. CASE out' = Append(out, Event("Incomplete"))
        <4> DEFINE e == Event("Incomplete")
        <4>1. e \in Events /\ e.event = "Incomplete"
          BY EventTypes DEF Event
        <4> HIDE DEF e
        <4>2. /\ e \in Faithful' /\ e \notin Started /\ e \notin Natives /\ e \notin Terminals
              /\ out' = Append(out, e)
          BY <3>4, <4>1 DEF Faithful, Started, Natives, Terminals, Named, e
        <4>3. InOrder(Append(out, e))
          BY <1>1, <4>1, <4>2, InOrderAppended DEF Frames
        <4>4. /\ Only(Append(out, e), Faithful')
              /\ Has(Append(out, e), Terminals) <=> Has(out, Terminals)
              /\ Has(Append(out, e), Started) <=> Has(out, Started)
              /\ Has(Append(out, e), Natives) <=> Has(out, Natives)
          BY <1>1, <3>2, <4>1, <4>2, Appended
        <4> QED
          BY <2>1, <3>1, <4>2, <4>3, <4>4 DEF Frames
      <3> QED
        BY <2>1, <2>3, <3>3, <3>4
    <2> QED
      BY <2>1, <2>2, <2>3
  <1>3. CASE Spawn
    <2>1. /\ out' = out /\ child'.main = "boot" /\ child.main = "none"
          /\ sup'.entry = sup.entry /\ sup'.terminal = sup.terminal /\ sup'.entered = sup.entered
          /\ sup'.clean = sup.clean /\ sup'.built = sup.built
          /\ child'.primary = child.primary /\ child'.exit = child.exit
          /\ child'.asking = child.asking /\ child'.reader = child.reader /\ child'.stop = child.stop
      BY <1>1, <1>3 DEF Spawn, Children, Supervisors
    <2>2. Only(out, Faithful')
      BY <2>1, FaithfulGrows DEF Frames, Ended
    <2> QED
      BY <2>1, <2>2 DEF Frames, Ended
  <1>4. CASE Refuse \/ EndDrain \/ Poll \/ Reaped \/ CancelProbe \/ JoinProbe \/ Conclude
    <2>1. /\ UNCHANGED <<out, child>>
          /\ sup'.entry = sup.entry /\ sup'.terminal = sup.terminal /\ sup'.entered = sup.entered
          /\ sup'.clean = sup.clean /\ sup'.built = sup.built
      BY <1>1, <1>4, PollEffect
      DEF Refuse, EndDrain, Reaped, CancelProbe, JoinProbe, Conclude, Supervisors
    <2> QED
      BY <2>1 DEF Frames, Faithful
  <1> QED
    BY <1>2, <1>3, <1>4, DrainFrames DEF SupNext

LEMMA NextFrames == ASSUME Types, Frames, [Next]_vars PROVE Frames'
  <1>1. CASE UNCHANGED vars
    BY <1>1 DEF vars, Frames, Faithful
  <1>2. CASE OperatorStop \/ (\E b \in Bounds : Pass(b)) \/ (\E o \in Outcomes : ProbeReturns(o))
             \/ Write \/ WriterEnds
    <2>1. UNCHANGED <<sup, out, child>>
      BY <1>2 DEF OperatorStop, Pass, ProbeReturns, Write, WriterEnds
    <2> QED
      BY <2>1 DEF Frames, Faithful
  <1> QED
    BY <1>1, <1>2, SupFrames, ChildFrames DEF Next

----------------------------------------------------------------------------
(* The probe runs for the outstanding request, and for none after it found *)
(* the target.                                                             *)

LEMMA SupProbing == ASSUME Types, OneRequest, Probing, SupNext PROVE Probing'
  <1> USE DEF Asked, Requested, Pending, Answered, Replied, Loop
  <1>1. /\ sup \in Supervisors /\ child \in Children /\ prep \in Probes
        /\ out \in Seq(Events) /\ cmds \in Seq(Commands) /\ pipe \in Seq(Commands)
    BY DEF Types, TypeOK
  <1>2. CASE Drain \/ FinalDrain
    <2> DEFINE m == Head(out)
    <2>1. out # <<>> /\ out' = Tail(out) /\ UNCHANGED <<cmds, pipe, child>>
      BY <1>2 DEF Drain, FinalDrain
    <2>2. /\ m \in Events
          /\ Has(out, Requests) <=> m \in Requests \/ Has(Tail(out), Requests)
          /\ m \in Requests => ~Has(Tail(out), Requests) /\ m.event = "TargetProbe"
          /\ m \in Numbered(child.linkSeq)
      BY <1>1, <2>1, Headed DEF OneRequest, Requests, Named
    <2>3. m \in Requests => m.seq = child.linkSeq
      BY <2>2 DEF Numbered
    <2>4. \/ /\ sup'.pc = sup.pc /\ sup'.pending = sup.pending /\ sup'.seq = sup.seq
             /\ prep' = prep
          \/ /\ m \in Requests /\ sup'.pc = sup.pc /\ sup.pending = 0 /\ m.seq = sup.seq + 1
             /\ CanRequest /\ sup'.pending = m.seq /\ sup'.seq = m.seq
             /\ prep' = [prep EXCEPT !.worker = "running", !.probe = FALSE]
      <3>1. CASE Receive(m) /\ m \in Requests
        <4>1. ReceiveProbe(m) /\ sup'.pc = sup.pc
          BY <2>2, <3>1, ReceiveEffect
        <4> QED
          BY <3>1, <4>1, ProbeEffect
      <3>2. CASE Receive(m) /\ m \notin Requests
        BY <2>2, <3>2, ReceiveEffect
      <3>3. CASE UNCHANGED <<sup, prep>>
        BY <3>3
      <3> QED
        BY <1>2, <3>1, <3>2, <3>3 DEF Drain, FinalDrain
    <2> HIDE DEF m
    <2>5. CASE /\ sup'.pc = sup.pc /\ sup'.pending = sup.pending /\ sup'.seq = sup.seq
               /\ prep' = prep
      BY <2>1, <2>2, <2>5 DEF Probing
    <2>6. CASE /\ m \in Requests /\ sup'.pc = sup.pc /\ sup.pending = 0 /\ m.seq = sup.seq + 1
               /\ CanRequest /\ sup'.pending = m.seq /\ sup'.seq = m.seq
               /\ prep' = [prep EXCEPT !.worker = "running", !.probe = FALSE]
      <3>1. /\ prep'.worker = "running" /\ prep'.bound = prep.bound /\ ~prep.bound
        BY <1>1, <2>6 DEF Probes, CanRequest
      <3>2. sup'.pending # 0 /\ sup'.seq = child.linkSeq
        BY <1>1, <2>3, <2>6 DEF Supervisors
      <3>3. child.asking = "idle" /\ ~Has(Tail(out), Requests)
        BY <2>2, <2>6 DEF OneRequest
      <3> QED
        BY <2>1, <2>6, <3>1, <3>2, <3>3 DEF Probing
    <2> QED
      BY <2>4, <2>5, <2>6
  <1>3. CASE Poll
    <2>1. /\ UNCHANGED <<pipe, out, child>> /\ sup'.seq = sup.seq
          /\ sup.pc = "poll" /\ sup'.pc = "decide"
          /\ prep' = IF Finished THEN Collected ELSE prep
          /\ sup'.pending = IF Finished THEN 0 ELSE sup.pending
          /\ IF Replying /\ Len(cmds) < CmdCapacity
             THEN cmds' = Append(cmds, Prepared(sup.pending, prep.worker)) ELSE cmds' = cmds
      BY <1>3, PollEffect
    <2>2. CASE ~Finished
      BY <2>1, <2>2 DEF Probing, Replying
    <2>3. CASE Finished
      <3>1. /\ prep' = Collected /\ sup'.pending = 0 /\ sup.pending # 0
            /\ prep.worker \in Outcomes
        BY <2>1, <2>3 DEF Finished
      <3>2. /\ prep'.worker = "none" /\ prep'.probe /\ (prep'.bound => prep.worker # "nothing")
        BY <1>1, <3>1 DEF Collected, Probes
      <3>3. /\ ~Asked /\ ~Requested /\ ~Has(cmds, Replies) /\ ~Has(pipe, Replies)
            /\ child.awaiting /\ child.reply = "none" /\ child.linkSeq = sup.seq
        BY <3>1 DEF OneRequest, Probing
      <3>4. Only(cmds, Found) /\ Only(pipe, Found)
        <4>1. \A m \in Commands : m \in Replies \/ m \in Found
          BY DEF Replies, Found
        <4> QED
          BY <1>1, <3>3, <4>1, Without
      <3>5. prep'.bound => Only(cmds', Found)
        <4> DEFINE e == Prepared(sup.pending, prep.worker)
        <4>1. e \in Commands /\ e.reply = prep.worker
          BY <1>1, <3>1, CommandTypes DEF Supervisors, Prepared
        <4>2. prep'.bound => e \in Found
          BY <3>2, <4>1 DEF Found
        <4> HIDE DEF e
        <4>3. prep'.bound => Only(Append(cmds, e), Found)
          BY <1>1, <3>4, <4>1, <4>2, Appended
        <4> QED
          BY <2>1, <3>4, <4>3 DEF e
      <3> QED
        BY <2>1, <3>1, <3>2, <3>3, <3>4, <3>5 DEF Probing
    <2> QED
      BY <2>2, <2>3
  <1>4. CASE Decide
    <2>1. /\ sup.pc = "decide" /\ prep' = prep /\ pipe' = pipe
          /\ sup'.seq = sup.seq /\ sup'.pending = sup.pending /\ sup'.pc \in {"settle", "drain"}
          /\ \/ child' = child /\ out' = out
             \/ /\ child' = [child EXCEPT !.exit = "killed"]
                /\ out' = out \/ out' = Append(out, Event("Incomplete"))
          /\ cmds' = cmds \/ cmds' = Append(cmds, Stop(StopCause))
      BY <1>4, DecideEffect
    <2>2. /\ child'.main = child.main /\ child'.primary = child.primary
          /\ child'.asking = child.asking /\ child'.awaiting = child.awaiting
          /\ child'.linkSeq = child.linkSeq /\ child'.bound = child.bound
          /\ child'.reply = child.reply /\ child'.stop = child.stop
      BY <1>1, <2>1 DEF Children
    <2>3. Event("Incomplete") \in Events \ Requests
      BY EventTypes DEF Event, Requests, Named
    <2>4. Has(out', Requests) => Has(out, Requests)
      BY <2>1, <2>3, FramesKept
    <2>5. (Has(cmds', Replies) => Has(cmds, Replies)) /\ (Only(cmds, Found) => Only(cmds', Found))
      <3> DEFINE e == Stop(StopCause)
      <3>1. e \in Commands /\ e \notin Replies /\ e \in Found
        BY CommandTypes, ObservedType DEF Stop, Replies, Found, Reasons
      <3> HIDE DEF e
      <3>2. /\ Has(Append(cmds, e), Replies) => Has(cmds, Replies)
            /\ Only(cmds, Found) => Only(Append(cmds, e), Found)
        BY <1>1, <3>1, Appended
      <3> QED
        BY <2>1, <3>2 DEF e
    <2> QED
      BY <2>1, <2>2, <2>4, <2>5 DEF Probing
  <1>5. CASE Refuse \/ Spawn \/ EndDrain \/ Reaped
    <2>1. /\ UNCHANGED <<out, cmds, pipe, prep>> /\ sup'.pending = sup.pending /\ sup'.seq = sup.seq
          /\ sup.pc \in Loop
      BY <1>1, <1>5 DEF Supervisors, Refuse, Spawn, EndDrain, Reaped
    <2>2. /\ child'.asking = child.asking /\ child'.awaiting = child.awaiting
          /\ child'.linkSeq = child.linkSeq /\ child'.bound = child.bound
          /\ child'.reply = child.reply /\ child'.stop = child.stop
          /\ child'.primary = child.primary
          /\ child'.main = child.main \/ (child.main = "none" /\ child'.main = "boot")
      BY <1>1, <1>5 DEF Children, Refuse, Spawn, EndDrain, Reaped, Types, Unborn
    <2> QED
      BY <2>1, <2>2 DEF Probing, Ended
  <1>6. CASE CancelProbe \/ JoinProbe \/ Conclude
    <2>1. /\ UNCHANGED <<out, cmds, pipe, child>>
          /\ sup'.pending = sup.pending /\ sup'.seq = sup.seq
          /\ sup'.pc \notin Loop /\ prep'.bound = prep.bound
      BY <1>1, <1>6 DEF Supervisors, Probes, CancelProbe, JoinProbe, Conclude
    <2> QED
      BY <2>1 DEF Probing
  <1> QED
    BY <1>2, <1>3, <1>4, <1>5, <1>6 DEF SupNext

LEMMA WriterProbing == ASSUME Types, OneRequest, Probing, Write \/ WriterEnds PROVE Probing'
  <1> USE DEF Asked, Requested, Pending, Answered, Replied, Loop
  <1>1. /\ cmds \in Seq(Commands) /\ pipe \in Seq(Commands)
        /\ UNCHANGED <<sup, out, child, prep>>
    BY WriterTypes DEF Types, TypeOK
  <1>2. CASE WriterEnds
    BY <1>1, <1>2 DEF WriterEnds, Probing
  <1>3. CASE Write
    <2> DEFINE m == Head(cmds)
    <2>1. cmds # <<>> /\ cmds' = Tail(cmds) /\ (pipe' = pipe \/ pipe' = Append(pipe, m))
      BY <1>3 DEF Write
    <2>2. /\ m \in Commands
          /\ Has(cmds, Replies) <=> m \in Replies \/ Has(Tail(cmds), Replies)
          /\ Only(cmds, Found) => m \in Found /\ Only(Tail(cmds), Found)
      BY <1>1, <2>1, Headed
    <2> HIDE DEF m
    <2>3. /\ Has(Append(pipe, m), Replies) <=> Has(pipe, Replies) \/ m \in Replies
          /\ Only(Append(pipe, m), Found) <=> Only(pipe, Found) /\ m \in Found
      BY <1>1, <2>2, Appended
    <2> QED
      BY <1>1, <2>1, <2>2, <2>3 DEF Probing
  <1> QED
    BY <1>2, <1>3

LEMMA ChildProbing == ASSUME Types, OneRequest, Probing, ChildNext PROVE Probing'
  <1> USE DEF Asked, Requested, Pending, Answered, Replied, Loop
  <1>1. /\ UNCHANGED <<sup, prep, cmds>> /\ Alive
        /\ sup \in Supervisors /\ child \in Children /\ SettledLate
        /\ out \in Seq(Events) /\ pipe \in Seq(Commands)
    BY ChildTypes DEF Types, TypeOK
  <1>2. CASE RequestTarget
    <2>1. /\ out' = out /\ pipe' = pipe /\ ~child.awaiting /\ child.reply = "none"
          /\ child.main = "run" /\ ~child.bound
          /\ child'.awaiting /\ child'.asking = "asked" /\ child'.main = "wait"
          /\ child'.linkSeq = child.linkSeq + 1
      BY <1>1, <1>2 DEF RequestTarget, Children
    <2>2. ~Has(out, Requests) /\ ~Has(cmds, Replies) /\ ~Has(pipe, Replies) /\ sup.pending = 0
      BY <2>1 DEF OneRequest
    <2>3. child.linkSeq = sup.seq /\ ~prep.bound
      BY <2>1 DEF Probing, Ended
    <2> QED
      BY <1>1, <2>1, <2>2, <2>3 DEF Probing, Ended
  <1>3. CASE EmitRequest
    <2> DEFINE e == [Event("TargetProbe") EXCEPT !.seq = child.linkSeq]
    <2>1. /\ out' = Append(out, e) /\ pipe' = pipe /\ child.asking = "checked"
          /\ child'.asking = "idle" /\ child'.awaiting = child.awaiting
          /\ child'.reply = child.reply /\ child'.linkSeq = child.linkSeq
          /\ child'.bound = child.bound /\ child'.main = child.main
          /\ child'.primary = child.primary /\ child'.stop = child.stop
      BY <1>1, <1>3 DEF EmitRequest, Emit, Children
    <2>2. ~prep.bound /\ child.linkSeq = sup.seq + 1 /\ child.awaiting
      BY <2>1 DEF Probing, OneRequest
    <2> QED
      BY <1>1, <2>1, <2>2 DEF Probing, OneRequest
  <1>4. CASE ReadCommand
    <2> DEFINE m == Head(pipe)
    <2>1. /\ pipe # <<>> /\ pipe' = Tail(pipe) /\ m \in Commands
      BY <1>1, <1>4, Headed DEF ReadCommand
    <2>2. /\ Has(pipe, Replies) <=> m \in Replies \/ Has(Tail(pipe), Replies)
          /\ Only(pipe, Found) => m \in Found /\ Only(Tail(pipe), Found)
          /\ m \in Answers(child.linkSeq)
          /\ m \in Replies <=> m.command = "prepared"
      BY <1>1, <2>1, Headed DEF OneRequest, Replies
    <2>3. /\ out' = out /\ child'.main = child.main /\ child'.linkSeq = child.linkSeq
          /\ child'.asking = child.asking /\ child'.bound = child.bound
          /\ child'.primary = child.primary
      BY <1>4, ReaderKeeps
    <2>4. CASE m \in Replies
      <3>1. Accepts(m)
        BY <2>2, <2>4 DEF OneRequest, Accepts, Answers
      <3>2. child' = [child EXCEPT !.awaiting = FALSE, !.reply = m.reply]
        BY <1>4, <2>2, <2>4, <3>1 DEF ReadCommand
      <3>3. /\ ~child'.awaiting /\ child'.reply = m.reply /\ m.reply \in Outcomes
        BY <1>1, <2>1, <3>2 DEF Children, Commands
      <3>4. child.linkSeq = sup.seq /\ child.awaiting
        BY <2>2, <2>4 DEF Probing, OneRequest
      <3>5. prep.bound => m.reply \in {"target", "fault"}
        BY <2>1, <2>2, <2>4, <3>3 DEF Probing, Found, Outcomes
      <3> HIDE DEF m
      <3> QED
        BY <1>1, <2>1, <2>2, <2>3, <2>4, <3>3, <3>4, <3>5 DEF Probing
    <2>5. CASE m \notin Replies
      <3>1. child' = [child EXCEPT !.stop = Inherit(@, m.command), !.reader = "adopted"]
        BY <1>4, <2>2, <2>5 DEF ReadCommand
      <3>2. /\ child'.awaiting = child.awaiting /\ child'.reply = child.reply
            /\ child'.stop = Inherit(child.stop, m.command)
        BY <1>1, <3>1 DEF Children
      <3>3. child.stop \notin {"none", "settled"} => child'.stop \notin {"none", "settled"}
        BY <2>1, <2>2, <2>5, <3>2 DEF Inherit, Commands, Reasons
      <3> HIDE DEF m
      <3> QED
        BY <1>1, <2>1, <2>2, <2>3, <2>5, <3>2, <3>3 DEF Probing
    <2> QED
      BY <2>4, <2>5
  <1>5. CASE TakeReply
    <2>1. /\ out' = out /\ pipe' = pipe /\ child'.awaiting = child.awaiting
          /\ child'.asking = child.asking /\ child'.linkSeq = child.linkSeq
          /\ child.reply \in Outcomes /\ child'.reply = "none"
          /\ child.reply = "fault" => child'.main = "settle"
          /\ child'.bound = (child.reply = "target")
      BY <1>1, <1>5 DEF TakeReply, Children
    <2>2. ~child.awaiting
      BY <2>1 DEF OneRequest, Outcomes
    <2> QED
      BY <1>1, <2>1, <2>2 DEF Probing, Outcomes
  <1>6. CASE ~RequestTarget /\ ~EmitRequest /\ ~ReadCommand /\ ~TakeReply
    <2>1. Has(out', Requests) => Has(out, Requests)
      BY <1>6, ChildEmits, FramesKept
    <2>2. /\ pipe' = pipe
          /\ child.asking = "idle" => child'.asking = "idle"
          /\ child'.awaiting = child.awaiting /\ child'.linkSeq = child.linkSeq
          /\ child'.reply = child.reply /\ child'.bound = child.bound
          /\ child.stop \notin {"none", "settled"} => child'.stop \notin {"none", "settled"}
      <3>1. CASE ChildStarts \/ CheckRequest \/ ControlLost \/ AnnounceStop
                 \/ (\E why \in {"derived", "stage"} : ChildTimeout(why)) \/ EnterWorkflow
        BY <1>1, <3>1 DEF Children, ChildStarts, ChildStep, CheckRequest, ControlLost,
           AnnounceStop, ChildTimeout, EnterWorkflow, First
      <3>2. CASE (\E p \in Endings : EntryEnds(p)) \/ SettleEntry
                 \/ (\E clean \in BOOLEAN : Terminate(clean)) \/ ChildExits
                 \/ Watchdog \/ ChildCrash
        BY <1>1, <3>2 DEF Children, EntryEnds, SettleEntry, Terminate, ChildExits, Watchdog,
           ChildCrash, Dies, First
      <3> QED
        BY <1>6, <3>1, <3>2 DEF ChildNext
    <2>3. /\ child'.main \in {"run", "wait"} => child.main = "boot" \/ child'.main = child.main
          /\ child.main = "wait" =>
               \/ child'.main = "wait"
               \/ /\ child'.main = "settle" /\ child'.primary = child'.stop
                  /\ child'.stop \notin {"none", "settled"}
          /\ child.main \in Ended \cup {"settle"} =>
               /\ child'.main \in Ended \cup {"settle"}
               /\ child.primary \notin Unanswerable => child'.primary \notin Unanswerable
      <3>1. CASE ChildStarts \/ CheckRequest \/ ControlLost \/ AnnounceStop
                 \/ (\E why \in {"derived", "stage"} : ChildTimeout(why)) \/ EnterWorkflow
        BY <1>1, <3>1 DEF Children, ChildStarts, ChildStep, CheckRequest, ControlLost,
           AnnounceStop, ChildTimeout, EnterWorkflow, Ended
      <3>2. ASSUME NEW p \in Endings, EntryEnds(p)
            PROVE  /\ child.main \in {"run", "wait"} /\ child'.main = "settle" /\ child'.primary = p
                   /\ child'.stop = child.stop
                   /\ child.main = "wait" => p = child.stop /\ p \notin {"none", "settled"}
        BY <1>1, <3>2 DEF Children, EntryEnds, Endings, SettledLate, Ended
      <3>3. CASE SettleEntry
        BY <1>1, <3>3 DEF Children, SettleEntry, SettledPrimary, Ended, Unanswerable
      <3>4. CASE (\E clean \in BOOLEAN : Terminate(clean)) \/ ChildExits \/ Watchdog \/ ChildCrash
        BY <1>1, <3>4 DEF Children, Terminate, ChildExits, Watchdog, ChildCrash, Dies, Ended
      <3> QED
        BY <1>6, <3>1, <3>2, <3>3, <3>4 DEF ChildNext, Ended
    <2>4. child'.stop \notin {"Returned", "Script", "TargetExited"}
      BY ChildTypes DEF Types, TypeOK, Children, Reasons
    <2>5. child'.awaiting =>
            \/ child'.main = "wait"
            \/ /\ child'.main \in Ended \cup {"settle"}
               /\ child'.primary \notin Unanswerable /\ child'.stop \notin {"none", "settled"}
      BY <2>2, <2>3, <2>4 DEF Probing, Unanswerable
    <2> QED
      BY <1>1, <2>1, <2>2, <2>3, <2>5 DEF Probing, Ended
  <1> QED
    BY <1>2, <1>3, <1>4, <1>5, <1>6

LEMMA NextProbing == ASSUME Types, OneRequest, Probing, [Next]_vars PROVE Probing'
  <1>1. CASE UNCHANGED vars
    BY <1>1 DEF vars, Probing, Asked, Requested, Pending, Answered, Replied, Loop
  <1>2. CASE OperatorStop \/ \E b \in Bounds : Pass(b)
    <2>1. UNCHANGED <<sup, prep, cmds, pipe, out, child>>
      BY <1>2 DEF OperatorStop, Pass
    <2> QED
      BY <2>1 DEF Probing, Asked, Requested, Pending, Answered, Replied
  <1>3. ASSUME NEW o \in Outcomes, ProbeReturns(o) PROVE Probing'
    <2>1. /\ UNCHANGED <<sup, cmds, pipe, out, child>> /\ prep.worker = "running"
          /\ prep'.worker = o /\ prep'.probe = prep.probe /\ prep'.bound = prep.bound
      BY <1>3 DEF ProbeReturns, Types, TypeOK, Probes
    <2> QED
      BY <2>1 DEF Probing, Asked, Requested, Pending, Answered, Replied, Outcomes
  <1> QED
    BY <1>1, <1>2, <1>3, SupProbing, WriterProbing, ChildProbing DEF Next

----------------------------------------------------------------------------
(* One stop, with one cause.                                               *)

(* The first cause that is latched stays.                                  *)
LEMMA CtlStable == ASSUME Types, [Next]_vars, ctl # "none" PROVE ctl' = ctl
  <1>1. Observed = ctl /\ First(ctl, "cancelled") = ctl
    BY ObservedType DEF First
  <1>2. CASE UNCHANGED vars
    BY <1>2 DEF vars
  <1>3. CASE OperatorStop \/ (\E b \in Bounds : Pass(b)) \/ Write \/ WriterEnds
    BY <1>3 DEF OperatorStop, Pass, Write, WriterEnds
  <1>4. CASE (\E o \in Outcomes : ProbeReturns(o)) \/ Refuse
    BY <1>1, <1>4 DEF ProbeReturns, Refuse
  <1>5. CASE Drain \/ FinalDrain
    <2>1. Head(out) \in Events
      BY <1>5, Headed DEF Drain, FinalDrain, Types, TypeOK
    <2> QED
      BY <1>5, <2>1, ReceiveEffect DEF Drain, FinalDrain
  <1>6. CASE Decide
    <2>1. StopDue => StopCause = ctl
      BY <1>1 DEF StopCause, First
    <2> QED
      BY <1>1, <1>6, <2>1, DecideEffect
  <1>7. CASE Spawn \/ EndDrain \/ Poll \/ Reaped \/ CancelProbe \/ JoinProbe \/ Conclude
    BY <1>1, <1>7 DEF Spawn, EndDrain, Poll, Reaped, CancelProbe, JoinProbe, Conclude
  <1>8. CASE ChildNext
    BY <1>8, ChildTypes
  <1> QED
    BY <1>2, <1>3, <1>4, <1>5, <1>6, <1>7, <1>8 DEF Next, SupNext

LEMMA ToldKept ==
  ASSUME Types, [Next]_vars
  PROVE  /\ Only(cmds, Told(ctl)) => Only(cmds, Told(ctl'))
         /\ Only(pipe, Told(ctl)) => Only(pipe, Told(ctl'))
  <1>1. \A m \in Commands : m \in Told(ctl) => m \in Told(ctl')
    BY CtlStable DEF Told, Reasons
  <1>2. cmds \in Seq(Commands) /\ pipe \in Seq(Commands)
    BY DEF Types, TypeOK
  <1> QED
    BY <1>1, <1>2, Widened

(* A frame that is no violation of the protocol faults the run only with   *)
(* the cause that the Control then holds.                                  *)
Violation(m) ==
  \/ m \in Cut
  \/ m \in Started /\ sup.built
  \/ m \in Terminals /\ sup.terminal
  \/ m \in Natives /\ sup.entry # "none"
  \/ m \in Requests /\ (sup.entry # "none" \/ sup.pending # 0 \/ m.seq # sup.seq + 1 \/ ~CanRequest)
LEMMA FaultEffect ==
  ASSUME Types, NEW m \in Events, Receive(m)
  PROVE  \/ sup'.fault = sup.fault
         \/ sup'.fault \in Reasons /\ sup'.fault = ctl'
         \/ sup'.fault \notin Reasons /\ Violation(m)
  <1>1. /\ sup \in Supervisors /\ Observed \in Reasons \cup {"none"}
        /\ "Transport" \notin Reasons /\ "Authority" \notin Reasons /\ "Incomplete" \notin Reasons
    BY ObservedType DEF Types, TypeOK, Reasons
  <1> USE DEF Cut, Started, Terminals, Natives, Requests, Named
  <1>2. CASE m \in Requests
    <2>1. ReceiveProbe(m)
      BY <1>2 DEF Receive
    <2> QED
      BY <1>1, <1>2, <2>1 DEF ReceiveProbe, Supervisors, Violation
  <1>3. CASE m \in Natives
    <2>1. ReceiveTransition
      BY <1>3 DEF Receive
    <2> QED
      BY <1>1, <1>3, <2>1 DEF ReceiveTransition, Supervisors, Violation
  <1>4. CASE m.event \in {"EntrySettled", "Terminal"}
    <2>1. ReceiveSettlement(m)
      BY <1>4 DEF Receive
    <2> QED
      BY <1>1, <1>4, <2>1 DEF ReceiveSettlement, Supervisors, Violation
  <1>5. CASE m.event \in {"Incomplete", "ChildStarted", "StopRequested"}
    <2>1. \/ m \in Cut /\ sup' = [sup EXCEPT !.fault = "Incomplete"]
          \/ /\ m \in Started
             /\ sup' = [sup EXCEPT !.built = TRUE, !.fault = IF sup.built THEN "Transport" ELSE @]
          \/ sup' = [sup EXCEPT !.sawStop = TRUE]
      BY <1>5 DEF Receive
    <2> QED
      BY <1>1, <2>1 DEF Supervisors, Violation
  <1> QED
    BY <1>2, <1>3, <1>4, <1>5 DEF Events

LEMMA SupCauses ==
  ASSUME Types, Phases, Roomy, Roomy', Causes, SupNext PROVE Causes'
  <1>1. /\ sup \in Supervisors /\ child \in Children
        /\ cmds \in Seq(Commands) /\ pipe \in Seq(Commands) /\ out \in Seq(Events)
        /\ "Transport" \notin Reasons /\ "none" \notin Reasons
    BY DEF Types, TypeOK, Reasons
  <1>2. /\ ctl # "none" => ctl' = ctl
        /\ Only(cmds, Told(ctl)) => Only(cmds, Told(ctl'))
        /\ Only(pipe, Told(ctl)) => Only(pipe, Told(ctl'))
    BY CtlStable, ToldKept DEF Next
  <1>3. ASSUME UNCHANGED <<cmds, pipe, writer>>,
               sup'.cut = sup.cut, sup'.stop = sup.stop, sup'.forced = sup.forced,
               child.exit = "none" => sup'.open = sup.open,
               sup'.fault \in Reasons => sup'.fault = ctl',
               child'.exit = child.exit, child'.stop = child.stop, child'.reader = child.reader,
               child'.primary = child.primary
        PROVE  Causes'
    BY <1>1, <1>2, <1>3 DEF Causes
  <1>4. CASE Drain \/ FinalDrain
    <2>1. out # <<>> /\ UNCHANGED <<cmds, pipe, writer, child>>
      BY <1>4 DEF Drain, FinalDrain
    <2>2. Head(out) \in Events
      BY <1>1, <2>1, Headed
    <2>3. CASE Receive(Head(out))
      <3>1. /\ sup'.cut = sup.cut /\ sup'.stop = sup.stop
            /\ sup'.forced = sup.forced /\ sup'.open = sup.open
        BY <2>2, <2>3, ReceiveEffect
      <3>2. sup'.fault \in Reasons => sup'.fault = ctl'
        BY <1>1, <1>2, <2>2, <2>3, FaultEffect DEF Causes
      <3> QED
        BY <1>3, <2>1, <3>1, <3>2
    <2>4. CASE UNCHANGED <<sup, ctl>>
      BY <1>3, <2>1, <2>4 DEF Causes
    <2> QED
      BY <1>4, <2>3, <2>4 DEF Drain, FinalDrain
  <1>5. CASE Poll
    <2>1. /\ UNCHANGED <<pipe, writer, child, ctl>>
          /\ sup'.cut = sup.cut /\ sup'.stop = sup.stop /\ sup'.open = sup.open
          /\ sup'.forced = sup.forced
          /\ sup'.fault = "Transport" \/ sup'.fault = sup.fault
          /\ \/ cmds' = cmds
             \/ Replying /\ cmds' = Append(cmds, Prepared(sup.pending, prep.worker))
      BY <1>5, PollEffect
    <2>2. sup'.fault \in Reasons => sup'.fault = ctl'
      BY <1>1, <2>1 DEF Causes
    <2>3. CASE cmds' = cmds
      BY <1>3, <2>1, <2>2, <2>3
    <2>4. CASE Replying /\ cmds' = Append(cmds, Prepared(sup.pending, prep.worker))
      <3> DEFINE e == Prepared(sup.pending, prep.worker)
      <3>1. e \in Commands /\ e \notin Stops /\ e \in Told(ctl)
        BY <1>1, <2>4, CommandTypes DEF Supervisors, Replying, Finished, Prepared, Stops, Told, Reasons
      <3>2. cmds' = Append(cmds, e)
        BY <2>4
      <3> HIDE DEF e
      <3>3. /\ Once(Append(cmds, e), Stops) /\ Only(Append(cmds, e), Told(ctl))
            /\ Has(Append(cmds, e), Stops) <=> Has(cmds, Stops)
        BY <1>1, <3>1, Appended DEF Causes
      <3> QED
        BY <2>1, <2>2, <3>2, <3>3 DEF Causes
    <2> QED
      BY <2>1, <2>3, <2>4
  <1>6. CASE Refuse \/ Spawn \/ EndDrain \/ Reaped \/ CancelProbe \/ JoinProbe \/ Conclude
    <2>1. /\ UNCHANGED <<cmds, pipe, writer>>
          /\ sup'.cut = sup.cut /\ sup'.stop = sup.stop /\ sup'.forced = sup.forced
          /\ child.exit = "none" => sup'.open = sup.open
          /\ sup'.fault = sup.fault \/ sup'.fault \in {"Transport", "none"}
          /\ child'.exit = child.exit /\ child'.stop = child.stop /\ child'.reader = child.reader
          /\ child'.primary = child.primary
      <3>1. CASE Refuse \/ EndDrain \/ Reaped \/ CancelProbe \/ JoinProbe
        BY <1>1, <3>1 DEF Supervisors, Refuse, EndDrain, Reaped, CancelProbe, JoinProbe
      <3>2. CASE Spawn
        BY <1>1, <3>2 DEF Supervisors, Children, Spawn
      <3>3. CASE Conclude
        BY <1>1, <3>3 DEF Supervisors, Conclude
      <3> QED
        BY <1>6, <3>1, <3>2, <3>3
    <2>2. sup'.fault \in Reasons => sup'.fault = ctl'
      BY <1>1, <1>2, <2>1 DEF Causes
    <2> QED
      BY <1>3, <2>1, <2>2
  <1>7. CASE Decide
    <2>1. /\ child.exit = "none" /\ UNCHANGED <<pipe, writer>>
          /\ sup'.stop = IF StopDue THEN StopCause ELSE sup.stop
          /\ sup'.open = (sup.open /\ ~StopDue /\ ~sup'.forced)
          /\ sup'.cut = sup.cut /\ sup'.fault = sup.fault
          /\ sup.stop = "none" /\ StopDue /\ ~sup.cut => ctl' = StopCause
          /\ sup'.forced => child' = [child EXCEPT !.exit = "killed"]
          /\ ~sup'.forced => child' = child
          /\ StopDue => sup.stop = "none" /\ StopCause \in Reasons
      BY <1>7, DecideEffect, ObservedType DEF StopDue
    <2>2. ~sup.forced /\ sup.forced \in BOOLEAN /\ sup'.forced \in BOOLEAN
      BY <1>1, <2>1, SupTypes DEF Phases, Types, TypeOK, Supervisors
    <2>3. /\ child'.stop = child.stop /\ child'.reader = child.reader
          /\ child'.primary = child.primary
          /\ child'.exit = "none" => ~sup'.forced
      BY <1>1, <2>1, <2>2 DEF Children
    <2>4. sup'.fault \in Reasons => sup'.fault = ctl'
      BY <1>1, <1>2, <2>1 DEF Causes
    <2>5. CASE StopDue /\ ~sup.cut
      <3> DEFINE e == Stop(StopCause)
      <3>1. cmds' = Append(cmds, e) /\ ctl' = StopCause
        BY <1>7, <2>1, <2>5, DecideEffect DEF Roomy
      <3>2. e \in Commands /\ e \in Stops /\ e \in Told(ctl')
        BY <2>1, <2>5, <3>1, CommandTypes DEF Stop, Stops, Told, Reasons
      <3> HIDE DEF e
      <3>3. ~Has(cmds, Stops)
        BY <2>1, <2>5 DEF Roomy
      <3>4. /\ Has(Append(cmds, e), Stops) /\ Once(Append(cmds, e), Stops)
            /\ Only(Append(cmds, e), Told(ctl'))
        BY <1>1, <1>2, <3>2, <3>3, Appended DEF Causes
      <3>5. Only(pipe', Told(ctl'))
        BY <1>2, <2>1 DEF Causes
      <3>6. ctl = "none" \/ ctl' = ctl
        BY <1>2
      <3>7. writer' = "open" \/ child'.exit # "none"
        BY <2>1, <2>2, <2>5 DEF Causes
      <3> QED
        BY <1>1, <2>1, <2>3, <2>4, <2>5, <3>1, <3>4, <3>5, <3>6, <3>7 DEF Causes
    <2>6. CASE ~(StopDue /\ ~sup.cut)
      <3>1. cmds' = cmds
        BY <1>7, <2>6, DecideEffect
      <3>2. CASE sup.cut
        BY <1>1, <1>2, <2>1, <2>2, <2>3, <2>4, <3>1, <3>2 DEF Causes
      <3>3. CASE ~StopDue /\ ~sup.cut
        BY <1>1, <1>2, <2>1, <2>2, <2>3, <2>4, <3>1, <3>3 DEF Causes
      <3> QED
        BY <1>1, <2>6, <3>2, <3>3 DEF Supervisors
    <2> QED
      BY <2>5, <2>6
  <1> QED
    BY <1>4, <1>5, <1>6, <1>7 DEF SupNext

LEMMA WriterCauses ==
  ASSUME Types, Phases, Roomy, Causes, Write \/ WriterEnds PROVE Causes'
  <1>1. /\ cmds \in Seq(Commands) /\ pipe \in Seq(Commands) /\ sup \in Supervisors
        /\ UNCHANGED <<sup, child, ctl>>
    BY WriterTypes DEF Types, TypeOK, Write, WriterEnds
  <1>2. child.exit = "none" => ~sup.forced
    BY DEF Phases
  <1>3. CASE WriterEnds
    <2>1. cmds = <<>> /\ ~sup.open /\ cmds' = cmds /\ pipe' = pipe /\ ~Has(cmds, Stops)
      BY <1>3, Emptied DEF WriterEnds
    <2> QED
      BY <1>1, <1>2, <2>1 DEF Causes
  <1>4. CASE Write
    <2> DEFINE m == Head(cmds)
    <2>1. /\ cmds # <<>> /\ cmds' = Tail(cmds) /\ (pipe' = pipe \/ pipe' = Append(pipe, m))
          /\ writer = "open"
          /\ child.exit = "none" =>
               /\ pipe' = Append(pipe, m)
               /\ writer' = IF m.command = "prepared" THEN "open" ELSE "closed"
      BY <1>4 DEF Write
    <2>2. /\ m \in Commands
          /\ Has(cmds, Stops) <=> m \in Stops \/ Has(Tail(cmds), Stops)
          /\ Once(Tail(cmds), Stops)
          /\ m \in Stops => ~Has(Tail(cmds), Stops)
          /\ m \in Told(ctl) /\ Only(Tail(cmds), Told(ctl))
          /\ m \in Stops <=> m.command # "prepared"
      BY <1>1, <2>1, Headed DEF Causes, Stops
    <2> HIDE DEF m
    <2>3. /\ Has(Append(pipe, m), Stops) <=> Has(pipe, Stops) \/ m \in Stops
          /\ Only(Append(pipe, m), Told(ctl))
      BY <1>1, <2>2, Appended DEF Causes
    <2>4. child.exit = "none" /\ writer' # "open" => sup.stop # "none" /\ ~Has(cmds', Stops)
      BY <2>1, <2>2 DEF Roomy
    <2>5. child.exit = "none" /\ sup.stop = "none" => writer' = "open"
      BY <2>4
    <2>6. child.exit = "none" /\ (Has(cmds, Stops) \/ Has(pipe, Stops)) =>
            Has(cmds', Stops) \/ Has(pipe', Stops)
      BY <2>1, <2>2, <2>3
    <2> QED
      BY <1>1, <1>2, <2>1, <2>2, <2>3, <2>4, <2>5, <2>6 DEF Causes
  <1> QED
    BY <1>3, <1>4

(* The child adopts the stop that it reads, and publishes no other cause.  *)
LEMMA ChildCauses ==
  ASSUME Types, Phases, OneRequest, Roomy, Causes, ChildNext PROVE Causes'
  <1>1. /\ UNCHANGED <<sup, ctl, cmds, writer>> /\ Alive /\ child.exit = "none" /\ SettledLate
        /\ sup \in Supervisors /\ child \in Children /\ pipe \in Seq(Commands) /\ ~sup.forced
    BY ChildTypes DEF Types, TypeOK, Alive, Phases
  <1> USE DEF Reasons
  <1>2. ASSUME pipe' = pipe, child'.reader # "on" <=> child.reader # "on",
               child'.stop \in Reasons => child'.stop = child.stop,
               child.reader # "on" => child'.stop = child.stop,
               child'.primary = "derived" => child'.stop \in Reasons \cup {"derived"},
               ~sup.cut /\ child'.primary \in Reasons => child'.primary = ctl
        PROVE  Causes'
    BY <1>1, <1>2 DEF Causes
  <1>3. CASE ReadCommand
    <2> DEFINE m == Head(pipe)
    <2>1. pipe # <<>> /\ pipe' = Tail(pipe) /\ m \in Commands /\ child.reader = "on"
      BY <1>1, <1>3, Headed DEF ReadCommand
    <2>2. /\ Has(pipe, Stops) <=> m \in Stops \/ Has(Tail(pipe), Stops)
          /\ m \in Told(ctl) /\ Only(Tail(pipe), Told(ctl))
          /\ m \in Answers(child.linkSeq)
          /\ m \in Replies <=> m.command = "prepared"
          /\ m \in Stops <=> m.command # "prepared"
          /\ Has(pipe, Replies) <=> m \in Replies \/ Has(Tail(pipe), Replies)
      BY <1>1, <2>1, Headed DEF OneRequest, Causes, Replies, Stops
    <2>3. child'.primary = child.primary /\ child'.exit = child.exit
      BY <1>3, ReaderKeeps
    <2>4. CASE m \in Replies
      <3>1. Accepts(m)
        BY <2>2, <2>4 DEF OneRequest, Accepts, Answers, Replied
      <3>2. child' = [child EXCEPT !.awaiting = FALSE, !.reply = m.reply]
        BY <1>3, <2>2, <2>4, <3>1 DEF ReadCommand
      <3>3. child'.reader = child.reader /\ child'.stop = child.stop
        BY <1>1, <3>2 DEF Children
      <3> HIDE DEF m
      <3> QED
        BY <1>1, <2>1, <2>2, <2>3, <2>4, <3>3 DEF Causes
    <2>5. CASE m \in Stops
      <3>1. child' = [child EXCEPT !.stop = Inherit(@, m.command), !.reader = "adopted"]
        BY <1>3, <2>2, <2>5 DEF ReadCommand
      <3>2. child'.reader = "adopted" /\ child'.stop = Inherit(child.stop, m.command)
        BY <1>1, <3>1 DEF Children
      <3>3. m.command \in Reasons /\ m.command = ctl
        BY <2>1, <2>2, <2>5 DEF Commands, Told
      <3>4. /\ child'.stop \notin {"none", "derived"}
            /\ child'.stop \in Reasons => child'.stop = ctl \/ child'.stop = child.stop
            /\ child.stop \in Reasons \cup {"derived"} => child'.stop \in Reasons
        BY <3>2, <3>3 DEF Inherit
      <3>5. sup.stop # "none"
        BY <2>2, <2>5 DEF Roomy
      <3> HIDE DEF m
      <3> QED
        BY <1>1, <2>1, <2>2, <2>3, <3>2, <3>4, <3>5 DEF Causes
    <2> QED
      BY <2>2, <2>4, <2>5
  <1>4. CASE ControlLost
    <2>1. /\ pipe = <<>> /\ writer # "open" /\ child.reader = "on" /\ pipe' = pipe
          /\ child'.reader = "adopted" /\ child'.primary = child.primary
          /\ child'.stop = First(child.stop, "cancelled") /\ child'.exit = child.exit
      BY <1>1, <1>4 DEF ControlLost, Children
    <2>2. ~Has(pipe, Stops)
      BY <2>1, Emptied
    <2>3. sup.cut /\ sup.stop # "none"
      BY <1>1, <2>1, <2>2 DEF Causes, Supervisors
    <2>4. child'.stop = child.stop \/ (child.stop = "none" /\ child'.stop = "cancelled")
      BY <2>1 DEF First
    <2> QED
      BY <1>1, <2>1, <2>3, <2>4 DEF Causes
  <1>5. CASE SettleEntry
    <2>1. /\ pipe' = pipe /\ child'.reader = child.reader
          /\ child'.stop = First(child.stop, "settled") /\ child'.primary = SettledPrimary
          /\ child.primary = "derived" => child.reader = "off"
      BY <1>1, <1>5 DEF SettleEntry, Children
    <2>2. child'.stop = child.stop \/ (child.stop = "none" /\ child'.stop = "settled")
      BY <2>1 DEF First
    <2>3. ~sup.cut /\ child'.primary \in Reasons => child'.primary = ctl
      BY <1>1, <2>1 DEF SettledPrimary, Causes
    <2>4. child.reader # "on" => child'.stop = child.stop \/ sup.cut
      BY <1>1, <2>2 DEF Causes
    <2>5. child'.primary # "derived"
      BY <2>1, PrimaryTypes
    <2> QED
      BY <1>1, <2>1, <2>2, <2>3, <2>4, <2>5 DEF Causes
  <1>6. ASSUME NEW why \in {"derived", "stage"}, ChildTimeout(why) PROVE Causes'
    <2>1. /\ pipe' = pipe /\ child'.reader = child.reader /\ child.stop = "none"
          /\ child'.stop = why /\ child'.primary = child.primary /\ child'.exit = child.exit
      BY <1>1, <1>6 DEF ChildTimeout, Children
    <2> QED
      BY <1>1, <1>6, <2>1 DEF Causes
  <1>7. ASSUME NEW p \in Endings, EntryEnds(p) PROVE Causes'
    <2>1. /\ pipe' = pipe /\ child'.reader = child.reader /\ child'.stop = child.stop
          /\ child'.primary = p
          /\ p \in Reasons \cup {"derived"} => p = child.stop
      BY <1>1, <1>7 DEF EntryEnds, Children, Endings
    <2> QED
      BY <1>1, <1>2, <2>1 DEF Causes
  <1>8. CASE TakeReply
    <2>1. /\ pipe' = pipe /\ child'.reader = child.reader /\ child'.stop = child.stop
          /\ child'.primary = child.primary \/ child'.primary = "Script"
      BY <1>1, <1>8 DEF TakeReply, Children
    <2> QED
      BY <1>1, <1>2, <2>1 DEF Causes
  <1>9. CASE ChildStarts \/ RequestTarget \/ CheckRequest \/ EmitRequest \/ AnnounceStop
             \/ EnterWorkflow
    <2>1. /\ pipe' = pipe /\ child'.stop = child.stop /\ child'.primary = child.primary
          /\ child'.reader # "on" <=> child.reader # "on"
      BY <1>1, <1>9 DEF ChildStarts, ChildStep, RequestTarget, CheckRequest, EmitRequest,
         AnnounceStop, EnterWorkflow, Children
    <2> QED
      BY <1>1, <1>2, <2>1 DEF Causes
  <1>10. CASE (\E clean \in BOOLEAN : Terminate(clean)) \/ ChildExits \/ Watchdog \/ ChildCrash
    <2>1. /\ pipe' = pipe /\ child'.stop = child.stop /\ child'.primary = child.primary
          /\ child'.reader = child.reader
      BY <1>1, <1>10 DEF Terminate, ChildExits, Watchdog, ChildCrash, Dies, Children
    <2> QED
      BY <1>1, <1>2, <2>1 DEF Causes
  <1> QED
    BY <1>3, <1>4, <1>5, <1>6, <1>7, <1>8, <1>9, <1>10 DEF ChildNext

LEMMA NextCauses ==
  ASSUME Types, Phases, OneRequest, Roomy, Roomy', Causes, [Next]_vars PROVE Causes'
  <1>1. CASE UNCHANGED vars
    BY <1>1 DEF vars, Causes
  <1>2. CASE OperatorStop \/ (\E b \in Bounds : Pass(b)) \/ \E o \in Outcomes : ProbeReturns(o)
    <2>1. UNCHANGED <<sup, cmds, pipe, writer, child>>
      BY <1>2 DEF OperatorStop, Pass, ProbeReturns
    <2>2. /\ ctl # "none" => ctl' = ctl
          /\ Only(cmds, Told(ctl)) => Only(cmds, Told(ctl'))
          /\ Only(pipe, Told(ctl)) => Only(pipe, Told(ctl'))
      BY CtlStable, ToldKept
    <2>3. \A r \in Reasons : r # "none"
      BY DEF Reasons
    <2> QED
      BY <2>1, <2>2, <2>3 DEF Causes
  <1> QED
    BY <1>1, <1>2, SupCauses, WriterCauses, ChildCauses DEF Next

----------------------------------------------------------------------------
(* Without a stop or a crash there is no fault.                            *)

(* What disturbed a run once has disturbed it.                             *)
LEMMA QuietBefore == ASSUME Types, Phases, [Next]_vars, Quiet' PROVE Quiet
  <1>1. /\ sup \in Supervisors /\ child \in Children
        /\ "none" \notin Reasons /\ "settled" \notin Reasons
    BY DEF Types, TypeOK, Reasons
  <1>2. CASE UNCHANGED <<sup, child>>
    BY <1>2 DEF Quiet
  <1>3. CASE ChildNext
    <2>1. sup' = sup /\ child.exit = "none"
      BY <1>3, ChildTypes DEF Alive
    <2>2. child'.stop \in {"none", "settled"} => child.stop \in {"none", "settled"}
      <3>1. CASE ReadCommand
        <4> DEFINE m == Head(pipe)
        <4>1. m \in Commands
          BY <3>1, Headed DEF ReadCommand, Types, TypeOK
        <4>2. \/ m.command # "prepared" /\ child' = [child EXCEPT !.stop = Inherit(@, m.command), !.reader = "adopted"]
              \/ child' = [child EXCEPT !.awaiting = FALSE, !.reply = m.reply]
              \/ child' = [child EXCEPT !.stop = First(@, "cancelled"), !.reader = "adopted",
                                        !.invalid = TRUE]
          BY <3>1 DEF ReadCommand
        <4> HIDE DEF m
        <4>3. \/ child'.stop = child.stop
              \/ m.command # "prepared" /\ child'.stop = Inherit(child.stop, m.command)
              \/ child'.stop = First(child.stop, "cancelled")
          BY <1>1, <4>2 DEF Children
        <4> QED
          BY <1>1, <4>1, <4>3 DEF Inherit, First, Commands
      <3>2. CASE ControlLost \/ SettleEntry \/ \E why \in {"derived", "stage"} : ChildTimeout(why)
        BY <1>1, <3>2 DEF ControlLost, SettleEntry, ChildTimeout, Children, First
      <3>3. CASE ChildStarts \/ RequestTarget \/ CheckRequest \/ EmitRequest \/ AnnounceStop
                 \/ TakeReply \/ EnterWorkflow
        BY <1>1, <3>3 DEF ChildStarts, ChildStep, RequestTarget, CheckRequest, EmitRequest,
           AnnounceStop, TakeReply, EnterWorkflow, Children
      <3>4. CASE (\E p \in Endings : EntryEnds(p)) \/ (\E clean \in BOOLEAN : Terminate(clean))
                 \/ ChildExits \/ Watchdog \/ ChildCrash
        BY <1>1, <3>4 DEF EntryEnds, Terminate, ChildExits, Watchdog, ChildCrash, Dies, Children
      <3> QED
        BY <1>3, <3>1, <3>2, <3>3, <3>4 DEF ChildNext
    <2> QED
      BY <2>1, <2>2 DEF Quiet
  <1>4. CASE Decide
    <2>1. /\ child.exit = "none" /\ (sup'.stop = "none" => sup.stop = "none")
          /\ child' = child \/ child' = [child EXCEPT !.exit = "killed"]
      BY <1>1, <1>4, DecideEffect, ObservedType DEF StopDue
    <2>2. child'.stop = child.stop
      BY <1>1, <2>1 DEF Children
    <2> QED
      BY <2>1, <2>2 DEF Quiet
  <1>5. CASE Drain \/ FinalDrain
    <2>1. Head(out) \in Events /\ child' = child
      BY <1>5, Headed DEF Drain, FinalDrain, Types, TypeOK
    <2>2. sup'.stop = sup.stop
      BY <1>5, <2>1, ReceiveEffect DEF Drain, FinalDrain
    <2> QED
      BY <2>1, <2>2 DEF Quiet
  <1>6. CASE Refuse \/ Spawn \/ EndDrain \/ Reaped \/ CancelProbe \/ JoinProbe \/ Poll \/ Conclude
    <2>1. /\ sup'.stop = sup.stop /\ child'.stop = child.stop /\ child'.exit = child.exit
      <3>1. CASE Refuse \/ EndDrain \/ Reaped \/ CancelProbe \/ JoinProbe \/ Poll
        BY <1>1, <3>1, PollEffect DEF Supervisors, Refuse, EndDrain, Reaped, CancelProbe, JoinProbe
      <3>2. CASE Spawn \/ Conclude
        BY ZenonT(60), <1>1, <3>2 DEF Supervisors, Children, Spawn, Conclude
      <3> QED
        BY <1>6, <3>1, <3>2
    <2> QED
      BY <2>1 DEF Quiet
  <1>7. CASE OperatorStop \/ (\E b \in Bounds : Pass(b)) \/ (\E o \in Outcomes : ProbeReturns(o))
             \/ Write \/ WriterEnds
    BY <1>2, <1>7 DEF OperatorStop, Pass, ProbeReturns, Write, WriterEnds
  <1> QED
    BY <1>2, <1>3, <1>4, <1>5, <1>6, <1>7 DEF Next, SupNext, vars

(* In a quiet run the loop reads no frame that breaks the protocol.        *)
LEMMA NoViolation ==
  ASSUME Types, OneRequest, Frames, Probing, Quiet, NEW m \in Events, out # <<>>, m = Head(out),
         m \in Requests => sup.pc \in Loop
  PROVE  ~Violation(m)
  <1>1. out \in Seq(Events)
    BY DEF Types, TypeOK
  <1>2. /\ m \in Cut => Has(out, Cut)
        /\ m \in Started => Has(out, Started)
        /\ m \in Terminals => Has(out, Terminals)
        /\ m \in Natives => Has(out, Natives)
        /\ m \in Requests => Has(out, Requests)
        /\ m \in Numbered(child.linkSeq)
    BY <1>1, Headed DEF OneRequest
  <1>3. /\ m \notin Cut /\ ~(m \in Started /\ sup.built) /\ ~(m \in Terminals /\ sup.terminal)
        /\ ~(m \in Natives /\ sup.entry # "none")
    BY <1>2 DEF Frames, Quiet
  <1>4. ASSUME m \in Requests
        PROVE  sup.entry = "none" /\ sup.pending = 0 /\ m.seq = sup.seq + 1 /\ CanRequest
    <2>1. sup.pending = 0 /\ child.awaiting /\ m.seq = child.linkSeq
      BY <1>2, <1>4 DEF OneRequest, Requested, Pending, Numbered, Requests, Named
    <2>2. child.linkSeq = sup.seq + 1 /\ CanRequest /\ sup.pc \in Loop
      BY <1>2, <1>4, <2>1 DEF Probing, Requested, Pending, CanRequest
    <2>3. child.main = "wait"
      BY <2>1 DEF Probing, Quiet
    <2>4. sup.entry = "none"
      BY <2>3 DEF Frames, Ended
    <2> QED
      BY <2>1, <2>2, <2>4
  <1> QED
    BY <1>3, <1>4 DEF Violation

LEMMA NextCalm ==
  ASSUME Types, Phases, OneRequest, Roomy, Roomy', Frames, Probing, Calm, [Next]_vars PROVE Calm'
  <1> SUFFICES ASSUME Quiet' PROVE writer' # "failed" /\ sup'.fault \in Reasons \cup {"none"}
    BY DEF Calm
  <1>1. /\ sup \in Supervisors /\ out \in Seq(Events) /\ cmds \in Seq(Commands)
        /\ Quiet /\ writer # "failed" /\ sup.fault \in Reasons \cup {"none"}
    BY QuietBefore DEF Calm, Types, TypeOK
  <1>2. CASE UNCHANGED vars
    BY <1>1, <1>2 DEF vars
  <1>3. CASE OperatorStop \/ (\E b \in Bounds : Pass(b)) \/ \E o \in Outcomes : ProbeReturns(o)
    BY <1>1, <1>3 DEF OperatorStop, Pass, ProbeReturns
  <1>4. CASE ChildNext
    BY <1>1, <1>4, ChildTypes
  <1>5. CASE WriterEnds
    BY <1>1, <1>5 DEF WriterEnds
  <1>6. CASE Write
    <2>1. child.exit = "none"
      <3> SUFFICES ASSUME child.exit = "ok" PROVE FALSE
        BY <1>1 DEF Quiet
      <3>1. child.main = "finished" /\ ~Has(cmds, Stops)
        BY <1>1 DEF Phases, Roomy, Quiet
      <3>2. ~Has(cmds, Replies)
        BY <1>1, <3>1 DEF OneRequest, Answered, Probing, Quiet
      <3>3. Only(cmds, Stops)
        BY <1>1, <3>2, Without DEF Stops, Replies
      <3> QED
        BY <1>1, <1>6, <3>1, <3>3, Sized DEF Write
    <2> QED
      BY <1>1, <1>6, <2>1 DEF Write
  <1>7. CASE Drain \/ FinalDrain
    <2> DEFINE m == Head(out)
    <2>1. out # <<>> /\ writer' = writer /\ m \in Events
      BY <1>1, <1>7, Headed DEF Drain, FinalDrain
    <2>2. CASE Receive(m) /\ (m \in Requests => sup.pc \in Loop)
      <3>1. ~Violation(m)
        BY <1>1, <2>1, <2>2, NoViolation
      <3>2. \/ sup'.fault = sup.fault
            \/ sup'.fault \in Reasons /\ sup'.fault = ctl'
        BY <2>1, <2>2, <3>1, FaultEffect
      <3> QED
        BY <1>1, <2>1, <3>2
    <2>3. CASE sup' = sup
      BY <1>1, <2>1, <2>3
    <2> QED
      BY <1>7, <2>2, <2>3 DEF Drain, FinalDrain, Loop, Requests, Named
  <1>8. CASE Poll
    BY <1>1, <1>8, PollEffect DEF Roomy, Poll
  <1>9. CASE Conclude
    <2>1. sup.terminal => sup.built
      BY DEF Frames
    <2>2. writer' = writer
      BY <1>9 DEF Conclude
    <2>3. sup'.fault = IF sup.fault # "none" THEN sup.fault
                       ELSE IF writer = "failed" \/ (~sup.built /\ sup.terminal) THEN "Transport"
                       ELSE "none"
      BY <1>1, <1>9 DEF Conclude, Supervisors
    <2> QED
      BY <1>1, <2>1, <2>2, <2>3
  <1>10. CASE Decide
    BY <1>1, <1>10, DecideEffect
  <1>11. CASE Refuse \/ Spawn \/ EndDrain \/ Reaped \/ CancelProbe \/ JoinProbe
    BY <1>1, <1>11 DEF Supervisors, Refuse, Spawn, EndDrain, Reaped, CancelProbe, JoinProbe
  <1> QED
    BY <1>2, <1>3, <1>4, <1>5, <1>6, <1>7, <1>8, <1>9, <1>10, <1>11 DEF Next, SupNext

----------------------------------------------------------------------------
(* The record.                                                             *)

LEMMA NextRecorded == ASSUME Types, Phases, Recorded, [Next]_vars PROVE Recorded'
  <1>1. sup \in Supervisors
    BY DEF Types, TypeOK
  <1>2. CASE sup.pc = "done"
    <2>1. sup' = sup /\ child' = child /\ prep' = prep /\ record' = record
          /\ (writer' = writer \/ writer = "open")
      <3>1. CASE UNCHANGED vars
        BY <3>1 DEF vars
      <3>2. ~SupNext
        <4>1. ~Poll
          BY <1>2, PollEffect
        <4> QED
          BY <1>2, <4>1 DEF SupNext, Refuse, Spawn, Drain, EndDrain, Reaped, Decide, CancelProbe,
             JoinProbe, FinalDrain, Conclude
      <3>3. ~ChildNext
        BY <1>2, ChildTypes DEF Phases, Alive
      <3>4. \A o \in Outcomes : ~ProbeReturns(o)
        BY <1>2 DEF Phases, ProbeReturns
      <3>5. CASE OperatorStop \/ (\E b \in Bounds : Pass(b)) \/ Write \/ WriterEnds
        BY <1>2, <3>5 DEF OperatorStop, Pass, Write, WriterEnds
      <3> QED
        BY <3>1, <3>2, <3>3, <3>4, <3>5 DEF Next
    <2>2. Account' = Account
      BY <2>1 DEF Account, CleanExit, PrimaryFault, Accounted
    <2>3. ctl # "none" => ctl' = ctl
      BY CtlStable
    <2>4. record = Refused /\ ctl # "none" => Refused' = Refused
      BY <2>3 DEF Refused
    <2> QED
      BY <1>2, <2>1, <2>2, <2>3, <2>4 DEF Recorded
  <1>3. CASE sup.pc # "done" /\ sup'.pc # "done"
    <2>1. record' = record
      <3>1. CASE SupNext
        <4>1. ~Refuse /\ ~Conclude
          BY <1>1, <1>3 DEF Refuse, Conclude, Supervisors
        <4> QED
          BY <3>1, <4>1, PollEffect, DecideEffect
          DEF SupNext, Spawn, Drain, EndDrain, Reaped, CancelProbe, JoinProbe, FinalDrain
      <3>2. CASE UNCHANGED vars
        BY <3>2 DEF vars
      <3>3. CASE OperatorStop \/ (\E b \in Bounds : Pass(b)) \/ (\E o \in Outcomes : ProbeReturns(o))
                 \/ Write \/ WriterEnds
        BY <3>3 DEF OperatorStop, Pass, ProbeReturns, Write, WriterEnds
      <3>4. CASE ChildNext
        BY <3>4, ChildTypes
      <3> QED
        BY <3>1, <3>2, <3>3, <3>4 DEF Next
    <2> QED
      BY <1>3, <2>1 DEF Recorded
  <1>4. CASE sup.pc # "done" /\ sup'.pc = "done"
    <2>1. CASE Refuse
      BY <2>1, <1>4 DEF Refuse, Refused, Recorded
    <2>2. CASE Conclude
      <3>1. /\ sup'.fault = IF sup.fault # "none" THEN sup.fault
                            ELSE IF writer = "failed" \/ (~sup.built /\ sup.terminal) THEN "Transport"
                            ELSE "none"
            /\ sup'.built = sup.built /\ sup'.entry = sup.entry /\ sup'.forced = sup.forced
            /\ sup'.terminal = sup.terminal /\ sup'.clean = sup.clean
            /\ sup'.sawStop = sup.sawStop /\ sup'.stop = sup.stop /\ sup'.entered = sup.entered
            /\ UNCHANGED <<child, prep, writer>> /\ writer # "open"
        BY <1>1, <2>2 DEF Conclude, Supervisors
      <3> DEFINE fault == IF sup.fault # "none" THEN sup.fault
                          ELSE IF writer = "failed" \/ (~sup.built /\ sup.terminal) THEN "Transport"
                          ELSE "none"
      <3>2. record' = [status |-> IF CleanExit /\ PrimaryFault(fault) = "none" THEN "PASS" ELSE "FAIL",
                       primary |-> PrimaryFault(fault), clean |-> CleanExit,
                       accounted |-> Accounted(fault),
                       entered |-> sup.terminal /\ sup.entered, settled |-> ~prep.failure]
        BY <2>2 DEF Conclude
      <3>3. sup'.fault = fault
        BY <3>1
      <3> HIDE DEF fault
      <3>4. /\ PrimaryFault(sup.fault)' = PrimaryFault(fault)
            /\ CleanExit' = CleanExit /\ Accounted(sup.fault)' = Accounted(fault)
        BY <3>1, <3>3 DEF PrimaryFault, CleanExit, Accounted
      <3>5. record' = Account'
        BY <3>1, <3>2, <3>4 DEF Account
      <3> QED
        BY <1>4, <3>1, <3>5 DEF Recorded
    <2>3. Refuse \/ Conclude
      <3>1. UNCHANGED vars => sup' = sup
        BY DEF vars
      <3>2. OperatorStop \/ (\E b \in Bounds : Pass(b)) \/ (\E o \in Outcomes : ProbeReturns(o))
              \/ Write \/ WriterEnds => sup' = sup
        BY DEF OperatorStop, Pass, ProbeReturns, Write, WriterEnds
      <3>3. ChildNext => sup' = sup
        BY ChildTypes
      <3>4. ~Drain /\ ~FinalDrain
        <4> SUFFICES ASSUME Drain \/ FinalDrain PROVE sup'.pc = sup.pc
          BY <1>4
        <4>1. Head(out) \in Events
          BY Headed DEF Drain, FinalDrain, Types, TypeOK
        <4> QED
          BY <4>1, ReceiveEffect DEF Drain, FinalDrain
      <3>5. ~Poll /\ ~Decide
        BY <1>4, PollEffect, DecideEffect
      <3>6. ~Spawn /\ ~EndDrain /\ ~Reaped /\ ~CancelProbe /\ ~JoinProbe
        BY <1>1, <1>4 DEF Spawn, EndDrain, Reaped, CancelProbe, JoinProbe, Supervisors
      <3> QED
        BY <1>4, <3>1, <3>2, <3>3, <3>4, <3>5, <3>6 DEF Next, SupNext
    <2> QED
      BY <2>1, <2>2, <2>3
  <1> QED
    BY <1>2, <1>3, <1>4

----------------------------------------------------------------------------
(* The invariant starts out true.                                          *)
Inv == /\ Types /\ Phases /\ OneRequest /\ Roomy
       /\ Frames /\ Probing /\ Causes /\ Calm /\ Recorded

LEMMA InitInv == Init => Inv
  <1> SUFFICES ASSUME Init PROVE Inv
    OBVIOUS
  <1>1. Types
    BY InitTypes
  <1>2. Phases
    BY DEF Init, Phases, Loop
  <1>3. OneRequest /\ Roomy
    BY Emptied DEF Init, OneRequest, Roomy, Asked, Requested, Pending, Answered, Replied
  <1>4. Frames
    BY Emptied DEF Init, Frames, InOrder, Ended
  <1>5. Probing
    BY Emptied DEF Init, Probing, Loop, Asked, Requested, Pending, Answered, Replied
  <1>6. Causes
    BY Emptied DEF Init, Causes, Reasons
  <1>7. Calm /\ Recorded
    BY DEF Init, Calm, Recorded
  <1> QED
    BY <1>1, <1>2, <1>3, <1>4, <1>5, <1>6, <1>7 DEF Inv

(* Every step keeps it when the channel has the two places of the code.    *)
LEMMA NextInv == ASSUME CmdCapacity >= 2, Inv, [Next]_vars PROVE Inv'
  <1> USE DEF Inv
  <1>1. Types' /\ Phases' /\ OneRequest' /\ Roomy'
    BY NextTypes, NextPhases, NextOneRequest, NextRoomy
  <1>2. Frames' /\ Probing' /\ Recorded'
    BY NextFrames, NextProbing, NextRecorded
  <1>3. Causes' /\ Calm'
    BY <1>1, NextCauses, NextCalm
  <1> QED
    BY <1>1, <1>2, <1>3

LEMMA InvHolds == CmdCapacity >= 2 /\ Spec => []Inv
  <1> SUFFICES ASSUME CmdCapacity >= 2 PROVE Spec => []Inv
    OBVIOUS
  <1>1. Inv /\ [Next]_vars => Inv'
    BY NextInv
  <1> QED
    BY <1>1, InitInv, PTL DEF Spec

(* Every variable of the attempt keeps its type.                           *)
THEOREM TypeCorrect == Spec => []TypeOK
  <1>1. Types => TypeOK
    BY DEF Types
  <1> QED
    BY <1>1, InitTypes, NextTypes, PTL DEF Spec

(* supervise() never returns while its startup probe still owns the target *)
(* binding or while its child is alive, whatever the child does and        *)
(* whichever bounds run out.                                               *)
THEOREM NothingIsDetached == Spec => []NothingDetached
  <1>1. Phases => NothingDetached
    BY DEF Phases, NothingDetached, Alive
  <1>2. Init => Phases
    BY InitInv DEF Inv
  <1> QED
    BY <1>1, <1>2, InitTypes, NextTypes, NextPhases, PTL DEF Spec

(* With the two places the code gives the command channel, the answer to a *)
(* startup request and the stop always find room, and no answer reaches a  *)
(* child that does not wait for it.                                        *)
THEOREM NothingIsLost == CmdCapacity >= 2 /\ Spec => []NoCommandLost
  <1>1. Inv => NoCommandLost
    BY DEF Inv, OneRequest, Roomy, NoCommandLost
  <1> QED
    BY <1>1, InvHolds, PTL

LEMMA RecordFields ==
  /\ NoRecord.status = "none" /\ NoRecord.primary = "none"
  /\ Refused.status = "FAIL" /\ Refused.primary = ctl /\ Refused.entered = FALSE
  /\ Account.primary = PrimaryFault(sup.fault) /\ Account.clean = CleanExit
  /\ Account.accounted = Accounted(sup.fault)
  /\ Account.entered = (sup.terminal /\ sup.entered)
  /\ Account.status = "PASS" => CleanExit /\ PrimaryFault(sup.fault) = "none"
  BY DEF NoRecord, Refused, Account

(* A record that lets a successor attempt start is that of a run whose     *)
(* child was cleaned and exited by itself, whose probe returned, and that  *)
(* no stop reached or was on its way to.                                   *)
THEOREM RecoveryIsSettled == CmdCapacity >= 2 /\ Spec => []RecoverOnlySettled
  <1>1. ASSUME Inv, Recoverable PROVE RecoverOnlySettled
    <2> USE DEF Inv
    <2>1. /\ sup \in Supervisors /\ cmds \in Seq(Commands) /\ pipe \in Seq(Commands)
          /\ "TargetExited" \notin Reasons \cup Faults
      BY <1>1 DEF Types, TypeOK, Reasons, Faults
    <2>2. record = Account /\ sup.pc = "done"
      BY <1>1, <2>1, RecordFields DEF Recorded, Recoverable
    <2>3. /\ Accounted(sup.fault) /\ CleanExit /\ sup.terminal /\ sup.entered
          /\ PrimaryFault(sup.fault) = "TargetExited"
      BY <1>1, <2>2, RecordFields DEF Recoverable
    <2>4. /\ sup.stop = "none" /\ child.exit = "ok" /\ ~sup.forced /\ sup.fault = "none"
          /\ sup.clean /\ sup.built
      BY <2>3 DEF Accounted, CleanExit
    <2>5. sup.entry = "TargetExited"
      BY <2>3, <2>4 DEF PrimaryFault
    <2>6. child.primary = "TargetExited" /\ child.entered /\ child.clean /\ child.main # "wait"
      BY <1>1, <2>3, <2>4, <2>5 DEF Frames
    <2>7. prep.worker = "none" /\ child.reader = "on"
      BY <1>1, <2>2, <2>4 DEF Phases, Causes
    <2>8. /\ ~Has(cmds, Stops) /\ ~Has(pipe, Stops)
          /\ ~Has(cmds, Replies) /\ ~Has(pipe, Replies)
      <3>1. ~child.awaiting
        BY <1>1, <2>6 DEF Probing, Unanswerable
      <3> QED
        BY <1>1, <2>4, <3>1 DEF Roomy, OneRequest, Answered, Replied
    <2>9. cmds = <<>> /\ pipe = <<>>
      <3>1. Only(cmds, Stops) /\ Only(pipe, Stops)
        BY <2>1, <2>8, Without DEF Stops, Replies
      <3> QED
        BY <2>1, <2>8, <3>1, Sized
    <2> QED
      BY <2>4, <2>6, <2>7, <2>9 DEF RecoverOnlySettled
  <1>2. Inv => RecoverOnlySettled
    BY <1>1 DEF RecoverOnlySettled
  <1> QED
    BY <1>2, InvHolds, PTL

(* The verdict of a run is the one its evidence supports: a pass is a      *)
(* clean, self-ended child with its probe returned; a cancelled or timed   *)
(* out run names the cause that the attempt's Control latched, and never a *)
(* timeout that the child only derived; a run that nothing disturbed is    *)
(* charged with no protocol fault.                                         *)
THEOREM VerdictsAreJust == CmdCapacity >= 2 /\ Spec => []VerdictIsJust
  <1>1. ASSUME Inv PROVE VerdictIsJust
    <2> USE DEF Inv
    <2>1. /\ sup \in Supervisors /\ child \in Children /\ record \in Records /\ prep \in Probes
          /\ "Startup" \notin Reasons /\ "Preparation" \notin Reasons /\ "none" \notin Reasons
      BY <1>1 DEF Types, TypeOK, Reasons
    <2>2. "derived" \notin {sup.entry, record.primary}
      BY <2>1 DEF Supervisors, Records, Published, Primaries, Faults, Reasons
    <2>3. PassIsClean
      <3> SUFFICES ASSUME record.status = "PASS"
                   PROVE  /\ child.primary = "Returned" /\ child.clean /\ child.exit = "ok"
                          /\ prep.worker = "none" /\ ~prep.failure /\ ~child.invalid
        BY DEF PassIsClean
      <3>1. record = Account /\ sup.pc = "done"
        BY <1>1, RecordFields DEF Recorded
      <3>2. CleanExit /\ PrimaryFault(sup.fault) = "none"
        BY <3>1, RecordFields
      <3>3. /\ sup.built /\ sup.terminal /\ sup.clean /\ child.exit = "ok" /\ ~sup.forced
        BY <3>2 DEF CleanExit
      <3>4. sup.entry \in {"none", "Returned"} /\ ~prep.failure
        BY <3>2, <3>3 DEF PrimaryFault
      <3>5. child.primary = "Returned" /\ child.clean
        BY <1>1, <3>3, <3>4 DEF Frames
      <3> QED
        BY <1>1, <3>1, <3>3, <3>4, <3>5 DEF Phases, OneRequest
    <2>4. AttributionAgrees
      <3> SUFFICES ASSUME ~sup.cut, record.primary \in Reasons PROVE record.primary = ctl
        BY DEF AttributionAgrees
      <3>1. CASE record = Refused
        BY <3>1, RecordFields
      <3>2. CASE record = Account
        <4>1. record.primary = PrimaryFault(sup.fault)
          BY <3>2, RecordFields
        <4>2. PrimaryFault(sup.fault) \in {sup.entry, sup.fault}
          BY <2>1, <4>1 DEF PrimaryFault
        <4>3. sup.entry \in Reasons => sup.entry = ctl
          BY <1>1, <2>1 DEF Frames, Causes
        <4> QED
          BY <1>1, <4>1, <4>2, <4>3 DEF Causes
      <3>3. CASE record = NoRecord
        BY <2>1, <3>3, RecordFields
      <3> QED
        BY <1>1, <3>1, <3>2, <3>3 DEF Recorded
    <2>5. QuietRunHasNoFault
      BY <1>1 DEF Calm, Quiet, QuietRunHasNoFault
    <2> QED
      BY <2>2, <2>3, <2>4, <2>5 DEF VerdictIsJust
  <1> QED
    BY <1>1, InvHolds, PTL
=============================================================================
