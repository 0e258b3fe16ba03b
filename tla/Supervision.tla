---------------------------- MODULE Supervision ----------------------------
(***************************************************************************)
(* One supervised attempt: `supervise` of runner/supervision.rs, the       *)
(* startup probe it owns (runner/startup.rs) and the child process it      *)
(* contains (runner/child.rs).  The two processes share only a command     *)
(* pipe, an evidence pipe and an absolute deadline.                        *)
(*                                                                         *)
(* The supervisor's 5 ms loop is three steps, drain, poll and decide.      *)
(* Time is a set of bounds that have run out; any order a clock allows is  *)
(* explored.  Evidence that the supervisor only archives (metrics, logs,   *)
(* lifecycle milestones, AdmissionClosed) is left out.                     *)
(***************************************************************************)
EXTENDS Naturals, Sequences

CONSTANTS MaxProbes,    \* bound: startup requests the script makes
          CmdCapacity,  \* capacity of the command channel (2 in the code)
          Bounds,       \* the time bounds that may run out
          Disconnects   \* values of supervise's `disconnect`: a stop is sent
                        \* as a command (FALSE) or by dropping the pipe

AllBounds == {"deadline", "cleanup", "entry", "containment"}

ASSUME SupervisionAssumption ==
  /\ MaxProbes \in Nat /\ CmdCapacity \in Nat \ {0} /\ Bounds \subseteq AllBounds
  /\ Disconnects \subseteq BOOLEAN /\ Disconnects # {}

VARIABLES sup,     \* the supervisor's locals
          ctl,     \* stop reason latched in the attempt's Control, or "none"
          due,     \* time bounds that have run out
          prep,    \* NativePreparation: the parent-owned startup probe
          cmds,    \* command channel, supervisor to writer thread
          writer,  \* "open", "closed" (pipe dropped) or "failed"
          pipe,    \* the child's stdin
          out,     \* the child's stdout and the receiver channel behind it
          child,   \* the child process
          record,  \* the RunRecord returned
          lost     \* history: a command found the channel full

vars == <<sup, ctl, due, prep, cmds, writer, pipe, out, child, record, lost>>

Reasons  == {"cancelled", "timeout"}
Outcomes == {"target", "nothing", "fault"}

Stop(why)          == [command |-> why, seq |-> 0, reply |-> "nothing"]
Prepared(n, reply) == [command |-> "prepared", seq |-> n, reply |-> reply]
Event(name)        == [event |-> name, seq |-> 0, primary |-> "none",
                       entered |-> FALSE, clean |-> FALSE]
NoRecord == [status |-> "none", primary |-> "none", entered |-> FALSE,
             accounted |-> FALSE, clean |-> FALSE, settled |-> FALSE]

Init ==
  /\ \E cut \in Disconnects : sup =
           [cut |-> cut, pc |-> "ready", seq |-> 0, pending |-> 0, entry |-> "none",
            stop |-> "none", fault |-> "none", terminal |-> FALSE,
            entered |-> FALSE, clean |-> FALSE, built |-> FALSE, forced |-> FALSE,
            sawStop |-> FALSE, open |-> TRUE]
  /\ ctl = "none"
  /\ due = {}
  /\ prep = [probe |-> TRUE, worker |-> "none", bound |-> FALSE, failure |-> FALSE]
  /\ cmds = <<>>
  /\ writer = "open"
  /\ pipe = <<>>
  /\ out = <<>>
  /\ child = [main |-> "none", exit |-> "none", stop |-> "none", reader |-> "on",
              linkSeq |-> 0, awaiting |-> FALSE, reply |-> "none",
              asking |-> "idle", bound |-> FALSE, entered |-> FALSE,
              primary |-> "none", clean |-> FALSE, invalid |-> FALSE]
  /\ record = NoRecord
  /\ lost = FALSE

Alive == child.main # "none" /\ child.exit = "none"
(* A child that does not exit by itself may leave a frame cut short.       *)
Dies(code) ==
  /\ child' = [child EXCEPT !.exit = code]
  /\ \E cut \in {<<>>, <<Event("Incomplete")>>} : out' = out \o cut
First(old, new) == IF old = "none" THEN new ELSE old
(* stop_state(): reading the Control past the deadline latches a timeout.  *)
Observed == IF ctl = "none" /\ "deadline" \in due THEN "timeout" ELSE ctl

----------------------------------------------------------------------------
(* The operator's Stop, relayed by the owner's Control, and time.          *)

OperatorStop ==
  /\ ctl = "none" /\ sup.pc # "done"
  /\ ctl' = "cancelled"
  /\ UNCHANGED <<sup, due, prep, cmds, writer, pipe, out, child, record, lost>>

Pass(bound) ==
  /\ bound \notin due /\ sup.pc # "done"
  /\ CASE bound = "deadline"    -> TRUE
       [] bound = "cleanup"     -> sup.stop # "none"
       [] bound = "entry"       -> sup.entry # "none"
       [] bound = "containment" -> "deadline" \in due
  /\ due' = due \cup {bound}
  /\ UNCHANGED <<sup, ctl, prep, cmds, writer, pipe, out, child, record, lost>>

----------------------------------------------------------------------------
(* The startup probe: it owns the captured target binding until it returns.*)

ProbeReturns(o) ==
  /\ prep.worker = "running"
  /\ o # "fault" => Observed = "none"
  /\ prep' = [prep EXCEPT !.worker = o]
  /\ ctl' = Observed
  /\ UNCHANGED <<sup, due, cmds, writer, pipe, out, child, record, lost>>

CanRequest == prep.worker = "none" /\ ~prep.bound /\ prep.probe

----------------------------------------------------------------------------
(* The supervisor.                                                         *)

Refuse ==
  /\ sup.pc = "ready" /\ Observed # "none"
  /\ ctl' = Observed
  /\ record' = [NoRecord EXCEPT !.status = "FAIL", !.primary = Observed, !.clean = TRUE]
  /\ sup' = [sup EXCEPT !.pc = "done"]
  /\ UNCHANGED <<due, prep, cmds, writer, pipe, out, child, lost>>

Spawn ==
  /\ sup.pc = "ready" /\ Observed = "none"
  /\ sup' = [sup EXCEPT !.pc = "drain"]
  /\ child' = [child EXCEPT !.main = "boot"]
  /\ UNCHANGED <<ctl, due, prep, cmds, writer, pipe, out, record, lost>>

(* A startup request is stop-and-wait: no request is outstanding, the      *)
(* sequence is the successor, and the attempt is not stopped.              *)
ReceiveProbe(m) ==
  IF sup.entry # "none" \/ sup.pending # 0 \/ m.seq # sup.seq + 1 \/ (Observed = "none" /\ ~CanRequest)
  THEN /\ sup' = [sup EXCEPT !.fault = "Transport"]
       /\ UNCHANGED <<ctl, prep>>
  ELSE IF Observed # "none"
  THEN /\ sup' = [sup EXCEPT !.fault = Observed]
       /\ ctl' = Observed
       /\ UNCHANGED prep
  ELSE /\ sup' = [sup EXCEPT !.seq = m.seq, !.pending = m.seq]
       /\ prep' = [prep EXCEPT !.worker = "running", !.probe = FALSE]
       /\ UNCHANGED ctl

(* NativeTransition advances the owner's stage clock only while no stop is *)
(* latched; settlement ends that clock and cancels an unanswered request.  *)
ReceiveTransition ==
  /\ sup' = [sup EXCEPT !.fault = IF sup.entry # "none" THEN "Authority"
                                  ELSE IF Observed # "none" THEN Observed ELSE @]
  /\ ctl' = IF sup.entry # "none" THEN ctl ELSE Observed
  /\ UNCHANGED prep

ReceiveSettlement(m) ==
  /\ ctl' = IF sup.pending # 0 THEN First(ctl, "cancelled") ELSE ctl
  /\ sup' = IF m.event = "Terminal"
            THEN [sup EXCEPT !.entry = m.primary, !.terminal = TRUE,
                             !.entered = m.entered, !.clean = m.clean,
                             !.fault = IF sup.terminal THEN "Transport" ELSE @]
            ELSE [sup EXCEPT !.entry = m.primary]
  /\ UNCHANGED prep

Receive(m) ==
  CASE m.event = "Incomplete"       -> /\ sup' = [sup EXCEPT !.fault = "Incomplete"]
                                       /\ UNCHANGED <<ctl, prep>>
    [] m.event = "ChildStarted"     -> /\ sup' = [sup EXCEPT !.built = TRUE,
                                                   !.fault = IF sup.built THEN "Transport" ELSE @]
                                       /\ UNCHANGED <<ctl, prep>>
    [] m.event = "StopRequested"    -> /\ sup' = [sup EXCEPT !.sawStop = TRUE]
                                       /\ UNCHANGED <<ctl, prep>>
    [] m.event = "TargetProbe"      -> ReceiveProbe(m)
    [] m.event = "NativeTransition" -> ReceiveTransition
    [] OTHER                        -> ReceiveSettlement(m)

Drain ==
  /\ sup.pc = "drain" /\ out # <<>>
  /\ Receive(Head(out))
  /\ out' = Tail(out)
  /\ UNCHANGED <<due, cmds, writer, pipe, child, record, lost>>

(* The receiver may be empty while frames are still in the pipe.           *)
EndDrain ==
  /\ sup.pc = "drain"
  /\ sup' = [sup EXCEPT !.pc = "poll"]
  /\ UNCHANGED <<ctl, due, prep, cmds, writer, pipe, out, child, record, lost>>

(* Mutant: the capability of a probe that found nothing is not returned.   *)
CollectedOnce == [prep EXCEPT !.worker = "none", !.bound = prep.worker # "nothing",
                              !.failure = @ \/ prep.worker = "fault"]

(* NativePreparation::poll(): the finished worker is joined and its        *)
(* capability returned.                                                    *)
Collected == [prep EXCEPT !.worker = "none", !.probe = TRUE,
                          !.bound = prep.worker # "nothing",
                          !.failure = @ \/ prep.worker = "fault"]

Answer == Prepared(sup.pending, prep.worker)

(* A finished probe answers the outstanding request, unless the entry has  *)
(* settled or a stop was sent.  Only a probe that found nothing may run    *)
(* again.                                                                  *)
Poll ==
  LET finished == sup.pending # 0 /\ prep.worker \in Outcomes
      answer   == finished /\ sup.entry = "none" /\ sup.stop = "none"
      room     == Len(cmds) < CmdCapacity
  IN
  /\ sup.pc = "poll"
  /\ prep' = IF finished THEN Collected ELSE prep
  /\ cmds' = IF answer /\ room THEN Append(cmds, Answer) ELSE cmds
  /\ lost' = (lost \/ (answer /\ ~room))
  /\ sup' = [sup EXCEPT !.pc = "decide",
                        !.pending = IF finished THEN 0 ELSE @,
                        !.fault = IF answer /\ ~room THEN "Transport" ELSE @]
  /\ UNCHANGED <<ctl, due, writer, pipe, out, child, record>>

Reaped ==
  /\ sup.pc = "decide" /\ child.exit # "none"
  /\ sup' = [sup EXCEPT !.pc = "settle", !.open = FALSE]
  /\ UNCHANGED <<ctl, due, prep, cmds, writer, pipe, out, child, record, lost>>

(* Mutant: a stop is sent in every round in which one is due.              *)
StopDueAgain == Observed # "none" \/ sup.fault # "none"

StopDue   == sup.stop = "none" /\ (Observed # "none" \/ sup.fault # "none")
StopCause == First(Observed, "cancelled")
(* Mutant: only a latched stop bounds the child.                           *)
OverdueStopped(stop) == stop # "none" /\ "cleanup" \in due

Overdue(stop) ==
  \/ stop # "none" /\ "cleanup" \in due
  \/ sup.entry # "none" /\ "entry" \in due
  \/ "containment" \in due

(* Stop is sent once, as the last command; containment then kills a child  *)
(* that has not ended within its bounds.                                   *)
Decide ==
  LET stop == IF StopDue THEN StopCause ELSE sup.stop
      send == StopDue /\ ~sup.cut
      room == Len(cmds) < CmdCapacity
  IN
  /\ sup.pc = "decide" /\ child.exit = "none"
  /\ ctl' = IF sup.stop # "none" THEN ctl ELSE IF send THEN First(Observed, stop) ELSE Observed
  /\ cmds' = IF send /\ room THEN Append(cmds, Stop(stop)) ELSE cmds
  /\ lost' = (lost \/ (send /\ ~room))
  /\ sup' = [sup EXCEPT !.stop = stop,
                        !.open = @ /\ ~StopDue /\ ~Overdue(stop),
                        !.forced = Overdue(stop),
                        !.pc = IF Overdue(stop) THEN "settle" ELSE "drain"]
  /\ IF Overdue(stop) THEN Dies("killed") ELSE UNCHANGED <<child, out>>
  /\ UNCHANGED <<due, prep, writer, pipe, record>>

(* startup.settle(): cancel a probe that is still out, then wait for its   *)
(* physical return.  Neither a kill nor a timeout detaches it.             *)
CancelProbe ==
  /\ sup.pc = "settle" /\ prep.worker # "none"
  /\ ctl' = First(ctl, "cancelled")
  /\ sup' = [sup EXCEPT !.pc = "join"]
  /\ UNCHANGED <<due, prep, cmds, writer, pipe, out, child, record, lost>>

(* Mutant: a cancelled probe is not waited for.                            *)
JoinProbeDetached ==
  /\ sup.pc = "join" \/ (sup.pc = "settle" /\ prep.worker = "none")
  /\ sup' = [sup EXCEPT !.pc = "finish"]
  /\ UNCHANGED <<ctl, due, prep, cmds, writer, pipe, out, child, record, lost>>

JoinProbe ==
  /\ \/ sup.pc = "settle" /\ prep.worker = "none"
     \/ sup.pc = "join" /\ prep.worker \in Outcomes
  /\ prep' = [prep EXCEPT !.worker = "none", !.failure = @ \/ prep.worker = "fault"]
  /\ sup' = [sup EXCEPT !.pc = "finish"]
  /\ UNCHANGED <<ctl, due, cmds, writer, pipe, out, child, record, lost>>

(* Reader and writer have been joined: what the child wrote is complete.   *)
FinalDrain ==
  /\ sup.pc = "finish" /\ writer # "open" /\ out # <<>>
  /\ IF Head(out).event \in {"TargetProbe", "NativeTransition"} THEN UNCHANGED <<sup, ctl, prep>>
     ELSE Receive(Head(out))
  /\ out' = Tail(out)
  /\ UNCHANGED <<due, cmds, writer, pipe, child, record, lost>>

(* Mutant: the child's own report of its cleanup is enough.                *)
CleanExitReported == sup.terminal /\ sup.clean

CleanExit == /\ sup.built /\ sup.terminal /\ sup.clean
             /\ child.exit = "ok" /\ ~sup.forced

(* Mutant: a stop that was sent does not end the account.                  *)
AccountedAnyway(fault) ==
  /\ sup.terminal /\ ~sup.sawStop /\ fault = "none" /\ ~prep.failure
  /\ child.exit = "ok" /\ ~sup.forced

(* settled_evidence(): nothing interrupted the child's own account.        *)
Accounted(fault) ==
  /\ sup.terminal /\ ~sup.sawStop /\ fault = "none" /\ ~prep.failure
  /\ sup.stop = "none" /\ child.exit = "ok" /\ ~sup.forced

(* terminal_primary(): the entry's own fault, then the supervisor's, then  *)
(* the probe's; a frame that containment cut short is no fault of a child  *)
(* that had returned.                                                      *)
PrimaryFault(fault) ==
  LET ended == IF sup.entry = "Returned" THEN "none" ELSE sup.entry
      cut   == (sup.forced \/ child.exit = "124") /\ sup.entry = "Returned" /\ fault = "Incomplete"
  IN
  IF ~sup.built THEN "Startup"
  ELSE IF ended # "none" THEN ended
  ELSE IF fault # "none" /\ ~cut THEN fault
  ELSE IF prep.failure THEN "Preparation" ELSE "none"

(* The record: terminal evidence is authority only when nothing interrupted*)
(* the child, and a pass needs a verified clean exit.                      *)
Conclude ==
  LET fault == IF sup.fault # "none" THEN sup.fault
               ELSE IF writer = "failed" \/ (~sup.built /\ sup.terminal) THEN "Transport"
               ELSE "none"
      primary == PrimaryFault(fault)
  IN
  /\ sup.pc = "finish" /\ writer # "open" /\ out = <<>>
  /\ record' = [status |-> IF CleanExit /\ primary = "none" THEN "PASS" ELSE "FAIL",
                primary |-> primary, clean |-> CleanExit, accounted |-> Accounted(fault),
                entered |-> sup.terminal /\ sup.entered, settled |-> ~prep.failure]
  /\ sup' = [sup EXCEPT !.pc = "done", !.fault = fault]
  /\ UNCHANGED <<ctl, due, prep, cmds, writer, pipe, out, child, lost>>

----------------------------------------------------------------------------
(* The writer thread: it forwards commands up to the first stop, and fails *)
(* when the child is gone.                                                 *)

Write ==
  /\ writer = "open" /\ cmds # <<>>
  /\ cmds' = Tail(cmds)
  /\ IF child.exit # "none"
     THEN /\ writer' = "failed"
          /\ UNCHANGED pipe
     ELSE /\ pipe' = Append(pipe, Head(cmds))
          /\ writer' = IF Head(cmds).command = "prepared" THEN "open" ELSE "closed"
  /\ UNCHANGED <<sup, ctl, due, prep, out, child, record, lost>>

WriterEnds ==
  /\ writer = "open" /\ cmds = <<>> /\ ~sup.open
  /\ writer' = "closed"
  /\ UNCHANGED <<sup, ctl, due, prep, cmds, pipe, out, child, record, lost>>

----------------------------------------------------------------------------
(* The child process: its main thread, its control reader, and the thread  *)
(* that turns startup requests into evidence.                              *)

Emit(m) == out' = Append(out, m)
ChildStep(main, next) ==
  /\ Alive /\ child.main = main
  /\ child' = [child EXCEPT !.main = next]
  /\ UNCHANGED <<sup, ctl, due, prep, cmds, writer, pipe, record, lost>>

ChildStarts == ChildStep("boot", "run") /\ Emit(Event("ChildStarted"))

(* StartupLink::request(): one request at a time, numbered.                *)
RequestTarget ==
  /\ Alive /\ child.main = "run" /\ child.stop = "none"
  /\ ~sup.cut /\ ~child.bound /\ child.linkSeq < MaxProbes
  /\ ~child.awaiting /\ child.reply = "none"
  /\ child' = [child EXCEPT !.main = "wait", !.linkSeq = @ + 1, !.awaiting = TRUE,
                            !.asking = "asked"]
  /\ UNCHANGED <<sup, ctl, due, prep, cmds, writer, pipe, out, record, lost>>

(* The forwarding thread checks the Control, then emits.                   *)
CheckRequest ==
  /\ Alive /\ child.asking = "asked"
  /\ child' = [child EXCEPT !.asking = IF child.stop = "none" THEN "checked" ELSE "idle"]
  /\ UNCHANGED <<sup, ctl, due, prep, cmds, writer, pipe, out, record, lost>>

EmitRequest ==
  /\ Alive /\ child.asking = "checked"
  /\ child' = [child EXCEPT !.asking = "idle"]
  /\ Emit([Event("TargetProbe") EXCEPT !.seq = child.linkSeq])
  /\ UNCHANGED <<sup, ctl, due, prep, cmds, writer, pipe, record, lost>>

(* StartupLink::receive(): only the reply to the outstanding request.      *)
Accepts(m) == child.awaiting /\ m.seq = child.linkSeq /\ child.reply = "none"
(* Mutant: a derived timeout is kept although the verdict differs.         *)
InheritLate(old, why) == First(old, why)

(* inherit_stop(): the supervisor's verdict replaces only a timeout the    *)
(* child derived from the shared deadline.                                 *)
Inherit(old, why) == IF old \in {"none", "derived"} THEN why ELSE old

ReadCommand ==
  LET m == Head(pipe) IN
  /\ Alive /\ child.main # "boot" /\ child.reader = "on" /\ pipe # <<>>
  /\ pipe' = Tail(pipe)
  /\ child' =
       IF m.command # "prepared"
       THEN [child EXCEPT !.stop = Inherit(@, m.command), !.reader = "adopted"]
       ELSE IF Accepts(m)
       THEN [child EXCEPT !.awaiting = FALSE, !.reply = m.reply]
       ELSE [child EXCEPT !.stop = First(@, "cancelled"), !.reader = "adopted",
                          !.invalid = TRUE]
  /\ UNCHANGED <<sup, ctl, due, prep, cmds, writer, out, record, lost>>

ControlLost ==
  /\ Alive /\ child.main # "boot" /\ child.reader = "on"
  /\ pipe = <<>> /\ writer # "open"
  /\ child' = [child EXCEPT !.stop = First(@, "cancelled"), !.reader = "adopted"]
  /\ UNCHANGED <<sup, ctl, due, prep, cmds, writer, pipe, out, record, lost>>

AnnounceStop ==
  /\ Alive /\ child.reader = "adopted"
  /\ child' = [child EXCEPT !.reader = "off"]
  /\ Emit(Event("StopRequested"))
  /\ UNCHANGED <<sup, ctl, due, prep, cmds, writer, pipe, record, lost>>

(* The shared outer deadline is provisional; a stage deadline is earned.   *)
ChildTimeout(why) ==
  /\ Alive /\ child.main # "boot" /\ child.stop = "none"
  /\ why = "derived" => "deadline" \in due
  /\ child' = [child EXCEPT !.stop = why]
  /\ UNCHANGED <<sup, ctl, due, prep, cmds, writer, pipe, out, record, lost>>

TakeReply ==
  /\ Alive /\ child.main = "wait" /\ child.reply # "none"
  /\ child' = [child EXCEPT !.reply = "none",
                            !.main = IF child.reply = "fault" THEN "settle" ELSE "run",
                            !.primary = IF child.reply = "fault" THEN "Script" ELSE @,
                            !.bound = child.reply = "target"]
  /\ UNCHANGED <<sup, ctl, due, prep, cmds, writer, pipe, out, record, lost>>

EnterWorkflow ==
  /\ Alive /\ child.main = "run" /\ child.stop = "none"
  /\ child.bound /\ ~child.entered
  /\ child' = [child EXCEPT !.entered = TRUE]
  /\ Emit(Event("NativeTransition"))
  /\ UNCHANGED <<sup, ctl, due, prep, cmds, writer, pipe, record, lost>>

(* The entry ends with a fault it earned, with the latched stop, or by     *)
(* returning; a wait for the target ends only with the stop.               *)
Endings ==
  (IF child.stop = "none" THEN {} ELSE {child.stop})
    \cup (IF child.main = "wait" THEN {} ELSE {"Returned", "Script"})
    \cup (IF child.main = "run" /\ child.bound THEN {"TargetExited"} ELSE {})
EntryEnds(primary) ==
  /\ Alive /\ child.main \in {"run", "wait"} /\ primary \in Endings
  /\ child' = [child EXCEPT !.main = "settle", !.primary = primary]
  /\ UNCHANGED <<sup, ctl, due, prep, cmds, writer, pipe, out, record, lost>>

(* Mutant: the provisional timeout is published as it is.                  *)
ProvisionalPrimary == child.primary

(* The verdict that superseded a derived timeout names the primary.        *)
SettledPrimary == IF child.primary # "derived" THEN child.primary
                  ELSE IF child.stop = "cancelled" THEN "cancelled" ELSE "timeout"

(* settled_primary(): a provisional timeout waits for the adopted verdict, *)
(* and Control::cancel() closes the attempt once the entry is published.   *)
SettleEntry ==
  /\ Alive /\ child.main = "settle"
  /\ child.primary = "derived" => child.reader = "off"
  /\ child' = [child EXCEPT !.main = "clean", !.primary = SettledPrimary,
                            !.stop = First(@, "settled")]
  /\ Emit([Event("EntrySettled") EXCEPT !.primary = SettledPrimary])
  /\ UNCHANGED <<sup, ctl, due, prep, cmds, writer, pipe, record, lost>>

(* Host::finish() and Terminal; unverified cleanup parks until containment.*)
Terminate(clean) ==
  /\ Alive /\ child.main = "clean"
  /\ child' = [child EXCEPT !.main = IF clean THEN "finished" ELSE "parked", !.clean = clean]
  /\ Emit([Event("Terminal") EXCEPT !.primary = child.primary, !.entered = child.entered,
                                    !.clean = clean])
  /\ UNCHANGED <<sup, ctl, due, prep, cmds, writer, pipe, record, lost>>

ChildExits ==
  /\ Alive /\ child.main = "finished"
  /\ child' = [child EXCEPT !.exit = "ok"]
  /\ UNCHANGED <<sup, ctl, due, prep, cmds, writer, pipe, out, record, lost>>

(* The watchdog ends a child that outlives its cleanup time; any code the  *)
(* child runs may crash it.                                                *)
Watchdog ==
  /\ Alive /\ child.main # "boot" /\ child.stop # "none" /\ Dies("124")
  /\ UNCHANGED <<sup, ctl, due, prep, cmds, writer, pipe, record, lost>>
ChildCrash ==
  /\ Alive /\ Dies("err")
  /\ UNCHANGED <<sup, ctl, due, prep, cmds, writer, pipe, record, lost>>

ChildNext ==
  \/ ChildStarts \/ RequestTarget \/ CheckRequest \/ EmitRequest
  \/ ReadCommand \/ ControlLost \/ AnnounceStop
  \/ \E why \in {"derived", "stage"} : ChildTimeout(why)
  \/ TakeReply \/ EnterWorkflow \/ \E p \in Endings : EntryEnds(p)
  \/ SettleEntry \/ \E clean \in BOOLEAN : Terminate(clean)
  \/ ChildExits \/ Watchdog \/ ChildCrash

SupNext ==
  \/ Refuse \/ Spawn \/ Drain \/ EndDrain \/ Poll \/ Reaped \/ Decide
  \/ CancelProbe \/ JoinProbe \/ FinalDrain \/ Conclude

Next ==
  \/ OperatorStop
  \/ \E b \in Bounds : Pass(b)
  \/ \E o \in Outcomes : ProbeReturns(o)
  \/ SupNext \/ Write \/ WriterEnds \/ ChildNext

(* Time passes, the supervisor and its writer run, the probe physically    *)
(* returns.  Nothing is assumed of the child.                              *)
Fairness ==
  /\ \A b \in Bounds : WF_vars(Pass(b))
  /\ WF_vars(SupNext) /\ WF_vars(Write \/ WriterEnds)
  /\ WF_vars(\E o \in Outcomes : ProbeReturns(o))

Spec == Init /\ [][Next]_vars /\ Fairness

----------------------------------------------------------------------------
Faults == {"none", "Transport", "Incomplete", "Authority"} \cup Reasons
Primaries == {"none", "Returned", "Script", "TargetExited", "stage", "derived"} \cup Reasons
Published == Primaries \ {"derived"}
Commands == [command : Reasons \cup {"prepared"}, seq : Nat, reply : Outcomes]
Events == [event : {"ChildStarted", "TargetProbe", "NativeTransition", "StopRequested",
                    "EntrySettled", "Terminal", "Incomplete"},
           seq : Nat, primary : Published, entered : BOOLEAN, clean : BOOLEAN]

Supervisors ==
  [cut : BOOLEAN, pc : {"ready", "drain", "poll", "decide", "settle", "join", "finish", "done"},
   seq : Nat, pending : Nat, entry : Published, stop : Reasons \cup {"none"},
   fault : Faults, terminal : BOOLEAN, entered : BOOLEAN, clean : BOOLEAN,
   built : BOOLEAN, forced : BOOLEAN, sawStop : BOOLEAN, open : BOOLEAN]
Probes == [probe : BOOLEAN, worker : {"none", "running"} \cup Outcomes,
           bound : BOOLEAN, failure : BOOLEAN]
Children ==
  [main : {"none", "boot", "run", "wait", "settle", "clean", "finished", "parked"},
   exit : {"none", "ok", "err", "124", "killed"},
   stop : Reasons \cup {"none", "derived", "stage", "settled"},
   reader : {"on", "adopted", "off"}, linkSeq : Nat, awaiting : BOOLEAN,
   reply : Outcomes \cup {"none"}, asking : {"idle", "asked", "checked"},
   bound : BOOLEAN, entered : BOOLEAN, primary : Primaries,
   clean : BOOLEAN, invalid : BOOLEAN]
Records ==
  [status : {"none", "PASS", "FAIL"},
   primary : Published \cup Faults \cup {"Startup", "Preparation"},
   entered : BOOLEAN, accounted : BOOLEAN, clean : BOOLEAN, settled : BOOLEAN]

(* Every variable keeps its type; a timeout that a child only derived from *)
(* the shared deadline is never published.                                 *)
TypeOK ==
  /\ sup \in Supervisors
  /\ ctl \in Reasons \cup {"none"}
  /\ due \subseteq Bounds
  /\ prep \in Probes
  /\ cmds \in Seq(Commands) /\ pipe \in Seq(Commands) /\ out \in Seq(Events)
  /\ writer \in {"open", "closed", "failed"}
  /\ child \in Children
  /\ record \in Records
  /\ lost \in BOOLEAN

(* A passed run is one whose child returned, verified its own cleanup,     *)
(* exited by itself, and whose parent-owned probe physically returned.     *)
PassIsClean ==
  record.status = "PASS" =>
    /\ child.primary = "Returned" /\ child.clean /\ child.exit = "ok"
    /\ prep.worker = "none" /\ ~prep.failure /\ ~child.invalid

(* recovery_allowance(): the record that lets a successor attempt start.   *)
Recoverable ==
  /\ record.primary = "TargetExited" /\ record.entered
  /\ record.accounted /\ record.settled /\ record.clean
(* A successor is allowed only when the first attempt holds nothing: its   *)
(* child was cleaned and reaped, no probe is out, and no stop reached or   *)
(* was on its way to the child.                                            *)
RecoverOnlySettled ==
  Recoverable =>
    /\ child.primary = "TargetExited" /\ child.entered
    /\ child.clean /\ child.exit = "ok"
    /\ prep.worker = "none" /\ cmds = <<>> /\ pipe = <<>> /\ child.reader = "on"

(* Stop and the startup reply always find room in the command channel, and *)
(* a late probe result never answers a request that another one is for.    *)
NoCommandLost == ~lost /\ ~child.invalid

(* A run recorded as cancelled or timed out names the cause that is latched*)
(* in the attempt's Control, whichever process saw the deadline first, when*)
(* stops are sent as commands.                                             *)
AttributionAgrees == ~sup.cut /\ record.primary \in Reasons => record.primary = ctl

(* Without a stop, a timeout or a crash the exchange is never mistaken for *)
(* a protocol violation.                                                   *)
QuietRunHasNoFault ==
  child.stop \in {"none", "settled"} /\ sup.stop = "none" /\ child.exit \in {"none", "ok"}
    => sup.fault \in Reasons \cup {"none"}

(* The verdict of a run is the one its evidence supports, and a timeout    *)
(* that the child only derived from the shared deadline is never published.*)
VerdictIsJust ==
  "derived" \notin {sup.entry, record.primary} /\ PassIsClean /\ AttributionAgrees /\ QuietRunHasNoFault

(* The supervisor never returns while its probe still owns the target      *)
(* binding, or while the child is alive.                                   *)
NothingDetached == sup.pc = "done" => prep.worker = "none" /\ ~Alive

(* Whatever the child does, supervision ends.                              *)
SupervisionEnds == <>(sup.pc = "done")
=============================================================================
