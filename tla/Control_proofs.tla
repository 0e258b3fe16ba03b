--------------------------- MODULE Control_proofs ---------------------------
(***************************************************************************)
(* What the latch of Control promises, for any number of threads, of       *)
(* controls and of attempts under an owner, and for any mix of calls.      *)
(*                                                                         *)
(* The invariant has named parts.  Places says where a call can be and     *)
(* which control it is settling; Claims ties each one-shot admission to    *)
(* the word that was swapped for it; Gated says who holds the gates;       *)
(* Watching and Unstopped say what a thread that holds them may rely on;   *)
(* Attribution follows a captured fault to the cause it is reported for.   *)
(* Two facts about the calls are hypotheses, named where they are used: a  *)
(* verdict is adopted by the control reader of a child, whose control owns *)
(* no attempt, and that reader ends with the first verdict.                *)
(***************************************************************************)
EXTENDS Control, TLAPS

(* Where a call can be: the steps that belong to one operation.            *)
Fits(pc, op) ==
  /\ pc = "casLaunch" => op = "launch"
  /\ pc = "casRecovery" => op = "recovery"
  /\ pc = "casQueue" => op = "queue"
  /\ pc = "casAdmit" => op = "admit"
  /\ pc \in {"flag", "effect"} => op = "effect"
  /\ pc \in {"open", "unopen"} => op = "workflow"
  /\ pc = "granted" => op \in Admissions
  /\ pc = "await" => op = "primary"

(* Where check() and settle() may return to.                               *)
Thens  == {"return", "granted", "casLaunch", "casRecovery", "casQueue", "casAdmit",
           "flag", "advance", "open"}
Afters == {"return", "readowner", "phase", "phasedone", "deadline", "advanceFailed"}

Place(s) ==
  /\ s.then \in Thens /\ Fits(s.then, s.op)
  /\ s.after \in Afters
  /\ Fits(s.pc, s.op)
  /\ s.pc = "idle" => s.op = "check"
  /\ s.pc \in {"owner", "readowner"} \/ s.after = "readowner" => Parent[s.ctl] # NoOne
  /\ s.after = "readowner" => s.pc \in {"latch", "close"}
  /\ s.goal = IF s.after = "readowner" THEN Parent[s.ctl] ELSE s.ctl
  /\ s.bits \subseteq Stops \cup {"derived", "phase"}
  /\ s.pc = "latch" => HasStop(s.bits)
  /\ s.op \in {"stop", "lost", "adopt"} =>
       /\ s.pc \in {"gate", "latch", "close", "return"}
       /\ s.after = "return" /\ s.bits \subseteq Stops
       /\ s.pc = "gate" => s.op # "adopt" /\ HasStop(s.bits)

Places == \A t \in Threads : Place(th[t])

(* One-shot admissions: the word whose change admits, and its holder.      *)
Claimed(o, c) ==
  \/ o = "launch" /\ "launch" \in cause[c]
  \/ o = "recovery" /\ "recovery" \in cause[c]
  \/ o = "queue" /\ transition[c] >= 1
  \/ o = "admit" /\ transition[c] >= 2
  \/ o = "workflow" /\ entered[c]

Holds(t, o, c) ==
  th[t].op = o /\ th[t].ctl = c /\ "granted" \in {th[t].pc, th[t].then}

Claims ==
  \A o \in Admissions, c \in Controls :
    /\ grants[o][c] <= 1
    /\ grants[o][c] = 1 => Claimed(o, c)
    /\ \A t \in Threads : Holds(t, o, c) => Claimed(o, c) /\ grants[o][c] = 0
    /\ \A t, u \in Threads : Holds(t, o, c) /\ Holds(u, o, c) => t = u

(* Who holds the gates.                                                    *)
Holding(t, s) ==
  /\ s.op \in {"stop", "lost"} /\ s.pc # "gate" => gate[s.ctl] = t
  /\ s.op = "launch" /\ s.pc # "ownergate" => gate[Authority(s.ctl)] = t
  /\ s.op = "effect" /\ s.pc # "ownergate" /\ (Parent[s.ctl] # NoOne \/ s.pc # "gate") =>
       gate[Authority(s.ctl)] = t
  /\ s.op = "effect" /\ s.pc \notin {"ownergate", "gate"} => gate[s.ctl] = t

Gated == \A t \in Threads : Holding(t, th[t])

(* A verdict is adopted on a control that owns no attempt.                 *)
AdoptsApart ==
  \A t \in Threads : \A k \in Calls[t] :
    k.op = "adopt" => \A c \in Controls : Parent[c] # k.ctl

(* Where the bit of an explicit Stop comes from: a call that holds the     *)
(* gate, an adopted verdict, or the owner of an attempt.                   *)
Sources ==
  \A t \in Threads :
    LET s == th[t] IN
    /\ s.op = "adopt" => \A c \in Controls : Parent[c] # s.ctl
    /\ s.pc = "latch" /\ "cancelled" \in s.bits =>
         /\ s.goal = s.ctl
         /\ s.op \in {"stop", "lost", "adopt"} \/ Parent[s.ctl] # NoOne

(* A launch or an effect that read its owner under the owner's gate: the   *)
(* owner holds no explicit Stop, or the attempt itself is stopped.         *)
Watched(s) ==
  s.op \in {"launch", "effect"} /\ Parent[s.ctl] # NoOne /\ s.after # "readowner"
    /\ s.pc \notin {"ownergate", "gate", "owner", "readowner"} =>
       \/ "cancelled" \notin cause[Parent[s.ctl]]
       \/ HasStop(cause[s.ctl])
       \/ s.pc = "latch"

Watching == \A t \in Threads : Watched(th[t])

(* No verdict is adopted at all: a process that supervises, or one that    *)
(* hosts the controlled harness.                                           *)
NoAdoption == \A t \in Threads : \A k \in Calls[t] : k.op # "adopt"

(* An owner's Stop is passed on only while the owner holds it, and an      *)
(* effect past its check runs on controls that hold none.                  *)
Clear(s) ==
  /\ s.op # "adopt"
  /\ s.pc = "latch" /\ "cancelled" \in s.bits /\ s.op \notin {"stop", "lost"} =>
       Parent[s.ctl] # NoOne /\ "cancelled" \in cause[Parent[s.ctl]]
  /\ s.pc \in {"flag", "effect"} =>
       /\ "cancelled" \notin cause[s.ctl]
       /\ "cancelled" \notin cause[Authority(s.ctl)]

Unstopped == \A t \in Threads : Clear(th[t])

(* The reader of a control is one thread, and it ends with its verdict.    *)
Reader(t, c) == \E k \in Calls[t] : k.ctl = c /\ k.op \in {"adopt", "lost"}
OneVerdict ==
  \A c \in Controls, t \in Threads :
    Reader(t, c) => /\ \A u \in Threads : Reader(u, c) => t = u
                    /\ \A b \in Budgets : b[t] <= 1

ReadsOnce(t) ==
  /\ th[t].op \in {"adopt", "lost"} => Reader(t, th[t].ctl) /\ left[t] = 0
  /\ \A c \in Controls :
       Reader(t, c) => /\ left[t] <= 1
                       /\ verdict[c] => left[t] = 0 /\ th[t].op \notin {"adopt", "lost"}

Verdicts == \A t \in Threads : ReadsOnce(t)

(* A latched word has one reason; a provisional one is a timeout.          *)
OneReason(s) ==
  /\ ~({"cancelled", "timeout"} \subseteq s)
  /\ "derived" \in s => "timeout" \in s /\ "superseded" \notin s
  /\ "superseded" \in s => HasStop(s)

(* From the capture of a fault to its publication: either the cause is the *)
(* captured one or it is the verdict that superseded it.                   *)
Follows(seen, now) ==
  \/ seen \cap Stops = now \cap Stops /\ ("derived" \in now => "derived" \in seen)
  \/ "derived" \in seen /\ "superseded" \in now /\ HasStop(now) /\ "derived" \notin now

Awaiting(s) ==
  s.pc \in {"stage", "await"} =>
    HasStop(s.seen) /\ OneReason(s.seen) /\ Follows(s.seen, cause[s.ctl])

Reported(c) ==
  report[c] # NoOne => /\ HasStop(cause[c]) /\ report[c] = ReasonOf(cause[c])
                       /\ "derived" \in cause[c] => verdict[c]

Attribution ==
  /\ \A c \in Controls : OneReason(cause[c]) /\ Reported(c)
  /\ \A t \in Threads : OneReason(th[t].bits) /\ Awaiting(th[t])


----------------------------------------------------------------------------
(* The values of the operators that choose a step, and the shape of a      *)
(* thread's record.                                                        *)

ThreadState ==
  [pc : PCs, op : Ops, ctl : Controls, reason : Stops, goal : Controls,
   bits : SUBSET Bits, after : PCs, then : PCs, seen : SUBSET Bits]

(* Where each call starts, case by case.                                   *)
LEMMA EntryOf ==
  ASSUME NEW op \in Ops, NEW c \in Controls
  PROVE  /\ op \in {"stop", "lost", "recovery"} => Entry(op, c) = "gate"
         /\ op = "adopt" => Entry(op, c) = "latch"
         /\ op = "launch" => Entry(op, c) = "ownergate"
         /\ op = "effect" /\ Parent[c] = NoOne => Entry(op, c) = "gate"
         /\ op = "effect" /\ Parent[c] # NoOne => Entry(op, c) = "ownergate"
         /\ op = "settle" => Entry(op, c) = "settle"
         /\ op \notin {"stop", "lost", "recovery", "adopt", "launch", "effect", "settle"} =>
              Entry(op, c) = CheckEntry(c)
  BY DEF Entry, Ops

(* Where a call goes on once its check has passed.                         *)
LEMMA ContinueOf ==
  ASSUME NEW op \in Ops, NEW c \in Controls
  PROVE  /\ op = "launch" => Continue(op, c) = "casLaunch"
         /\ op = "recovery" => Continue(op, c) = "casRecovery"
         /\ op = "effect" => Continue(op, c) = "flag"
         /\ op = "queue" => Continue(op, c) = "casQueue"
         /\ op = "admit" => Continue(op, c) = "casAdmit"
         /\ op = "advance" => Continue(op, c) = "advance"
         /\ op = "workflow" => Continue(op, c) \in {"advance", "open"}
         /\ op \notin {"launch", "recovery", "effect", "queue", "admit", "advance",
                       "workflow"} => Continue(op, c) = "return"
  BY DEF Continue, Ops

(* Which calls answer an error when the check refuses them.                *)
LEMMA AnswerOf ==
  ASSUME NEW t \in Threads
  PROVE  /\ th[t].op = "primary" => Answer(t) = "await"
         /\ th[t].op # "primary" => Answer(t) \in {"unopen", "return"}
         /\ Answer(t) = "unopen" => th[t].op = "workflow"
         /\ Answer(t) \in {"await", "unopen", "return"} /\ Answer(t) \in PCs
         /\ Fits(Answer(t), th[t].op)
  BY DEF Answer, Fits, PCs

(* The error of an expired stage is named first.                           *)
LEMMA RefusedOf ==
  ASSUME NEW t \in Threads
  PROVE  /\ Refused(t) \in {"stage", "await", "unopen", "return"} /\ Refused(t) \in PCs
         /\ Fits(Refused(t), th[t].op)
  BY AnswerOf DEF Refused, Fits, PCs

(* A thread between two calls.                                             *)
LEMMA IdleIs ==
  /\ Idle \in ThreadState
  /\ Idle.pc = "idle" /\ Idle.op = "check" /\ Idle.goal = Idle.ctl
  /\ Idle.bits = {} /\ Idle.after = "return" /\ Idle.then = "return"
  <1>1. (CHOOSE c \in Controls : TRUE) \in Controls
    BY ControlAssumption
  <1> QED
    BY <1>1 DEF Idle, ThreadState, PCs, Ops, Stops, Bits

(* The two variables every step reads, with their types.                   *)
LEMMA TypesShape ==
  TypeOK => /\ th \in [Threads -> ThreadState]
            /\ cause \in [Controls -> SUBSET Bits]
  BY DEF TypeOK, ThreadState

(* The reason read from a latch is a Stop it holds.                        *)
LEMMA ReasonIs ==
  ASSUME NEW s
  PROVE  /\ ReasonOf(s) \in Stops
         /\ HasStop(s) => ReasonOf(s) \in s
  BY DEF ReasonOf, HasStop, Stops


----------------------------------------------------------------------------
(* How a step moves its thread: the forms that the record of a thread can  *)
(* take, and the form each action gives it.                                *)

Only(t) == /\ th' \in [Threads -> ThreadState]
           /\ \A u \in Threads : u # t => th'[u] = th[u]

Goes(t, p) ==
  /\ Only(t) /\ th'[t].op = th[t].op /\ th'[t].ctl = th[t].ctl
  /\ th'[t].pc = p /\ th'[t].then = th[t].then /\ th'[t].seen = th[t].seen
  /\ th'[t].goal = th[t].goal /\ th'[t].bits = th[t].bits /\ th'[t].after = th[t].after

Checks(t, next) ==
  /\ Only(t) /\ th'[t].op = th[t].op /\ th'[t].ctl = th[t].ctl
  /\ th'[t].pc = CheckEntry(th[t].ctl) /\ th'[t].then = next /\ th'[t].seen = th[t].seen
  /\ th'[t].goal = th[t].goal /\ th'[t].bits = th[t].bits /\ th'[t].after = th[t].after

Settles(t, g, bits, after) ==
  /\ Only(t) /\ th'[t].op = th[t].op /\ th'[t].ctl = th[t].ctl
  /\ th'[t].pc = "latch" /\ th'[t].then = th[t].then /\ th'[t].seen = th[t].seen
  /\ th'[t].goal = g /\ th'[t].bits = bits /\ th'[t].after = after

Settled(t) ==
  /\ Only(t) /\ th'[t].op = th[t].op /\ th'[t].ctl = th[t].ctl
  /\ th'[t].pc = th[t].after /\ th'[t].then = th[t].then /\ th'[t].seen = th[t].seen
  /\ th'[t].goal = th[t].ctl /\ th'[t].bits = {} /\ th'[t].after = "return"

Captures(t) ==
  /\ Only(t) /\ th'[t].op = th[t].op /\ th'[t].ctl = th[t].ctl
  /\ th'[t].pc = Refused(t) /\ th'[t].then = th[t].then
  /\ th'[t].seen = cause[th[t].ctl]
  /\ th'[t].goal = th[t].goal /\ th'[t].bits = th[t].bits /\ th'[t].after = th[t].after

Begins(t, k) ==
  /\ Only(t) /\ th'[t].op = k.op /\ th'[t].ctl = k.ctl
  /\ th'[t].pc = Entry(k.op, k.ctl) /\ th'[t].then = Continue(k.op, k.ctl)
  /\ th'[t].goal = k.ctl /\ th'[t].bits = {k.reason} /\ th'[t].after = "return"

(* Go moves the program counter and nothing else.                          *)
LEMMA GoGoes ==
  ASSUME TypeOK, NEW t \in Threads, NEW p \in PCs, Go(t, p)
  PROVE  Goes(t, p)
  <1>1. th \in [Threads -> ThreadState]
    BY TypesShape
  <1>2. th' = [th EXCEPT ![t].pc = p]
    BY DEF Go
  <1>3. Only(t)
    BY <1>1, <1>2 DEF Only, ThreadState
  <1> QED
    BY <1>1, <1>2, <1>3 DEF Goes, ThreadState

(* Every check starts at one of two places.                                *)
LEMMA CheckIsPC ==
  ASSUME NEW c \in Controls
  PROVE  CheckEntry(c) \in PCs
  BY DEF CheckEntry, PCs

(* GoCheck starts the check of the control a call is about.                *)
LEMMA CheckChecks ==
  ASSUME TypeOK, NEW t \in Threads, NEW next \in PCs, GoCheck(t, next)
  PROVE  Checks(t, next)
  <1>1. th \in [Threads -> ThreadState]
    BY TypesShape
  <1>2. CheckEntry(th[t].ctl) \in PCs
    BY <1>1, CheckIsPC DEF ThreadState
  <1>3. th' = [th EXCEPT ![t].pc = CheckEntry(th[t].ctl), ![t].then = next]
    BY DEF GoCheck
  <1>4. Only(t)
    BY <1>1, <1>2, <1>3 DEF Only, ThreadState
  <1> QED
    BY <1>1, <1>3, <1>4 DEF Checks, ThreadState

(* GoLatch sends a call to the latch with the Stop it found.               *)
LEMMA LatchSettles ==
  ASSUME TypeOK, NEW t \in Threads, NEW g \in Controls, NEW bits \in SUBSET Bits,
         NEW after \in PCs, GoLatch(t, g, bits, after)
  PROVE  Settles(t, g, bits, after)
  <1>1. th \in [Threads -> ThreadState] /\ th[t] \in ThreadState
    BY TypesShape
  <1>2. th' = [th EXCEPT ![t].pc = "latch", ![t].goal = g, ![t].bits = bits,
                         ![t].after = after]
    BY DEF GoLatch
  <1>3. "latch" \in PCs
    BY DEF PCs
  <1>4. th' \in [Threads -> ThreadState]
    BY <1>1, <1>2, <1>3 DEF ThreadState
  <1>5. Only(t)
    BY <1>1, <1>2, <1>4 DEF Only
  <1> QED
    BY <1>1, <1>2, <1>5 DEF Settles, ThreadState

(* How the two reads of an owner's Stop move a call.                       *)
LEMMA OwnerMoves ==
  ASSUME TypeOK, Places, NEW t \in Threads
  PROVE  /\ CheckOwner(t) => \/ Settles(t, Parent[th[t].ctl], {"timeout", "derived"},
                                        "readowner")
                             \/ Goes(t, "readowner")
         /\ ReadOwner(t) =>
              IF HasStop(cause[Parent[th[t].ctl]])
              THEN Settles(t, th[t].ctl, {ReasonOf(cause[Parent[th[t].ctl]])}, "phase")
              ELSE Goes(t, "phase")
  <1>1. th[t] \in ThreadState /\ Place(th[t])
    BY TypesShape DEF Places
  <1>2. /\ {"timeout", "derived"} \in SUBSET Bits
        /\ {ReasonOf(cause[Parent[th[t].ctl]])} \in SUBSET Bits
    BY ReasonIs DEF Bits, Stops
  <1>3. "readowner" \in PCs /\ "phase" \in PCs
    BY DEF PCs
  <1>4. CASE th[t].pc \in {"owner", "readowner"}
    <2>1. Parent[th[t].ctl] \in Controls
      BY <1>1, <1>4, ControlAssumption DEF ThreadState, Place
    <2> QED
      BY <1>1, <1>2, <1>3, <2>1, GoGoes, LatchSettles
      DEF CheckOwner, ReadOwner, ThreadState
  <1> QED
    BY <1>4 DEF CheckOwner, ReadOwner, At

(* How a passed deadline moves a call.                                     *)
LEMMA DeadlineMoves ==
  ASSUME TypeOK, Places, NEW t \in Threads, CheckDeadline(t)
  PROVE  IF HasStop(cause[th[t].ctl]) THEN Captures(t)
         ELSE \/ Settles(t, th[t].ctl, {"timeout", "derived"}, "deadline")
              \/ Goes(t, th[t].then)
  <1>1. th \in [Threads -> ThreadState] /\ th[t] \in ThreadState
    BY TypesShape
  <1>2. {"timeout", "derived"} \in SUBSET Bits /\ "deadline" \in PCs
    BY DEF Bits, Stops, PCs
  <1>3. CASE HasStop(cause[th[t].ctl])
    <2>1. th' = [th EXCEPT ![t].pc = Refused(t), ![t].seen = cause[th[t].ctl]]
      BY <1>3 DEF CheckDeadline
    <2>2. Refused(t) \in PCs
      BY RefusedOf
    <2>3. cause[th[t].ctl] \in SUBSET Bits
      BY <1>1, TypesShape DEF ThreadState
    <2>4. Only(t)
      BY <1>1, <2>1, <2>2, <2>3 DEF Only, ThreadState
    <2>5. Captures(t)
      BY <1>1, <2>1, <2>4 DEF Captures, ThreadState
    <2> QED
      BY <1>3, <2>5
  <1>4. CASE ~HasStop(cause[th[t].ctl])
    <2>1. th[t].ctl \in Controls /\ th[t].then \in PCs
      BY <1>1 DEF ThreadState
    <2> QED
      BY <1>2, <1>4, <2>1, GoGoes, LatchSettles DEF CheckDeadline
  <1> QED
    BY <1>3, <1>4

(* How settling a native phase moves a call.                               *)
LEMMA SettleMoves ==
  ASSUME TypeOK, Places, NEW t \in Threads
  PROVE  /\ Latch(t) => Goes(t, "close")
         /\ Close(t) => Settled(t)
         /\ CheckPhase(t) => \/ Goes(t, "deadline")
                             \/ Settles(t, th[t].ctl, {"timeout", "phase"}, "phasedone")
         /\ PhaseDone(t) => Goes(t, "deadline")
  <1>1. th \in [Threads -> ThreadState] /\ th[t] \in ThreadState
    BY TypesShape
  <1>2. /\ "close" \in PCs /\ "deadline" \in PCs /\ "phasedone" \in PCs
        /\ {"timeout", "phase"} \in SUBSET Bits /\ th[t].ctl \in Controls
    BY <1>1 DEF PCs, Bits, Stops, ThreadState
  <1>3. ASSUME Close(t) PROVE Settled(t)
    <2>1. th' = [th EXCEPT ![t].pc = th[t].after, ![t].goal = th[t].ctl,
                           ![t].bits = {}, ![t].after = "return"]
      BY <1>3 DEF Close
    <2>2. Only(t)
      BY <1>1, <2>1 DEF Only, ThreadState, PCs
    <2> QED
      BY <1>1, <2>1, <2>2 DEF Settled, ThreadState
  <1>4. Latch(t) => Goes(t, "close")
    BY <1>2, GoGoes DEF Latch
  <1>5. PhaseDone(t) => Goes(t, "deadline")
    BY <1>2, GoGoes DEF PhaseDone
  <1>6. CheckPhase(t) => \/ Go(t, "deadline")
                         \/ GoLatch(t, th[t].ctl, {"timeout", "phase"}, "phasedone")
    BY DEF CheckPhase
  <1> QED
    BY <1>2, <1>3, <1>4, <1>5, <1>6, GoGoes, LatchSettles

(* How taking a gate moves a call.                                         *)
LEMMA GateMoves ==
  ASSUME TypeOK, Places, NEW t \in Threads
  PROVE  /\ TakeOwnerGate(t) =>
              Goes(t, IF th[t].op = "launch" THEN CheckEntry(th[t].ctl) ELSE "gate")
         /\ TakeGate(t) =>
              Goes(t, IF th[t].op \in {"stop", "lost"} THEN "latch"
                      ELSE CheckEntry(th[t].ctl))
  <1>1. th[t].ctl \in Controls
    BY TypesShape DEF ThreadState
  <1>2. CheckEntry(th[t].ctl) \in PCs /\ "gate" \in PCs /\ "latch" \in PCs
    BY <1>1, CheckIsPC DEF PCs
  <1> QED
    BY <1>2, GoGoes DEF TakeOwnerGate, TakeGate

(* How the swaps that admit move a call.                                   *)
LEMMA AdmitMoves ==
  ASSUME TypeOK, Places, NEW t \in Threads
  PROVE  /\ CasLaunch(t) => IF cause[th[t].ctl] = {} THEN Goes(t, "granted")
                            ELSE Checks(t, "return")
         /\ CasRecovery(t) => \/ /\ cause[th[t].ctl] \cap (Stops \cup {"recovery"}) = {}
                                 /\ Goes(t, "granted")
                              \/ Checks(t, "return") /\ UNCHANGED cause
         /\ CasQueue(t) => Checks(t, IF transition[th[t].ctl] = 0 THEN "granted"
                                     ELSE "return")
         /\ CasAdmit(t) => Checks(t, IF transition[th[t].ctl] = 1 THEN "granted"
                                     ELSE "return")
         /\ Open(t) => IF entered[th[t].ctl] THEN Goes(t, "return")
                       ELSE Checks(t, "granted")
  <1>1. "granted" \in PCs /\ "return" \in PCs
    BY DEF PCs
  <1> QED
    BY <1>1, GoGoes, CheckChecks
    DEF CasLaunch, CasRecovery, CasQueue, CasAdmit, CasTransition, Open

(* How the remaining steps move a call.                                    *)
LEMMA OtherMoves ==
  ASSUME TypeOK, Places, NEW t \in Threads
  PROVE  /\ ReadFlag(t) => Goes(t, "effect") \/ Goes(t, "return")
         /\ Effect(t) => Goes(t, "return")
         /\ AdvanceFailed(t) => Checks(t, "return")
         /\ ReadStage(t) => Goes(t, Answer(t))
         /\ SettleNative(t) => Goes(t, "return")
         /\ Unopen(t) => Goes(t, "return")
         /\ Publish(t) => Goes(t, "return")
         /\ Advance(t) => \/ Goes(t, "return")
                          \/ Settles(t, th[t].ctl, {"timeout", "phase"}, "advanceFailed")
                          \/ Checks(t, "return")
                          \/ th[t].op = "workflow" /\ Goes(t, "open")
  <1>1. /\ "effect" \in PCs /\ "return" \in PCs /\ "open" \in PCs
        /\ "advanceFailed" \in PCs /\ {"timeout", "phase"} \in SUBSET Bits
        /\ th[t].ctl \in Controls
    BY TypesShape DEF PCs, Bits, Stops, ThreadState
  <1>2. ReadFlag(t) => Goes(t, "effect") \/ Goes(t, "return")
    BY <1>1, GoGoes DEF ReadFlag
  <1>3. /\ Effect(t) => Goes(t, "return")
        /\ AdvanceFailed(t) => Checks(t, "return")
        /\ ReadStage(t) => Goes(t, Answer(t))
        /\ SettleNative(t) => Goes(t, "return")
        /\ Unopen(t) => Goes(t, "return")
        /\ Publish(t) => Goes(t, "return")
    BY <1>1, AnswerOf, GoGoes, CheckChecks
    DEF Effect, AdvanceFailed, ReadStage, SettleNative, Unopen, Publish
  <1>4. Advance(t) =>
           \/ Go(t, "return")
           \/ GoLatch(t, th[t].ctl, {"timeout", "phase"}, "advanceFailed")
           \/ GoCheck(t, "return")
           \/ th[t].op = "workflow" /\ Go(t, "open")
    BY DEF Advance
  <1>5. Advance(t) => \/ Goes(t, "return")
                      \/ Settles(t, th[t].ctl, {"timeout", "phase"}, "advanceFailed")
                      \/ Checks(t, "return")
                      \/ th[t].op = "workflow" /\ Goes(t, "open")
    BY <1>1, <1>4, GoGoes, CheckChecks, LatchSettles
  <1> QED
    BY <1>2, <1>3, <1>5

(* How a call begins and ends.                                             *)
LEMMA CallMoves ==
  ASSUME TypeOK, NEW t \in Threads
  PROVE  /\ Call(t) => \E k \in Calls[t] : k \in AllCalls /\ Begins(t, k)
         /\ Return(t) => Only(t) /\ th'[t] = Idle
  <1>1. th \in [Threads -> ThreadState]
    BY TypesShape
  <1>2. ASSUME Call(t)
        PROVE  \E k \in Calls[t] : k \in AllCalls /\ Begins(t, k)
    <2>1. PICK k \in Calls[t] :
            th' = [th EXCEPT ![t] = [pc |-> Entry(k.op, k.ctl), op |-> k.op,
                     ctl |-> k.ctl, reason |-> k.reason, goal |-> k.ctl,
                     bits |-> {k.reason}, after |-> "return",
                     then |-> Continue(k.op, k.ctl), seen |-> {}]]
      BY <1>2 DEF Call
    <2>2. k \in AllCalls /\ k.op \in Ops /\ k.ctl \in Controls /\ k.reason \in Stops
      BY ControlAssumption DEF AllCalls
    <2>3. Entry(k.op, k.ctl) \in PCs
      BY <2>2, EntryOf, CheckIsPC DEF PCs
    <2>4. Continue(k.op, k.ctl) \in PCs
      BY <2>2, ContinueOf DEF PCs
    <2>5. {k.reason} \in SUBSET Bits /\ "return" \in PCs
      BY <2>2 DEF Bits, PCs
    <2>6. [pc |-> Entry(k.op, k.ctl), op |-> k.op, ctl |-> k.ctl, reason |-> k.reason,
           goal |-> k.ctl, bits |-> {k.reason}, after |-> "return",
           then |-> Continue(k.op, k.ctl), seen |-> {}] \in ThreadState
      BY <2>2, <2>3, <2>4, <2>5 DEF ThreadState
    <2>7. Only(t)
      BY <1>1, <2>1, <2>6 DEF Only
    <2>8. Begins(t, k)
      BY <1>1, <2>1, <2>7 DEF Begins
    <2> QED
      BY <2>2, <2>8
  <1>3. ASSUME Return(t) PROVE Only(t) /\ th'[t] = Idle
    BY <1>1, <1>3, IdleIs DEF Return, Only
  <1> QED
    BY <1>2, <1>3


----------------------------------------------------------------------------
(* Types and places.                                                       *)

(* Every step of a thread keeps the other threads and their types.         *)
LEMMA StepOnly ==
  ASSUME TypeOK, Places, NEW t \in Threads, Call(t) \/ Step(t)
  PROVE  Only(t)
  <1> USE DEF Goes, Checks, Settles, Settled, Captures, Begins
  <1>1. CheckOwner(t) \/ ReadOwner(t) => Only(t)
    BY OwnerMoves
  <1>2. CheckDeadline(t) => Only(t)
    BY DeadlineMoves
  <1>3. Latch(t) \/ Close(t) \/ CheckPhase(t) \/ PhaseDone(t) => Only(t)
    BY SettleMoves
  <1>4. TakeOwnerGate(t) \/ TakeGate(t) => Only(t)
    BY GateMoves
  <1>5. CasLaunch(t) \/ CasRecovery(t) \/ CasQueue(t) \/ CasAdmit(t) \/ Open(t) => Only(t)
    BY AdmitMoves
  <1>6. ReadFlag(t) \/ Effect(t) \/ AdvanceFailed(t) \/ SettleNative(t) \/ Unopen(t)
          \/ ReadStage(t) \/ Publish(t) \/ Advance(t) => Only(t)
    BY OtherMoves
  <1>7. Call(t) \/ Return(t) => Only(t)
    BY CallMoves
  <1> QED
    BY <1>1, <1>2, <1>3, <1>4, <1>5, <1>6, <1>7 DEF Step

(* Every step keeps the types.                                             *)
LEMMA TypeStep ==
  ASSUME TypeOK, Places, Next
  PROVE  TypeOK'
  <1>1. CASE PassDeadline
    BY <1>1 DEF PassDeadline, TypeOK, latchVars, hostVars
  <1>2. ASSUME NEW c \in Controls, PassStage(c) PROVE TypeOK'
    BY <1>2 DEF PassStage, TypeOK, latchVars, hostVars
  <1>3. ASSUME NEW t \in Threads, Call(t) \/ Step(t) PROVE TypeOK'
    <2>1. /\ th' \in [Threads -> ThreadState]
          /\ th \in [Threads -> ThreadState] /\ th[t] \in ThreadState
      BY <1>3, StepOnly, TypesShape DEF Only
    <2>2. /\ th[t].ctl \in Controls /\ th[t].goal \in Controls /\ th[t].op \in Ops
          /\ th[t].bits \in SUBSET Bits /\ Place(th[t])
      BY <2>1 DEF ThreadState, Places
    <2>3. th' \in [Threads -> [pc : PCs, op : Ops, ctl : Controls, reason : Stops,
                              goal : Controls, bits : SUBSET Bits, after : PCs,
                              then : PCs, seen : SUBSET Bits]]
      BY <2>1 DEF ThreadState
    <2> HIDE DEF Place

    <2>Call. CASE Call(t)
      BY <2>2, <2>3, <2>Call
      DEF Call, At, TypeOK, latchVars, hostVars
    <2>Return. CASE Return(t)
      <3>1. gate' \in [Controls -> Threads \cup {NoOne}]
        BY <2>Return DEF Return, TypeOK
      <3>2. verdict' \in [Controls -> BOOLEAN]
        BY <2>Return DEF Return, TypeOK
      <3>3. th[t].pc = "granted" => th[t].op \in Admissions
        BY <2>2 DEF Place, Fits
      <3>4. grants' \in [Admissions -> [Controls -> Nat]]
        <4>1. CASE At(t, "granted")
          <5>1. grants' = [grants EXCEPT ![th[t].op][th[t].ctl] = @ + 1]
            BY <2>Return, <4>1 DEF Return
          <5>2. th[t].op \in Admissions
            BY <3>3, <4>1 DEF At
          <5> QED
            BY <2>2, <5>1, <5>2 DEF TypeOK
        <4>2. CASE ~At(t, "granted")
          BY <2>Return, <4>2 DEF Return, TypeOK
        <4> QED
          BY <4>1, <4>2
      <3> QED
        BY <2>3, <3>1, <3>2, <3>4, <2>Return DEF Return, TypeOK, latchVars, hostVars
    <2>TakeOwnerGate. CASE TakeOwnerGate(t)
      BY <2>2, <2>3, <2>TakeOwnerGate
      DEF TakeOwnerGate, At, Go, TypeOK, latchVars, hostVars
    <2>TakeGate. CASE TakeGate(t)
      BY <2>2, <2>3, <2>TakeGate
      DEF TakeGate, At, Go, TypeOK, latchVars, hostVars
    <2>Latch. CASE Latch(t)
      <3>1. \A s \in SUBSET Bits :
              Latched(th[t].op = "adopt", th[t].bits, s) \in SUBSET Bits
        BY <2>2 DEF Latched, Bits
      <3>2. cause' \in [Controls -> SUBSET Bits]
        BY <2>2, <2>Latch, <3>1, TypesShape DEF Latch
      <3> QED
        BY <2>3, <3>2, <2>Latch DEF Latch, TypeOK, latchVars, hostVars
    <2>Close. CASE Close(t)
      BY <2>2, <2>3, <2>Close
      DEF Close, At, TypeOK, latchVars, hostVars
    <2>CheckOwner. CASE CheckOwner(t)
      BY <2>2, <2>3, <2>CheckOwner
      DEF CheckOwner, At, Go, GoLatch, TypeOK, latchVars, hostVars
    <2>ReadOwner. CASE ReadOwner(t)
      BY <2>2, <2>3, <2>ReadOwner
      DEF ReadOwner, At, Go, GoLatch, TypeOK, latchVars, hostVars
    <2>CheckPhase. CASE CheckPhase(t)
      BY <2>2, <2>3, <2>CheckPhase
      DEF CheckPhase, At, Go, GoLatch, TypeOK, latchVars, hostVars
    <2>PhaseDone. CASE PhaseDone(t)
      BY <2>2, <2>3, <2>PhaseDone
      DEF PhaseDone, At, Go, TypeOK, latchVars, hostVars
    <2>CheckDeadline. CASE CheckDeadline(t)
      BY <2>2, <2>3, <2>CheckDeadline
      DEF CheckDeadline, At, Go, GoLatch, TypeOK, latchVars, hostVars
    <2>ReadStage. CASE ReadStage(t)
      BY <2>2, <2>3, <2>ReadStage
      DEF ReadStage, At, Go, TypeOK, latchVars, hostVars
    <2>CasLaunch. CASE CasLaunch(t)
      <3>1. {"launch"} \in SUBSET Bits
        BY DEF Bits
      <3>2. cause' \in [Controls -> SUBSET Bits]
        BY <2>2, <2>CasLaunch, <3>1, TypesShape DEF CasLaunch
      <3> QED
        BY <2>3, <3>2, <2>CasLaunch DEF CasLaunch, TypeOK, latchVars, hostVars
    <2>CasRecovery. CASE CasRecovery(t)
      <3>1. {"recovery"} \in SUBSET Bits
        BY DEF Bits
      <3>2. cause' \in [Controls -> SUBSET Bits]
        BY <2>2, <2>CasRecovery, <3>1, TypesShape DEF CasRecovery
      <3> QED
        BY <2>3, <3>2, <2>CasRecovery DEF CasRecovery, TypeOK, latchVars, hostVars
    <2>CasQueue. CASE CasQueue(t)
      BY <2>2, <2>3, <2>CasQueue
      DEF CasQueue, CasTransition, At, GoCheck, TypeOK, latchVars, hostVars
    <2>CasAdmit. CASE CasAdmit(t)
      BY <2>2, <2>3, <2>CasAdmit
      DEF CasAdmit, CasTransition, At, GoCheck, TypeOK, latchVars, hostVars
    <2>ReadFlag. CASE ReadFlag(t)
      BY <2>2, <2>3, <2>ReadFlag
      DEF ReadFlag, At, Go, TypeOK, latchVars, hostVars
    <2>Effect. CASE Effect(t)
      BY <2>2, <2>3, <2>Effect
      DEF Effect, At, Go, TypeOK, latchVars, hostVars
    <2>Advance. CASE Advance(t)
      <3>1. clock' \in [Controls -> [phase : 0..2, expired : BOOLEAN, settled : BOOLEAN]]
        <4>1. CASE UNCHANGED clock
          BY <4>1 DEF TypeOK
        <4>2. CASE /\ clock[th[t].ctl].phase # 2
                   /\ \E short \in BOOLEAN :
                        clock' = [clock EXCEPT ![th[t].ctl].phase = @ + 1,
                                               ![th[t].ctl].expired = late \/ short]
          <5>1. clock[th[t].ctl].phase # 2
            BY <4>2
          <5>2. PICK short \in BOOLEAN :
                  clock' = [clock EXCEPT ![th[t].ctl].phase = @ + 1,
                                         ![th[t].ctl].expired = late \/ short]
            BY <4>2
          <5>3. /\ clock[th[t].ctl].phase + 1 \in 0..2
                /\ (late \/ short) \in BOOLEAN
            BY SMTT(30), <2>2, <5>1 DEF TypeOK
          <5> DEFINE n == clock[th[t].ctl].phase + 1
                     x == late \/ short
          <5>4. clock' = [clock EXCEPT ![th[t].ctl].phase = n, ![th[t].ctl].expired = x]
            BY <5>2
          <5>5. n \in 0..2 /\ x \in BOOLEAN
            BY <5>3
          <5> HIDE DEF n, x
          <5>6. clock \in [Controls -> [phase : 0..2, expired : BOOLEAN, settled : BOOLEAN]]
            BY DEF TypeOK
          <5> QED
            BY <2>2, <5>4, <5>5, <5>6
        <4> QED
          BY <2>Advance, <4>1, <4>2 DEF Advance
      <3>2. clockLock' \in [Controls -> Threads \cup {NoOne}]
        BY <2>Advance DEF Advance, TypeOK
      <3> QED
        BY <2>3, <3>1, <3>2, <2>Advance DEF Advance, TypeOK, latchVars, hostVars
    <2>AdvanceFailed. CASE AdvanceFailed(t)
      BY <2>2, <2>3, <2>AdvanceFailed
      DEF AdvanceFailed, At, GoCheck, TypeOK, latchVars, hostVars
    <2>SettleNative. CASE SettleNative(t)
      <3>1. clock' \in [Controls -> [phase : 0..2, expired : BOOLEAN, settled : BOOLEAN]]
        <4> DEFINE x == clock[th[t].ctl].settled \/ th[t].ctl \in Native
        <4>1. clock' = [clock EXCEPT ![th[t].ctl].settled = x]
          BY <2>SettleNative, Zenon DEF SettleNative
        <4>2. x \in BOOLEAN
          BY <2>2 DEF TypeOK
        <4>3. clock \in [Controls -> [phase : 0..2, expired : BOOLEAN, settled : BOOLEAN]]
          BY DEF TypeOK
        <4> HIDE DEF x
        <4> QED
          BY <2>2, <4>1, <4>2, <4>3
      <3> QED
        BY <2>3, <3>1, <2>SettleNative DEF SettleNative, TypeOK, latchVars, hostVars
    <2>Open. CASE Open(t)
      BY <2>2, <2>3, <2>Open
      DEF Open, At, Go, GoCheck, TypeOK, latchVars, hostVars
    <2>Unopen. CASE Unopen(t)
      BY <2>2, <2>3, <2>Unopen
      DEF Unopen, At, Go, TypeOK, latchVars, hostVars
    <2>Publish. CASE Publish(t)
      <3>1. Primary(th[t].seen, cause[th[t].ctl]) \in Stops
        BY ReasonIs DEF Primary, Stops
      <3>2. report' \in [Controls -> Stops \cup {NoOne}]
        BY <2>Publish, <3>1 DEF Publish, TypeOK
      <3> QED
        BY <2>3, <3>2, <2>Publish DEF Publish, TypeOK, latchVars, hostVars
    <2> QED
      BY <1>3, <2>Call, <2>Return, <2>TakeOwnerGate, <2>TakeGate, <2>Latch, <2>Close, <2>CheckOwner, <2>ReadOwner, <2>CheckPhase, <2>PhaseDone, <2>CheckDeadline, <2>ReadStage, <2>CasLaunch, <2>CasRecovery, <2>CasQueue, <2>CasAdmit, <2>ReadFlag, <2>Effect, <2>Advance, <2>AdvanceFailed, <2>SettleNative, <2>Open, <2>Unopen, <2>Publish DEF Step
  <1> QED
    BY <1>1, <1>2, <1>3 DEF Next


(* Every step leaves a call at a place it can be in.                       *)
LEMMA PlaceStep ==
  ASSUME TypeOK, Places, Next
  PROVE  Places'
  <1>1. CASE PassDeadline \/ \E c \in Controls : PassStage(c)
    BY <1>1 DEF PassDeadline, PassStage, Places, Place
  <1>2. ASSUME NEW t \in Threads, Call(t) \/ Step(t) PROVE Places'
    <2>1. SUFFICES Place(th'[t])
      BY <1>2, StepOnly DEF Only, Places, Place
    <2>2. Place(th[t]) /\ th[t] \in ThreadState /\ th[t].ctl \in Controls
      BY TypesShape DEF Places, ThreadState
    <2>3. CheckEntry(th[t].ctl) = IF Parent[th[t].ctl] = NoOne THEN "phase" ELSE "owner"
      BY DEF CheckEntry

    <2>Call. CASE Call(t)
      <3>1. PICK k \in Calls[t] : k \in AllCalls /\ Begins(t, k)
        BY <2>Call, CallMoves
      <3>2. k.op \in Ops /\ k.ctl \in Controls /\ k.reason \in Stops
        BY <3>1 DEF AllCalls
      <3>3. Continue(k.op, k.ctl) \in Thens /\ Fits(Continue(k.op, k.ctl), k.op)
        BY <3>2, ContinueOf DEF Thens, Fits
      <3>4. /\ Entry(k.op, k.ctl) \in {"gate", "latch", "ownergate", "settle", "phase", "owner"}
            /\ Entry(k.op, k.ctl) = "owner" => Parent[k.ctl] # NoOne
            /\ k.op \in {"stop", "lost"} => Entry(k.op, k.ctl) = "gate"
            /\ k.op = "adopt" => Entry(k.op, k.ctl) = "latch"
        BY <3>2, EntryOf DEF CheckEntry
      <3>5. Fits(Entry(k.op, k.ctl), k.op)
        BY <3>4 DEF Fits
      <3>6. HasStop({k.reason})
        BY <3>2 DEF HasStop
      <3>7. /\ th'[t].op = k.op /\ th'[t].ctl = k.ctl /\ th'[t].goal = k.ctl
            /\ th'[t].pc = Entry(k.op, k.ctl) /\ th'[t].then = Continue(k.op, k.ctl)
            /\ th'[t].bits = {k.reason} /\ th'[t].after = "return"
        BY <3>1 DEF Begins
      <3>8. /\ Fits(th'[t].pc, th'[t].op) /\ Fits(th'[t].then, th'[t].op)
            /\ th'[t].then \in Thens /\ HasStop(th'[t].bits)
        BY <3>3, <3>5, <3>6, <3>7
      <3>9. th'[t].bits \subseteq Stops
        BY <3>2, <3>7
      <3>10. /\ th'[t].after \in Afters /\ th'[t].after # "readowner"
             /\ th'[t].pc # "idle"
        BY <3>4, <3>7 DEF Afters
      <3>11. th'[t].pc \in {"owner", "readowner"} => Parent[th'[t].ctl] # NoOne
        BY <3>4, <3>7
      <3>12. th'[t].op \in {"stop", "lost", "adopt"} =>
               /\ th'[t].pc \in {"gate", "latch", "close", "return"}
               /\ th'[t].pc = "gate" => th'[t].op # "adopt"
        BY <3>4, <3>7
      <3> QED
        BY <3>7, <3>8, <3>9, <3>10, <3>11, <3>12 DEF Place
    <2>Return. CASE Return(t)
      <3>1. th'[t] = Idle
        BY <2>Return, CallMoves
      <3> QED
        BY <3>1, IdleIs DEF Place, Fits, Thens, Afters
    <2>TakeOwnerGate. CASE TakeOwnerGate(t)
      <3>1. /\ th[t].pc = "ownergate"
            /\ Goes(t, IF th[t].op = "launch" THEN CheckEntry(th[t].ctl) ELSE "gate")
        BY <2>TakeOwnerGate, GateMoves DEF TakeOwnerGate, At
      <3>2. CASE th[t].op = "launch"
        BY <2>2, <2>3, <3>1, <3>2 DEF Goes, Place, Fits
      <3>3. CASE th[t].op # "launch"
        BY <2>2, <3>1, <3>3 DEF Goes, Place, Fits
      <3> QED
        BY <3>2, <3>3
    <2>TakeGate. CASE TakeGate(t)
      <3>1. /\ th[t].pc = "gate"
            /\ Goes(t, IF th[t].op \in {"stop", "lost"} THEN "latch"
                       ELSE CheckEntry(th[t].ctl))
        BY <2>TakeGate, GateMoves DEF TakeGate, At
      <3>2. CASE th[t].op \in {"stop", "lost"}
        BY <2>2, <3>1, <3>2 DEF Goes, Place, Fits
      <3>3. CASE th[t].op \notin {"stop", "lost"}
        BY <2>2, <2>3, <3>1, <3>3 DEF Goes, Place, Fits
      <3> QED
        BY <3>2, <3>3
    <2>Latch. CASE Latch(t)
      <3>1. th[t].pc = "latch" /\ Goes(t, "close")
        BY <2>Latch, SettleMoves DEF Latch, At
      <3> QED
        BY <2>2, <3>1 DEF Goes, Place, Fits
    <2>Close. CASE Close(t)
      <3>1. th[t].pc = "close" /\ Settled(t)
        BY <2>Close, SettleMoves DEF Close, At
      <3>2. th[t].after \in Afters \cap PCs
        BY <2>2 DEF Place, ThreadState
      <3> QED
        BY <2>2, <3>1, <3>2 DEF Settled, Place, Fits, Afters
    <2>CheckOwner. CASE CheckOwner(t)
      BY <2>2, <2>3, <2>CheckOwner, OwnerMoves
      DEF CheckOwner, At, Goes, Settles, Place, Fits, Thens, Afters,
         Admissions, HasStop, Stops
    <2>ReadOwner. CASE ReadOwner(t)
      BY SMTT(30), <2>2, <2>3, <2>ReadOwner, OwnerMoves, ReasonIs
      DEF ReadOwner, At, Goes, Settles, Place, Fits, Thens, Afters,
         Admissions, HasStop, Stops
    <2>CheckPhase. CASE CheckPhase(t)
      BY <2>2, <2>3, <2>CheckPhase, SettleMoves
      DEF CheckPhase, At, Goes, Settles, Settled, Place, Fits, Thens, Afters,
         Admissions, HasStop, Stops
    <2>PhaseDone. CASE PhaseDone(t)
      BY ZenonT(60), <2>2, <2>3, <2>PhaseDone, SettleMoves
      DEF PhaseDone, At, Goes, Settles, Settled, Place, Fits, Thens, Afters,
         Admissions
    <2>CheckDeadline. CASE CheckDeadline(t)
      <3>1. th[t].pc = "deadline"
        BY <2>CheckDeadline DEF CheckDeadline, At
      <3>2. CASE Captures(t)
        <4>1. /\ Refused(t) \in {"stage", "await", "unopen", "return"}
              /\ Fits(Refused(t), th[t].op)
          BY RefusedOf
        <4> QED
          BY <2>2, <3>1, <3>2, <4>1 DEF Captures, Place
      <3>3. CASE Settles(t, th[t].ctl, {"timeout", "derived"}, "deadline")
        BY <2>2, <3>1, <3>3 DEF Settles, Place, Fits, Afters, HasStop, Stops
      <3>4. CASE Goes(t, th[t].then)
        BY <2>2, <3>1, <3>4 DEF Goes, Place, Thens
      <3> QED
        BY <2>CheckDeadline, <3>2, <3>3, <3>4, DeadlineMoves
    <2>ReadStage. CASE ReadStage(t)
      BY <2>2, <2>ReadStage, AnswerOf, OtherMoves DEF ReadStage, At, Goes, Place
    <2>CasLaunch. CASE CasLaunch(t)
      BY <2>2, <2>3, <2>CasLaunch, AdmitMoves
      DEF CasLaunch, At, Goes, Checks, Place, Fits, Thens, Afters, Admissions
    <2>CasRecovery. CASE CasRecovery(t)
      BY <2>2, <2>3, <2>CasRecovery, AdmitMoves
      DEF CasRecovery, At, Goes, Checks, Place, Fits, Thens, Afters,
         Admissions
    <2>CasQueue. CASE CasQueue(t)
      BY <2>2, <2>3, <2>CasQueue, AdmitMoves
      DEF CasQueue, CasTransition, At, Goes, Checks, Place, Fits, Thens,
         Afters, Admissions
    <2>CasAdmit. CASE CasAdmit(t)
      BY <2>2, <2>3, <2>CasAdmit, AdmitMoves
      DEF CasAdmit, CasTransition, At, Goes, Checks, Place, Fits, Thens,
         Afters, Admissions
    <2>ReadFlag. CASE ReadFlag(t)
      BY <2>2, <2>3, <2>ReadFlag, OtherMoves
      DEF ReadFlag, At, Goes, Checks, Settles, Place, Fits, Thens, Afters,
         Admissions
    <2>Effect. CASE Effect(t)
      BY <2>2, <2>3, <2>Effect, OtherMoves
      DEF Effect, At, Goes, Checks, Settles, Place, Fits, Thens, Afters,
         Admissions
    <2>Advance. CASE Advance(t)
      <3>1. th[t].pc = "advance"
        BY <2>Advance DEF Advance, At
      <3>2. CASE Goes(t, "return") \/ (th[t].op = "workflow" /\ Goes(t, "open"))
        BY <2>2, <3>1, <3>2 DEF Goes, Place, Fits
      <3>3. CASE Settles(t, th[t].ctl, {"timeout", "phase"}, "advanceFailed")
        BY <2>2, <3>1, <3>3 DEF Settles, Place, Fits, Afters, HasStop, Stops
      <3>4. CASE Checks(t, "return")
        BY <2>2, <2>3, <3>1, <3>4 DEF Checks, Place, Fits, Thens
      <3> QED
        BY <2>Advance, <3>2, <3>3, <3>4, OtherMoves
    <2>AdvanceFailed. CASE AdvanceFailed(t)
      BY <2>2, <2>3, <2>AdvanceFailed, OtherMoves
      DEF AdvanceFailed, At, Goes, Checks, Settles, Place, Fits, Thens,
         Afters, Admissions
    <2>SettleNative. CASE SettleNative(t)
      BY ZenonT(60), <2>2, <2>3, <2>SettleNative, OtherMoves
      DEF SettleNative, At, Goes, Checks, Settles, Place, Fits, Thens, Afters,
         Admissions
    <2>Open. CASE Open(t)
      BY <2>2, <2>3, <2>Open, AdmitMoves
      DEF Open, At, Goes, Checks, Place, Fits, Thens, Afters, Admissions
    <2>Unopen. CASE Unopen(t)
      BY <2>2, <2>3, <2>Unopen, OtherMoves
      DEF Unopen, At, Goes, Checks, Settles, Place, Fits, Thens, Afters,
         Admissions
    <2>Publish. CASE Publish(t)
      BY <2>2, <2>3, <2>Publish, OtherMoves
      DEF Publish, At, Goes, Checks, Settles, Place, Fits, Thens, Afters,
         Admissions
    <2> QED
      BY <1>2, <2>Call, <2>Return, <2>TakeOwnerGate, <2>TakeGate, <2>Latch,
         <2>Close, <2>CheckOwner, <2>ReadOwner, <2>CheckPhase, <2>PhaseDone,
         <2>CheckDeadline, <2>ReadStage, <2>CasLaunch, <2>CasRecovery, <2>CasQueue,
         <2>CasAdmit, <2>ReadFlag, <2>Effect, <2>Advance, <2>AdvanceFailed,
         <2>SettleNative, <2>Open, <2>Unopen, <2>Publish
      DEF Step
  <1> QED
    BY <1>1, <1>2 DEF Next


----------------------------------------------------------------------------
(* Gates.                                                                  *)

Taking(t) == TakeOwnerGate(t) \/ TakeGate(t)

(* Between the gates and its return a call stays on its operation.         *)
LEMMA StaysOn ==
  ASSUME TypeOK, Places, NEW t \in Threads, Step(t), ~Return(t)
  PROVE  /\ th'[t].op = th[t].op /\ th'[t].ctl = th[t].ctl
         /\ ~Taking(t) => th[t].pc \notin {"idle", "gate", "ownergate"}
  <1> USE DEF Goes, Checks, Settles, Settled, Captures
  <1>1. CheckOwner(t) \/ ReadOwner(t) => th'[t].op = th[t].op /\ th'[t].ctl = th[t].ctl
    BY OwnerMoves
  <1>2. CheckDeadline(t) => th'[t].op = th[t].op /\ th'[t].ctl = th[t].ctl
    BY DeadlineMoves
  <1>3. Latch(t) \/ Close(t) \/ CheckPhase(t) \/ PhaseDone(t) =>
          th'[t].op = th[t].op /\ th'[t].ctl = th[t].ctl
    BY SettleMoves
  <1>4. Taking(t) => th'[t].op = th[t].op /\ th'[t].ctl = th[t].ctl
    BY GateMoves DEF Taking
  <1>5. CasLaunch(t) \/ CasRecovery(t) \/ CasQueue(t) \/ CasAdmit(t) \/ Open(t) =>
          th'[t].op = th[t].op /\ th'[t].ctl = th[t].ctl
    BY AdmitMoves
  <1>6. ReadFlag(t) \/ Effect(t) \/ AdvanceFailed(t) \/ SettleNative(t) \/ Unopen(t)
          \/ ReadStage(t) \/ Publish(t) \/ Advance(t) =>
            th'[t].op = th[t].op /\ th'[t].ctl = th[t].ctl
    BY OtherMoves
  <1>7. ~Taking(t) => th[t].pc \notin {"idle", "gate", "ownergate"}
    BY DEF Step, Taking, Latch, Close, CheckOwner, ReadOwner, CheckPhase, PhaseDone,
           CheckDeadline, ReadStage,
           CasLaunch, CasRecovery, CasQueue, CasAdmit, CasTransition,
           ReadFlag, Effect, Advance, AdvanceFailed, SettleNative, Open, Unopen,
           Publish, At
  <1> QED
    BY <1>1, <1>2, <1>3, <1>4, <1>5, <1>6, <1>7 DEF Step, Taking

(* A gate that is held is given back by its holder's return only.          *)
LEMMA GatesKept ==
  ASSUME TypeOK, NEW t \in Threads, Call(t) \/ Step(t), NEW c \in Controls,
         gate[c] # NoOne, gate[c] # t \/ ~Return(t)
  PROVE  gate'[c] = gate[c]
  <1>1. CASE Return(t)
    BY <1>1 DEF Return, TypeOK
  <1>2. CASE TakeOwnerGate(t)
    BY <1>2 DEF TakeOwnerGate, TypeOK
  <1>3. CASE TakeGate(t)
    BY <1>3 DEF TakeGate, TypeOK
  <1>4. CASE ~Return(t) /\ ~Taking(t)
    <2>1. gate' = gate
      BY <1>4 DEF Step, Taking, Call, Latch, Close, CheckOwner, ReadOwner, CheckPhase,
           PhaseDone, CheckDeadline, ReadStage, CasLaunch, CasRecovery, CasQueue, CasAdmit,
           CasTransition, ReadFlag, Effect, Advance, AdvanceFailed, SettleNative, Open,
           Unopen, Publish
    <2> QED
      BY <2>1
  <1> QED
    BY <1>1, <1>2, <1>3, <1>4 DEF Taking

(* Every step keeps the gates with the threads that took them.             *)
LEMMA GatedStep ==
  ASSUME TypeOK, Places, Gated, Next
  PROVE  Gated'
  <1>1. CASE PassDeadline \/ \E c \in Controls : PassStage(c)
    BY <1>1 DEF PassDeadline, PassStage, Gated, Holding
  <1>2. ASSUME NEW t \in Threads, Call(t) \/ Step(t) PROVE Gated'
    <2>1. ASSUME NEW u \in Threads, u # t PROVE Holding(u, th[u])'
      <3>1. th'[u] = th[u]
        BY <1>2, <2>1, StepOnly DEF Only
      <3>2. \A c \in Controls : gate[c] = u => gate'[c] = u
        BY <1>2, <2>1, GatesKept, ControlAssumption
      <3>3. th[u].ctl \in Controls /\ Authority(th[u].ctl) \in Controls
        BY TypesShape, ControlAssumption DEF ThreadState, Authority
      <3> QED
        BY <3>1, <3>2, <3>3 DEF Gated, Holding
    <2>2. Holding(t, th[t])'
      <3>1. th[t] \in ThreadState /\ Place(th[t]) /\ Holding(t, th[t])
        BY TypesShape DEF Places, Gated
      <3>2. th[t].ctl \in Controls /\ Authority(th[t].ctl) \in Controls
        BY <3>1, ControlAssumption DEF ThreadState, Authority
      <3>3. CASE Call(t)
        <4>1. PICK k \in Calls[t] : k \in AllCalls /\ Begins(t, k)
          BY <3>3, CallMoves
        <4>2. k.op \in Ops /\ k.ctl \in Controls
          BY <4>1 DEF AllCalls
        <4> QED
          BY <4>1, <4>2, EntryOf DEF Begins, Holding
      <3>4. CASE Return(t)
        BY <3>4, CallMoves, IdleIs DEF Holding
      <3>5. CASE TakeOwnerGate(t)
        <4>1. /\ gate' = [gate EXCEPT ![Authority(th[t].ctl)] = t]
              /\ gate[Authority(th[t].ctl)] = NoOne /\ th[t].pc = "ownergate"
          BY <3>5 DEF TakeOwnerGate, At
        <4>2. gate'[Authority(th[t].ctl)] = t
          BY <3>2, <4>1 DEF TypeOK
        <4>3. th'[t].op = th[t].op /\ th'[t].ctl = th[t].ctl
          BY <3>5, GateMoves DEF Goes
        <4>4. th[t].op # "launch" => th'[t].pc = "gate"
          BY <3>5, GateMoves DEF Goes
        <4> QED
          BY <3>1, <4>1, <4>2, <4>3, <4>4 DEF Holding, Place
      <3>6. CASE TakeGate(t)
        <4>1. /\ gate' = [gate EXCEPT ![th[t].ctl] = t]
              /\ gate[th[t].ctl] = NoOne /\ th[t].pc = "gate"
          BY <3>6 DEF TakeGate, At
        <4>2. gate'[th[t].ctl] = t
          BY <3>2, <4>1 DEF TypeOK
        <4>3. th'[t].op = th[t].op /\ th'[t].ctl = th[t].ctl
          BY <3>6, GateMoves DEF Goes
        <4>4. Parent[th[t].ctl] = NoOne => Authority(th[t].ctl) = th[t].ctl
          BY DEF Authority
        <4>5. gate[Authority(th[t].ctl)] = t => gate'[Authority(th[t].ctl)] = t
          BY <3>2, <4>1 DEF TypeOK
        <4> QED
          BY <3>1, <4>1, <4>2, <4>3, <4>4, <4>5 DEF Holding
      <3>7. CASE Step(t) /\ ~Return(t) /\ ~Taking(t)
        <4>1. /\ th'[t].op = th[t].op /\ th'[t].ctl = th[t].ctl
              /\ th[t].pc \notin {"idle", "gate", "ownergate"}
          BY <3>7, StaysOn
        <4>2. \A c \in Controls : gate[c] = t => gate'[c] = t
          BY <3>7, GatesKept, ControlAssumption
        <4> QED
          BY <3>1, <3>2, <4>1, <4>2 DEF Holding
      <3> QED
        BY <1>2, <3>3, <3>4, <3>5, <3>6, <3>7 DEF Taking
    <2> QED
      BY <2>1, <2>2 DEF Gated
  <1> QED
    BY <1>1, <1>2 DEF Next


----------------------------------------------------------------------------
(* The latch.                                                              *)

(* What latching adds to the causes, and what it never removes.            *)
LEMMA LatchedIs ==
  ASSUME NEW adopting, NEW s \in SUBSET Bits, NEW bits \in SUBSET Bits,
         bits \subseteq Stops \cup {"derived", "phase"}
  PROVE  /\ HasStop(bits) => HasStop(Latched(adopting, bits, s))
         /\ s \cap {"launch", "recovery", "superseded", "phase"}
              \subseteq Latched(adopting, bits, s)
         /\ \A b \in Stops \cup {"launch", "recovery", "derived"} :
              b \in Latched(adopting, bits, s) => b \in s \cup bits
         /\ HasStop(s) /\ Latched(adopting, bits, s) # s =>
              /\ adopting /\ "derived" \in s
              /\ Latched(adopting, bits, s) =
                   (s \ (Stops \cup {"derived"})) \cup bits \cup {"superseded"}
         /\ HasStop(s) /\ Latched(adopting, bits, s) \cap Stops # s \cap Stops =>
              "derived" \in s /\ "superseded" \in Latched(adopting, bits, s)
         /\ ~adopting => s \subseteq Latched(adopting, bits, s)
         /\ ~HasStop(s) => Latched(adopting, bits, s) = s \cup bits
  BY DEF Latched, HasStop, Stops, Bits

(* Only three actions write the latch.                                     *)
LEMMA CauseKept ==
  ASSUME TypeOK, NEW t \in Threads, Call(t) \/ Step(t)
  PROVE  \/ cause' = cause
         \/ Latch(t)
         \/ CasLaunch(t) /\ cause[th[t].ctl] = {}
              /\ cause' = [cause EXCEPT ![th[t].ctl] = {"launch"}]
         \/ CasRecovery(t) /\ cause[th[t].ctl] \cap (Stops \cup {"recovery"}) = {}
              /\ cause' = [cause EXCEPT ![th[t].ctl] = @ \cup {"recovery"}]
  BY DEF Step, Call, Return, TakeOwnerGate, TakeGate, Close, CheckOwner, ReadOwner,
         CheckPhase, PhaseDone, CheckDeadline, ReadStage,
         CasLaunch, CasRecovery, CasQueue, CasAdmit,
         CasTransition, ReadFlag, Effect, Advance, AdvanceFailed, SettleNative, Open,
         Unopen, Publish, latchVars

(* No step takes a cause back or replaces a Stop but a derived one.        *)
LEMMA FirstCauseStep ==
  ASSUME TypeOK, Places, [Next]_vars, NEW c \in Controls
  PROVE  /\ cause[c] \cap {"launch", "recovery", "superseded", "phase"} \subseteq cause'[c]
         /\ HasStop(cause[c]) /\ cause'[c] \cap Stops # cause[c] \cap Stops =>
              "derived" \in cause[c] /\ "superseded" \in cause'[c]
  <1>1. CASE cause' = cause
    BY <1>1
  <1>2. ASSUME NEW t \in Threads, Call(t) \/ Step(t), cause' # cause
        PROVE  /\ cause[c] \cap {"launch", "recovery", "superseded", "phase"} \subseteq cause'[c]
               /\ HasStop(cause[c]) /\ cause'[c] \cap Stops # cause[c] \cap Stops =>
                    "derived" \in cause[c] /\ "superseded" \in cause'[c]
    <2>1. th[t] \in ThreadState /\ Place(th[t]) /\ cause[c] \in SUBSET Bits
      BY TypesShape DEF Places
    <2>2. th[t].goal \in Controls /\ th[t].ctl \in Controls /\ th[t].bits \in SUBSET Bits
          /\ th[t].bits \subseteq Stops \cup {"derived", "phase"}
      BY <2>1 DEF ThreadState, Place
    <2>3. CASE Latch(t)
      <3>1. cause'[c] = cause[c] \/ cause'[c] = Latched(th[t].op = "adopt", th[t].bits, cause[c])
        BY <2>2, <2>3, TypesShape DEF Latch
      <3>2. CASE cause'[c] = cause[c]
        BY <3>2
      <3>3. CASE cause'[c] = Latched(th[t].op = "adopt", th[t].bits, cause[c])
        <4> DEFINE a == th[t].op = "adopt"
                   l == Latched(a, th[t].bits, cause[c])
        <4>1. cause'[c] = l
          BY <3>3
        <4> HIDE DEF a
        <4>3. \A b \in SUBSET Bits, x \in SUBSET Bits :
                b \subseteq Stops \cup {"derived", "phase"} =>
                  /\ x \cap {"launch", "recovery", "superseded", "phase"} \subseteq Latched(a, b, x)
                  /\ HasStop(x) /\ Latched(a, b, x) \cap Stops # x \cap Stops =>
                       "derived" \in x /\ "superseded" \in Latched(a, b, x)
          BY LatchedIs
        <4>2. /\ cause[c] \cap {"launch", "recovery", "superseded", "phase"} \subseteq l
              /\ HasStop(cause[c]) /\ l \cap Stops # cause[c] \cap Stops =>
                   "derived" \in cause[c] /\ "superseded" \in l
          BY <2>1, <2>2, <4>3
        <4> QED
          BY <4>1, <4>2
      <3> QED
        BY <3>1, <3>2, <3>3
    <2>4. CASE cause[th[t].ctl] = {} /\ cause' = [cause EXCEPT ![th[t].ctl] = {"launch"}]
      BY <2>2, <2>4, TypesShape DEF HasStop
    <2>5. CASE /\ cause[th[t].ctl] \cap (Stops \cup {"recovery"}) = {}
               /\ cause' = [cause EXCEPT ![th[t].ctl] = @ \cup {"recovery"}]
      BY <2>2, <2>5, TypesShape DEF HasStop
    <2> QED
      BY <1>2, <2>3, <2>4, <2>5, CauseKept
  <1> QED
    BY <1>1, <1>2 DEF Next, vars, PassDeadline, PassStage, latchVars

----------------------------------------------------------------------------
(* One-shot admissions.                                                    *)

(* A step that grants nothing keeps the claims.                            *)
LEMMA ClaimsKept ==
  ASSUME TypeOK, Places, NEW t \in Threads, Call(t) \/ Step(t), NEW o, NEW c \in Controls,
         Claimed(o, c)
  PROVE  Claimed(o, c)'
  <1>1. /\ "launch" \in cause[c] => "launch" \in cause'[c]
        /\ "recovery" \in cause[c] => "recovery" \in cause'[c]
    BY FirstCauseStep DEF Next
  <1>2. transition[c] \in 0..3 /\ th[t].ctl \in Controls
    BY TypesShape DEF TypeOK, ThreadState
  <1>3. transition'[c] >= transition[c]
    <2>1. CASE Close(t)
      BY <1>2, <2>1 DEF Close, TypeOK
    <2>2. CASE CasQueue(t) \/ CasAdmit(t)
      <3>1. \/ UNCHANGED transition
            \/ \E from \in {0, 1} : /\ transition[th[t].ctl] = from
                                  /\ transition' = [transition EXCEPT ![th[t].ctl] = from + 1]
        BY <2>2 DEF CasQueue, CasAdmit, CasTransition
      <3> QED
        BY <1>2, <3>1 DEF TypeOK
    <2>3. CASE UNCHANGED transition
      BY <1>2, <2>3
    <2> QED
      BY <2>1, <2>2, <2>3 DEF Step, Call, Return, TakeOwnerGate, TakeGate, Latch, CheckOwner,
         ReadOwner, CheckPhase, PhaseDone, CheckDeadline, ReadStage,
         CasLaunch, CasRecovery, ReadFlag,
         Effect, Advance, AdvanceFailed, SettleNative, Open, Unopen, Publish, latchVars
  <1>4. transition'[c] \in 0..3
    BY TypeStep DEF Next, TypeOK
  <1>5. entered[c] => entered'[c]
    <2>1. CASE Open(t)
      BY <1>2, <2>1 DEF Open, TypeOK
    <2>2. CASE UNCHANGED entered
      BY <2>2
    <2> QED
      BY <2>1, <2>2 DEF Step, Call, Return, TakeOwnerGate, TakeGate, Latch, Close, CheckOwner,
         ReadOwner, CheckPhase, PhaseDone, CheckDeadline, ReadStage,
         CasLaunch, CasRecovery, CasQueue,
         CasAdmit, CasTransition, ReadFlag, Effect, Advance, AdvanceFailed, SettleNative,
         Unopen, Publish, hostVars
  <1>6. /\ transition[c] >= 1 => transition'[c] >= 1
        /\ transition[c] >= 2 => transition'[c] >= 2
    BY <1>2, <1>3, <1>4
  <1> QED
    BY <1>1, <1>5, <1>6 DEF Claimed

(* A call that comes to hold an admission claims it in that step.          *)
LEMMA Admits ==
  ASSUME TypeOK, Places, NEW t \in Threads, Step(t), ~Return(t),
         "granted" \in {th'[t].pc, th'[t].then}
  PROVE  \/ "granted" \in {th[t].pc, th[t].then}
         \/ ~Claimed(th[t].op, th[t].ctl) /\ Claimed(th[t].op, th[t].ctl)'
  <1>1. /\ th[t] \in ThreadState /\ Place(th[t]) /\ th[t].ctl \in Controls
        /\ CheckEntry(th[t].ctl) # "granted"
        /\ th'[t].op = th[t].op /\ th'[t].ctl = th[t].ctl
    BY TypesShape, StaysOn DEF Places, ThreadState, CheckEntry
  <1>2. CASE TakeOwnerGate(t) \/ TakeGate(t)
    BY <1>1, <1>2, GateMoves DEF Goes
  <1>3. CASE CheckOwner(t) \/ ReadOwner(t)
    BY <1>3, OwnerMoves DEF Goes, Settles
  <1>4. CASE CheckDeadline(t)
    <2>1. Refused(t) # "granted"
      BY RefusedOf
    <2> QED
      BY <1>4, <2>1, DeadlineMoves DEF Goes, Settles, Captures
  <1>5. CASE Latch(t) \/ Close(t) \/ CheckPhase(t) \/ PhaseDone(t)
    <2>1. th[t].after # "granted"
      BY <1>1 DEF Place, Afters
    <2> QED
      BY <1>5, <2>1, SettleMoves DEF Goes, Settles, Settled
  <1>6. CASE \/ ReadFlag(t) \/ Effect(t) \/ AdvanceFailed(t) \/ SettleNative(t)
             \/ ReadStage(t) \/ Unopen(t) \/ Publish(t) \/ Advance(t)
    BY <1>1, <1>6, AnswerOf, OtherMoves DEF Goes, Settles, Checks
  <1>7. CASE CasLaunch(t)
    <2>1. th[t].op = "launch"
      BY <1>1, <1>7 DEF Place, Fits, CasLaunch, At
    <2>2. cause[th[t].ctl] = {} \/ Checks(t, "return")
      BY <1>7, AdmitMoves
    <2>3. cause[th[t].ctl] = {} => "launch" \in cause'[th[t].ctl]
      BY <1>1, <1>7, TypesShape DEF CasLaunch
    <2> QED
      BY <1>1, <2>1, <2>2, <2>3 DEF Claimed, Checks
  <1>8. CASE CasRecovery(t)
    <2>1. th[t].op = "recovery"
      BY <1>1, <1>8 DEF Place, Fits, CasRecovery, At
    <2>2. \/ /\ cause[th[t].ctl] \cap (Stops \cup {"recovery"}) = {}
             /\ cause' = [cause EXCEPT ![th[t].ctl] = @ \cup {"recovery"}]
          \/ GoCheck(t, "return")
      BY <1>8 DEF CasRecovery
    <2>3. GoCheck(t, "return") => Checks(t, "return")
      BY CheckChecks DEF PCs
    <2> QED
      BY <1>1, <2>1, <2>2, <2>3, TypesShape DEF Claimed, Checks
  <1>9. CASE CasQueue(t) \/ CasAdmit(t)
    <2>1. /\ CasQueue(t) => th[t].op = "queue"
          /\ CasAdmit(t) => th[t].op = "admit"
      BY <1>1 DEF Place, Fits, CasQueue, CasAdmit, CasTransition, At
    <2>2. /\ CasQueue(t) => transition[th[t].ctl] = 0 \/ Checks(t, "return")
          /\ CasAdmit(t) => transition[th[t].ctl] = 1 \/ Checks(t, "return")
      BY AdmitMoves
    <2>3. /\ CasQueue(t) /\ transition[th[t].ctl] = 0 => transition'[th[t].ctl] = 1
          /\ CasAdmit(t) /\ transition[th[t].ctl] = 1 => transition'[th[t].ctl] = 2
      BY <1>1 DEF CasQueue, CasAdmit, CasTransition, TypeOK
    <2> QED
      BY <1>1, <1>9, <2>1, <2>2, <2>3 DEF Claimed, Checks
  <1>10. CASE Open(t)
    <2>1. th[t].op = "workflow"
      BY <1>1, <1>10 DEF Place, Fits, Open, At
    <2>2. entered[th[t].ctl] => Goes(t, "return")
      BY <1>10, AdmitMoves
    <2>3. ~entered[th[t].ctl] => entered'[th[t].ctl]
      BY <1>1, <1>10 DEF Open, TypeOK
    <2> QED
      BY <1>1, <2>1, <2>2, <2>3 DEF Claimed, Goes
  <1> QED
    BY <1>2, <1>3, <1>4, <1>5, <1>6, <1>7, <1>8, <1>9, <1>10 DEF Step

(* Claims of one admission, so that a step is an instance of a lemma.      *)
Claim(o, c) ==
  /\ grants[o][c] <= 1
  /\ grants[o][c] = 1 => Claimed(o, c)
  /\ \A t \in Threads : Holds(t, o, c) => Claimed(o, c) /\ grants[o][c] = 0
  /\ \A t, u \in Threads : Holds(t, o, c) /\ Holds(u, o, c) => t = u

(* Every step keeps each admission claimed at most once.                   *)
LEMMA ClaimsStep ==
  ASSUME TypeOK, Places, Claims, Next
  PROVE  Claims'
  <1>1. CASE PassDeadline \/ \E c \in Controls : PassStage(c)
    BY <1>1 DEF PassDeadline, PassStage, Claims, Claimed, Holds, latchVars, hostVars
  <1>2. ASSUME NEW t \in Threads, Call(t) \/ Step(t), NEW o \in Admissions,
               NEW c \in Controls
        PROVE  Claim(o, c)'
    <2>1. Claim(o, c) /\ grants[o][c] \in Nat
      BY DEF Claims, Claim, TypeOK
    <2>2. Claimed(o, c) => Claimed(o, c)'
      BY <1>2, ClaimsKept
    <2>3. \A u \in Threads : u # t => (Holds(u, o, c)' <=> Holds(u, o, c))
      BY <1>2, StepOnly DEF Only, Holds
    <2>4. CASE Return(t)
      <3>1. ~Holds(t, o, c)'
        <4>1. th'[t].pc # "granted" /\ th'[t].then # "granted"
          BY <2>4, CallMoves, IdleIs
        <4> QED
          BY <4>1 DEF Holds
      <3>2. CASE At(t, "granted") /\ th[t].op = o /\ th[t].ctl = c
        <4>1. Holds(t, o, c)
          BY <3>2 DEF Holds, At
        <4>2. grants' = [grants EXCEPT ![th[t].op][th[t].ctl] = @ + 1]
          BY <2>4, <3>2 DEF Return
        <4>3. grants'[o][c] = 1
          BY <2>1, <3>2, <4>1, <4>2 DEF Claim, TypeOK
        <4>4. \A u \in Threads : ~Holds(u, o, c)'
          BY <2>1, <2>3, <3>1, <4>1 DEF Claim
        <4> QED
          BY <2>1, <2>2, <4>1, <4>3, <4>4 DEF Claim
      <3>3. CASE ~(At(t, "granted") /\ th[t].op = o /\ th[t].ctl = c)
        <4>1. grants'[o][c] = grants[o][c]
          BY <2>4, <3>3 DEF Return, TypeOK
        <4> QED
          BY <2>1, <2>2, <2>3, <3>1, <4>1 DEF Claim
      <3> QED
        BY <3>2, <3>3
    <2>5. CASE ~Return(t)
      <3>1. grants' = grants
        BY <1>2, <2>5 DEF Step, Call, TakeOwnerGate, TakeGate, Latch, Close, CheckOwner,
         ReadOwner, CheckPhase, PhaseDone, CheckDeadline, ReadStage,
         CasLaunch, CasRecovery, CasQueue,
         CasAdmit, CasTransition, ReadFlag, Effect, Advance, AdvanceFailed, SettleNative,
         Open, Unopen, Publish, hostVars
      <3>2. Holds(t, o, c)' => Holds(t, o, c) \/ (~Claimed(o, c) /\ Claimed(o, c)')
        <4>1. CASE Call(t)
          <5>1. PICK k \in Calls[t] : k \in AllCalls /\ Begins(t, k)
            BY <4>1, CallMoves
          <5>2. k.op \in Ops /\ k.ctl \in Controls
            BY <5>1 DEF AllCalls
          <5>3. Entry(k.op, k.ctl) # "granted" /\ Continue(k.op, k.ctl) # "granted"
            BY <5>2, EntryOf, ContinueOf DEF CheckEntry
          <5> QED
            BY <5>1, <5>3 DEF Holds, Begins
        <4>2. CASE Step(t)
          <5>1. th'[t].op = th[t].op /\ th'[t].ctl = th[t].ctl
            BY <2>5, <4>2, StaysOn
          <5>2. SUFFICES ASSUME Holds(t, o, c)', ~Holds(t, o, c)
                         PROVE  ~Claimed(o, c) /\ Claimed(o, c)'
            OBVIOUS
          <5>3. th[t].op = o /\ th[t].ctl = c
            BY <5>1, <5>2 DEF Holds
          <5>4. /\ "granted" \in {th'[t].pc, th'[t].then}
                /\ "granted" \notin {th[t].pc, th[t].then}
            BY <5>2, <5>3 DEF Holds
          <5>5. /\ ~Claimed(th[t].op, th[t].ctl)
                /\ Claimed(th[t].op, th[t].ctl)'
            BY <2>5, <4>2, <5>4, Admits
          <5> QED
            BY <5>1, <5>3, <5>5
        <4> QED
          BY <1>2, <4>1, <4>2
      <3> QED
        BY <2>1, <2>2, <2>3, <3>1, <3>2 DEF Claim
    <2> QED
      BY <2>4, <2>5
  <1>3. ASSUME NEW t \in Threads, Call(t) \/ Step(t) PROVE Claims'
    BY <1>2, <1>3 DEF Claim, Claims
  <1> QED
    BY <1>1, <1>3 DEF Next


----------------------------------------------------------------------------
(* Where an explicit Stop comes from, and what a gate's holder may rely on.*)

(* A step that brings a call to latch a reason.                            *)
LEMMA ToLatch ==
  ASSUME TypeOK, Places, NEW t \in Threads, Call(t) \/ Step(t),
         th'[t].pc = "latch", "cancelled" \in th'[t].bits
  PROVE  \/ Call(t) /\ th'[t].op = "adopt" /\ th'[t].goal = th'[t].ctl
         \/ /\ TakeGate(t) /\ th'[t].op \in {"stop", "lost"} /\ th'[t].goal = th'[t].ctl
         \/ /\ ReadOwner(t) /\ th'[t].goal = th'[t].ctl /\ cause' = cause
            /\ Parent[th'[t].ctl] # NoOne
            /\ "cancelled" \in cause[Parent[th'[t].ctl]]
            /\ th'[t].op \notin {"stop", "lost", "adopt"}
  <1>1. /\ th[t] \in ThreadState /\ Place(th[t]) /\ th[t].ctl \in Controls
        /\ CheckEntry(th[t].ctl) # "latch"
        /\ th[t].then # "latch" /\ th[t].after # "latch"
    BY TypesShape DEF Places, ThreadState, CheckEntry, Place, Thens, Afters
  <1>2. CASE Call(t)
    <2>1. PICK k \in Calls[t] : k \in AllCalls /\ Begins(t, k)
      BY <1>2, CallMoves
    <2>2. k.op \in Ops /\ k.ctl \in Controls
      BY <2>1 DEF AllCalls
    <2>3. th'[t].pc = Entry(k.op, k.ctl) /\ th'[t].op = k.op /\ th'[t].goal = k.ctl
          /\ th'[t].ctl = k.ctl
      BY <2>1 DEF Begins
    <2>4. Entry(k.op, k.ctl) = "latch" => k.op = "adopt"
      BY <2>2, EntryOf DEF CheckEntry
    <2> QED
      BY <1>2, <2>3, <2>4
  <1>3. CASE Return(t)
    BY <1>3, CallMoves, IdleIs
  <1>4. CASE TakeGate(t)
    <2>1. /\ th'[t].op = th[t].op /\ th'[t].ctl = th[t].ctl /\ th'[t].goal = th[t].goal
          /\ th[t].op \notin {"stop", "lost"} => th'[t].pc # "latch"
      BY <1>1, <1>4, GateMoves DEF Goes
    <2>2. th[t].op \in {"stop", "lost"} => th[t].goal = th[t].ctl
      BY <1>1 DEF Place
    <2> QED
      BY <1>4, <2>1, <2>2
  <1>5. CASE TakeOwnerGate(t)
    BY <1>1, <1>5, GateMoves DEF Goes
  <1>6. CASE CheckOwner(t)
    BY <1>6, OwnerMoves DEF Goes, Settles
  <1>7. CASE ReadOwner(t)
    <2>1. th[t].pc = "readowner" /\ cause' = cause
      BY <1>7 DEF ReadOwner, At, latchVars
    <2>2. /\ Parent[th[t].ctl] # NoOne
          /\ th[t].op \notin {"stop", "lost", "adopt"}
      BY <1>1, <2>1 DEF Place
    <2>3. HasStop(cause[Parent[th[t].ctl]])
      BY <1>7, OwnerMoves DEF Goes
    <2>4. Settles(t, th[t].ctl, {ReasonOf(cause[Parent[th[t].ctl]])}, "phase")
      BY <1>7, <2>3, OwnerMoves
    <2>5. "cancelled" = ReasonOf(cause[Parent[th[t].ctl]])
      BY <2>4 DEF Settles
    <2>6. "cancelled" \in cause[Parent[th[t].ctl]]
      BY <2>3, <2>5, ReasonIs
    <2> QED
      BY <1>7, <2>1, <2>2, <2>4, <2>6 DEF Settles
  <1>8. CASE CheckDeadline(t)
    <2>1. Refused(t) # "latch"
      BY RefusedOf
    <2> QED
      BY <1>1, <1>8, <2>1, DeadlineMoves DEF Goes, Settles, Captures
  <1>9. CASE Latch(t) \/ Close(t) \/ CheckPhase(t) \/ PhaseDone(t)
    BY <1>1, <1>9, SettleMoves DEF Goes, Settles, Settled
  <1>10. CASE CasLaunch(t) \/ CasRecovery(t) \/ CasQueue(t) \/ CasAdmit(t) \/ Open(t)
    BY <1>1, <1>10, AdmitMoves DEF Goes, Checks
  <1>11. CASE \/ ReadFlag(t) \/ Effect(t) \/ AdvanceFailed(t) \/ SettleNative(t)
              \/ ReadStage(t) \/ Unopen(t) \/ Publish(t) \/ Advance(t)
    BY <1>1, <1>11, AnswerOf, OtherMoves DEF Goes, Settles, Checks
  <1> QED
    BY <1>2, <1>3, <1>4, <1>5, <1>6, <1>7, <1>8, <1>9, <1>10, <1>11 DEF Step

(* Every step keeps where an explicit Stop comes from.                     *)
LEMMA SourcesStep ==
  ASSUME TypeOK, Places, Sources, Next, AdoptsApart
  PROVE  Sources'
  <1>1. CASE PassDeadline \/ \E c \in Controls : PassStage(c)
    BY <1>1 DEF PassDeadline, PassStage, Sources
  <1>2. ASSUME NEW t \in Threads, Call(t) \/ Step(t) PROVE Sources'
    <2>1. \A u \in Threads : u # t => th'[u] = th[u]
      BY <1>2, StepOnly DEF Only
    <2>2. th'[t].op = "adopt" => \A c \in Controls : Parent[c] # th'[t].ctl
      <3>1. CASE Call(t)
        BY <3>1, CallMoves DEF Begins, AdoptsApart
      <3>2. CASE Return(t)
        BY <3>2, CallMoves, IdleIs
      <3>3. CASE Step(t) /\ ~Return(t)
        BY <3>3, StaysOn DEF Sources
      <3> QED
        BY <1>2, <3>1, <3>2, <3>3
    <2>3. th'[t].pc = "latch" /\ "cancelled" \in th'[t].bits =>
            /\ th'[t].goal = th'[t].ctl
            /\ th'[t].op \in {"stop", "lost", "adopt"} \/ Parent[th'[t].ctl] # NoOne
      BY <1>2, ToLatch
    <2> QED
      BY <2>1, <2>2, <2>3 DEF Sources
  <1> QED
    BY <1>1, <1>2 DEF Next

(* The bit of an explicit Stop reaches a control in one way only.          *)
LEMMA CancelArrives ==
  ASSUME TypeOK, Places, NEW t \in Threads, Call(t) \/ Step(t),
         NEW c \in Controls, "cancelled" \in cause'[c], "cancelled" \notin cause[c]
  PROVE  /\ Latch(t) /\ th[t].pc = "latch"
         /\ th[t].goal = c /\ "cancelled" \in th[t].bits
  <1>1. /\ th[t] \in ThreadState /\ Place(th[t]) /\ cause[c] \in SUBSET Bits
        /\ th[t].goal \in Controls /\ th[t].ctl \in Controls /\ th[t].bits \in SUBSET Bits
        /\ th[t].bits \subseteq Stops \cup {"derived", "phase"}
    BY TypesShape DEF Places, ThreadState, Place
  <1>2. CASE Latch(t)
    <2> DEFINE a == th[t].op = "adopt"
    <2>1. cause' = [cause EXCEPT ![th[t].goal] = Latched(a, th[t].bits, @)]
          /\ th[t].pc = "latch"
      BY <1>2 DEF Latch, At
    <2> HIDE DEF a
    <2>2. th[t].goal = c /\ cause'[c] = Latched(a, th[t].bits, cause[c])
      BY <1>1, <2>1, TypesShape
    <2>3. \A bits \in SUBSET Bits, s \in SUBSET Bits :
            bits \subseteq Stops \cup {"derived", "phase"} =>
              \A b \in Stops \cup {"launch", "recovery", "derived"} :
                b \in Latched(a, bits, s) => b \in s \cup bits
      BY LatchedIs
    <2>4. "cancelled" \in th[t].bits
      <3>1. "cancelled" \in Stops \cup {"launch", "recovery", "derived"}
        BY DEF Stops
      <3>2. "cancelled" \in Latched(a, th[t].bits, cause[c])
        BY <2>2
      <3>3. "cancelled" \in cause[c] \cup th[t].bits
        BY <1>1, <2>3, <3>1, <3>2
      <3> QED
        BY <3>3
    <2> QED
      BY <1>2, <2>1, <2>2, <2>4
  <1>3. CASE cause' = [cause EXCEPT ![th[t].ctl] = {"launch"}]
    BY <1>1, <1>3, TypesShape
  <1>4. CASE cause' = [cause EXCEPT ![th[t].ctl] = @ \cup {"recovery"}]
    BY <1>1, <1>4, TypesShape
  <1> QED
    BY <1>2, <1>3, <1>4, CauseKept

(* A stop, once latched, stays latched.                                    *)
LEMMA HasStopKept ==
  ASSUME TypeOK, Places, NEW t \in Threads, Call(t) \/ Step(t),
         NEW c \in Controls, HasStop(cause[c])
  PROVE  HasStop(cause'[c])
  <1>1. /\ th[t] \in ThreadState /\ Place(th[t]) /\ cause[c] \in SUBSET Bits
        /\ th[t].goal \in Controls /\ th[t].ctl \in Controls /\ th[t].bits \in SUBSET Bits
        /\ th[t].bits \subseteq Stops \cup {"derived", "phase"}
    BY TypesShape DEF Places, ThreadState, Place
  <1>2. CASE Latch(t)
    <2> DEFINE a == th[t].op = "adopt"
    <2>1. cause' = [cause EXCEPT ![th[t].goal] = Latched(a, th[t].bits, @)]
      BY <1>2 DEF Latch
    <2>2. HasStop(th[t].bits)
      BY <1>1, <1>2 DEF Place, Latch, At
    <2> HIDE DEF a
    <2>5. \A bits \in SUBSET Bits, s \in SUBSET Bits :
            bits \subseteq Stops \cup {"derived", "phase"} /\ HasStop(bits) =>
              HasStop(Latched(a, bits, s))
      BY LatchedIs
    <2>3. HasStop(Latched(a, th[t].bits, cause[c]))
      BY <1>1, <2>2, <2>5
    <2>4. cause'[c] = cause[c] \/ cause'[c] = Latched(a, th[t].bits, cause[c])
      BY <1>1, <2>1, TypesShape
    <2> QED
      BY <2>3, <2>4
  <1>3. CASE /\ cause[th[t].ctl] = {}
             /\ cause' = [cause EXCEPT ![th[t].ctl] = {"launch"}]
    BY <1>1, <1>3, TypesShape DEF HasStop
  <1>4. CASE cause' = [cause EXCEPT ![th[t].ctl] = @ \cup {"recovery"}]
    BY <1>1, <1>4, TypesShape DEF HasStop
  <1> QED
    BY <1>2, <1>3, <1>4, CauseKept

(* While u holds the gate of c, nobody's Stop reaches c, unless a verdict  *)
(* is adopted there or c is an attempt whose owner's Stop is passed on.    *)
LEMMA GateShields ==
  ASSUME TypeOK, Places, Gated, Sources, NEW t \in Threads, Call(t) \/ Step(t),
         NEW c \in Controls, NEW u \in Threads, gate[c] = u, ~(th[u].op \in {"stop", "lost"}),
         "cancelled" \in cause'[c], "cancelled" \notin cause[c]
  PROVE  /\ th[t].pc = "latch" /\ "cancelled" \in th[t].bits /\ th[t].ctl = c
         /\ th[t].op = "adopt" \/ (Parent[c] # NoOne /\ th[t].op \notin {"stop", "lost"})
  <1>1. th[t].pc = "latch" /\ th[t].goal = c /\ "cancelled" \in th[t].bits
    BY CancelArrives
  <1>2. /\ th[t].ctl = c
        /\ th[t].op \in {"stop", "lost", "adopt"} \/ Parent[c] # NoOne
    BY <1>1 DEF Sources
  <1>3. th[t].op \in {"stop", "lost"} => gate[c] = t
    BY <1>1, <1>2 DEF Gated, Holding
  <1> QED
    BY <1>1, <1>2, <1>3


(* A step of another thread leaves what a gate's holder relies on.         *)
LEMMA WatchedByOthers ==
  ASSUME TypeOK, Places, Gated, Sources, Watching,
         NEW t \in Threads, Call(t) \/ Step(t), NEW u \in Threads, u # t
  PROVE  Watched(th[u])'
  <1>1. th'[u] = th[u]
    BY StepOnly DEF Only
  <1>2. th[u] \in ThreadState /\ th[u].ctl \in Controls /\ Holding(u, th[u])
    BY TypesShape DEF ThreadState, Gated
  <1>3. SUFFICES ASSUME th[u].op \in {"launch", "effect"}, Parent[th[u].ctl] # NoOne,
                        th[u].after # "readowner",
                        th[u].pc \notin {"ownergate", "gate", "owner", "readowner"}
                 PROVE  \/ "cancelled" \notin cause'[Parent[th[u].ctl]]
                        \/ HasStop(cause'[th[u].ctl])
                        \/ th[u].pc = "latch"
    BY <1>1 DEF Watched
  <1> DEFINE p == Parent[th[u].ctl]
  <1>4. p \in Controls /\ Parent[p] = NoOne /\ gate[p] = u
    BY <1>2, <1>3, ControlAssumption DEF Holding, Authority
  <1>5. \/ "cancelled" \notin cause[p] \/ HasStop(cause[th[u].ctl])
        \/ th[u].pc = "latch"
    BY <1>3 DEF Watching, Watched
  <1>6. CASE HasStop(cause[th[u].ctl])
    BY <1>2, <1>6, HasStopKept
  <1>7. CASE "cancelled" \notin cause[p]
    <2>1. SUFFICES ASSUME "cancelled" \in cause'[p] PROVE FALSE
      OBVIOUS
    <2>2. th[t].ctl = p /\ th[t].op = "adopt"
      BY <1>3, <1>4, <1>7, <2>1, GateShields
    <2>3. Parent[th[u].ctl] # th[t].ctl
      BY <1>2, <2>2 DEF Sources
    <2> QED
      BY <2>2, <2>3
  <1> QED
    BY <1>5, <1>6, <1>7

(* What a call watches stays watched while its own thread steps.           *)
LEMMA WatchedBySelf ==
  ASSUME TypeOK, Places, Gated, Sources, Watching,
         NEW t \in Threads, Call(t) \/ Step(t)
  PROVE  Watched(th[t])'
  <1>1. th[t] \in ThreadState /\ Place(th[t]) /\ th[t].ctl \in Controls /\ Watched(th[t])
    BY TypesShape DEF Places, ThreadState, Watching
  <1>2. CASE Call(t)
    <2>1. PICK k \in Calls[t] : k \in AllCalls /\ Begins(t, k)
      BY <1>2, CallMoves
    <2>2. k.op \in Ops /\ k.ctl \in Controls
      BY <2>1 DEF AllCalls
    <2> QED
      BY <2>1, <2>2, EntryOf DEF Begins, Watched
  <1>3. CASE Return(t)
    BY <1>3, CallMoves, IdleIs DEF Watched
  <1>4. CASE Step(t) /\ ~Return(t)
    <2>1. th'[t].op = th[t].op /\ th'[t].ctl = th[t].ctl
      BY <1>4, StaysOn
    <2>2. SUFFICES ASSUME th[t].op \in {"launch", "effect"}, Parent[th[t].ctl] # NoOne
                   PROVE  Watched(th[t])'
      BY <2>1 DEF Watched
    <2> DEFINE p == Parent[th[t].ctl]
    <2>3. p \in Controls /\ Parent[p] = NoOne
      BY <1>1, <2>2, ControlAssumption
    <2>4. CASE Latch(t)
      <3>1. th[t].pc = "latch" /\ HasStop(th[t].bits) /\ th'[t].after = th[t].after
            /\ th'[t].goal = th[t].goal
        BY <1>1, <2>4, SettleMoves DEF Latch, At, Place, Goes
      <3>2. CASE th[t].after = "readowner"
        BY <3>1, <3>2 DEF Watched
      <3>3. CASE th[t].after # "readowner"
        <4>1. th[t].goal = th[t].ctl /\ th[t].bits \in SUBSET Bits
              /\ th[t].bits \subseteq Stops \cup {"derived", "phase"}
              /\ cause[th[t].ctl] \in SUBSET Bits
          BY <1>1, <3>3, TypesShape DEF Place, ThreadState
        <4> DEFINE a == th[t].op = "adopt"
        <4>2. cause' = [cause EXCEPT ![th[t].goal] = Latched(a, th[t].bits, @)]
          BY <2>4 DEF Latch
        <4> HIDE DEF a
        <4>3. \A bits \in SUBSET Bits, s \in SUBSET Bits :
                bits \subseteq Stops \cup {"derived", "phase"} /\ HasStop(bits) =>
                  HasStop(Latched(a, bits, s))
          BY LatchedIs
        <4>4. cause'[th[t].ctl] = Latched(a, th[t].bits, cause[th[t].ctl])
          BY <1>1, <4>1, <4>2, TypesShape
        <4>5. HasStop(cause'[th[t].ctl])
          BY <3>1, <4>1, <4>3, <4>4
        <4> QED
          BY <2>1, <4>5 DEF Watched
      <3> QED
        BY <3>2, <3>3
    <2>5. CASE /\ ~Latch(t) /\ th[t].after # "readowner"
               /\ th[t].pc \notin {"ownergate", "gate", "owner", "readowner"}
      <3>1. th[t].pc # "latch"
        BY <1>4, <2>5 DEF Step, Return, TakeOwnerGate, TakeGate, Close, CheckOwner,
         ReadOwner, CheckPhase, PhaseDone, CheckDeadline, ReadStage,
         CasLaunch, CasRecovery, CasQueue,
         CasAdmit, CasTransition, ReadFlag, Effect, Advance, AdvanceFailed, SettleNative,
         Open, Unopen, Publish, At
      <3>2. "cancelled" \notin cause[p] \/ HasStop(cause[th[t].ctl])
        BY <1>1, <2>2, <2>5, <3>1 DEF Watched
      <3>3. "cancelled" \notin cause[p] => "cancelled" \notin cause'[p]
        BY <2>3, <2>5, CancelArrives
      <3>4. HasStop(cause[th[t].ctl]) => HasStop(cause'[th[t].ctl])
        BY <1>1, HasStopKept
      <3> QED
        BY <2>1, <3>2, <3>3, <3>4 DEF Watched
    <2>6. CASE ~Latch(t) /\ th[t].after = "readowner"
      <3>1. th[t].pc \in {"latch", "close"}
        BY <1>1, <2>6 DEF Place
      <3>2. Close(t)
        BY <1>4, <2>6, <3>1 DEF Step, Return, TakeOwnerGate, TakeGate, CheckOwner,
         ReadOwner, CheckPhase, PhaseDone, CheckDeadline, ReadStage,
         CasLaunch, CasRecovery, CasQueue,
         CasAdmit, CasTransition, ReadFlag, Effect, Advance, AdvanceFailed, SettleNative,
         Open, Unopen, Publish, At
      <3>3. th'[t].pc = "readowner"
        BY <2>6, <3>2, SettleMoves DEF Settled
      <3> QED
        BY <3>3 DEF Watched
    <2>7. CASE th[t].pc \in {"ownergate", "gate", "owner", "readowner"}
      <3>1. CheckEntry(th[t].ctl) = "owner"
        BY <2>2 DEF CheckEntry
      <3>2. TakeOwnerGate(t) \/ TakeGate(t) \/ CheckOwner(t) \/ ReadOwner(t)
        BY <1>4, <2>7 DEF Step, Return, Latch, Close, CheckPhase, PhaseDone,
         CheckDeadline, ReadStage,
         CasLaunch, CasRecovery, CasQueue, CasAdmit, CasTransition, ReadFlag, Effect,
         Advance, AdvanceFailed, SettleNative, Open, Unopen, Publish, At
      <3>3. CASE TakeOwnerGate(t) \/ TakeGate(t)
        <4>1. th'[t].pc \in {"owner", "gate"}
          BY <2>2, <3>1, <3>3, GateMoves DEF Goes
        <4> QED
          BY <4>1 DEF Watched
      <3>4. CASE CheckOwner(t)
        <4>1. th'[t].pc = "readowner" \/ th'[t].after = "readowner"
          BY <3>4, OwnerMoves DEF Goes, Settles
        <4> QED
          BY <4>1 DEF Watched
      <3>5. CASE ReadOwner(t)
        <4>1. cause' = cause
          BY <3>5 DEF ReadOwner, latchVars
        <4>2. CASE HasStop(cause[p])
          <5>1. th'[t].pc = "latch"
            BY <3>5, <4>2, OwnerMoves DEF Settles
          <5> QED
            BY <5>1 DEF Watched
        <4>3. CASE ~HasStop(cause[p])
          <5>1. "cancelled" \notin cause'[p]
            BY <4>1, <4>3 DEF HasStop, Stops
          <5> QED
            BY <2>1, <5>1 DEF Watched
        <4> QED
          BY <4>2, <4>3
      <3> QED
        BY <3>2, <3>3, <3>4, <3>5
    <2> QED
      BY <2>4, <2>5, <2>6, <2>7
  <1> QED
    BY <1>2, <1>3, <1>4

(* Every step keeps an owner's latch watched across the gate.              *)
LEMMA WatchingStep ==
  ASSUME TypeOK, Places, Gated, Sources, Watching, Next
  PROVE  Watching'
  <1>1. CASE PassDeadline \/ \E c \in Controls : PassStage(c)
    BY <1>1 DEF PassDeadline, PassStage, Watching, Watched, latchVars
  <1>2. ASSUME NEW t \in Threads, Call(t) \/ Step(t) PROVE Watching'
    <2>1. ASSUME NEW u \in Threads PROVE Watched(th[u])'
      <3>1. CASE u = t
        BY <1>2, <3>1, WatchedBySelf
      <3>2. CASE u # t
        BY <1>2, <2>1, <3>2, WatchedByOthers
      <3> QED
        BY <3>1, <3>2
    <2> QED
      BY <2>1 DEF Watching
  <1> QED
    BY <1>1, <1>2 DEF Next


(* A step that brings an effect past its check, or on to running.          *)
LEMMA ToEffect ==
  ASSUME TypeOK, Places, NEW t \in Threads, Call(t) \/ Step(t),
         th'[t].pc \in {"flag", "effect"}
  PROVE  /\ cause' = cause /\ th'[t].ctl = th[t].ctl
         /\ \/ ReadFlag(t) /\ th[t].pc = "flag"
            \/ /\ th[t].pc = "deadline" /\ th[t].op = "effect"
               /\ ~HasStop(cause[th[t].ctl])
  <1>1. /\ th[t] \in ThreadState /\ Place(th[t]) /\ th[t].ctl \in Controls
        /\ CheckEntry(th[t].ctl) \in {"phase", "owner"} /\ th[t].after \in Afters
    BY TypesShape DEF Places, ThreadState, CheckEntry, Place
  <1>2. CASE Call(t)
    <2>1. PICK k \in Calls[t] : k \in AllCalls /\ Begins(t, k)
      BY <1>2, CallMoves
    <2>2. k.op \in Ops /\ k.ctl \in Controls
      BY <2>1 DEF AllCalls
    <2>3. Entry(k.op, k.ctl) \notin {"flag", "effect"}
      BY <2>2, EntryOf DEF CheckEntry
    <2> QED
      BY <2>1, <2>3 DEF Begins
  <1>3. CASE Return(t)
    BY <1>3, CallMoves, IdleIs
  <1>4. CASE TakeOwnerGate(t) \/ TakeGate(t)
    BY <1>1, <1>4, GateMoves DEF Goes
  <1>5. CASE CheckOwner(t) \/ ReadOwner(t)
    BY <1>5, OwnerMoves DEF Goes, Settles
  <1>6. CASE CheckDeadline(t)
    <2>1. th[t].pc = "deadline" /\ cause' = cause
      BY <1>6 DEF CheckDeadline, At, latchVars
    <2>2. Refused(t) \notin {"flag", "effect"}
      BY RefusedOf
    <2>3. ~HasStop(cause[th[t].ctl]) /\ Goes(t, th[t].then)
      BY <1>6, <2>2, DeadlineMoves DEF Settles, Captures
    <2>4. th[t].then \in {"flag", "effect"} /\ th'[t].ctl = th[t].ctl
      BY <2>3 DEF Goes
    <2>5. th[t].op = "effect"
      BY <1>1, <2>4 DEF Place, Fits
    <2> QED
      BY <2>1, <2>3, <2>4, <2>5
  <1>7. CASE Latch(t) \/ Close(t) \/ CheckPhase(t) \/ PhaseDone(t)
    BY <1>1, <1>7, SettleMoves DEF Goes, Settles, Settled, Afters
  <1>8. CASE CasLaunch(t) \/ CasRecovery(t) \/ CasQueue(t) \/ CasAdmit(t) \/ Open(t)
    BY <1>1, <1>8, AdmitMoves DEF Goes, Checks
  <1>9. CASE ReadFlag(t)
    BY <1>9, OtherMoves DEF ReadFlag, At, Goes, latchVars
  <1>10. CASE \/ Effect(t) \/ AdvanceFailed(t) \/ SettleNative(t)
              \/ ReadStage(t) \/ Unopen(t) \/ Publish(t) \/ Advance(t)
    BY <1>1, <1>10, AnswerOf, OtherMoves DEF Goes, Settles, Checks
  <1> QED
    BY <1>2, <1>3, <1>4, <1>5, <1>6, <1>7, <1>8, <1>9, <1>10 DEF Step

(* Where no verdict is adopted, an explicit Stop stays latched.            *)
LEMMA CancelStays ==
  ASSUME TypeOK, Places, Unstopped, NEW t \in Threads, Call(t) \/ Step(t),
         NEW c \in Controls, "cancelled" \in cause[c]
  PROVE  "cancelled" \in cause'[c]
  <1>1. /\ th[t] \in ThreadState /\ Place(th[t]) /\ cause[c] \in SUBSET Bits
        /\ th[t].goal \in Controls /\ th[t].ctl \in Controls /\ th[t].bits \in SUBSET Bits
        /\ th[t].bits \subseteq Stops \cup {"derived", "phase"}
        /\ th[t].op # "adopt"
    BY TypesShape DEF Places, ThreadState, Place, Unstopped, Clear
  <1>2. CASE Latch(t)
    <2> DEFINE a == th[t].op = "adopt"
    <2>1. cause' = [cause EXCEPT ![th[t].goal] = Latched(a, th[t].bits, @)] /\ ~a
      BY <1>1, <1>2 DEF Latch
    <2> HIDE DEF a
    <2>2. \A bits \in SUBSET Bits, s \in SUBSET Bits :
            bits \subseteq Stops \cup {"derived", "phase"} =>
              s \subseteq Latched(a, bits, s)
      BY <2>1, LatchedIs
    <2>3. cause'[c] = cause[c] \/ cause'[c] = Latched(a, th[t].bits, cause[c])
      BY <1>1, <2>1, TypesShape
    <2> QED
      BY <1>1, <2>2, <2>3
  <1>3. CASE /\ cause[th[t].ctl] = {}
             /\ cause' = [cause EXCEPT ![th[t].ctl] = {"launch"}]
    BY <1>1, <1>3, TypesShape
  <1>4. CASE cause' = [cause EXCEPT ![th[t].ctl] = @ \cup {"recovery"}]
    BY <1>1, <1>4, TypesShape
  <1> QED
    BY <1>2, <1>3, <1>4, CauseKept

(* Every step keeps the controls under an effect free of a Stop.           *)
LEMMA UnstoppedStep ==
  ASSUME TypeOK, Places, Gated, Sources, Watching, Unstopped, Next, NoAdoption
  PROVE  Unstopped'
  <1>1. CASE PassDeadline \/ \E c \in Controls : PassStage(c)
    BY <1>1 DEF PassDeadline, PassStage, Unstopped, Clear, latchVars
  <1>2. ASSUME NEW t \in Threads, Call(t) \/ Step(t) PROVE Unstopped'
    <2>1. ASSUME NEW u \in Threads, u # t PROVE Clear(th[u])'
      <3>1. th'[u] = th[u]
        BY <1>2, <2>1, StepOnly DEF Only
      <3>2. th[u] \in ThreadState /\ th[u].ctl \in Controls /\ Place(th[u])
            /\ Holding(u, th[u]) /\ Clear(th[u]) /\ Clear(th[t])
        BY TypesShape DEF ThreadState, Places, Gated, Unstopped
      <3>3. ASSUME th[u].pc = "latch", "cancelled" \in th[u].bits,
                   th[u].op \notin {"stop", "lost"}
            PROVE  Parent[th[u].ctl] # NoOne /\ "cancelled" \in cause'[Parent[th[u].ctl]]
        <4>1. Parent[th[u].ctl] # NoOne /\ "cancelled" \in cause[Parent[th[u].ctl]]
          BY <3>2, <3>3 DEF Clear
        <4>2. Parent[th[u].ctl] \in Controls
          BY <3>2, <4>1, ControlAssumption
        <4> QED
          BY <1>2, <4>1, <4>2, CancelStays
      <3>4. ASSUME th[u].pc \in {"flag", "effect"}
            PROVE  /\ "cancelled" \notin cause'[th[u].ctl]
                   /\ "cancelled" \notin cause'[Authority(th[u].ctl)]
        <4> DEFINE c == th[u].ctl
                   o == Authority(th[u].ctl)
        <4>1. /\ th[u].op = "effect" /\ gate[c] = u /\ gate[o] = u
              /\ c \in Controls /\ o \in Controls
              /\ "cancelled" \notin cause[c] /\ "cancelled" \notin cause[o]
          BY <3>2, <3>4, ControlAssumption DEF Place, Fits, Holding, Clear, Authority
        <4>2. "cancelled" \notin cause'[c]
          <5>1. SUFFICES ASSUME "cancelled" \in cause'[c] PROVE FALSE
            OBVIOUS
          <5>2. /\ th[t].pc = "latch" /\ "cancelled" \in th[t].bits /\ th[t].ctl = c
                /\ th[t].op = "adopt" \/ (Parent[c] # NoOne /\ th[t].op \notin {"stop", "lost"})
            BY <1>2, <4>1, <5>1, GateShields
          <5>3. Parent[c] # NoOne /\ "cancelled" \in cause[Parent[c]]
            BY <3>2, <5>2 DEF Clear
          <5> QED
            BY <4>1, <5>3 DEF Authority
        <4>3. "cancelled" \notin cause'[o]
          <5>1. CASE Parent[c] = NoOne
            BY <4>2, <5>1 DEF Authority
          <5>2. CASE Parent[c] # NoOne
            <6>1. Parent[o] = NoOne
              BY <4>1, <5>2, ControlAssumption DEF Authority
            <6>2. SUFFICES ASSUME "cancelled" \in cause'[o] PROVE FALSE
              OBVIOUS
            <6>3. th[t].op = "adopt"
              BY <1>2, <4>1, <6>1, <6>2, GateShields
            <6> QED
              BY <3>2, <6>3 DEF Clear
          <5> QED
            BY <5>1, <5>2
        <4> QED
          BY <4>2, <4>3
      <3> QED
        BY <3>1, <3>2, <3>3, <3>4 DEF Clear
    <2>2. Clear(th[t])'
      <3>1. th[t] \in ThreadState /\ th[t].ctl \in Controls /\ Place(th[t])
            /\ Clear(th[t]) /\ Watched(th[t])
        BY TypesShape DEF ThreadState, Places, Unstopped, Watching
      <3>2. th'[t].op # "adopt"
        <4>1. CASE Call(t)
          BY <4>1, CallMoves DEF Begins, NoAdoption
        <4>2. CASE Return(t)
          BY <4>2, CallMoves, IdleIs
        <4>3. CASE Step(t) /\ ~Return(t)
          BY <3>1, <4>3, StaysOn DEF Clear
        <4> QED
          BY <1>2, <4>1, <4>2, <4>3
      <3>3. th'[t].pc = "latch" /\ "cancelled" \in th'[t].bits
              /\ th'[t].op \notin {"stop", "lost"} =>
            Parent[th'[t].ctl] # NoOne /\ "cancelled" \in cause'[Parent[th'[t].ctl]]
        BY <1>2, <3>2, ToLatch
      <3>4. ASSUME th'[t].pc \in {"flag", "effect"}
            PROVE  /\ "cancelled" \notin cause'[th'[t].ctl]
                   /\ "cancelled" \notin cause'[Authority(th'[t].ctl)]
        <4>1. cause' = cause /\ th'[t].ctl = th[t].ctl
          BY <1>2, <3>4, ToEffect
        <4>2. CASE th[t].pc = "flag"
          BY <3>1, <4>1, <4>2 DEF Clear
        <4>3. CASE /\ th[t].pc = "deadline" /\ th[t].op = "effect"
                   /\ ~HasStop(cause[th[t].ctl])
          <5>1. "cancelled" \notin cause[th[t].ctl]
            BY <4>3 DEF HasStop, Stops
          <5>2. th[t].after # "readowner"
            BY <3>1, <4>3 DEF Place
          <5>3. Parent[th[t].ctl] # NoOne => "cancelled" \notin cause[Parent[th[t].ctl]]
            BY <3>1, <4>3, <5>2 DEF Watched
          <5> QED
            BY <4>1, <5>1, <5>3 DEF Authority
        <4> QED
          BY <1>2, <3>4, <4>2, <4>3, ToEffect
      <3> QED
        BY <3>2, <3>3, <3>4 DEF Clear
    <2> QED
      BY <2>1, <2>2 DEF Unstopped
  <1> QED
    BY <1>1, <1>2 DEF Next


----------------------------------------------------------------------------
(* Attribution.                                                            *)

(* Every step keeps one reader with one verdict to adopt.                  *)
LEMMA VerdictsStep ==
  ASSUME TypeOK, Places, Verdicts, Next, OneVerdict
  PROVE  Verdicts'
  <1>1. CASE PassDeadline \/ \E c \in Controls : PassStage(c)
    BY <1>1 DEF PassDeadline, PassStage, Verdicts, ReadsOnce, hostVars
  <1>2. ASSUME NEW t \in Threads, Call(t) \/ Step(t) PROVE Verdicts'
    <2>1. \A u \in Threads : ReadsOnce(u) /\ left[u] \in Nat
      BY DEF Verdicts, TypeOK
    <2>2. \A u \in Threads : u # t => th'[u] = th[u]
      BY <1>2, StepOnly DEF Only
    <2>3. th[t] \in ThreadState /\ th[t].ctl \in Controls
      BY TypesShape DEF ThreadState
    <2>4. CASE Call(t)
      <3>1. verdict' = verdict /\ left' = [left EXCEPT ![t] = @ - 1] /\ left[t] > 0
            /\ left \in [Threads -> Nat]
        BY <2>4 DEF Call, TypeOK
      <3>2. PICK k \in Calls[t] : k \in AllCalls /\ Begins(t, k)
        BY <2>4, CallMoves
      <3>3. th'[t].op = k.op /\ th'[t].ctl = k.ctl /\ k.ctl \in Controls
        BY <3>2 DEF Begins, AllCalls
      <3>4. left'[t] = left[t] - 1 /\ \A u \in Threads : u # t => left'[u] = left[u]
        BY <3>1
      <3>5. \A c \in Controls : Reader(t, c) => left[t] = 1 /\ ~verdict[c]
        BY <2>1, <3>1 DEF ReadsOnce
      <3>6. k.op \in {"adopt", "lost"} => Reader(t, k.ctl)
        BY <3>2 DEF Reader
      <3>7. ReadsOnce(t)'
        BY <3>1, <3>3, <3>4, <3>5, <3>6 DEF ReadsOnce, Reader
      <3>8. \A u \in Threads : u # t => ReadsOnce(u)'
        BY <2>1, <2>2, <3>1, <3>4 DEF ReadsOnce, Reader
      <3> QED
        BY <3>7, <3>8 DEF Verdicts
    <2>5. CASE Return(t)
      <3>1. left' = left /\ th'[t].op = "check"
        BY <2>5, CallMoves, IdleIs DEF Return
      <3>2. /\ \A c \in Controls : c # th[t].ctl => verdict'[c] = verdict[c]
            /\ verdict'[th[t].ctl] => verdict[th[t].ctl] \/ th[t].op \in {"adopt", "lost"}
        BY <2>3, <2>5 DEF Return, TypeOK
      <3>3. ASSUME NEW u \in Threads, NEW c \in Controls, Reader(u, c)
            PROVE  /\ left'[u] <= 1
                   /\ verdict'[c] => left'[u] = 0 /\ th'[u].op \notin {"adopt", "lost"}
        <4>1. left'[u] <= 1
          BY <2>1, <3>1, <3>3 DEF ReadsOnce
        <4>2. CASE verdict[c]
          BY <2>1, <2>2, <3>1, <3>3, <4>1, <4>2 DEF ReadsOnce
        <4>3. CASE ~verdict[c] /\ verdict'[c]
          <5>1. c = th[t].ctl /\ th[t].op \in {"adopt", "lost"}
            BY <3>2, <4>3
          <5>2. Reader(t, c) /\ left[t] = 0
            BY <2>1, <5>1 DEF ReadsOnce
          <5>3. u = t
            BY <3>3, <5>2 DEF OneVerdict
          <5> QED
            BY <3>1, <4>1, <5>2, <5>3
        <4> QED
          BY <4>1, <4>2, <4>3
      <3>4. ASSUME NEW u \in Threads, th'[u].op \in {"adopt", "lost"}
            PROVE  Reader(u, th'[u].ctl) /\ left'[u] = 0
        BY <2>1, <2>2, <3>1, <3>4 DEF ReadsOnce
      <3> QED
        BY <3>3, <3>4 DEF Verdicts, ReadsOnce, Reader
    <2>6. CASE Step(t) /\ ~Return(t)
      <3>1. th'[t].op = th[t].op /\ th'[t].ctl = th[t].ctl
        BY <2>6, StaysOn
      <3>2. verdict' = verdict /\ left' = left
        BY <2>6 DEF Step, TakeOwnerGate, TakeGate, Latch, Close, CheckOwner, ReadOwner,
         CheckPhase, PhaseDone, CheckDeadline, ReadStage,
         CasLaunch, CasRecovery, CasQueue, CasAdmit,
         CasTransition, ReadFlag, Effect, Advance, AdvanceFailed, SettleNative, Open,
         Unopen, Publish, hostVars
      <3> QED
        BY <2>1, <2>2, <3>1, <3>2 DEF Verdicts, ReadsOnce, Reader
    <2> QED
      BY <1>2, <2>4, <2>5, <2>6
  <1> QED
    BY <1>1, <1>2 DEF Next

(* Latching one reason on one reason leaves one reason.                    *)
LEMMA LatchedReason ==
  ASSUME NEW a, NEW s \in SUBSET Bits, NEW bits \in SUBSET Bits,
         bits \subseteq Stops \cup {"derived", "phase"}, a => bits \subseteq Stops,
         HasStop(bits), OneReason(s), OneReason(bits)
  PROVE  /\ OneReason(Latched(a, bits, s))
         /\ \A seen \in SUBSET Bits :
              HasStop(seen) /\ Follows(seen, s) => Follows(seen, Latched(a, bits, s))
  <1>1. CASE ~HasStop(s)
    <2>1. Latched(a, bits, s) = s \cup bits
      BY <1>1 DEF Latched
    <2>2. s \cap {"cancelled", "timeout", "derived", "superseded"} = {}
      BY <1>1 DEF OneReason, HasStop, Stops
    <2>3. OneReason(s \cup bits)
      BY <2>2 DEF OneReason, HasStop, Stops
    <2>4. \A seen \in SUBSET Bits : ~(HasStop(seen) /\ Follows(seen, s))
      BY <1>1 DEF Follows, HasStop
    <2> QED
      BY <2>1, <2>3, <2>4
  <1>2. CASE HasStop(s) /\ ~(a /\ "derived" \in s)
    <2>1. Latched(a, bits, s) = s
      BY <1>2 DEF Latched
    <2> QED
      BY <2>1
  <1>3. CASE HasStop(s) /\ a /\ "derived" \in s
    <2> DEFINE l == (s \ (Stops \cup {"derived"})) \cup bits \cup {"superseded"}
    <2>1. Latched(a, bits, s) = l
      BY <1>3 DEF Latched
    <2>2. OneReason(l)
      BY <1>3 DEF OneReason, HasStop, Stops
    <2>3. HasStop(l) /\ "derived" \notin l /\ "superseded" \in l
      BY <1>3 DEF HasStop, Stops
    <2>4. \A seen \in SUBSET Bits : Follows(seen, s) => "derived" \in seen
      BY <1>3 DEF Follows
    <2> QED
      BY <2>1, <2>2, <2>3, <2>4 DEF Follows
  <1> QED
    BY <1>1, <1>2, <1>3

(* What a step may do to the latch of one control.                         *)
LEMMA CauseSteps ==
  ASSUME TypeOK, Places, NEW t \in Threads, Call(t) \/ Step(t), NEW c \in Controls
  PROVE  \/ cause'[c] = cause[c]
         \/ ~HasStop(cause[c]) /\ cause'[c] = {"launch"}
         \/ ~HasStop(cause[c]) /\ cause'[c] = cause[c] \cup {"recovery"}
         \/ /\ Latch(t) /\ th[t].pc = "latch" /\ th[t].goal = c
            /\ cause'[c] = Latched(th[t].op = "adopt", th[t].bits, cause[c])
  <1>1. th[t].goal \in Controls /\ th[t].ctl \in Controls
    BY TypesShape DEF ThreadState
  <1>2. CASE Latch(t)
    <2> DEFINE a == th[t].op = "adopt"
    <2>1. cause' = [cause EXCEPT ![th[t].goal] = Latched(a, th[t].bits, @)]
          /\ th[t].pc = "latch"
      BY <1>2 DEF Latch, At
    <2> HIDE DEF a
    <2>2. \/ cause'[c] = cause[c]
          \/ th[t].goal = c /\ cause'[c] = Latched(a, th[t].bits, cause[c])
      BY <1>1, <2>1, TypesShape
    <2> QED
      BY <1>2, <2>1, <2>2 DEF a
  <1>3. CASE cause[th[t].ctl] = {} /\ cause' = [cause EXCEPT ![th[t].ctl] = {"launch"}]
    BY <1>1, <1>3, TypesShape DEF HasStop
  <1>4. CASE /\ cause[th[t].ctl] \cap (Stops \cup {"recovery"}) = {}
             /\ cause' = [cause EXCEPT ![th[t].ctl] = @ \cup {"recovery"}]
    BY <1>1, <1>4, TypesShape DEF HasStop
  <1> QED
    BY <1>2, <1>3, <1>4, CauseKept

(* Follows is kept by every step, and so is the single reason.             *)
LEMMA ReasonKept ==
  ASSUME TypeOK, Places, Attribution, NEW t \in Threads, Call(t) \/ Step(t),
         NEW c \in Controls
  PROVE  /\ OneReason(cause'[c])
         /\ \A seen \in SUBSET Bits :
              HasStop(seen) /\ Follows(seen, cause[c]) => Follows(seen, cause'[c])
  <1>1. OneReason(cause[c]) /\ cause[c] \in SUBSET Bits /\ OneReason(th[t].bits)
        /\ Place(th[t]) /\ th[t].bits \in SUBSET Bits
    BY TypesShape DEF Attribution, Places, ThreadState
  <1>2. CASE cause'[c] = cause[c]
    BY <1>1, <1>2
  <1>3. CASE ~HasStop(cause[c]) /\ cause'[c] \in {{"launch"}, cause[c] \cup {"recovery"}}
    <2>1. OneReason(cause'[c])
      BY <1>1, <1>3 DEF OneReason, HasStop, Stops
    <2>2. \A seen \in SUBSET Bits : ~(HasStop(seen) /\ Follows(seen, cause[c]))
      BY <1>3 DEF Follows, HasStop
    <2> QED
      BY <2>1, <2>2
  <1>4. CASE /\ th[t].pc = "latch"
             /\ cause'[c] = Latched(th[t].op = "adopt", th[t].bits, cause[c])
    <2> DEFINE a == th[t].op = "adopt"
    <2>1. /\ HasStop(th[t].bits) /\ th[t].bits \subseteq Stops \cup {"derived", "phase"}
          /\ a => th[t].bits \subseteq Stops
          /\ cause'[c] = Latched(a, th[t].bits, cause[c])
      BY <1>1, <1>4 DEF Place
    <2> HIDE DEF a
    <2>2. /\ OneReason(Latched(a, th[t].bits, cause[c]))
          /\ \A seen \in SUBSET Bits :
               HasStop(seen) /\ Follows(seen, cause[c]) =>
                 Follows(seen, Latched(a, th[t].bits, cause[c]))
      BY <1>1, <2>1, LatchedReason
    <2> QED
      BY <2>1, <2>2
  <1> QED
    BY <1>2, <1>3, <1>4, CauseSteps

(* A step that captures a fault to be published.                           *)
LEMMA ToAwait ==
  ASSUME TypeOK, Places, NEW t \in Threads, Call(t) \/ Step(t), ~ReadStage(t),
         th'[t].pc \in {"stage", "await"}
  PROVE  /\ cause' = cause /\ th'[t].ctl = th[t].ctl
         /\ HasStop(cause[th[t].ctl]) /\ th'[t].seen = cause[th[t].ctl]
  <1>1. /\ th[t] \in ThreadState /\ Place(th[t]) /\ th[t].ctl \in Controls
        /\ CheckEntry(th[t].ctl) \notin {"stage", "await"}
        /\ th[t].then \notin {"stage", "await"} /\ th[t].after \notin {"stage", "await"}
    BY TypesShape DEF Places, ThreadState, CheckEntry, Place, Thens, Afters
  <1>2. CASE Call(t)
    <2>1. PICK k \in Calls[t] : k \in AllCalls /\ Begins(t, k)
      BY <1>2, CallMoves
    <2>2. k.op \in Ops /\ k.ctl \in Controls
      BY <2>1 DEF AllCalls
    <2>3. Entry(k.op, k.ctl) \notin {"stage", "await"}
      BY <2>2, EntryOf DEF CheckEntry
    <2> QED
      BY <2>1, <2>3 DEF Begins
  <1>3. CASE Return(t)
    BY <1>3, CallMoves, IdleIs
  <1>4. CASE TakeOwnerGate(t) \/ TakeGate(t)
    BY <1>1, <1>4, GateMoves DEF Goes
  <1>5. CASE CheckOwner(t) \/ ReadOwner(t)
    BY <1>5, OwnerMoves DEF Goes, Settles
  <1>6. CASE CheckDeadline(t)
    <2>1. cause' = cause
      BY <1>6 DEF CheckDeadline, latchVars
    <2>2. HasStop(cause[th[t].ctl]) /\ Captures(t)
      BY <1>1, <1>6, DeadlineMoves DEF Goes, Settles
    <2> QED
      BY <2>1, <2>2 DEF Captures
  <1>7. CASE Latch(t) \/ Close(t) \/ CheckPhase(t) \/ PhaseDone(t)
    BY <1>1, <1>7, SettleMoves DEF Goes, Settles, Settled
  <1>8. CASE CasLaunch(t) \/ CasRecovery(t) \/ CasQueue(t) \/ CasAdmit(t) \/ Open(t)
    BY <1>1, <1>8, AdmitMoves DEF Goes, Checks
  <1>9. CASE \/ ReadFlag(t) \/ Effect(t) \/ AdvanceFailed(t) \/ SettleNative(t)
             \/ Unopen(t) \/ Publish(t) \/ Advance(t)
    BY <1>1, <1>9, OtherMoves DEF Goes, Settles, Checks
  <1> QED
    BY <1>2, <1>3, <1>4, <1>5, <1>6, <1>7, <1>8, <1>9 DEF Step

(* The reason a call publishes is the one that is latched, for good.       *)
LEMMA PrimaryIs ==
  ASSUME NEW seen \in SUBSET Bits, NEW now \in SUBSET Bits, HasStop(seen),
         OneReason(seen), OneReason(now), Follows(seen, now)
  PROVE  /\ HasStop(now) /\ Primary(seen, now) = ReasonOf(now)
         /\ "derived" \in now => "derived" \in seen
  BY DEF HasStop, OneReason, Follows, Primary, ReasonOf, Stops


(* A call brings at most one reason to the latch.                          *)
LEMMA BitsStep ==
  ASSUME TypeOK, Places, Attribution, NEW t \in Threads, Call(t) \/ Step(t)
  PROVE  OneReason(th'[t].bits)
  <1>1. OneReason(th[t].bits)
    BY DEF Attribution
  <1>2. /\ OneReason({}) /\ OneReason({"timeout", "derived"})
        /\ OneReason({"timeout", "phase"}) /\ \A r \in Stops : OneReason({r})
    BY DEF OneReason, HasStop, Stops
  <1>3. CASE Call(t)
    BY <1>2, <1>3, CallMoves DEF Begins, AllCalls
  <1>4. CASE Return(t)
    BY <1>2, <1>4, CallMoves, IdleIs
  <1>5. CASE TakeOwnerGate(t) \/ TakeGate(t)
    BY <1>1, <1>5, GateMoves DEF Goes
  <1>6. CASE CheckOwner(t) \/ ReadOwner(t)
    BY <1>1, <1>2, <1>6, OwnerMoves, ReasonIs DEF Goes, Settles
  <1>7. CASE CheckDeadline(t)
    BY <1>1, <1>2, <1>7, DeadlineMoves DEF Goes, Settles, Captures
  <1>8. CASE Latch(t) \/ Close(t) \/ CheckPhase(t) \/ PhaseDone(t)
    BY <1>1, <1>2, <1>8, SettleMoves DEF Goes, Settles, Settled
  <1>9. CASE CasLaunch(t) \/ CasRecovery(t) \/ CasQueue(t) \/ CasAdmit(t) \/ Open(t)
    BY <1>1, <1>9, AdmitMoves DEF Goes, Checks
  <1>10. CASE \/ ReadFlag(t) \/ Effect(t) \/ AdvanceFailed(t) \/ SettleNative(t)
              \/ ReadStage(t) \/ Unopen(t) \/ Publish(t) \/ Advance(t)
    BY <1>1, <1>2, <1>10, AnswerOf, OtherMoves DEF Goes, Settles, Checks
  <1> QED
    BY <1>3, <1>4, <1>5, <1>6, <1>7, <1>8, <1>9, <1>10 DEF Step

(* Every step keeps a published fault the latched cause's.                 *)
LEMMA ReportedStep ==
  ASSUME TypeOK, Places, Verdicts, Attribution,
         NEW t \in Threads, Call(t) \/ Step(t), NEW c \in Controls
  PROVE  Reported(c)'
  <1>1. /\ th[t] \in ThreadState /\ Place(th[t]) /\ th[t].ctl \in Controls
        /\ Reported(c) /\ cause[c] \in SUBSET Bits /\ OneReason(cause[c])
    BY TypesShape DEF Places, ThreadState, Attribution
  <1>2. verdict[c] => verdict'[c]
    <2>1. CASE Return(t)
      BY <2>1 DEF Return, TypeOK
    <2>2. CASE ~Return(t)
      <3>1. verdict' = verdict
        BY <2>2 DEF Step, Call, TakeOwnerGate, TakeGate, Latch, Close, CheckOwner,
         ReadOwner, CheckPhase, PhaseDone, CheckDeadline, ReadStage,
         CasLaunch, CasRecovery, CasQueue,
         CasAdmit, CasTransition, ReadFlag, Effect, Advance, AdvanceFailed, SettleNative,
         Open, Unopen, Publish, hostVars
      <3> QED
        BY <3>1
    <2> QED
      BY <2>1, <2>2
  <1>3. CASE Publish(t) /\ th[t].ctl = c
    <2>1. /\ th[t].pc = "await" /\ cause' = cause /\ verdict' = verdict
          /\ "derived" \in th[t].seen => verdict[c]
          /\ report' = [report EXCEPT ![c] = Primary(th[t].seen, cause[c])]
      BY <1>3 DEF Publish, At, latchVars
    <2>2. report'[c] = Primary(th[t].seen, cause[c])
      BY <2>1 DEF TypeOK
    <2>3. /\ th[t].seen \in SUBSET Bits /\ HasStop(th[t].seen) /\ OneReason(th[t].seen)
          /\ Follows(th[t].seen, cause[c])
      BY <1>1, <1>3, <2>1 DEF ThreadState, Attribution, Awaiting
    <2>4. /\ HasStop(cause[c]) /\ Primary(th[t].seen, cause[c]) = ReasonOf(cause[c])
          /\ "derived" \in cause[c] => "derived" \in th[t].seen
      BY <1>1, <2>3, PrimaryIs
    <2> QED
      BY <2>1, <2>2, <2>4 DEF Reported
  <1>4. CASE ~(Publish(t) /\ th[t].ctl = c)
    <2>1. report'[c] = report[c]
      <3>1. CASE Publish(t)
        BY <1>1, <1>4, <3>1 DEF Publish, TypeOK
      <3>2. CASE ~Publish(t)
        <4>1. report' = report
          BY <3>2 DEF Step, Call, Return, TakeOwnerGate, TakeGate, Latch, Close, CheckOwner,
         ReadOwner, CheckPhase, PhaseDone, CheckDeadline, ReadStage,
         CasLaunch, CasRecovery, CasQueue,
         CasAdmit, CasTransition, ReadFlag, Effect, Advance, AdvanceFailed, SettleNative,
         Open, Unopen, hostVars
        <4> QED
          BY <4>1
      <3> QED
        BY <3>1, <3>2
    <2>2. SUFFICES ASSUME report[c] # NoOne
                   PROVE  /\ HasStop(cause'[c]) /\ report[c] = ReasonOf(cause'[c])
                          /\ "derived" \in cause'[c] => verdict'[c]
      BY <2>1 DEF Reported
    <2>3. /\ HasStop(cause[c]) /\ report[c] = ReasonOf(cause[c])
          /\ "derived" \in cause[c] => verdict[c]
      BY <1>1, <2>2 DEF Reported
    <2>4. CASE cause'[c] = cause[c]
      BY <1>2, <2>3, <2>4
    <2>5. CASE /\ th[t].pc = "latch" /\ th[t].goal = c
               /\ cause'[c] = Latched(th[t].op = "adopt", th[t].bits, cause[c])
      <3>1. ~(th[t].op = "adopt" /\ "derived" \in cause[c])
        <4>1. SUFFICES ASSUME th[t].op = "adopt", "derived" \in cause[c] PROVE FALSE
          OBVIOUS
        <4>2. th[t].ctl = c /\ verdict[c]
          BY <1>1, <2>3, <2>5, <4>1 DEF Place
        <4>3. ReadsOnce(t)
          BY DEF Verdicts
        <4>4. Reader(t, c)
          BY <4>1, <4>2, <4>3 DEF ReadsOnce
        <4> QED
          BY <4>1, <4>2, <4>3, <4>4 DEF ReadsOnce
      <3>2. cause'[c] = cause[c]
        BY <2>3, <2>5, <3>1 DEF Latched
      <3> QED
        BY <1>2, <2>3, <3>2
    <2> QED
      BY <2>3, <2>4, <2>5, CauseSteps
  <1> QED
    BY <1>3, <1>4

(* Every step keeps what the attribution rests on.                         *)
LEMMA AttributionStep ==
  ASSUME TypeOK, Places, Verdicts, Attribution, Next
  PROVE  Attribution'
  <1>1. CASE PassDeadline \/ \E c \in Controls : PassStage(c)
    BY <1>1 DEF PassDeadline, PassStage, Attribution, Awaiting, Reported, latchVars, hostVars
  <1>2. ASSUME NEW t \in Threads, Call(t) \/ Step(t) PROVE Attribution'
    <2>1. \A u \in Threads : u # t => th'[u] = th[u]
      BY <1>2, StepOnly DEF Only
    <2>2. ASSUME NEW c \in Controls PROVE OneReason(cause'[c]) /\ Reported(c)'
      BY <1>2, ReasonKept, ReportedStep
    <2>3. ASSUME NEW u \in Threads PROVE OneReason(th'[u].bits)
      BY <1>2, <2>1, BitsStep DEF Attribution
    <2>4. ASSUME NEW u \in Threads, th'[u].pc \in {"stage", "await"}
          PROVE  /\ HasStop(th'[u].seen) /\ OneReason(th'[u].seen)
                 /\ Follows(th'[u].seen, cause'[th'[u].ctl])
      <3>1. th[u] \in ThreadState /\ th[u].ctl \in Controls /\ th[u].seen \in SUBSET Bits
        BY TypesShape DEF ThreadState
      <3>2. CASE u = t /\ ~ReadStage(t)
        <4>1. /\ cause' = cause /\ th'[t].ctl = th[t].ctl
              /\ HasStop(cause[th[t].ctl]) /\ th'[t].seen = cause[th[t].ctl]
          BY <1>2, <2>4, <3>2, ToAwait
        <4>2. OneReason(cause[th[t].ctl])
          BY <3>1, <3>2 DEF Attribution
        <4> QED
          BY <3>2, <4>1, <4>2 DEF Follows
      <3>3. CASE u # t
        <4>1. /\ th'[u] = th[u] /\ HasStop(th[u].seen) /\ OneReason(th[u].seen)
              /\ Follows(th[u].seen, cause[th[u].ctl])
          BY <2>1, <2>4, <3>3 DEF Attribution, Awaiting
        <4>2. Follows(th[u].seen, cause'[th[u].ctl])
          BY <1>2, <3>1, <4>1, ReasonKept
        <4> QED
          BY <4>1, <4>2
      <3>4. CASE u = t /\ ReadStage(t)
        <4>1. /\ th[t].pc = "stage" /\ cause' = cause
              /\ th'[t].ctl = th[t].ctl /\ th'[t].seen = th[t].seen
          BY <3>4, OtherMoves DEF ReadStage, At, Goes, latchVars
        <4> QED
          BY <3>4, <4>1 DEF Attribution, Awaiting
      <3> QED
        BY <3>2, <3>3, <3>4
    <2> QED
      BY <2>2, <2>3, <2>4 DEF Attribution, Awaiting
  <1> QED
    BY <1>1, <1>2 DEF Next

----------------------------------------------------------------------------
(* The theorems.                                                           *)

Base == TypeOK /\ Places /\ Gated

(* The invariant holds at the start.                                       *)
LEMMA InitBase ==
  Init => Base /\ Claims
  <1> SUFFICES ASSUME Init PROVE Base /\ Claims
    OBVIOUS
  <1>1. TypeOK
    <2>1. th \in [Threads -> ThreadState]
      BY IdleIs DEF Init
    <2>2. left \in [Threads -> Nat]
      BY ControlAssumption DEF Init
    <2>3. clock \in [Controls -> [phase : 0..2, expired : BOOLEAN, settled : BOOLEAN]]
      BY DEF Init
    <2>5. grants \in [Admissions -> [Controls -> Nat]]
      BY DEF Init
    <2>6. /\ cause \in [Controls -> SUBSET Bits]
          /\ transition \in [Controls -> 0..3]
      BY DEF Init
    <2>7. /\ gate \in [Controls -> Threads \cup {NoOne}]
          /\ clockLock \in [Controls -> Threads \cup {NoOne}]
          /\ report \in [Controls -> Stops \cup {NoOne}]
      BY DEF Init
    <2>8. /\ admission \in [Controls -> BOOLEAN]
          /\ stopped \in [Controls -> BOOLEAN]
          /\ entered \in [Controls -> BOOLEAN]
          /\ verdict \in [Controls -> BOOLEAN] /\ late \in BOOLEAN
      BY DEF Init
    <2> QED
      BY <2>1, <2>2, <2>3, <2>5, <2>6, <2>7, <2>8 DEF TypeOK, ThreadState
  <1>2. \A t \in Threads : th[t] = Idle
    BY DEF Init
  <1>3. Places
    BY <1>2, IdleIs DEF Places, Place, Fits, Thens, Afters
  <1>4. Gated
    BY <1>2, IdleIs DEF Gated, Holding
  <1>5. Claims
    BY <1>2, IdleIs DEF Init, Claims, Holds
  <1> QED
    BY <1>1, <1>3, <1>4, <1>5 DEF Base

(* A stuttering step keeps every part.                                     *)
LEMMA StutterBase ==
  UNCHANGED vars =>
    /\ Base => Base'
    /\ Claims => Claims'
    /\ Sources => Sources'
    /\ Watching => Watching'
    /\ Unstopped => Unstopped'
    /\ Verdicts => Verdicts'
    /\ Attribution => Attribution'
  <1> SUFFICES ASSUME UNCHANGED vars
               PROVE  /\ Base => Base'
                      /\ Claims => Claims'
                      /\ Sources => Sources'
                      /\ Watching => Watching'
                      /\ Unstopped => Unstopped'
                      /\ Verdicts => Verdicts'
                      /\ Attribution => Attribution'
    OBVIOUS
  <1>1. Base => Base'
    BY DEF vars, Base, TypeOK, Places, Place, Gated, Holding
  <1>2. Claims => Claims'
    BY DEF vars, Claims, Claimed, Holds
  <1>3. Sources => Sources'
    BY DEF vars, Sources
  <1>4. Watching => Watching'
    BY DEF vars, Watching, Watched
  <1>5. Unstopped => Unstopped'
    BY DEF vars, Unstopped, Clear
  <1>6. Verdicts => Verdicts'
    BY DEF vars, Verdicts, ReadsOnce
  <1>7. Attribution => Attribution'
    BY DEF vars, Attribution, Awaiting, Reported
  <1> QED
    BY <1>1, <1>2, <1>3, <1>4, <1>5, <1>6, <1>7

(* Every step keeps types, places and gates together.                      *)
LEMMA NextBase ==
  Base /\ [Next]_vars => Base'
  <1> SUFFICES ASSUME Base, [Next]_vars PROVE Base'
    OBVIOUS
  <1>1. CASE Next
    <2>1. TypeOK /\ Places /\ Gated
      BY DEF Base
    <2>2. TypeOK' /\ Places' /\ Gated'
      BY <1>1, <2>1, TypeStep, PlaceStep, GatedStep
    <2> QED
      BY <2>2 DEF Base
  <1>2. CASE UNCHANGED vars
    BY <1>2, StutterBase
  <1> QED
    BY <1>1, <1>2

(* Types, places and gates hold throughout.                                *)
LEMMA BaseHolds == Spec => []Base
  BY InitBase, NextBase, PTL DEF Spec

(* Every variable keeps its type in every process: the latch holds known   *)
(* bits, and gates and clock locks are held by threads of this process.    *)
THEOREM TypeCorrect == Spec => []TypeOK
  <1>1. Base => TypeOK
    BY DEF Base
  <1> QED
    BY <1>1, BaseHolds, PTL

(* However many threads race for it, an admission is granted to one call.  *)
THEOREM AdmitsOnce == Spec => []OneShot
  <1>1. Init => Base /\ Claims
    BY InitBase
  <1>2. Base /\ Claims /\ [Next]_vars => Base' /\ Claims'
    <2> SUFFICES ASSUME Base, Claims, [Next]_vars PROVE Base' /\ Claims'
      OBVIOUS
    <2>1. CASE Next
      BY <2>1, NextBase, ClaimsStep DEF Base
    <2>2. CASE UNCHANGED vars
      BY <2>2, StutterBase
    <2> QED
      BY <2>1, <2>2
  <1>3. Claims => OneShot
    BY DEF Claims, OneShot
  <1> QED
    BY <1>1, <1>2, <1>3, PTL DEF Spec

(* The first cause wins in every process, whatever its threads call.       *)
THEOREM CausesAreFinal == Spec => FirstCauseWins
  <1>1. Base /\ [Next]_vars =>
          [\A c \in Controls :
             /\ cause[c] \cap {"launch", "recovery", "superseded", "phase"} \subseteq cause'[c]
             /\ HasStop(cause[c]) /\ cause'[c] \cap Stops # cause[c] \cap Stops =>
                  "derived" \in cause[c] /\ "superseded" \in cause'[c]]_vars
    BY FirstCauseStep DEF Base
  <1> QED
    BY <1>1, BaseHolds, PTL DEF Spec, FirstCauseWins

(* A launch is admitted only while no explicit Stop is latched, where a    *)
(* verdict is adopted by no control that owns an attempt.                  *)
THEOREM LaunchesPrecedeStops == AdoptsApart /\ Spec => LaunchBeforeStop
  <1> SUFFICES ASSUME AdoptsApart PROVE Spec => LaunchBeforeStop
    OBVIOUS
  <1> DEFINE Watch == Base /\ Sources /\ Watching
             Launch == \A c \in Controls :
               "launch" \in cause'[c] \ cause[c] =>
                 /\ ~HasStop(cause[c])
                 /\ "cancelled" \notin cause[Authority(c)]
  <1>1. Init => Watch
    <2> SUFFICES ASSUME Init PROVE Sources /\ Watching
      BY InitBase
    <2>1. \A t \in Threads : th[t] = Idle
      BY DEF Init
    <2> QED
      BY <2>1, IdleIs DEF Sources, Watching, Watched
  <1>2. Watch /\ [Next]_vars => Watch'
    <2> SUFFICES ASSUME Watch, [Next]_vars PROVE Watch'
      OBVIOUS
    <2>1. CASE Next
      BY <2>1, NextBase, SourcesStep, WatchingStep DEF Base
    <2>2. CASE UNCHANGED vars
      BY <2>2, StutterBase
    <2> QED
      BY <2>1, <2>2
  <1>3. Watch /\ [Next]_vars => [Launch]_vars
    <2> SUFFICES ASSUME Watch, Next PROVE Launch
      OBVIOUS
    <2>1. ASSUME NEW t \in Threads, Call(t) \/ Step(t), NEW c \in Controls,
                 "launch" \in cause'[c] \ cause[c]
          PROVE  ~HasStop(cause[c]) /\ "cancelled" \notin cause[Authority(c)]
      <3>1. /\ th[t] \in ThreadState /\ Place(th[t]) /\ Watched(th[t])
            /\ th[t].goal \in Controls /\ th[t].ctl \in Controls
            /\ th[t].bits \in SUBSET Bits /\ cause[c] \in SUBSET Bits
        BY TypesShape DEF Base, Places, ThreadState, Watching
      <3>2. CASE Latch(t)
        <4> DEFINE a == th[t].op = "adopt"
        <4>1. cause' = [cause EXCEPT ![th[t].goal] = Latched(a, th[t].bits, @)]
          BY <3>2 DEF Latch
        <4>2. th[t].bits \subseteq Stops \cup {"derived", "phase"}
          BY <3>1 DEF Place
        <4> HIDE DEF a
        <4>3. \A bits \in SUBSET Bits, s \in SUBSET Bits :
                bits \subseteq Stops \cup {"derived", "phase"} =>
                  \A b \in Stops \cup {"launch", "recovery", "derived"} :
                    b \in Latched(a, bits, s) => b \in s \cup bits
          BY LatchedIs
        <4>4. cause'[c] = cause[c] \/ cause'[c] = Latched(a, th[t].bits, cause[c])
          BY <3>1, <4>1, TypesShape DEF Base
        <4>5. "launch" \in Latched(a, th[t].bits, cause[c])
          BY <2>1, <4>4
        <4>6. "launch" \in cause[c] \cup th[t].bits
          BY <3>1, <4>2, <4>3, <4>5
        <4> QED
          BY <2>1, <4>2, <4>6 DEF Stops
      <3>3. CASE /\ CasLaunch(t) /\ cause[th[t].ctl] = {}
                 /\ cause' = [cause EXCEPT ![th[t].ctl] = {"launch"}]
        <4>1. c = th[t].ctl
          BY <2>1, <3>1, <3>3, TypesShape DEF Base
        <4>2. th[t].pc = "casLaunch" /\ th[t].op = "launch" /\ th[t].after # "readowner"
          BY <3>1, <3>3 DEF CasLaunch, At, Place, Fits
        <4>3. ~HasStop(cause[c]) /\ "cancelled" \notin cause[c]
          BY <3>3, <4>1 DEF HasStop
        <4>4. Parent[c] # NoOne => "cancelled" \notin cause[Parent[c]]
          BY <3>1, <4>1, <4>2, <4>3 DEF Watched
        <4> QED
          BY <4>3, <4>4 DEF Authority
      <3>4. CASE cause' = [cause EXCEPT ![th[t].ctl] = @ \cup {"recovery"}]
        BY <2>1, <3>1, <3>4, TypesShape DEF Base
      <3> QED
        BY <2>1, <3>2, <3>3, <3>4, CauseKept DEF Base
    <2>2. CASE PassDeadline \/ \E c \in Controls : PassStage(c)
      BY <2>2 DEF PassDeadline, PassStage, latchVars
    <2> QED
      BY <2>1, <2>2 DEF Next
  <1> HIDE DEF Watch, Launch
  <1>4. Spec => [][Launch]_vars
    BY <1>1, <1>2, <1>3, PTL DEF Spec
  <1> QED
    BY <1>4 DEF Launch, LaunchBeforeStop

(* Where no verdict is adopted, admission holds: it is granted once, and   *)
(* no controlled effect runs under an explicit Stop.                       *)
THEOREM AdmissionIsSafe == NoAdoption /\ Spec => []AdmissionHolds
  <1> SUFFICES ASSUME NoAdoption PROVE Spec => []AdmissionHolds
    OBVIOUS
  <1> DEFINE Safe == Base /\ Claims /\ Sources /\ Watching /\ Unstopped
  <1>1. Init => Safe
    <2> SUFFICES ASSUME Init PROVE Sources /\ Watching /\ Unstopped
      BY InitBase
    <2>1. \A t \in Threads : th[t] = Idle
      BY DEF Init
    <2> QED
      BY <2>1, IdleIs DEF Sources, Watching, Watched, Unstopped, Clear
  <1>2. Safe /\ [Next]_vars => Safe'
    <2> SUFFICES ASSUME Safe, [Next]_vars PROVE Safe'
      OBVIOUS
    <2>1. AdoptsApart
      BY DEF NoAdoption, AdoptsApart
    <2>2. CASE Next
      <3>1. TypeOK /\ Places /\ Gated
        BY DEF Base
      <3>2. Base' /\ Claims' /\ Sources' /\ Watching' /\ Unstopped'
        BY <2>1, <2>2, <3>1, NextBase, ClaimsStep, SourcesStep, WatchingStep,
           UnstoppedStep
      <3> QED
        BY <3>2
    <2>3. CASE UNCHANGED vars
      BY <2>3, StutterBase
    <2> QED
      BY <2>2, <2>3
  <1>3. Safe => AdmissionHolds
    <2>1. Claims => OneShot
      BY DEF Claims, OneShot
    <2>2. Unstopped => EffectExcludesStop
      BY DEF Unstopped, Clear, EffectExcludesStop, At
    <2> QED
      BY <2>1, <2>2 DEF AdmissionHolds
  <1> HIDE DEF Safe
  <1> QED
    BY <1>1, <1>2, <1>3, PTL DEF Spec

(* Where a control has one reader and it reads one verdict, the published  *)
(* primary fault names the cause that is latched for good.                 *)
THEOREM PrimaryIsFinal == OneVerdict /\ Spec => []PrimaryMatchesVerdict
  <1> SUFFICES ASSUME OneVerdict PROVE Spec => []PrimaryMatchesVerdict
    OBVIOUS
  <1> DEFINE Fair == Base /\ Verdicts /\ Attribution
  <1>1. Init => Fair
    <2> SUFFICES ASSUME Init PROVE Fair
      OBVIOUS
    <2>1. \A t \in Threads : th[t] = Idle
      BY DEF Init
    <2>2. Verdicts
      BY <2>1, IdleIs DEF Init, Verdicts, ReadsOnce, OneVerdict
    <2>3. Attribution
      BY <2>1, IdleIs
      DEF Init, Attribution, Awaiting, Reported, OneReason
    <2> QED
      BY <2>2, <2>3, InitBase
  <1>2. Fair /\ [Next]_vars => Fair'
    <2> SUFFICES ASSUME Fair, [Next]_vars PROVE Fair'
      OBVIOUS
    <2>1. CASE Next
      <3>1. TypeOK /\ Places
        BY DEF Base
      <3>2. Base' /\ Verdicts' /\ Attribution'
        BY <2>1, <3>1, NextBase, VerdictsStep, AttributionStep
      <3> QED
        BY <3>2
    <2>2. CASE UNCHANGED vars
      BY <2>2, StutterBase
    <2> QED
      BY <2>1, <2>2
  <1>3. Fair => PrimaryMatchesVerdict
    BY DEF Attribution, Reported, PrimaryMatchesVerdict
  <1> HIDE DEF Fair
  <1> QED
    BY <1>1, <1>2, <1>3, PTL DEF Spec
=============================================================================
