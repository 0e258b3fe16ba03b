---------------------------- MODULE CompilerWorker ---------------------------
(***************************************************************************)
(* The compiler's worker process and the two requests a compilation makes  *)
(* of it (typescript.rs).  Each request spawns a child, writes the request *)
(* to it on one thread, reads its two outputs on two more, and polls: for  *)
(* what the threads report, for the child's exit, for the operation's stop *)
(* and for the deadline.  The first request lists the imports, every one   *)
(* of which must resolve in the captured inventory before the second asks  *)
(* for the compilation (or the link) under the same compiler identity.     *)
(***************************************************************************)
EXTENDS Naturals, FiniteSets

CONSTANTS Imports,       \* what the sources may import
          Captured,      \* what the inventory resolves
          Shared         \* BOOLEAN: the deadline is the operation's own

VARIABLES step,          \* 1: inspect, 2: compile or link
          at,            \* "ask", "poll", "contain", "join", "read", "resolve", "ended"
          child,         \* "none", "running", "good", "bad" (exited), "reaped"
          pipe,          \* each pipe's thread: "none", "busy", "done", "over", "failed"
          heard,         \* the threads whose report the poll has received
          reply,         \* what the child wrote: "none", "ok", "fault", "cut"
          exit,          \* the exit the poll has seen: "none", "good", "bad"
          failure,       \* the request's failure
          stop, late,    \* the operation's stop, the worker's deadline
          listed,        \* imports the child listed
          resolved,      \* those the inventory resolved
          result

vars == <<step, at, child, pipe, heard, reply, exit, failure, stop, late, listed, resolved, result>>

Pipes == {"stdin", "stdout", "stderr"}
NoPipes == [p \in Pipes |-> "none"]

Init ==
    /\ step = 1 /\ at = "ask" /\ child = "none" /\ pipe = NoPipes /\ heard = {}
    /\ reply = "none" /\ exit = "none" /\ failure = "none"
    /\ stop = FALSE /\ late = FALSE
    /\ listed = {} /\ resolved = {} /\ result = "none"

TypeOK ==
    /\ at \in {"ask", "poll", "contain", "join", "read", "resolve", "ended"}
    /\ listed \subseteq Imports /\ resolved \subseteq listed

Ends(r) == at' = "ended" /\ result' = r

\* Only the operation's own deadline inherits its stop as the cause.
DeadlineFault == IF Shared /\ stop THEN "stop" ELSE "deadline"

\* The request is refused before a process exists, or the child is spawned
\* with its three threads.
Ask ==
    /\ at = "ask"
    /\ IF stop THEN Ends("stop") /\ UNCHANGED <<child, pipe>>
       ELSE IF late THEN Ends(DeadlineFault) /\ UNCHANGED <<child, pipe>>
       ELSE \/ Ends("blocked") /\ UNCHANGED <<child, pipe>>
            \/ /\ child' = "running" /\ pipe' = [p \in Pipes |-> "busy"]
               /\ at' = "poll" /\ UNCHANGED result
    /\ heard' = {} /\ reply' = "none" /\ exit' = "none" /\ failure' = "none"
    /\ UNCHANGED <<step, stop, late, listed, resolved>>

\* The child answers, or exits, whatever it has answered.
Answers ==
    /\ child = "running" /\ reply = "none"
    /\ reply' \in {"ok", "fault", "cut"}
    /\ IF step = 1 THEN listed' \in SUBSET Imports ELSE UNCHANGED listed
    /\ UNCHANGED <<step, at, child, pipe, heard, exit, failure, stop, late, resolved, result>>

Exits ==
    /\ child = "running"
    /\ child' \in {"good", "bad"}
    /\ UNCHANGED <<step, at, pipe, heard, reply, exit, failure, stop, late, listed, resolved, result>>

Gone == child \in {"good", "bad", "reaped"}

\* The request is written, or the child is gone; the thread then waits for
\* the poll to let it close its end.
Written ==
    /\ pipe["stdin"] = "busy"
    /\ pipe' = [pipe EXCEPT !["stdin"] = IF Gone THEN "failed" ELSE "done"]
    /\ UNCHANGED <<step, at, child, heard, reply, exit, failure, stop, late, listed, resolved, result>>

\* An output ends with the child, or passes its bound, or fails.
Drained(p) ==
    /\ pipe[p] = "busy" /\ p # "stdin"
    /\ \/ Gone /\ pipe' = [pipe EXCEPT ![p] = "done"]
       \/ pipe' = [pipe EXCEPT ![p] = "over"]
       \/ pipe' = [pipe EXCEPT ![p] = "failed"]
    /\ UNCHANGED <<step, at, child, heard, reply, exit, failure, stop, late, listed, resolved, result>>

Reported == {p \in Pipes : pipe[p] \notin {"none", "busy"}}

\* Mutant: a poll that has the child's exit does not wait for its output.
PollUntilExit ==
    LET seen == IF child \in {"good", "bad"} THEN child ELSE exit IN
    /\ at = "poll"
    /\ heard' = heard \cup Reported /\ exit' = seen
    /\ IF seen # "none" \/ stop \/ late
       THEN /\ at' = "contain"
            /\ failure' = IF seen # "none" THEN failure ELSE IF stop THEN "stop" ELSE DeadlineFault
       ELSE UNCHANGED <<at, failure>>
    /\ UNCHANGED <<step, child, pipe, reply, stop, late, listed, resolved, result>>

\* One turn of the poll: reports, exit, stop, then the deadline.
Poll ==
    LET all == heard \cup Reported
        seen == IF child \in {"good", "bad"} THEN child ELSE exit
        bad == {p \in Reported \ heard : pipe[p] # "done"}
        fault == IF bad # {} THEN "transport" ELSE IF stop THEN "stop" ELSE "none" IN
    /\ at = "poll"
    /\ heard' = all /\ exit' = seen
    /\ IF fault # "none"
       THEN failure' = fault /\ at' = "contain"
       ELSE IF seen # "none" /\ all = Pipes
       THEN at' = "contain" /\ UNCHANGED failure
       ELSE IF late
       THEN failure' = DeadlineFault /\ at' = "contain"
       ELSE UNCHANGED <<at, failure>>
    /\ UNCHANGED <<step, child, pipe, reply, stop, late, listed, resolved, result>>

\* Or the child's exit cannot be asked for; an exit once seen is kept.
PollFails ==
    /\ at = "poll" /\ exit = "none"
    /\ heard' = heard \cup Reported
    /\ failure' = "transport" /\ at' = "contain"
    /\ UNCHANGED <<step, child, pipe, reply, exit, stop, late, listed, resolved, result>>

\* Mutant: a failed request leaves its child to end by itself.
ContainNothing ==
    /\ at = "contain"
    /\ at' = "join"
    /\ UNCHANGED <<step, child, pipe, heard, reply, exit, failure, stop, late, listed, resolved, result>>

\* A child not seen to exit is killed and waited for; a failure of either
\* is the request's failure, with the first as its cause.  A wait after a
\* failed kill lasts until the child ends, and one that fails reaps nothing.
Contain ==
    /\ at = "contain" /\ at' = "join"
    /\ \/ child' = "reaped" /\ UNCHANGED failure
       \/ exit = "none" /\ Gone /\ child' = "reaped" /\ failure' = "containment"
       \/ exit = "none" /\ child' \in {child, "bad"} /\ failure' = "containment"
    /\ UNCHANGED <<step, pipe, heard, reply, exit, stop, late, listed, resolved, result>>

\* The three threads are joined; each ends once the child is gone.
Join ==
    /\ at = "join"
    /\ \A p \in Pipes : pipe[p] # "busy"
    /\ at' = "read"
    /\ UNCHANGED <<step, child, pipe, heard, reply, exit, failure, stop, late, listed, resolved, result>>

\* The reply counts only when it is whole, says ok and the child succeeded.
Accepted == reply = "ok" /\ exit = "good"

Read ==
    /\ at = "read"
    /\ IF failure # "none" THEN Ends(failure)
       ELSE IF ~Accepted THEN Ends("protocol")
       ELSE IF step = 1 THEN at' = "resolve" /\ UNCHANGED result
       ELSE IF stop THEN Ends("stop")
       ELSE Ends("compiled")
    /\ UNCHANGED <<step, child, pipe, heard, reply, exit, failure, stop, late, listed, resolved>>

\* Every import is resolved in the inventory before anything is compiled.
Unresolved == listed \ resolved

ResolveImport ==
    /\ at = "resolve" /\ Unresolved # {}
    /\ \E i \in Unresolved :
          IF stop THEN Ends("stop") /\ UNCHANGED resolved
          ELSE IF i \in Captured THEN resolved' = resolved \cup {i} /\ UNCHANGED <<at, result>>
          ELSE Ends("import") /\ UNCHANGED resolved
    /\ UNCHANGED <<step, child, pipe, heard, reply, exit, failure, stop, late, listed>>

Compile ==
    /\ at = "resolve" /\ Unresolved = {}
    /\ step' = 2 /\ at' = "ask" /\ child' = "none" /\ pipe' = NoPipes
    /\ UNCHANGED <<heard, reply, exit, failure, stop, late, listed, resolved, result>>

Stop ==
    /\ at # "ended" /\ ~stop
    /\ stop' = TRUE
    /\ UNCHANGED <<step, at, child, pipe, heard, reply, exit, failure, late, listed, resolved, result>>

Late ==
    /\ at # "ended" /\ ~late
    /\ late' = TRUE
    /\ UNCHANGED <<step, at, child, pipe, heard, reply, exit, failure, stop, listed, resolved, result>>

Next ==
    \/ Ask \/ Answers \/ Exits \/ Written \/ \E p \in Pipes : Drained(p)
    \/ Poll \/ PollFails \/ Contain \/ Join \/ Read \/ ResolveImport \/ Compile
    \/ Stop \/ Late

Spec == Init /\ [][Next]_vars

(***************************************************************************)
(* Whatever the outcome, nothing of the request is left when it returns:   *)
(* no thread, and no child unless its containment is reported to have      *)
(* failed.  A compilation is reported only when both children answered     *)
(* whole and succeeded, every import was resolved in the captured          *)
(* inventory, and no stop came before the answer was read.                 *)
(***************************************************************************)
CompilationIsTrue ==
    /\ at \in {"read", "resolve", "ended"} =>
          /\ child \in {"none", "reaped"} \/ failure = "containment"
          /\ \A p \in Pipes : pipe[p] # "busy"
    /\ result = "compiled" =>
          /\ step = 2 /\ reply = "ok" /\ exit = "good" /\ ~stop
          /\ \A p \in Pipes : pipe[p] = "done"
          /\ resolved = listed /\ listed \subseteq Captured
=============================================================================
