--------------------------- MODULE RunPreparation ----------------------------
(***************************************************************************)
(* What the controller's worker does with one reserved operation           *)
(* (desktop/operation.rs) and the files it rests on (environment.rs).      *)
(* A run and an environment check validate the request and capture the     *)
(* package, the recognition resources, the corpus and the engine in        *)
(* stages, each ended by the first failure or stop; each attempt of a run  *)
(* verifies the captured files again before its child, and a Native        *)
(* attempt verifies them twice more before it hands its target over.  An   *)
(* authoring validation captures and compiles, and starts no child.        *)
(* Another program may change every file at any moment.                    *)
(***************************************************************************)
EXTENDS Naturals, Sequences

CONSTANTS Requests,      \* the operations to consider, see PreparationAssumption
          Contents,      \* what a file may hold
          Catalogued,    \* the content the catalogue fixes for the model
          Inspected,     \* the package content the user reviewed
          MaxEdits       \* bound: changes made by another program

PreparationAssumption ==
    /\ {Catalogued, Inspected} \subseteq Contents
    /\ "mixed" \notin Contents /\ MaxEdits \in Nat
    /\ \A q \in Requests :
         /\ q.operation \in {"run", "check", "authoring"}
         /\ q.lane \in {"controlled", "replay", "native"}
         /\ {q.function, q.recover, q.approved, q.descriptor, q.environment, q.given} \subseteq BOOLEAN

Files == {"model", "library", "engine", "corpus"}
None == "none"
NoFile == [stamp |-> 0, half |-> None]

VARIABLES request, stopped,
          disk,       \* each file's content and the stamp of its last change
          package,    \* the package's content
          past,       \* history: what each file held since the operation began
          at,         \* "enter", "read", "attempt", "verify", "launch", "resolve",
                      \* "reverify", "child", "ended"
          stages,     \* the stages left, the running one first
          todo,       \* files this stage, or this verification, has left to read
          reading,    \* the file that is open
          held,       \* what was captured of each file
          inventory,  \* the captured package
          attempt,
          pass,       \* verifications left before the target is handed over
          seen,       \* history: files verified since the attempt began
          children,   \* history: the children started
          result

vars == <<request, stopped, disk, package, past, at, stages, todo, reading, held,
          inventory, attempt, pass, seen, children, result>>
world == <<stopped, disk, package, past>>

Pending == [status |-> "pending", childless |-> FALSE]

\* The stages of an operation, in their order.
Stages(q) ==
    IF q.operation = "authoring" THEN <<"input", "static">>
    ELSE IF q.operation = "check" THEN <<"input", "environment", "corpus", "engine">>
    ELSE <<"request", "input", "package", "profile">>
         \o (IF q.function THEN <<"function">> ELSE <<>>)
         \o (IF q.lane = "replay" THEN <<"environment", "corpus", "engine">>
             ELSE IF q.lane = "native" THEN <<"static", "engine", "environment">>
             ELSE <<>>)

\* The files a stage reads.
Reads(stage) ==
    IF stage = "environment" THEN <<"model", "library">>
    ELSE IF stage \in {"corpus", "engine"} THEN <<stage>>
    ELSE <<>>

\* What an attempt depends on and verifies again.
Resources(q) == IF q.lane = "controlled" THEN <<>> ELSE <<"model", "library", "engine">>

Init ==
    /\ request \in Requests /\ stopped = FALSE
    /\ disk = [f \in Files |-> [content |-> Catalogued, stamp |-> 0]]
    /\ package = Inspected
    /\ past = [f \in Files |-> {Catalogued}]
    /\ at = "enter" /\ stages = Stages(request) /\ todo = <<>> /\ reading = NoFile
    /\ held = [f \in Files |-> None] /\ inventory = None
    /\ attempt = 1 /\ pass = 0 /\ seen = {} /\ children = <<>> /\ result = Pending

TypeOK ==
    /\ request \in Requests /\ attempt \in 1..2 /\ pass \in 0..2
    /\ held \in [Files -> Contents \cup {None, "mixed"}]
    /\ at \in {"enter", "read", "attempt", "verify", "launch", "resolve", "reverify",
               "child", "ended"}

\* The operation's stop or its deadline.
Stop ==
    /\ at # "ended" /\ ~stopped /\ stopped' = TRUE
    /\ UNCHANGED <<request, disk, package, past, at, stages, todo, reading, held, inventory,
                   attempt, pass, seen, children, result>>

\* Another program rewrites a file, or the package.
Rewrite(f, c) ==
    /\ at # "ended" /\ disk[f].stamp < MaxEdits
    /\ disk' = [disk EXCEPT ![f] = [content |-> c, stamp |-> @.stamp + 1]]
    /\ past' = [past EXCEPT ![f] = @ \cup {c}]
    /\ UNCHANGED <<request, stopped, package, at, stages, todo, reading, held, inventory,
                   attempt, pass, seen, children, result>>

EditPackage(c) ==
    /\ at # "ended" /\ c # package /\ package' = c
    /\ UNCHANGED <<request, stopped, disk, past, at, stages, todo, reading, held, inventory,
                   attempt, pass, seen, children, result>>

\* The operation is over.  Only a failure before a child exists says so.
Ends(status, childless) ==
    /\ result' = [status |-> status, childless |-> childless]
    /\ at' = "ended" /\ todo' = <<>> /\ reading' = NoFile /\ stages' = <<>>

---------------------------------------------------------------------------
(* The stages.                                                             *)

\* requested_plan: approvals belong to the native lane, and a single
\* function neither recovers nor takes a recorded source.
Planned(q) ==
    /\ q.function => ~q.recover
    /\ q.lane = "native" => q.approved /\ ~q.descriptor
    /\ q.lane # "native" => ~q.approved /\ ~q.recover

\* What the running stage requires before it reads anything.
Requires(stage) ==
    CASE stage = "request" -> Planned(request)
      [] stage = "profile" -> inventory = Inspected
      [] stage = "environment" -> request.environment
      [] stage = "corpus" -> request.descriptor
                             /\ (request.operation = "check" /\ request.given
                                    => inventory = Inspected)
                             /\ (request.operation = "check" /\ ~request.given
                                    => package = Inspected)
      [] OTHER -> TRUE

\* The package is the host's own capture, or captured where it is needed.
Inventoried(stage) ==
    \/ stage = "input" /\ (request.given \/ request.operation = "authoring")
    \/ stage = "package" /\ ~request.given
    \/ stage = "corpus" /\ request.operation = "check" /\ ~request.given

\* A stage begins: it is refused, or it fails by itself, or it goes on.
Enter ==
    /\ at = "enter" /\ stages # <<>>
    /\ LET stage == Head(stages) IN
       \/ /\ Ends(IF stopped THEN "stopped" ELSE "failed", TRUE)
          /\ UNCHANGED inventory
       \/ /\ ~stopped /\ Requires(stage)
          /\ inventory' = IF Inventoried(stage) THEN package ELSE inventory
          /\ todo' = Reads(stage) /\ at' = "read"
          /\ UNCHANGED <<stages, reading, result>>
    /\ UNCHANGED <<world, request, held, attempt, pass, seen, children>>

\* read_stable: the file is opened under the stamp it had, and its bytes
\* count only if it still has that stamp when they are all read.
Reading == at \in {"read", "verify", "reverify"} /\ todo # <<>>

Open ==
    /\ Reading /\ reading = NoFile /\ ~stopped
    /\ LET f == Head(todo) IN
       reading' = [stamp |-> disk[f].stamp + 1, half |-> disk[f].content]
    /\ UNCHANGED <<world, request, at, stages, todo, held, inventory, attempt, pass, seen,
                   children, result>>

Read(f) == IF disk[f].content = reading.half THEN reading.half ELSE "mixed"
\* Mutant: the stamp is not compared after the last byte.
StableAnyway(f) == TRUE

Stable(f) == reading.stamp = disk[f].stamp + 1

\* What is wrong with the bytes: the model has the content its catalogue
\* entry names, and a verified file the content it was captured with.
Wrong(f) ==
    \/ ~Stable(f)
    \/ f = "model" /\ Read(f) # Catalogued
    \/ at # "read" /\ Read(f) # held[f]

\* A startup's failure is its child's; any other comes before the child.
Fails == Ends(IF stopped THEN "stopped" ELSE "failed", at # "reverify")

Close ==
    /\ Reading /\ reading # NoFile
    /\ LET f == Head(todo) IN
       \/ (stopped \/ Wrong(f)) /\ at # "reverify" /\ Fails /\ UNCHANGED <<held, seen>>
       \/ /\ (stopped \/ Wrong(f)) /\ at = "reverify"
          /\ at' = "child" /\ todo' = <<>> /\ reading' = NoFile
          /\ UNCHANGED <<stages, held, seen, result>>
       \/ /\ ~stopped /\ ~Wrong(f)
          /\ held' = IF at = "read" THEN [held EXCEPT ![f] = Read(f)] ELSE held
          /\ seen' = IF at = "read" THEN seen ELSE seen \cup {f}
          /\ todo' = Tail(todo) /\ reading' = NoFile
          /\ UNCHANGED <<at, stages, result>>
    /\ UNCHANGED <<world, request, inventory, attempt, pass, children>>

\* The stop is noticed before a file is opened.
Refuse ==
    /\ Reading /\ reading = NoFile /\ stopped
    /\ IF at = "reverify"
       THEN at' = "child" /\ todo' = <<>> /\ UNCHANGED <<stages, reading, result>>
       ELSE Fails
    /\ UNCHANGED <<world, request, held, inventory, attempt, pass, seen, children>>

\* A stage is complete; after the last one the operation acts.
Leave ==
    /\ at = "read" /\ todo = <<>>
    /\ stages' = Tail(stages)
    /\ at' = IF Len(stages) > 1 THEN "enter"
             ELSE IF request.operation = "run" THEN "attempt" ELSE "launch"
    /\ UNCHANGED <<world, request, todo, reading, held, inventory, attempt, pass, seen,
                   children, result>>

---------------------------------------------------------------------------
(* The attempts.                                                           *)

\* Mutant: the second attempt relies on what the first one verified.
AttemptUnverified ==
    /\ at = "attempt"
    /\ seen' = {} /\ todo' = (IF attempt = 1 THEN Resources(request) ELSE <<>>)
    /\ at' = "verify"
    /\ UNCHANGED <<world, request, stages, reading, held, inventory, attempt, pass, children,
                   result>>

\* verify_resources, before each attempt.
Attempt ==
    /\ at = "attempt"
    /\ seen' = {} /\ todo' = Resources(request) /\ at' = "verify"
    /\ UNCHANGED <<world, request, stages, reading, held, inventory, attempt, pass, children,
                   result>>

Verified ==
    /\ at \in {"verify", "reverify"} /\ todo = <<>>
    /\ IF at = "verify" THEN at' = "launch" /\ UNCHANGED <<todo, pass>>
       ELSE IF pass = 1 THEN at' = "child" /\ pass' = 0 /\ UNCHANGED todo
       ELSE at' = at /\ pass' = pass - 1 /\ todo' = Resources(request)
    /\ UNCHANGED <<world, request, stages, reading, held, inventory, attempt, seen, children,
                   result>>

\* The last check before a child; a validation ends with its own verdict.
Launch ==
    /\ at = "launch"
    /\ IF stopped
       THEN Ends("stopped", TRUE) /\ UNCHANGED <<children, pass>>
       ELSE IF request.operation = "authoring"
       THEN Ends("passed", TRUE) /\ UNCHANGED <<children, pass>>
       ELSE /\ children' = Append(children, [attempt |-> attempt, inventory |-> inventory,
                                             seen |-> seen, held |-> held])
            /\ at' = IF request.operation = "run" /\ request.lane = "native"
                     THEN "resolve" ELSE "child"
            /\ pass' = 2
            /\ UNCHANGED <<stages, todo, reading, result>>
    /\ UNCHANGED <<world, request, held, inventory, attempt, seen>>

\* The native target is found, and the resources are verified once more
\* before and after it is written into the configuration; or it is not.
Resolve ==
    /\ at = "resolve"
    /\ \/ ~stopped /\ at' = "reverify" /\ todo' = Resources(request)
       \/ at' = "child" /\ UNCHANGED todo
    /\ UNCHANGED <<world, request, stages, reading, held, inventory, attempt, pass, seen,
                   children, result>>

\* pass is zero only for a target that was handed over.
HandedOver == request.lane = "native" => pass = 0

\* The child is over; a native child that was given its target may have
\* ended because the target exited.
Passes == HandedOver \/ request.operation = "check"

Child ==
    /\ at = "child"
    /\ \/ Passes /\ ~stopped /\ Ends("passed", FALSE) /\ UNCHANGED <<attempt, pass>>
       \/ Ends(IF stopped THEN "stopped" ELSE "failed", FALSE) /\ UNCHANGED <<attempt, pass>>
       \/ /\ request.lane = "native" /\ HandedOver
          /\ request.recover /\ attempt = 1 /\ ~stopped
          /\ attempt' = 2 /\ at' = "attempt" /\ pass' = 0
          /\ UNCHANGED <<stages, todo, reading, result>>
    /\ UNCHANGED <<world, request, held, inventory, seen, children>>

Next ==
    \/ Stop \/ Enter \/ Open \/ Close \/ Refuse \/ Leave
    \/ Attempt \/ Verified \/ Launch \/ Resolve \/ Child
    \/ \E f \in Files, c \in Contents : Rewrite(f, c)
    \/ \E c \in Contents : EditPackage(c)

Spec == Init /\ [][Next]_vars

---------------------------------------------------------------------------

\* Every child, that of a recovered attempt included, runs the package the
\* user inspected with resources that stood whole on the disk, and each was
\* found unchanged since the attempt began, whatever was edited meanwhile.
LaunchesRestOnCapture ==
    \A i \in DOMAIN children :
        LET c == children[i] IN
        /\ c.attempt = i /\ c.inventory = Inspected
        /\ request.operation = "run" /\ request.lane # "controlled" =>
              /\ {"model", "library", "engine"} \subseteq c.seen
              /\ c.held["model"] = Catalogued
        /\ c.held = children[1].held /\ c.inventory = children[1].inventory
        /\ \A f \in Files : c.held[f] \in past[f] \cup {None}

\* A report that no child was started is true of its attempt, a function
\* or an unapproved run never had a second attempt, and what passed was
\* handed over whole.
ReportsAreTrue ==
    result # Pending =>
        /\ result.childless => Len(children) < attempt
        /\ ~result.childless => Len(children) = attempt
        /\ (result.status = "passed" /\ request.operation = "run" /\ request.lane = "native")
              => HandedOver /\ request.approved
        /\ attempt = 2 => request.recover /\ ~request.function /\ request.lane = "native"
=============================================================================
