-------------------------- MODULE TargetObservation --------------------------
(***************************************************************************)
(* The target configuration of a Workspace and the observation of its      *)
(* running application: one slot, reserved by request id, one OS read that *)
(* nobody can interrupt, and a publication that must still be of the       *)
(* owner, the declaration and the record the read was started for.         *)
(*                                                                         *)
(* Commands exclude each other; an observation lets the command mutex go   *)
(* while it reads.  Cancellation takes the slot's mutex only.              *)
(***************************************************************************)
EXTENDS Naturals, FiniteSets

CONSTANTS Workspaces,
          Requests,      \* bound: observations asked for
          MaxDeclaration, \* bound: declarations a package can have
          MaxRevision    \* bound: revisions of a Workspace, an Edit lease and a target record

ObservationBounds == {MaxDeclaration, MaxRevision} \subseteq Nat \ {0}

VARIABLES space,    \* of each Workspace: its revision and the declaration of its selection
          edit,     \* the Edit lease: workspace, saved revision, declaration
          picker,   \* target_picker and the guard that holds it
          running,  \* a Run or the native capture is active
          target,   \* the stored TargetRecord of each Workspace's package
          slot,     \* ObservationSlot.active
          request,  \* ObservationWork, PendingObservation and the worker of each request
          command,  \* the request that holds the command mutex
          closing

observationVars == <<space, edit, picker, running, target, slot, request, command, closing>>

None == "none"
NoEdit == [workspace |-> None, revision |-> 0, declaration |-> 0]
NoOwner == [workspace |-> None, kind |-> "workspace", revision |-> 0]
Unread == [at |-> "none", owner |-> NoOwner, declaration |-> 0, expected |-> 0, cancelled |-> FALSE,
           worker |-> "none", queue |-> "empty"]
Declarations == 1..MaxDeclaration
\* The caller's PendingObservation is dropped, and its channel closed.
Ended(q, at) == [q EXCEPT !.at = at, !.queue = "closed", !.declaration = 0, !.expected = 0]

Init ==
    /\ space = [w \in Workspaces |-> [revision |-> 1, declaration |-> 1]]
    /\ edit = NoEdit /\ picker = None /\ running = FALSE
    /\ target = [w \in Workspaces |-> [revision |-> 0, declaration |-> 0]]
    /\ slot = None /\ request = [r \in Requests |-> Unread]
    /\ command = None /\ closing = FALSE

-----------------------------------------------------------------------------
\* Who may ask: an inspected Workspace outside Edit, or the Edit owner at its saved revision.

Owners == {[workspace |-> w, kind |-> "workspace", revision |-> space[w].revision] : w \in Workspaces}
    \cup {[workspace |-> e.workspace, kind |-> "edit", revision |-> e.revision] : e \in {edit} \ {NoEdit}}
Current(owner) ==
    IF owner.kind = "workspace" THEN space[owner.workspace].revision = owner.revision /\ space[owner.workspace].declaration # 0
    ELSE edit.workspace = owner.workspace /\ edit.revision = owner.revision
Declared(owner) == IF owner.kind = "edit" THEN edit.declaration ELSE space[owner.workspace].declaration
WorkIdle == ~running /\ picker = None
\* access: Read, Use, Mutate.  A mutation by the Edit owner needs the native capture released (running).
Admits(owner, access) ==
    /\ Current(owner)
    /\ access # "read" => WorkIdle /\ (owner.kind = "workspace" => edit = NoEdit)
TargetCurrent(r) ==
    LET owner == request[r].owner IN
    Current(owner) /\ (owner.kind = "workspace" => space[owner.workspace].declaration = request[r].declaration)

Command == command = None /\ ~closing

-----------------------------------------------------------------------------
\* The slot.

Available == slot # None => request[slot].worker \in {"none", "finished"}
Reserved(r) == Available /\ slot = r /\ request[r].at # "waiting" /\ ~request[r].cancelled
Cancels(q) == [q EXCEPT !.cancelled = TRUE,
                        !.queue = IF q.at = "waiting" /\ q.queue = "empty" THEN "cancelled" ELSE @]
\* invalidate_target_observation: the slot's request, if it is of one of these Workspaces
Invalidated(ws) == [r \in Requests |-> IF r = slot /\ request[r].owner.workspace \in ws THEN Cancels(request[r]) ELSE request[r]]

\* Mutant: the request that the slot forgets keeps its right to publish
ReserveUncancelled(r, owner) ==
    /\ Command /\ request[r].at = "none" /\ Admits(owner, "use") /\ Available
    /\ slot' = r
    /\ request' = [request EXCEPT ![r].at = "reserved", ![r].owner = owner]
    /\ UNCHANGED <<space, edit, picker, running, target, command, closing>>
Reserve(r, owner) ==
    /\ Command /\ request[r].at = "none" /\ Admits(owner, "use") /\ Available
    /\ slot' = r
    /\ request' = [(IF slot = None THEN request ELSE [request EXCEPT ![slot] = Cancels(@)])
                   EXCEPT ![r].at = "reserved", ![r].owner = owner]
    /\ UNCHANGED <<space, edit, picker, running, target, command, closing>>

Begin(r) ==
    /\ Command /\ request[r].at = "reserved"
    /\ LET owner == request[r].owner IN
       IF Admits(owner, "use") /\ Reserved(r)
       THEN /\ request' = [request EXCEPT ![r].at = "admitted", ![r].declaration = Declared(owner)]
            /\ command' = r
       ELSE request' = [request EXCEPT ![r] = Ended(@, "done")] /\ UNCHANGED command
    /\ UNCHANGED <<space, edit, picker, running, target, slot, closing>>
\* The declaration and the record were read without the slot's mutex: it is asked again.
Spawn(r) ==
    /\ request[r].at = "admitted" /\ command' = None
    /\ \/ /\ request[r].declaration # 0 /\ target[request[r].owner.workspace].declaration = request[r].declaration
          /\ Reserved(r)
          /\ request' = [request EXCEPT ![r].at = "waiting", ![r].worker = "reading",
                                        ![r].expected = target[request[r].owner.workspace].revision]
       \* not what the caller expected, not compatible, or the thread does not start
       \/ request' = [request EXCEPT ![r] = Ended(@, "done")]
    /\ UNCHANGED <<space, edit, picker, running, target, slot, closing>>

\* observe_application: it looks at the flag and the deadline, but an OS read has to return by itself.
WorkerAnswers(r) ==
    /\ request[r].worker = "reading"
    /\ \E answer \in {"observed", "failed"} :
        request' = [request EXCEPT ![r].worker = "answered", ![r].queue = IF @ = "empty" THEN answer ELSE @]
    /\ UNCHANGED <<space, edit, picker, running, target, slot, command, closing>>
WorkerFinished(r) ==
    /\ request[r].worker = "answered"
    /\ request' = [request EXCEPT ![r].worker = "finished"]
    /\ UNCHANGED <<space, edit, picker, running, target, slot, command, closing>>

Timeout(r) ==
    /\ request[r].at \in {"waiting", "received"}
    /\ request' = [request EXCEPT ![r] = [Ended(@, "done") EXCEPT !.cancelled = TRUE]]
    /\ UNCHANGED <<space, edit, picker, running, target, slot, command, closing>>
Receive(r) ==
    /\ request[r].at = "waiting" /\ request[r].queue # "empty"
    /\ request' = [request EXCEPT ![r] = IF @.cancelled \/ closing \/ @.queue # "observed" THEN Ended(@, "done")
                                         ELSE [@ EXCEPT !.at = "received"]]
    /\ UNCHANGED <<space, edit, picker, running, target, slot, command, closing>>
Recheck(r) ==
    /\ request[r].at = "received"
    /\ \/ /\ Command /\ TargetCurrent(r)
          /\ request' = [request EXCEPT ![r].at = "publishing"] /\ command' = r
       \/ /\ closing \/ (command = None /\ ~TargetCurrent(r))
          /\ request' = [request EXCEPT ![r] = Ended(@, "done")] /\ UNCHANGED command
    /\ UNCHANGED <<space, edit, picker, running, target, slot, closing>>
Publish(r) ==
    /\ request[r].at = "publishing" /\ command' = None
    /\ \/ /\ target[request[r].owner.workspace].revision = request[r].expected
          /\ ~request[r].cancelled
          /\ request' = [request EXCEPT ![r] = Ended(@, "published")]
       \/ request' = [request EXCEPT ![r] = Ended(@, "done")]  \* the store is in use, or the deadline has passed
    /\ UNCHANGED <<space, edit, picker, running, target, slot, closing>>

\* cancel_running_application: only for the request that is in the slot
Cancel(r) ==
    /\ slot = r /\ ~request[r].cancelled
    /\ request' = [request EXCEPT ![r] = Cancels(@)]
    /\ UNCHANGED <<space, edit, picker, running, target, slot, command, closing>>

-----------------------------------------------------------------------------
\* The target record: what the caller saw must still be stored, and the revision only grows.

Expectations(w) == {target[w].revision} \cup (0..target[w].revision)
SaveTarget(owner) ==
    /\ Command /\ Admits(owner, "mutate") /\ Declared(owner) # 0
    /\ LET w == owner.workspace IN
       /\ request' = Invalidated({w})
       /\ \E expected \in Expectations(w) :
            target' = IF expected = target[w].revision /\ target[w].revision < MaxRevision
                      THEN [target EXCEPT ![w] = [revision |-> @.revision + 1, declaration |-> Declared(owner)]]
                      ELSE target
    /\ UNCHANGED <<space, edit, picker, running, slot, command, closing>>
RemoveTarget(owner) ==
    /\ Command /\ Admits(owner, "mutate")
    /\ LET w == owner.workspace IN
       /\ target[w].revision < MaxRevision
       /\ request' = Invalidated({w})
       /\ target' = [target EXCEPT ![w] = [revision |-> @.revision + 1, declaration |-> 0]]
    /\ UNCHANGED <<space, edit, picker, running, slot, command, closing>>

BeginPicker(owner) ==
    /\ Command /\ Admits(owner, "use")
    /\ picker' = owner.workspace
    /\ UNCHANGED <<space, edit, running, target, slot, request, command, closing>>
DropPicker ==
    /\ picker # None /\ picker' = None
    /\ UNCHANGED <<space, edit, running, target, slot, request, command, closing>>

-----------------------------------------------------------------------------
\* What takes the ground from under an observation.

Inspect(w) ==
    /\ Command /\ WorkIdle /\ edit = NoEdit /\ space[w].revision < MaxRevision
    /\ request' = Invalidated({w})
    /\ \E d \in Declarations :
        space' = [space EXCEPT ![w] = [revision |-> @.revision + 1, declaration |-> d]]
    /\ UNCHANGED <<edit, picker, running, target, slot, command, closing>>
\* An inspection that fails has invalidated the observation all the same.
InspectFails(w) ==
    /\ Command /\ WorkIdle /\ edit = NoEdit /\ request' = Invalidated({w}) /\ request' # request
    /\ UNCHANGED <<space, edit, picker, running, target, slot, command, closing>>
CloseWorkspace(w) ==
    /\ Command /\ edit.workspace # w /\ space[w].revision < MaxRevision
    /\ request' = Invalidated({w})
    /\ space' = [space EXCEPT ![w] = [revision |-> @.revision + 1, declaration |-> 0]]
    /\ UNCHANGED <<edit, picker, running, target, slot, command, closing>>
EnterAuthoring(w) ==
    /\ Command /\ WorkIdle /\ edit = NoEdit
    /\ request' = Invalidated({w})
    /\ \E d \in Declarations \cup {0} : edit' = [workspace |-> w, revision |-> 1, declaration |-> d]
    /\ UNCHANGED <<space, picker, running, target, slot, command, closing>>
\* A save of the package does not cancel: the revision of the lease tells.
AuthoringSave ==
    /\ Command /\ WorkIdle /\ edit # NoEdit /\ edit.revision < MaxRevision
    /\ \E d \in Declarations : edit' = [edit EXCEPT !.revision = @ + 1, !.declaration = d]
    /\ UNCHANGED <<space, picker, running, target, slot, request, command, closing>>
AuthoringExit ==
    /\ Command /\ WorkIdle /\ edit # NoEdit /\ space[edit.workspace].revision < MaxRevision
    /\ request' = Invalidated({edit.workspace})
    /\ space' = [space EXCEPT ![edit.workspace] = [revision |-> @.revision + 1, declaration |-> 0]]
    /\ edit' = NoEdit
    /\ UNCHANGED <<picker, running, target, slot, command, closing>>
\* A native selection saves the binding it was made with.
NativeSave ==
    /\ Command /\ running /\ edit # NoEdit /\ edit.declaration # 0
    /\ LET w == edit.workspace IN
       /\ target[w].revision < MaxRevision
       /\ request' = Invalidated(Workspaces)
       /\ target' = [target EXCEPT ![w] = [revision |-> @.revision + 1, declaration |-> edit.declaration]]
    /\ UNCHANGED <<space, edit, picker, running, slot, command, closing>>
Work ==
    /\ (running \/ (Command /\ WorkIdle)) /\ running' = ~running
    /\ UNCHANGED <<space, edit, picker, target, slot, request, command, closing>>
Shutdown ==
    /\ ~closing /\ closing' = TRUE
    /\ request' = Invalidated(Workspaces)
    /\ UNCHANGED <<space, edit, picker, running, target, slot, command>>

Next ==
    \/ \E r \in Requests : Begin(r) \/ Spawn(r) \/ WorkerAnswers(r) \/ WorkerFinished(r) \/ Timeout(r)
                           \/ Receive(r) \/ Recheck(r) \/ Publish(r) \/ Cancel(r)
    \/ \E r \in Requests, owner \in Owners : Reserve(r, owner)
    \/ \E owner \in Owners : SaveTarget(owner) \/ RemoveTarget(owner) \/ BeginPicker(owner)
    \/ \E w \in Workspaces : Inspect(w) \/ InspectFails(w) \/ CloseWorkspace(w) \/ EnterAuthoring(w)
    \/ DropPicker \/ AuthoringSave \/ AuthoringExit \/ NativeSave \/ Work \/ Shutdown
Spec == Init /\ [][Next]_observationVars

-----------------------------------------------------------------------------
\* The step ObservationIsExact allows.
ObservationIsExactStep ==
    /\ \A r \in Requests : request[r].at = "publishing" /\ request'[r].at = "published" =>
         /\ slot = r /\ ~request[r].cancelled /\ TargetCurrent(r)
         /\ target[request[r].owner.workspace].declaration = request[r].declaration
    /\ Cardinality({r \in Requests : request'[r].worker \in {"reading", "answered"}}) <= 1

\* An observation that is published is still the one in the slot, is not cancelled, and is of the
\* owner, the declaration and the record that the read was made for; and while an OS read has not
\* returned no second one is started (target_observation.rs: finish_running_application, available).
ObservationIsExact == [][ObservationIsExactStep]_observationVars
=============================================================================
