------------------------ MODULE CollaborationHost ------------------------
(***************************************************************************)
(* One request of the local authoring transport, from the client's socket  *)
(* through the host's hub (apps/desktop/src-tauri/src/collaboration/) and  *)
(* the main window's bridge (apps/desktop/src/collaboration-bridge.ts) and *)
(* back (request, integrations/omp/client.mjs).                            *)
(*                                                                         *)
(* Each request has a connection of its own.  The host makes it a ticket,  *)
(* the window claims the ticket, handles it and replies.  The request can  *)
(* be cancelled, expire, lose its connection, its window or its host at    *)
(* every step; nothing is replayed, and what the client is told about a    *)
(* change must be true.                                                    *)
(***************************************************************************)
EXTENDS Naturals, Sequences, FiniteSets

CONSTANTS
    Requests,
    Kind(_),        \* "look", "edit" (one turn of the window) or "command" (an awaited one)
    MaxClients, MaxPending,
    MaxStarts, MaxOwners    \* bounds: windows, and owners of the Edit session

HostAssumption ==
    /\ \A q \in Requests : Kind(q) \in {"look", "edit", "command"}
    /\ {MaxClients, MaxPending, MaxStarts, MaxOwners} \subseteq Nat \ {0}

VARIABLES
    client,     \* per request: what the client did and was told
    link,       \* per request: its socket, the frames to the host, the reply
    hub,        \* admission and registration
    pending,    \* per request: none, waiting or claimed
    claim,      \* per request: its way through the window
    window,     \* the bridge: its incarnation and its queued registration steps
    owner,      \* the Edit session
    applied     \* history: requests that changed something

vars == <<client, link, hub, pending, claim, window, owner, applied>>

NoReply == "none"

Init ==
    /\ client = [q \in Requests |-> [at |-> "new", owner |-> 0, aborting |-> FALSE, told |-> NoReply]]
    /\ link = [q \in Requests |-> [at |-> "none", wire |-> <<>>, inbox |-> NoReply]]
    /\ hub = [accepting |-> TRUE, registered |-> FALSE]
    /\ pending = [q \in Requests |-> "none"]
    /\ claim = [q \in Requests |-> [at |-> "none", serial |-> 0, reply |-> NoReply]]
    /\ window = [alive |-> FALSE, serial |-> 0, steps |-> <<>>, checked |-> FALSE]
    /\ owner = 1
    /\ applied = {}

-----------------------------------------------------------------------------
(* The client.                                                             *)

Mutates(q) == Kind(q) # "look"

Submit(q) ==
    /\ client[q].at = "new"
    /\ \/ /\ hub.accepting
          /\ client' = [client EXCEPT ![q].at = "sent", ![q].owner = owner]
          /\ link' = [link EXCEPT ![q] = [at |-> "connecting", wire |-> <<"request">>, inbox |-> NoReply]]
       \/ /\ client' = [client EXCEPT ![q].at = "settled", ![q].told = "not_applied"]
          /\ UNCHANGED link
    /\ UNCHANGED <<hub, pending, claim, window, owner, applied>>

(* Before it is sent an abort settles at once; after, it asks the host.     *)
Abort(q) ==
    /\ client[q].at = "sent" /\ ~client[q].aborting
    /\ client' = [client EXCEPT ![q].aborting = TRUE]
    /\ link' = [link EXCEPT ![q].wire = IF link[q].at = "closed" THEN @ ELSE Append(@, "cancel")]
    /\ UNCHANGED <<hub, pending, claim, window, owner, applied>>

(* No answer: the deadline, a second after an abort, or a lost connection.  *)
GiveUp(q) ==
    /\ client[q].at = "sent" /\ link[q].inbox = NoReply
    /\ client' = [client EXCEPT ![q].at = "settled",
                                ![q].told = IF Mutates(q) THEN "unknown" ELSE "not_applied"]
    /\ UNCHANGED <<link, hub, pending, claim, window, owner, applied>>

Receive(q) ==
    /\ client[q].at = "sent" /\ link[q].inbox # NoReply
    /\ client' = [client EXCEPT ![q].at = "settled", ![q].told = link[q].inbox]
    /\ UNCHANGED <<link, hub, pending, claim, window, owner, applied>>

-----------------------------------------------------------------------------
(* The host's hub.                                                         *)

Connected == {q \in Requests : link[q].at = "open"}
Waiting == {q \in Requests : pending[q] # "none"}

Told(qs, outcome(_)) ==
    link' = [q \in Requests |-> IF q \in qs /\ link[q].at = "open"
                                THEN [link[q] EXCEPT !.inbox = outcome(q)] ELSE link[q]]

Refused(q) == "not_applied"
Outcome(q) == IF pending[q] = "claimed" THEN "unknown" ELSE "not_applied"

(* A connection past the client limit, or after admission closed, gets one  *)
(* refusal and is closed unread.                                           *)
Accept(q) ==
    /\ link[q].at = "connecting"
    /\ link' = [link EXCEPT ![q] =
                   IF hub.accepting /\ Cardinality(Connected) < MaxClients
                   THEN [link[q] EXCEPT !.at = "open"]
                   ELSE [at |-> "closed", wire |-> <<>>, inbox |-> "not_applied"]]
    /\ UNCHANGED <<client, hub, pending, claim, window, owner, applied>>

Frame(q, kind) == link[q].at = "open" /\ link[q].wire # <<>> /\ Head(link[q].wire) = kind

(* A request becomes a ticket and is announced to the window.  A frame that *)
(* is malformed or cannot be admitted, and a ticket that cannot be         *)
(* announced, is refused.                                                  *)
Admit(q) ==
    /\ Frame(q, "request")
    /\ \/ /\ hub.accepting /\ hub.registered /\ Cardinality(Waiting) < MaxPending
          /\ link' = [link EXCEPT ![q].wire = Tail(@)]
          /\ pending' = [pending EXCEPT ![q] = "waiting"]
          /\ claim' = [claim EXCEPT ![q].at = "announced"]
       \/ /\ link' = [link EXCEPT ![q].wire = Tail(@), ![q].inbox = "not_applied"]
          /\ UNCHANGED <<pending, claim>>
    /\ UNCHANGED <<client, hub, window, owner, applied>>

\* Mutant: a claimed request is withdrawn too.
CancelAny(q) ==
    /\ Frame(q, "cancel")
    /\ link' = [link EXCEPT ![q].wire = Tail(@), ![q].inbox = IF pending[q] # "none" THEN "not_applied" ELSE @]
    /\ pending' = [pending EXCEPT ![q] = "none"]
    /\ UNCHANGED <<client, hub, claim, window, owner, applied>>

(* Cancelling reaches an unclaimed request only.                           *)
Cancel(q) ==
    /\ Frame(q, "cancel")
    /\ LET withdrawn == pending[q] = "waiting"
       IN  /\ link' = [link EXCEPT ![q].wire = Tail(@), ![q].inbox = IF withdrawn THEN "not_applied" ELSE @]
           /\ pending' = [pending EXCEPT ![q] = IF withdrawn THEN "none" ELSE @]
    /\ UNCHANGED <<client, hub, claim, window, owner, applied>>

(* The reader ends: the client closed its side, which it may learn after    *)
(* frames still on the wire, or the connection failed.                     *)
Disconnect(q) ==
    /\ link[q].at = "open"
    /\ link' = [link EXCEPT ![q].at = "closed", ![q].wire = <<>>]
    /\ pending' = [pending EXCEPT ![q] = IF @ = "waiting" THEN "none" ELSE @]
    /\ UNCHANGED <<client, hub, claim, window, owner, applied>>

(* The deadline passes: unclaimed work never happened, claimed work may.    *)
Expire(q) ==
    /\ pending[q] # "none"
    /\ Told({q}, Outcome)
    /\ pending' = [pending EXCEPT ![q] = "none"]
    /\ UNCHANGED <<client, hub, claim, window, owner, applied>>

Shutdown ==
    /\ hub.accepting
    /\ hub' = [accepting |-> FALSE, registered |-> FALSE]
    /\ Told({q \in Requests : pending[q] = "waiting"}, Refused)
    /\ pending' = [q \in Requests |-> IF pending[q] = "waiting" THEN "none" ELSE pending[q]]
    /\ UNCHANGED <<client, claim, window, owner, applied>>

(* After the drain the rest is unknown, and every connection is closed.     *)
Drained ==
    /\ ~hub.accepting /\ Connected # {}
    /\ link' = [q \in Requests |->
                   IF link[q].at # "open" THEN link[q]
                   ELSE [at |-> "closed", wire |-> <<>>,
                         inbox |-> IF pending[q] = "claimed" THEN "unknown" ELSE link[q].inbox]]
    /\ pending' = [q \in Requests |-> "none"]
    /\ UNCHANGED <<client, hub, claim, window, owner, applied>>

-----------------------------------------------------------------------------
(* The window's bridge.  Registration steps run strictly in call order.     *)

Start ==
    /\ ~window.alive /\ window.serial < MaxStarts
    /\ window' = [window EXCEPT !.alive = TRUE, !.serial = @ + 1,
                                !.steps = Append(@, [kind |-> "ready", serial |-> window.serial + 1])]
    /\ UNCHANGED <<client, link, hub, pending, claim, owner, applied>>

Stop ==
    /\ window.alive
    /\ window' = [window EXCEPT !.alive = FALSE,
                                !.steps = Append(@, [kind |-> "unavailable", serial |-> window.serial])]
    /\ UNCHANGED <<client, link, hub, pending, claim, owner, applied>>

Alive(serial) == window.alive /\ window.serial = serial

(* The listener exists before the host is told; a bridge that was stopped   *)
(* meanwhile does not register.                                            *)
Listened ==
    /\ window.steps # <<>> /\ Head(window.steps).kind = "ready" /\ ~window.checked
    /\ window' = (IF Alive(Head(window.steps).serial) THEN [window EXCEPT !.checked = TRUE]
                  ELSE [window EXCEPT !.steps = Tail(@)])
    /\ UNCHANGED <<client, link, hub, pending, claim, owner, applied>>

Register ==
    /\ window.checked
    /\ hub' = [hub EXCEPT !.registered = hub.accepting]
    /\ window' = [window EXCEPT !.checked = FALSE, !.steps = Tail(@)]
    /\ UNCHANGED <<client, link, pending, claim, owner, applied>>

(* Unclaimed work is not applied, claimed work is unknown.                 *)
Unregister ==
    /\ window.steps # <<>> /\ Head(window.steps).kind = "unavailable"
    /\ window' = [window EXCEPT !.steps = Tail(@)]
    /\ hub' = [hub EXCEPT !.registered = FALSE]
    /\ Told(Waiting, Outcome)
    /\ pending' = [q \in Requests |-> "none"]
    /\ UNCHANGED <<client, claim, owner, applied>>

(* The announcement reaches a live bridge, which claims the ticket: still    *)
(* waiting, and for the present Edit owner.                                *)
Claim(q) ==
    /\ claim[q].at = "announced"
    /\ \/ /\ ~window.alive \/ ~hub.registered \/ pending[q] # "waiting"
          /\ claim' = [claim EXCEPT ![q].at = "none"]
          /\ UNCHANGED <<link, pending>>
       \/ /\ window.alive /\ hub.registered /\ pending[q] = "waiting"
          /\ IF client[q].owner = owner \/ ~Mutates(q)
             THEN /\ pending' = [pending EXCEPT ![q] = "claimed"]
                  /\ claim' = [claim EXCEPT ![q].at = "given", ![q].serial = window.serial]
                  /\ UNCHANGED link
             ELSE /\ Told({q}, Refused)
                  /\ pending' = [pending EXCEPT ![q] = "none"]
                  /\ claim' = [claim EXCEPT ![q].at = "none"]
    /\ UNCHANGED <<client, hub, window, owner, applied>>

Answered(q, reply) == claim' = [claim EXCEPT ![q].at = "replying", ![q].reply = reply]

(* A look or a draft edit is one turn of the window, against the session as *)
(* it then is; a failure inside it says that nothing is known.             *)
Handle(q) ==
    /\ claim[q].at = "given"
    /\ \/ /\ Answered(q, "not_applied")                 \* refused, or the bridge has stopped
          /\ UNCHANGED applied
       \/ /\ Alive(claim[q].serial) /\ (client[q].owner = owner \/ ~Mutates(q))
          /\ \/ /\ Kind(q) = "command"
                /\ claim' = [claim EXCEPT ![q].at = "running"]
                /\ UNCHANGED applied
             \/ /\ Kind(q) # "command"
                /\ applied' = (IF Mutates(q) THEN applied \cup {q} ELSE applied)
                /\ \E reply \in {"applied", "unknown"} : Answered(q, reply)
    /\ UNCHANGED <<client, link, hub, pending, window, owner>>

(* A host command finishes, in part, or not at all.                        *)
Finish(q) ==
    /\ claim[q].at = "running"
    /\ \/ /\ applied' = applied \cup {q}
          /\ \E reply \in {"applied", "partial", "unknown"} : Answered(q, reply)
       \/ /\ UNCHANGED applied
          /\ \E reply \in {"not_applied", "unknown"} : Answered(q, reply)
    /\ UNCHANGED <<client, link, hub, pending, window, owner>>

(* The reply reaches the client only while its ticket is still claimed; one *)
(* that is malformed or too large says that nothing is known.              *)
Reply(q) ==
    /\ claim[q].at = "replying"
    /\ claim' = [claim EXCEPT ![q] = [at |-> "done", serial |-> 0, reply |-> NoReply]]
    /\ \/ /\ pending[q] = "claimed"
          /\ pending' = [pending EXCEPT ![q] = "none"]
          /\ \E reply \in {claim[q].reply, "unknown"} :
                link' = [link EXCEPT ![q].inbox = IF link[q].at = "open" THEN reply ELSE @]
       \/ /\ pending[q] # "claimed"
          /\ UNCHANGED <<pending, link>>
    /\ UNCHANGED <<client, hub, window, owner, applied>>

(* The person opens another package meanwhile.                             *)
Reopen ==
    /\ owner < MaxOwners /\ owner' = owner + 1
    /\ UNCHANGED <<client, link, hub, pending, claim, window, applied>>

Next ==
    \/ Shutdown \/ Drained \/ Start \/ Stop \/ Listened \/ Register \/ Unregister \/ Reopen
    \/ \E q \in Requests :
          \/ Submit(q) \/ Abort(q) \/ GiveUp(q) \/ Receive(q)
          \/ Accept(q) \/ Admit(q) \/ Cancel(q) \/ Disconnect(q) \/ Expire(q)
          \/ Claim(q) \/ Handle(q) \/ Finish(q) \/ Reply(q)

Spec == Init /\ [][Next]_vars

-----------------------------------------------------------------------------
(* What the client is told is true for good: a change reported as not       *)
(* applied has not happened and never will, one reported as applied, in     *)
(* part or whole, has.  A registration never outlives its window: once the  *)
(* queued steps ran, the host is registered only for a live bridge.         *)
OutcomesAreTrue ==
    /\ \A q \in Requests :
          /\ client[q].told = "not_applied" => q \notin applied /\ claim[q].at # "running"
          /\ client[q].told \in {"applied", "partial"} /\ Mutates(q) => q \in applied
    /\ hub.registered /\ window.steps = <<>> => window.alive
=============================================================================
