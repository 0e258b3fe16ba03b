------------------------ MODULE CollaborationAgent ------------------------
(***************************************************************************)
(* The agent's connection to one desktop (AuthoringConnection in           *)
(* integrations/omp/client.mjs).  Up to Active requests are under way and  *)
(* their replies arrive in any order or not at all.  After a change whose  *)
(* outcome nobody knows, nothing is retried: the connection fences what    *)
(* the change may have touched until it has been looked at again.          *)
(*                                                                         *)
(* The transport in between (CollaborationHost) is kept to what it         *)
(* promises here: a request that was sent is handled by the desktop once   *)
(* or never, possibly after the client gave it up.                         *)
(***************************************************************************)
EXTENDS Naturals, Sequences, FiniteSets

CONSTANTS
    Resources,
    Offered,        \* bound: the kinds of request that are made
    Pages,          \* pages of one resource
    Active,         \* ACTIVE_REQUESTS
    MaxCalls, MaxOwners, MaxVersion      \* bounds

AgentAssumption ==
    /\ Offered \subseteq {"describe", "read", "edit", "validate", "refresh", "open"}
    /\ {Pages, Active, MaxCalls, MaxOwners, MaxVersion} \subseteq Nat \ {0}

VARIABLES
    agent,      \* the binding, a logical clock, and the fences
    call,       \* the requests in the order they were made
    desk,       \* the desktop: Edit owner, versions, and whether a command runs
    shown       \* history: what the desktop has shown since an uncertain change

vars == <<agent, call, desk, shown>>

ReadOnly == {"describe", "read"}
Targeted == {"edit"}

Unfenced == [r \in Resources |-> [since |-> 0, settled |-> 0]]
Unread == [r \in Resources |-> [version |-> 0, next |-> 0]]
Unseen == [r \in Resources |-> [doubt |-> FALSE, context |-> FALSE, got |-> [p \in 1 .. Pages |-> 0]]]

Init ==
    /\ agent = [owner |-> 0, binding |-> 0, clock |-> 0, unknown |-> Unfenced, pages |-> Unread,
                global |-> 0, reconnect |-> FALSE]
    /\ call = <<>>
    /\ desk = [owner |-> 1, version |-> [r \in Resources |-> 1], busy |-> FALSE]
    /\ shown = [global |-> TRUE, of |-> Unseen]

-----------------------------------------------------------------------------
(* Fences.  The clock orders dispatches and observations.                  *)

(* Reads and recovery always pass, so reconciliation cannot deadlock.       *)
Admits(kind, r) ==
    kind \in {"edit", "validate", "open"} =>
        /\ ~agent.reconnect /\ agent.global = 0
        /\ \A t \in Resources : kind \notin Targeted \/ t = r => agent.unknown[t].since = 0

Uncertain(a, c) ==
    LET since == a.clock + 1
    IN  IF c.kind = "open" THEN [a EXCEPT !.clock = since, !.reconnect = TRUE]
        ELSE IF c.kind \in Targeted
             THEN [a EXCEPT !.clock = since, !.pages[c.resource] = [version |-> 0, next |-> 0],
                            !.unknown[c.resource] = [since |-> since, settled |-> 0]]
        ELSE [a EXCEPT !.clock = since, !.global = since]

\* Mutant: any idle context counts, one that was sent before the change too.
SettledEarly(a, stamp) ==
    [a EXCEPT !.clock = a.clock + 1, !.global = 0,
              !.unknown = [r \in Resources |->
                  IF a.unknown[r].since = 0 \/ a.unknown[r].settled # 0 THEN a.unknown[r]
                  ELSE [a.unknown[r] EXCEPT !.settled = a.clock + 1]]]

(* An idle context sent after the change ends package-wide uncertainty, and *)
(* each resource then waits for a complete read sent after this reply.      *)
Settled(a, stamp) ==
    [a EXCEPT !.clock = a.clock + 1,
              !.global = IF a.global < stamp THEN 0 ELSE a.global,
              !.unknown = [r \in Resources |->
                  LET fence == a.unknown[r]
                  IN  IF fence.since = 0 \/ fence.since > stamp \/ fence.settled # 0 THEN fence
                      ELSE [fence EXCEPT !.settled = a.clock + 1]]]

(* Contiguous pages of one version, the first sent after the context's      *)
(* reply, lift the fence.                                                  *)
Observed(a, r, page, version, stamp) ==
    LET fence == a.unknown[r]
        progress == IF page = 1 /\ stamp > fence.settled
                    THEN [version |-> version, next |-> 1] ELSE a.pages[r]
    IN  IF fence.since = 0 \/ fence.settled = 0 THEN a
        ELSE IF progress.version # version \/ progress.next # page
             THEN [a EXCEPT !.pages[r] = [version |-> 0, next |-> 0]]
        ELSE IF page = Pages
             THEN [a EXCEPT !.unknown[r] = [since |-> 0, settled |-> 0],
                            !.pages[r] = [version |-> 0, next |-> 0]]
        ELSE [a EXCEPT !.pages[r] = [version |-> version, next |-> page + 1]]

(* A new binding forgets every fence of the one before.                    *)
Bound(a, owner) ==
    [a EXCEPT !.owner = owner, !.binding = a.binding + 1, !.unknown = Unfenced, !.pages = Unread,
              !.global = 0, !.reconnect = FALSE]

-----------------------------------------------------------------------------
(* History: `after` of a request under way are the doubts it came after.    *)

All == Resources \cup {"package"}

Doubts(c) == IF c.kind \in Targeted THEN {c.resource}
             ELSE IF c.kind \in {"validate", "refresh"} THEN {"package"} ELSE {}

Doubted(c) ==
    shown' = [global |-> shown.global /\ "package" \notin Doubts(c),
              of |-> [r \in Resources |->
                         IF r \in Doubts(c) THEN [Unseen[r] EXCEPT !.doubt = TRUE] ELSE shown.of[r]]]

(* A reply that arrives is evidence of what was handled after the doubt.    *)
Evidence(c) ==
    IF c.kind = "describe" /\ c.reply.idle
    THEN [global |-> shown.global \/ "package" \in c.after,
          of |-> [r \in Resources |-> [shown.of[r] EXCEPT !.context = @ \/ r \in c.after]]]
    ELSE IF /\ c.kind = "read" /\ agent.unknown[c.resource].since # 0
            /\ c.page = 1 => c.resource \in c.after /\ shown.of[c.resource].context
    THEN [shown EXCEPT !.of[c.resource].got[c.page] = c.reply.version]
    ELSE shown

-----------------------------------------------------------------------------
(* Requests.                                                               *)

NoReply == [outcome |-> "none", owner |-> 0, version |-> 0, idle |-> FALSE]
Over == [kind |-> "over", resource |-> "none", page |-> 0, stamp |-> 0, binding |-> 0, owner |-> 0,
         at |-> "over", after |-> {}, reply |-> NoReply]

Pending == {i \in DOMAIN call : call[i].at \in {"sent", "handled"}}

Made(kind, r, page) ==
    Append([i \in DOMAIN call |->
               IF kind = "select" /\ i \in Pending /\ call[i].kind \in ReadOnly
               THEN Over ELSE call[i]],
           [kind |-> kind, resource |-> r, page |-> page, stamp |-> agent.clock + 1,
            binding |-> IF kind = "select" THEN agent.binding + 1 ELSE agent.binding,
            owner |-> agent.owner, at |-> "sent", after |-> {},
            reply |-> NoReply])

Request(kind, r, page) ==
    /\ agent.owner # 0 /\ Len(call) < MaxCalls /\ Cardinality(Pending) < Active
    /\ Admits(kind, r)
    /\ call' = Made(kind, r, page)
    /\ agent' = [agent EXCEPT !.clock = @ + 1]
    /\ UNCHANGED <<desk, shown>>

(* An explicit connection forgets everything, then describes.              *)
Select ==
    /\ Len(call) < MaxCalls
    /\ call' = Made("select", CHOOSE r \in Resources : TRUE, 1)
    /\ agent' = [Bound(agent, 0) EXCEPT !.clock = @ + 1]
    /\ shown' = [global |-> TRUE, of |-> Unseen]
    /\ UNCHANGED desk

(* The desktop handles a request once, even one that was given up.          *)
Answer(i, reply) ==
    call' = [call EXCEPT ![i] = IF @.at \in {"sent", "running"}
                                THEN [@ EXCEPT !.at = "handled", !.after = All, !.reply = reply]
                                ELSE Over]

Reply(outcome, version) ==
    [outcome |-> outcome, owner |-> desk.owner, version |-> version, idle |-> ~desk.busy]

Handled(i) ==
    LET c == call[i]
    IN  /\ c.at \in {"sent", "late"}
        /\ \/ /\ c.kind \in {"describe", "select"} \/ (c.kind = "read" /\ c.owner = desk.owner)
              /\ Answer(i, Reply("shown", desk.version[c.resource]))
              /\ UNCHANGED desk
           \/ /\ c.kind \notin {"describe", "select"}
              /\ Answer(i, Reply("refused", 0))
              /\ UNCHANGED desk
           \/ /\ c.kind = "edit" /\ c.owner = desk.owner /\ desk.version[c.resource] < MaxVersion
              /\ desk' = [desk EXCEPT !.version[c.resource] = @ + 1]
              /\ \E outcome \in {"applied", "unknown"} : Answer(i, Reply(outcome, 0))
           \/ /\ c.kind \in {"validate", "refresh", "open"} /\ c.owner = desk.owner /\ ~desk.busy
              /\ desk' = [desk EXCEPT !.busy = TRUE]
              /\ call' = [call EXCEPT ![i].at = IF @ = "sent" THEN "running" ELSE "running late"]
    /\ UNCHANGED <<agent, shown>>

Finished(i) ==
    LET c == call[i]
        moved == IF c.kind = "open" /\ desk.owner < MaxOwners THEN desk.owner + 1 ELSE desk.owner
    IN  /\ c.at \in {"running", "running late"}
        /\ \E owner \in {desk.owner, moved}, outcome \in {"applied", "unknown", "refused"} :
              /\ outcome = "refused" => owner = desk.owner
              /\ desk' = [desk EXCEPT !.busy = FALSE, !.owner = owner]
              /\ Answer(i, [Reply(outcome, 0) EXCEPT !.owner = owner])
    /\ UNCHANGED <<agent, shown>>

Lost(c) == IF c.at = "handled" \/ c.kind \in ReadOnly \cup {"select"} THEN Over
           ELSE [c EXCEPT !.at = IF @ = "sent" THEN "late" ELSE "running late"]

(* Changes lose the evidence of what was handled before the doubt.          *)
Doubting(i, next) ==
    call' = [j \in DOMAIN call |->
                LET c == IF j = i THEN next ELSE call[j] IN [c EXCEPT !.after = @ \ Doubts(call[i])]]

(* No reply: a deadline, an abort after the request was sent, or a failed   *)
(* connection.  A change may have happened.                                *)
GiveUp(i) ==
    LET c == call[i]
    IN  /\ c.at \in {"sent", "running", "handled"}
        /\ IF c.kind \in ReadOnly \cup {"select"} \/ c.binding # agent.binding
           THEN call' = [call EXCEPT ![i] = Lost(c)] /\ UNCHANGED <<agent, shown>>
           ELSE agent' = Uncertain(agent, c) /\ Doubting(i, Lost(c)) /\ Doubted(c)
        /\ UNCHANGED desk

Receive(i) ==
    LET c == call[i]
        plain == call' = [call EXCEPT ![i] = Over]
    IN  /\ c.at = "handled"
        /\ \/ /\ c.binding # agent.binding              \* reported, but of no effect here
              /\ plain /\ UNCHANGED <<agent, shown>>
           \/ /\ c.binding = agent.binding /\ c.kind = "select"
              /\ agent' = [agent EXCEPT !.owner = c.reply.owner]
              /\ plain /\ UNCHANGED shown
           \/ /\ c.binding = agent.binding /\ c.reply.outcome = "unknown"
              /\ agent' = Uncertain(agent, c)
              /\ Doubting(i, Over) /\ Doubted(c)
           \/ /\ c.binding = agent.binding /\ c.kind = "open" /\ c.reply.outcome = "applied"
              /\ IF c.reply.owner = agent.owner THEN UNCHANGED <<agent, shown>>
                 ELSE agent' = Bound(agent, c.reply.owner) /\ shown' = [global |-> TRUE, of |-> Unseen]
              /\ plain
           \/ /\ c.binding = agent.binding /\ c.reply.outcome = "shown" /\ c.kind # "select"
              /\ agent' = (IF c.kind = "read"
                           THEN Observed(agent, c.resource, c.page, c.reply.version, c.stamp)
                           ELSE IF c.reply.owner = agent.owner /\ c.reply.idle THEN Settled(agent, c.stamp)
                           ELSE agent)
              /\ shown' = Evidence(c)
              /\ plain
           \/ /\ c.binding = agent.binding
              /\ c.reply.outcome = "refused" \/ (c.reply.outcome = "applied" /\ c.kind # "open")
              /\ plain /\ UNCHANGED <<agent, shown>>
    /\ UNCHANGED desk

(* The person edits, or opens another package.                             *)
Person ==
    /\ \/ \E r \in Resources : /\ desk.version[r] < MaxVersion
                               /\ desk' = [desk EXCEPT !.version[r] = @ + 1]
       \/ /\ desk.owner < MaxOwners /\ ~desk.busy
          /\ desk' = [desk EXCEPT !.owner = @ + 1]
    /\ UNCHANGED <<agent, call, shown>>

Next ==
    \/ \E kind \in Offered, r \in Resources, page \in 1 .. Pages :
          (page # 1 => kind = "read") /\ Request(kind, r, page)
    \/ Select \/ Person
    \/ \E i \in DOMAIN call : Handled(i) \/ Finished(i) \/ GiveUp(i) \/ Receive(i)

Spec == Init /\ [][Next]_vars

-----------------------------------------------------------------------------
(* Where no fence stands, the desktop has shown the agent, after the change *)
(* was given up, an idle context, and then every page of one version of     *)
(* the resource; whatever order the replies came in.                        *)
FencesHold ==
    agent.owner # 0 =>
        /\ agent.global = 0 => shown.global
        /\ \A r \in Resources : agent.unknown[r].since = 0 /\ shown.of[r].doubt =>
              /\ shown.of[r].context
              /\ \A p \in 1 .. Pages : shown.of[r].got[p] # 0 /\ shown.of[r].got[p] = shown.of[r].got[1]
=============================================================================
