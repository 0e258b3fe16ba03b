------------------------- MODULE DraftCollaboration -------------------------
(***************************************************************************)
(* The main window's draft authority and the agent that edits through it  *)
(* (apps/desktop/src/authoring-controller.ts).                            *)
(*                                                                         *)
(* The person and the agent change the same live drafts.  Every request is *)
(* handled in one synchronous turn, but what the agent sends rests on what *)
(* it read, described or was notified of in earlier turns, between which   *)
(* the person edits, saves, closes or reopens.  Resources carry versions   *)
(* that name one uninterrupted state; a cursor names a place in the notice *)
(* history of one lineage, the life of one Edit session.                   *)
(***************************************************************************)
EXTENDS Naturals, Sequences, FiniteSets
LOCAL INSTANCE SequencesExt

CONSTANTS
    Files,          \* declared files
    Logical,        \* recognition parts, versioned by their content
    Contents, Absent,
    Drafts,         \* bound: the packages that are opened or brought back
    Owners,         \* identities of the host's Edit lease
    Paths,          \* package directories
    History,        \* NOTICE_HISTORY
    Page,           \* the largest notice page
    MaxVersion, MaxSerial, MaxRevision   \* bounds of the counters

CollaborationAssumption ==
    /\ Files \cap Logical = {}
    /\ Absent \notin Contents
    /\ Drafts \subseteq [(Files \cup Logical) -> Contents \cup {Absent}]
    /\ {History, Page} \subseteq Nat \ {0}
    /\ {MaxVersion, MaxSerial, MaxRevision} \subseteq Nat

VARIABLES
    session,    \* the live drafts
    lineage,    \* the identities of this session's resources
    counter,    \* versions issued; never reset while the window lives
    agent,      \* what the agent knows: reads, its mirror and its cursor
    ticket,     \* an export under review
    disturbed   \* history: resources changed since the agent read them

vars == <<session, lineage, counter, agent, ticket, disturbed>>

Resources == Files \cup Logical
Held == Contents \cup {Absent}
None == [r \in Resources |-> Absent]
Zero == [r \in Resources |-> 0]

Closed == [open |-> FALSE, owner |-> "none", path |-> "none", content |-> None,
           base |-> None, revision |-> 0, pending |-> "none", composing |-> {}]
NoRead == [r \in Resources |-> [serial |-> 0, version |-> 0, content |-> Absent]]
NoTicket == [held |-> FALSE, owner |-> "none", path |-> "none", revision |-> 0,
             version |-> Zero, content |-> None]

\* What the window's own commands leave pending; "exit" stands for Duplicate
\* too, which leaves this session for one on the copy.
Commands == {"save", "catalog", "refresh", "exit"}

DraftsTypeOK ==
    /\ session \in [open : BOOLEAN, owner : Owners \cup {"none"}, path : Paths \cup {"none"},
                    content : [Resources -> Held], base : [Resources -> Held],
                    revision : 0 .. MaxRevision, pending : {"none"} \cup Commands,
                    composing : SUBSET Files]
    /\ lineage.serial \in 0 .. MaxSerial /\ lineage.version \in [Resources -> 0 .. MaxVersion]
    /\ counter \in 0 .. MaxVersion
    /\ agent.serial \in 0 .. MaxSerial
    /\ disturbed \subseteq Resources

Init ==
    /\ session = Closed
    /\ lineage = [serial |-> 0, version |-> Zero, seq |-> 0, floor |-> 0, changes |-> <<>>]
    /\ counter = 0
    /\ agent = [owner |-> "none", path |-> "none", serial |-> 0, cursor |-> 0,
                mirror |-> Zero, read |-> NoRead]
    /\ ticket = NoTicket
    /\ disturbed = {}

Present(r) == session.content[r] # Absent
Version(r) == IF Present(r) THEN lineage.version[r] ELSE 0
Current == [r \in Resources |-> Version(r)]

-----------------------------------------------------------------------------
(* Tracking.  Every change of the session passes here in the same turn.    *)

Room(changed) == counter + Cardinality(changed) <= MaxVersion

(* The notices of one change: each resource moves to the end with the next *)
(* sequence number, and the oldest beyond the history is forgotten.        *)
\* Mutant: the forgotten change does not move the floor.
NoticedForgetting(log, r) ==
    LET seq == log.seq + 1
        kept == SelectSeq(log.changes, LAMBDA c : c.resource # r)
        all == Append(kept, [resource |-> r, seq |-> seq])
    IN  [log EXCEPT !.seq = seq, !.changes = IF Len(all) <= History THEN all ELSE Tail(all)]

Noticed(log, r) ==
    LET seq == log.seq + 1
        kept == SelectSeq(log.changes, LAMBDA c : c.resource # r)
        all == Append(kept, [resource |-> r, seq |-> seq])
    IN  IF Len(all) <= History
        THEN [log EXCEPT !.seq = seq, !.changes = all]
        ELSE [log EXCEPT !.seq = seq, !.changes = Tail(all), !.floor = Head(all).seq]

(* New versions for the resources whose content the change touched: files   *)
(* in the order of the draft list, then recognition parts.                 *)
Track(next, known) ==
    LET changed == {r \in Resources : next.content[r] # session.content[r]}
        issued == {r \in changed : next.content[r] # Absent}
        order == SetToSeq(changed)
        number(r) == counter + Cardinality({q \in issued : \E i, j \in DOMAIN order :
                                              i <= j /\ order[i] = q /\ order[j] = r})
        log == FoldLeft(Noticed, lineage, order)
    IN  /\ Room(issued)
        /\ session' = next
        /\ counter' = counter + Cardinality(issued)
        /\ lineage' = [log EXCEPT !.version =
                          [r \in Resources |-> IF r \in issued THEN number(r) ELSE log.version[r]]]
        /\ disturbed' = (disturbed \cup changed) \ known

(* A new owner, or a session closed and created again, is a new lineage:    *)
(* everything gets new versions, and no earlier cursor is accepted.        *)
Open(owner, path, content) ==
    LET issued == {r \in Resources : content[r] # Absent}
        order == SetToSeq(issued)
    IN  /\ ~session.open
        /\ lineage.serial < MaxSerial /\ Room(issued)
        /\ session' = [Closed EXCEPT !.open = TRUE, !.owner = owner, !.path = path,
                                     !.content = content, !.base = content]
        /\ counter' = counter + Cardinality(issued)
        /\ lineage' = [serial |-> lineage.serial + 1,
                       version |-> [r \in Resources |->
                           IF r \in issued THEN counter + (CHOOSE i \in DOMAIN order : order[i] = r)
                           ELSE 0],
                       seq |-> 0, floor |-> 0, changes |-> <<>>]
        /\ disturbed' = Resources
        /\ UNCHANGED <<agent, ticket>>

Close ==
    /\ session.open
    /\ session' = Closed
    /\ disturbed' = Resources
    /\ UNCHANGED <<lineage, counter, agent, ticket>>

-----------------------------------------------------------------------------
(* The person, and what the window's own commands bring back.              *)

Type(r, c) ==
    /\ session.open /\ Present(r) /\ c # session.content[r]
    /\ Track([session EXCEPT !.content[r] = c], {})
    /\ UNCHANGED <<agent, ticket>>

Compose(f) ==
    /\ session.open /\ Present(f)
    /\ session' = [session EXCEPT !.composing =
                      IF f \in session.composing THEN session.composing \ {f}
                      ELSE session.composing \cup {f}]
    /\ UNCHANGED <<lineage, counter, agent, ticket, disturbed>>

Command(kind) ==
    /\ session.open /\ session.pending = "none"
    /\ session' = [session EXCEPT !.pending = kind]
    /\ UNCHANGED <<lineage, counter, agent, ticket, disturbed>>

Dirty == session.content # session.base

(* A save writes the text it was given; later edits stay dirty.  A new save *)
(* keeps the version of every resource.                                    *)
Saved(base) ==
    /\ session.pending = "save" /\ session.revision < MaxRevision
    /\ session' = [session EXCEPT !.pending = "none", !.base = base,
                                  !.revision = session.revision + 1]
    /\ UNCHANGED <<lineage, counter, agent, ticket, disturbed>>

(* A catalog change or a refresh replaces drafts: files come, go or change. *)
Replaced(content) ==
    /\ session.pending \in {"catalog", "refresh"} /\ session.revision < MaxRevision
    /\ Track([session EXCEPT !.pending = "none", !.content = content, !.base = content,
                             !.revision = session.revision + 1, !.composing = {}], {})
    /\ UNCHANGED <<agent, ticket>>

Failed ==
    /\ session.pending # "none"
    /\ session' = [session EXCEPT !.pending = "none"]
    /\ UNCHANGED <<lineage, counter, agent, ticket, disturbed>>

-----------------------------------------------------------------------------
(* The agent's requests.                                                   *)

InScope == session.open /\ agent.owner = session.owner /\ agent.path = session.path

Describe ==
    /\ agent' = (IF session.open
                 THEN [agent EXCEPT !.owner = session.owner, !.path = session.path,
                                    !.serial = lineage.serial, !.cursor = lineage.seq,
                                    !.mirror = Current]
                 ELSE [agent EXCEPT !.owner = "none", !.path = "none", !.serial = 0,
                                    !.cursor = 0, !.mirror = Zero])
    /\ UNCHANGED <<session, lineage, counter, ticket, disturbed>>

Read(r) ==
    /\ InScope /\ Present(r)
    /\ agent' = [agent EXCEPT !.read[r] = [serial |-> lineage.serial, version |-> lineage.version[r],
                                           content |-> session.content[r]]]
    /\ disturbed' = disturbed \ {r}
    /\ UNCHANGED <<session, lineage, counter, ticket>>

(* A page of the changes after the cursor, each with its present version;   *)
(* a cursor of another lineage or of forgotten history is a gap, after     *)
(* which the agent describes again.                                        *)
Follows == agent.serial = lineage.serial /\ agent.cursor >= lineage.floor /\ agent.cursor <= lineage.seq

Notices ==
    /\ InScope /\ Follows
    /\ LET after == SelectSeq(lineage.changes, LAMBDA c : c.seq > agent.cursor)
           page == SubSeq(after, 1, IF Len(after) < Page THEN Len(after) ELSE Page)
           named == {page[i].resource : i \in DOMAIN page}
       IN  /\ after # <<>>
           /\ agent' = [agent EXCEPT
                  !.cursor = IF Len(page) < Len(after) THEN page[Len(page)].seq ELSE lineage.seq,
                  !.mirror = [r \in Resources |-> IF r \in named THEN Version(r) ELSE agent.mirror[r]]]
    /\ UNCHANGED <<session, lineage, counter, ticket, disturbed>>

\* Mutant: a known resource is taken as read.
FreshIfKnown(r) ==
    /\ agent.read[r].serial = lineage.serial
    /\ Present(r)

(* An identity of an earlier lineage is unknown; a version must be the one  *)
(* the resource has now.                                                   *)
Fresh(r) ==
    /\ agent.read[r].serial = lineage.serial
    /\ Present(r)
    /\ agent.read[r].version = lineage.version[r]

Admits(r) == r \in Files => r \notin session.composing

(* One batch: every target and dependency is checked before anything        *)
(* changes, then the whole batch is one change of the session.             *)
Edit(targets, dependencies, c) ==
    /\ InScope
    /\ session.pending \notin {"catalog", "refresh", "exit"}
    /\ \A r \in targets : Fresh(r) /\ Admits(r)
    /\ \A r \in dependencies : Fresh(r)
    /\ Track([session EXCEPT !.content =
                 [r \in Resources |-> IF r \in targets THEN c ELSE session.content[r]]],
             targets)
    /\ agent' = [agent EXCEPT !.read = [r \in Resources |->
                    IF r \in targets
                    THEN [serial |-> lineage.serial, version |-> lineage'.version[r], content |-> c]
                    ELSE agent.read[r]]]
    /\ UNCHANGED ticket

-----------------------------------------------------------------------------
(* An export is prepared from saved drafts and published after a review.   *)

Exportable == session.open /\ ~Dirty

Prepare ==
    /\ Exportable /\ session.pending = "none"
    /\ ticket' = [held |-> TRUE, owner |-> session.owner, path |-> session.path,
                  revision |-> session.revision, version |-> Current, content |-> session.base]
    /\ UNCHANGED <<session, lineage, counter, agent, disturbed>>

\* Mutant: the review is compared by its saved revision alone.
CurrentByRevision ==
    /\ Exportable
    /\ ticket.owner = session.owner /\ ticket.path = session.path
    /\ ticket.revision = session.revision

ExportCurrent ==
    /\ Exportable
    /\ ticket.owner = session.owner /\ ticket.path = session.path
    /\ ticket.revision = session.revision
    /\ ticket.version = Current

Publish ==
    /\ ticket.held /\ ExportCurrent
    /\ ticket' = NoTicket
    /\ UNCHANGED <<session, lineage, counter, agent, disturbed>>

Next ==
    \/ \E o \in Owners, p \in Paths, c \in Drafts : Open(o, p, c)
    \/ Close \/ Failed \/ Describe \/ Notices \/ Prepare \/ Publish
    \/ \E r \in Resources : Read(r) \/ \E c \in Contents : Type(r, c)
    \/ \E f \in Files : Compose(f)
    \/ \E kind \in Commands : Command(kind)
    \/ Saved(session.content) \/ Saved(session.base)
    \/ \E c \in Drafts : Replaced(c)
    \/ \E targets \in SUBSET Resources \ {{}} : \E dependencies \in SUBSET (Resources \ targets) :
          \E c \in Contents : Edit(targets, dependencies, c)

Spec == Init /\ [][Next]_vars

-----------------------------------------------------------------------------
(* An agent that follows the notices misses nothing: while its cursor is    *)
(* accepted, every resource whose version it does not know has a notice     *)
(* still to come, however the pages, the removals and the bounded history   *)
(* fell.                                                                    *)
NoticesAreComplete ==
    InScope /\ Follows =>
        \A r \in Resources : agent.mirror[r] # Version(r) =>
            \E i \in DOMAIN lineage.changes :
                lineage.changes[i].resource = r /\ lineage.changes[i].seq > agent.cursor

(* An accepted edit rests on what the agent read: no target and no           *)
(* dependency was changed since, not even to something else and back, and    *)
(* not in another session; and a published export is the saved package as    *)
(* it stood, untouched, since its review began.                              *)
\* The step EditsRestOnReads allows.
EditsRestOnReadsStep ==
    /\ session' # session /\ agent'.read # agent.read =>
          \A targets \in SUBSET Resources \ {{}} : \A dependencies \in SUBSET (Resources \ targets) :
              \A c \in Contents : Edit(targets, dependencies, c) =>
                  (targets \cup dependencies) \cap disturbed = {}
    /\ Publish => ticket.content = session.base /\ session.content = session.base
                  /\ ticket.version = Current

EditsRestOnReads == [][EditsRestOnReadsStep]_vars
=============================================================================
