----------------------------- MODULE Workspaces -----------------------------
(***************************************************************************)
(* The Workspaces of the desktop application and the store beneath them:   *)
(* Tabs that name a package source, the profiles saved for it, the         *)
(* selection that an inspection makes runnable, and the recovery of        *)
(* profiles that a moved or changed source no longer fits.                 *)
(*                                                                         *)
(* Commands exclude each other, so an inspection is a sequence of store    *)
(* steps that only the outside can come between: an edit of the package or *)
(* of a saved file, or the end of the process.  Each Tab has one package.  *)
(***************************************************************************)
EXTENDS Naturals, FiniteSets, FiniteSetTheorems, TLAPS

CONSTANTS Tabs, Profiles,  \* internal names, profile ids
          Inspected,       \* bound: the Tabs whose sources are inspected
          Sources,         \* where a package can be: directories and installed releases
          Installed,       \* the sources that are installed releases
          Signer(_),       \* of an installed release
          Values, Fits(_), \* profile values and the schemas they satisfy
          Schemas,         \* option schemas a package can declare
          MaxOpen,         \* MAX_OPEN_TABS
          MaxRevision      \* bound on a Workspace's revision

StoreBounds ==
    /\ Installed \subseteq Sources /\ Inspected \subseteq Tabs /\ {MaxOpen, MaxRevision} \subseteq Nat \ {0}
    /\ IsFiniteSet(Tabs)
    /\ \A v \in Values : Fits(v) \subseteq Schemas

VARIABLES tab,      \* tab.config of each internal name
          profile,  \* the profile files of each Tab's package
          pending,  \* Tabs whose package directory holds a .pending file
          content,  \* the schema of the package found at each source
          space,    \* the open Workspaces of this session
          inspection \* the inspection or retry that holds the command mutex

storeVars == <<tab, profile, pending, content, space, inspection>>

NoSource == "none"
NoTab == [at |-> "absent", open |-> FALSE, source |-> NoSource]
NoProfile == [schema |-> 0, values |-> "none"]
NoSelection == [source |-> NoSource, schema |-> 0]
NoRecovery == [selected |-> NoSelection, reference |-> NoSource, relocation |-> FALSE, entries |-> {}]
Closed == [open |-> FALSE, revision |-> 0, selected |-> NoSelection, recovery |-> NoRecovery]
NoInspection == [at |-> "none", tab |-> NoSource, retry |-> FALSE, context |-> NoRecovery, todo |-> {}, bound |-> "none"]
Record(id, p) == [id |-> id, original |-> p]

Init ==
    /\ tab = [n \in Tabs |-> NoTab] /\ profile = [n \in Tabs |-> [id \in Profiles |-> NoProfile]]
    /\ pending = {} /\ content \in [Sources -> Schemas]
    /\ space = [n \in Tabs |-> Closed] /\ inspection = NoInspection

-----------------------------------------------------------------------------
Command == inspection = NoInspection
Saved(n) == tab[n].at = "saved"
\* An unreadable record may be open: it keeps its slot.
OpenSlot == Cardinality({n \in Tabs : tab[n].at = "bad" \/ (Saved(n) /\ tab[n].open)}) < MaxOpen
Serves(p, schema) == p.schema = schema /\ schema \in Fits(p.values)
Stored(n) == {id \in Profiles : profile[n][id] # NoProfile}
\* check_owner: an open Tab that names the package; scan_profiles refuses over an unresolved write.
Owned(n) == Saved(n) /\ tab[n].open /\ tab[n].source # NoSource /\ n \notin pending
Compatible(n, schema) == Owned(n) /\ \A id \in Stored(n) : Serves(profile[n][id], schema)
\* A session only trusts what inspection has verified; the saved reference stays whatever it finds.
Restored(n, verified) ==
    IF tab[n].source # NoSource /\ verified
    THEN [Closed EXCEPT !.open = TRUE, !.revision = 1, !.selected = [source |-> tab[n].source, schema |-> content[tab[n].source]]]
    ELSE [Closed EXCEPT !.open = TRUE]

CreateWorkspace(n) ==
    /\ Command /\ tab[n] = NoTab /\ OpenSlot
    /\ tab' = [tab EXCEPT ![n] = [at |-> "saved", open |-> TRUE, source |-> NoSource]]
    /\ space' = [space EXCEPT ![n] = [Closed EXCEPT !.open = TRUE]]
    /\ UNCHANGED <<profile, pending, content, inspection>>
ReopenWorkspace(n) ==
    /\ Command /\ ~space[n].open /\ Saved(n) /\ ~tab[n].open /\ OpenSlot
    /\ tab' = [tab EXCEPT ![n].open = TRUE]
    /\ \E verified \in BOOLEAN : space' = [space EXCEPT ![n] = Restored(n, verified)]
    /\ UNCHANGED <<profile, pending, content, inspection>>
CloseWorkspace(n) ==
    /\ Command /\ space[n].open /\ Saved(n)
    /\ tab' = [tab EXCEPT ![n].open = FALSE]
    /\ space' = [space EXCEPT ![n] = Closed]
    /\ UNCHANGED <<profile, pending, content, inspection>>

-----------------------------------------------------------------------------
\* Inspection: select, settle the signer, reconcile the profiles, bind, publish.

CheckSigner(saved, candidate) ==
    {saved, candidate} \subseteq Installed => Signer(saved) = Signer(candidate)

Inspect(n, source) ==
    /\ Command /\ space[n].open /\ space[n].revision < MaxRevision /\ Saved(n)
    /\ CheckSigner(tab[n].source, source)
    /\ LET first == tab[n].source = NoSource IN
       inspection' = [at |-> IF first THEN "bind" ELSE "reconcile", tab |-> n, retry |-> FALSE,
                      context |-> [selected |-> [source |-> source, schema |-> content[source]],
                                   reference |-> tab[n].source,
                                   relocation |-> ~first /\ source # tab[n].source, entries |-> {}],
                      todo |-> IF first \/ ~Owned(n) THEN {} ELSE {Record(id, profile[n][id]) : id \in Stored(n)},
                      bound |-> "none"]
    /\ UNCHANGED <<tab, profile, pending, content, space>>

\* One saved record: already right, carried over to the new schema, or kept for repair.
Reconcile(record) ==
    /\ inspection.at = "reconcile" /\ record \in inspection.todo
    /\ LET n == inspection.tab
           schema == inspection.context.selected.schema
           original == record.original
           kept == [inspection EXCEPT !.todo = @ \ {record}, !.context.entries = @ \cup {record}] IN
       \/ /\ Serves(original, schema)
          /\ inspection' = [inspection EXCEPT !.todo = @ \ {record}]
          /\ UNCHANGED profile
       \/ /\ ~Serves(original, schema) /\ schema \in Fits(original.values)
          /\ profile[n][record.id] = original /\ Owned(n)  \* replace_recovery compares the bytes
          /\ profile' = [profile EXCEPT ![n][record.id].schema = schema]
          /\ inspection' = [inspection EXCEPT !.todo = @ \ {record}]
       \/ /\ ~Serves(original, schema)  \* does not fit, or could not be stored
          /\ inspection' = kept
          /\ UNCHANGED profile
    /\ UNCHANGED <<tab, pending, content, space>>
Reconciled ==
    /\ inspection.at = "reconcile" /\ inspection.todo = {}
    /\ inspection' = [inspection EXCEPT !.at = "bind"]
    /\ UNCHANGED <<tab, profile, pending, content, space>>

\* A moved source must fit every saved profile; one in place need not.
\* Mutant: a retry takes the earlier refusal for settled
MayBindRetried(n, context) == (context.relocation /\ ~inspection.retry) => Compatible(n, context.selected.schema)
MayBind(n, context) == context.relocation => Compatible(n, context.selected.schema)
Bind ==
    /\ inspection.at = "bind"
    /\ LET n == inspection.tab
           context == inspection.context IN
       \/ /\ MayBind(n, context) /\ Saved(n) /\ tab[n].open
          /\ tab' = [tab EXCEPT ![n].source = context.selected.source]
          /\ inspection' = [inspection EXCEPT !.at = "publish", !.bound = "ok"]
       \/ /\ ~MayBind(n, context)
          /\ inspection' = [inspection EXCEPT !.at = "publish", !.bound = "incompatible"]
          /\ UNCHANGED tab
       \/ /\ inspection' = [inspection EXCEPT !.at = "publish", !.bound = "failed"]
          /\ UNCHANGED tab
    /\ UNCHANGED <<profile, pending, content, space>>

\* What the Workspace becomes: bound, waiting for repair, or as before under its new revision.
\* Mutant: a binding that failed leaves the candidate selected
PublishedAnyway(w, context, bound) ==
    [w EXCEPT !.revision = @ + 1, !.selected = context.selected,
              !.recovery = IF bound = "ok" /\ context.entries = {} THEN NoRecovery ELSE context]
Published(w, context, bound) ==
    CASE bound = "ok" -> [w EXCEPT !.revision = @ + 1, !.selected = context.selected,
                             !.recovery = IF context.entries = {} THEN NoRecovery
                                          ELSE [context EXCEPT !.reference = context.selected.source, !.relocation = FALSE]]
      [] bound = "incompatible" /\ context.entries # {} ->
            [w EXCEPT !.revision = @ + 1, !.selected = NoSelection, !.recovery = context]
      [] OTHER -> [w EXCEPT !.revision = @ + 1, !.recovery = context]
PublishInspection ==
    /\ inspection.at = "publish"
    /\ LET n == inspection.tab IN
       space' = IF inspection.retry /\ inspection.bound # "ok" THEN space  \* the same repair authority stays
                ELSE [space EXCEPT ![n] = Published(@, inspection.context, inspection.bound)]
    /\ inspection' = NoInspection
    /\ UNCHANGED <<tab, profile, pending, content>>

-----------------------------------------------------------------------------
\* Recovery: its context is good while the package and the saved reference are what it was made from.

Recovering(n) ==
    /\ Command /\ space[n].open /\ space[n].recovery # NoRecovery
    /\ content[space[n].recovery.selected.source] = space[n].recovery.selected.schema
ReferenceKept(n) == Saved(n) /\ tab[n].open /\ tab[n].source = space[n].recovery.reference

MutateRecovery(n, record, values) ==
    /\ Recovering(n) /\ ReferenceKept(n) /\ record \in space[n].recovery.entries
    /\ LET schema == space[n].recovery.selected.schema IN
       /\ schema \in Fits(values) /\ Owned(n) /\ profile[n][record.id] = record.original
       /\ profile' = [profile EXCEPT ![n][record.id] = [schema |-> schema, values |-> values]]
    /\ space' = [space EXCEPT ![n].recovery.entries = @ \ {record}]
    /\ UNCHANGED <<tab, pending, content, inspection>>
RetryBinding(n) ==
    /\ Recovering(n) /\ space[n].revision < MaxRevision
    /\ inspection' = [NoInspection EXCEPT !.at = IF ReferenceKept(n) THEN "bind" ELSE "publish", !.tab = n, !.retry = TRUE,
                                          !.context = space[n].recovery]
    /\ UNCHANGED <<tab, profile, pending, content, space>>
DiscardRecovery(n) ==
    /\ Command /\ space[n].open /\ space[n].recovery # NoRecovery
    /\ space[n].selected = NoSelection => space[n].revision < MaxRevision
    /\ space' = [space EXCEPT ![n].recovery = NoRecovery,
                              ![n].revision = IF space[n].selected = NoSelection THEN @ + 1 ELSE @]
    /\ UNCHANGED <<tab, profile, pending, content, inspection>>

-----------------------------------------------------------------------------
\* Profiles of the selection.

SaveProfile(n, id, values) ==
    /\ Command /\ space[n].open /\ space[n].selected # NoSelection /\ Owned(n)
    /\ LET schema == space[n].selected.schema IN
       /\ content[space[n].selected.source] = schema  \* reinspect: the package has not changed
       /\ schema \in Fits(values)
       /\ profile[n][id] # NoProfile => Serves(profile[n][id], schema)
       /\ profile' = [profile EXCEPT ![n][id] = [schema |-> schema, values |-> values]]
    /\ UNCHANGED <<tab, pending, content, space, inspection>>
DeleteProfile(n, id) ==
    /\ Command /\ space[n].open /\ space[n].selected # NoSelection /\ Owned(n)
    /\ profile[n][id] # NoProfile /\ Serves(profile[n][id], space[n].selected.schema)
    /\ profile' = [profile EXCEPT ![n][id] = NoProfile]
    /\ UNCHANGED <<tab, pending, content, space, inspection>>

-----------------------------------------------------------------------------
\* The outside: another program, the user's own edits, the end of the process.

EditPackage(source) ==
    /\ source \notin Installed
    /\ \E schema \in Schemas \ {content[source]} : content' = [content EXCEPT ![source] = schema]
    /\ UNCHANGED <<tab, profile, pending, space, inspection>>
EditProfile(n, id) ==
    /\ profile[n][id] # NoProfile
    /\ \E values \in Values \ {profile[n][id].values} : profile' = [profile EXCEPT ![n][id].values = values]
    /\ UNCHANGED <<tab, pending, content, space, inspection>>
SpoilTab(n) ==
    /\ tab[n].at \in {"saved", "bad"}
    /\ tab' = [tab EXCEPT ![n].at = IF @ = "saved" THEN "bad" ELSE "saved"]
    /\ UNCHANGED <<profile, pending, content, space, inspection>>
ResolvePending(n) ==
    /\ n \in pending /\ pending' = pending \ {n}
    /\ UNCHANGED <<tab, profile, content, space, inspection>>
\* A crash in a profile's write leaves the pending file; the next session opens the Tabs saved open.
Restart ==
    /\ pending' \in {pending, pending \cup ({inspection.tab} \cap {n \in Tabs : inspection.at = "reconcile"})}
    /\ \E verified \in [Tabs -> BOOLEAN] :
        space' = [n \in Tabs |-> IF Saved(n) /\ tab[n].open THEN Restored(n, verified[n]) ELSE Closed]
    /\ inspection' = NoInspection
    /\ UNCHANGED <<tab, profile, content>>

Next ==
    \/ \E n \in Tabs : CreateWorkspace(n) \/ ReopenWorkspace(n) \/ CloseWorkspace(n) \/ RetryBinding(n)
                       \/ DiscardRecovery(n) \/ SpoilTab(n) \/ ResolvePending(n)
    \/ \E n \in Inspected, source \in Sources : Inspect(n, source)
    \/ \E record \in inspection.todo : Reconcile(record)
    \/ Reconciled \/ Bind \/ PublishInspection \/ Restart
    \/ \E n \in Tabs, values \in Values : \E record \in space[n].recovery.entries : MutateRecovery(n, record, values)
    \/ \E n \in Tabs, id \in Profiles : DeleteProfile(n, id) \/ EditProfile(n, id)
    \/ \E n \in Tabs, id \in Profiles, values \in Values : SaveProfile(n, id, values)
    \/ \E source \in Sources : EditPackage(source)
Spec == Init /\ [][Next]_storeVars

-----------------------------------------------------------------------------
\* Between commands, what a Workspace would run is what its Tab names on disk, and the Tabs that
\* the next session would open are never more than it accepts (recovery.rs: publish_inspection;
\* storage/tabs.rs: ensure_open_slot).
WorkspacesAgree ==
    /\ Command => \A n \in Tabs : space[n].open =>
            /\ tab[n].open
            /\ space[n].selected # NoSelection => space[n].selected.source = tab[n].source
    /\ Cardinality({n \in Tabs : tab[n].open}) <= MaxOpen

\* The step ReplacementIsSafe allows.
ReplacementIsSafeStep ==
    \A n \in Tabs :
     /\ NoSource \notin {tab[n].source, tab'[n].source} /\ tab'[n].source # tab[n].source =>
         /\ \A id \in Stored(n) : Serves(profile[n][id], inspection.context.selected.schema)
         /\ {tab[n].source, tab'[n].source} \subseteq Installed => Signer(tab[n].source) = Signer(tab'[n].source)
     /\ \A record \in space[n].recovery.entries :
         (space'[n].recovery.selected # NoSelection /\ record \notin space'[n].recovery.entries /\ profile' # profile) =>
             profile[n][record.id] = record.original

\* A source replaces another only when every saved profile serves under it, and an installed release
\* only one of the same signer; a profile that recovery rewrites is still the one it had read
\* (recovery.rs: inspect_candidate, retry_binding, check_signer; storage/profiles.rs: replace_recovery).
ReplacementIsSafe == [][ReplacementIsSafeStep]_storeVars

-----------------------------------------------------------------------------
(* Theorems, for any Tabs, profiles, sources and schemas.                   *)

Places == Sources \cup {NoSource}
Selections == [source : Places, schema : Schemas \cup {0}]
Files == [schema : Schemas \cup {0}, values : Values \cup {"none"}]
Records == [id : Profiles, original : Files]
Contexts == [selected : Selections, reference : Places, relocation : BOOLEAN,
             entries : SUBSET Records]
TabRecords == [at : {"absent", "saved", "bad"}, open : BOOLEAN, source : Places]
Spaces == [open : BOOLEAN, revision : Nat, selected : Selections, recovery : Contexts]
Inspections == [at : {"none", "reconcile", "bind", "publish"}, tab : Tabs \cup {NoSource},
                retry : BOOLEAN, context : Contexts,
                todo : SUBSET Records,
                bound : {"none", "ok", "incompatible", "failed"}]
TypeOK ==
    /\ tab \in [Tabs -> TabRecords]
    /\ profile \in [Tabs -> [Profiles -> Files]] /\ pending \subseteq Tabs
    /\ content \in [Sources -> Schemas]
    /\ space \in [Tabs -> Spaces] /\ inspection \in Inspections

\* A context that is not a relocation is about the source its Tab names, or the Tab names none yet;
\* its signer was settled.
ContextFits(context) ==
    /\ context.reference # NoSource /\ ~context.relocation => context.selected.source = context.reference
    /\ CheckSigner(context.reference, context.selected.source)

\* The Tab is bound and its Workspace does not say so yet.
Unpublished(n) == inspection.at = "publish" /\ inspection.bound = "ok" /\ inspection.tab = n

SpaceFits(n) ==
    /\ space[n].open => tab[n].open
    /\ space[n].open /\ space[n].selected # NoSelection /\ ~Unpublished(n) =>
          space[n].selected.source = tab[n].source
    /\ ContextFits(space[n].recovery)
    /\ tab[n].at = "absent" => tab[n] = NoTab
InspectionFits ==
    /\ inspection.at = "none" => inspection = NoInspection
    /\ ContextFits(inspection.context)
    /\ inspection.at # "none" => inspection.tab \in Tabs /\ space[inspection.tab].open
    /\ inspection.at \in {"reconcile", "bind"} =>
          inspection.context.reference = tab[inspection.tab].source /\ inspection.bound = "none"
    /\ inspection.at = "publish" /\ inspection.bound = "ok" =>
          inspection.context.selected.source = tab[inspection.tab].source
OpenTabs == {n \in Tabs : tab[n].open}
IInv == TypeOK /\ InspectionFits /\ (\A n \in Tabs : SpaceFits(n)) /\ Cardinality(OpenTabs) <= MaxOpen


\* Records that the steps build.
LEMMA Shapes ==
    ASSUME StoreBounds
    PROVE  /\ NoSelection \in Selections /\ NoRecovery \in Contexts /\ ContextFits(NoRecovery)
           /\ Closed \in Spaces /\ NoInspection \in Inspections
  <1>1. NoSelection \in Selections
    BY DEF NoSelection, Selections, Places
  <1>2. NoRecovery \in Contexts
    BY <1>1 DEF NoRecovery, Contexts, Places
  <1>3. Closed \in Spaces
    BY <1>1, <1>2 DEF Closed, Spaces
  <1>4. NoInspection \in Inspections
    BY <1>2 DEF NoInspection, Inspections
  <1> QED
    BY <1>1, <1>2, <1>3, <1>4 DEF ContextFits, CheckSigner, NoRecovery, NoSelection

\* What a session opens a Tab with.
LEMMA RestoredFits ==
    ASSUME StoreBounds, TypeOK, NEW n \in Tabs, NEW verified \in BOOLEAN
    PROVE  /\ Restored(n, verified) \in Spaces /\ Restored(n, verified).recovery = NoRecovery
           /\ \/ Restored(n, verified).selected = NoSelection
              \/ Restored(n, verified).selected.source = tab[n].source
  <1>1. CASE tab[n].source # NoSource /\ verified
    <2> DEFINE chosen == [source |-> tab[n].source, schema |-> content[tab[n].source]]
    <2>1. chosen \in Selections
      BY <1>1 DEF TypeOK, TabRecords, Places, Selections
    <2>2. Restored(n, verified) = [Closed EXCEPT !.open = TRUE, !.revision = 1, !.selected = chosen]
      BY <1>1 DEF Restored
    <2>3. chosen.source = tab[n].source
      OBVIOUS
    <2>4. Closed.recovery = NoRecovery /\ Closed \in Spaces
      BY Shapes DEF Closed
    <2> HIDE DEF chosen
    <2>5. [Closed EXCEPT !.open = TRUE, !.revision = 1, !.selected = chosen] \in Spaces
      BY <2>1, <2>4 DEF Spaces
    <2>6. /\ Restored(n, verified).recovery = NoRecovery
          /\ Restored(n, verified).selected = chosen
      BY <2>2, <2>4 DEF Spaces
    <2> QED
      BY <2>2, <2>3, <2>5, <2>6
  <1>2. CASE ~(tab[n].source # NoSource /\ verified)
    <2>1. Restored(n, verified) = [Closed EXCEPT !.open = TRUE]
      BY <1>2 DEF Restored
    <2> QED
      BY <2>1, Shapes DEF Spaces, Closed
  <1> QED
    BY <1>1, <1>2

\* What an inspection leaves of a Workspace.
LEMMA PublishedFits ==
    ASSUME StoreBounds, NEW w \in Spaces, NEW context \in Contexts, NEW bound,
           ContextFits(w.recovery), ContextFits(context)
    PROVE  /\ Published(w, context, bound) \in Spaces
           /\ Published(w, context, bound).open = w.open
           /\ ContextFits(Published(w, context, bound).recovery)
           /\ bound = "ok" => Published(w, context, bound).selected = context.selected
           /\ bound # "ok" => Published(w, context, bound).selected \in {NoSelection, w.selected}
  <1> DEFINE settled == [context EXCEPT !.reference = context.selected.source, !.relocation = FALSE]
             next == IF context.entries = {} THEN NoRecovery ELSE settled
  <1>1. settled \in Contexts /\ ContextFits(settled)
    BY DEF Contexts, Selections, ContextFits, CheckSigner
  <1>2. next \in Contexts /\ ContextFits(next)
    BY <1>1, Shapes
  <1>3. context.selected \in Selections
    BY DEF Contexts
  <1> DEFINE revision == w.revision + 1
  <1>0. revision \in Nat
    BY DEF Spaces
  <1> HIDE DEF revision
  <1>4. CASE bound = "ok"
    <2>1. Published(w, context, bound) =
             [w EXCEPT !.revision = revision, !.selected = context.selected, !.recovery = next]
      BY <1>4 DEF Published, revision
    <2> HIDE DEF next, settled
    <2>2. [w EXCEPT !.revision = revision, !.selected = context.selected, !.recovery = next] \in Spaces
      BY <1>2, <1>3, <1>0 DEF Spaces
    <2>3. /\ Published(w, context, bound).open = w.open
          /\ Published(w, context, bound).selected = context.selected
          /\ Published(w, context, bound).recovery = next
      BY <2>1 DEF Spaces
    <2> QED
      BY <1>2, <1>4, <2>1, <2>2, <2>3
  <1>5. CASE bound = "incompatible" /\ context.entries # {}
    <2>1. Published(w, context, bound) =
             [w EXCEPT !.revision = revision, !.selected = NoSelection, !.recovery = context]
      BY <1>5 DEF Published, revision
    <2>2. [w EXCEPT !.revision = revision, !.selected = NoSelection, !.recovery = context] \in Spaces
      BY <1>0, Shapes DEF Spaces
    <2>3. /\ Published(w, context, bound).open = w.open
          /\ Published(w, context, bound).selected = NoSelection
          /\ Published(w, context, bound).recovery = context
      BY <2>1 DEF Spaces
    <2> QED
      BY <1>5, <2>1, <2>2, <2>3
  <1>6. CASE bound # "ok" /\ ~(bound = "incompatible" /\ context.entries # {})
    <2>1. Published(w, context, bound) = [w EXCEPT !.revision = revision, !.recovery = context]
      BY <1>6 DEF Published, revision
    <2>2. [w EXCEPT !.revision = revision, !.recovery = context] \in Spaces
      BY <1>0 DEF Spaces
    <2>3. /\ Published(w, context, bound).open = w.open
          /\ Published(w, context, bound).selected = w.selected
          /\ Published(w, context, bound).recovery = context
      BY <2>1 DEF Spaces
    <2> QED
      BY <1>6, <2>1, <2>2, <2>3
  <1> QED
    BY <1>4, <1>5, <1>6

\* One more open Tab, where a slot was free.
LEMMA SlotTaken ==
    ASSUME StoreBounds, IInv, NEW n \in Tabs, OpenSlot, OpenTabs' = OpenTabs \cup {n}
    PROVE  Cardinality(OpenTabs)' <= MaxOpen
  <1> DEFINE counted == {m \in Tabs : tab[m].at = "bad" \/ (Saved(m) /\ tab[m].open)}
  <1>1. OpenTabs \subseteq counted
    BY DEF OpenTabs, Saved, IInv, SpaceFits, TypeOK, TabRecords, NoTab
  <1>2. IsFiniteSet(counted) /\ IsFiniteSet(OpenTabs)
    BY FS_Subset DEF StoreBounds, OpenTabs
  <1>3. Cardinality(OpenTabs) <= Cardinality(counted)
    BY <1>1, <1>2, FS_Subset
  <1>4. Cardinality(OpenTabs) < MaxOpen
    <2>1. Cardinality(counted) < MaxOpen
      BY DEF OpenSlot
    <2>2. Cardinality(counted) \in Nat /\ Cardinality(OpenTabs) \in Nat /\ MaxOpen \in Nat
      BY <1>2, FS_CardinalityType DEF StoreBounds
    <2> QED
      BY <1>3, <2>1, <2>2
  <1>5. Cardinality(OpenTabs \cup {n}) \in {Cardinality(OpenTabs), Cardinality(OpenTabs) + 1}
    BY <1>2, FS_AddElement
  <1>6. Cardinality(OpenTabs)' = Cardinality(OpenTabs \cup {n})
    OBVIOUS
  <1>7. Cardinality(OpenTabs) \in Nat /\ MaxOpen \in Nat
    BY <1>2, FS_CardinalityType DEF StoreBounds
  <1> QED
    BY <1>4, <1>5, <1>6, <1>7

LEMMA CreateWorkspaceKeeps ==
    ASSUME StoreBounds, IInv, NEW n \in Tabs, CreateWorkspace(n)
    PROVE  IInv'
  <1>1. TypeOK'
    BY DEF
       NoSelection, Closed, NoInspection, Command, CreateWorkspace, Places, Selections, TabRecords,
       Spaces, Inspections, TypeOK, IInv
  <1>2. InspectionFits'
    BY DEF NoTab, CreateWorkspace, InspectionFits, IInv
  <1>3. ASSUME NEW m \in Tabs PROVE SpaceFits(m)'
    BY DEF NoSelection, NoRecovery, Closed, CreateWorkspace, CheckSigner, TypeOK, ContextFits,
       Unpublished, SpaceFits, IInv
  <1>4. OpenTabs' = OpenTabs \cup {n}
    BY DEF CreateWorkspace, OpenTabs, IInv, TypeOK
  <1>5. Cardinality(OpenTabs)' <= MaxOpen
    BY <1>4, SlotTaken DEF CreateWorkspace
  <1> QED
    BY <1>1, <1>2, <1>3, <1>5 DEF IInv

LEMMA ReopenWorkspaceKeeps ==
    ASSUME StoreBounds, IInv, NEW n \in Tabs, ReopenWorkspace(n)
    PROVE  IInv'
  <1>1. PICK verified \in BOOLEAN : space' = [space EXCEPT ![n] = Restored(n, verified)]
    BY DEF ReopenWorkspace
  <1>2. /\ Restored(n, verified) \in Spaces /\ Restored(n, verified).recovery = NoRecovery
        /\ \/ Restored(n, verified).selected = NoSelection
           \/ Restored(n, verified).selected.source = tab[n].source
    BY RestoredFits DEF IInv
  <1>3. TypeOK'
    <2>1. [tab[n] EXCEPT !.open = TRUE] \in TabRecords
      BY DEF IInv, TypeOK, TabRecords
    <2>2. tab' = [tab EXCEPT ![n] = [tab[n] EXCEPT !.open = TRUE]]
      BY DEF ReopenWorkspace, IInv, TypeOK
    <2> QED
      BY <1>1, <1>2, <2>1, <2>2 DEF ReopenWorkspace, IInv, TypeOK
  <1>4. InspectionFits'
    BY DEF ReopenWorkspace, IInv, InspectionFits
  <1>5. ASSUME NEW m \in Tabs PROVE SpaceFits(m)'
    <2>1. CASE m = n
      BY <1>1, <1>2, <2>1, Shapes
         DEF ReopenWorkspace, Saved, IInv, SpaceFits, TypeOK
    <2>2. CASE m # n
      BY <1>1, <2>2 DEF ReopenWorkspace, IInv, SpaceFits, Unpublished
    <2> QED
      BY <2>1, <2>2
  <1>6. OpenTabs' = OpenTabs \cup {n}
    BY DEF ReopenWorkspace, OpenTabs, IInv, TypeOK, TabRecords
  <1>7. Cardinality(OpenTabs)' <= MaxOpen
    BY <1>6, SlotTaken DEF ReopenWorkspace
  <1> QED
    BY <1>3, <1>4, <1>5, <1>7 DEF IInv

LEMMA CloseWorkspaceKeeps ==
    ASSUME StoreBounds, IInv, NEW n \in Tabs, CloseWorkspace(n)
    PROVE  IInv'
  <1>1. TypeOK'
    <2>1. [tab[n] EXCEPT !.open = FALSE] \in TabRecords
      BY DEF IInv, TypeOK, TabRecords
    <2>2. tab' = [tab EXCEPT ![n] = [tab[n] EXCEPT !.open = FALSE]]
      BY DEF CloseWorkspace, IInv, TypeOK
    <2> QED
      BY <2>1, <2>2, Shapes DEF CloseWorkspace, IInv, TypeOK
  <1>2. InspectionFits'
    BY DEF NoInspection, Command, CloseWorkspace, InspectionFits, IInv
  <1>3. ASSUME NEW m \in Tabs PROVE SpaceFits(m)'
    <2>1. CASE m = n
      BY <2>1, Shapes
         DEF CloseWorkspace, Saved, Closed, IInv, SpaceFits, TypeOK
    <2>2. CASE m # n
      BY <2>2 DEF CloseWorkspace, IInv, SpaceFits, Unpublished
    <2> QED
      BY <2>1, <2>2
  <1>4. Cardinality(OpenTabs)' <= MaxOpen
    <2>1. OpenTabs' \subseteq OpenTabs
      BY DEF CloseWorkspace, OpenTabs, IInv, TypeOK, TabRecords
    <2>2. IsFiniteSet(OpenTabs)
      BY FS_Subset DEF StoreBounds, OpenTabs
    <2>3. Cardinality(OpenTabs') <= Cardinality(OpenTabs) /\ Cardinality(OpenTabs') \in Nat /\ Cardinality(OpenTabs) \in Nat
      BY <2>1, <2>2, FS_Subset, FS_CardinalityType
    <2>4. Cardinality(OpenTabs)' = Cardinality(OpenTabs')
      OBVIOUS
    <2> QED
      BY <2>3, <2>4 DEF IInv, StoreBounds
  <1> QED
    BY <1>1, <1>2, <1>3, <1>4 DEF IInv

LEMMA RetryBindingKeeps ==
    ASSUME StoreBounds, IInv, NEW n \in Tabs, RetryBinding(n)
    PROVE  IInv'
  <1>1. TypeOK'
    BY DEF Command, Recovering, RetryBinding, Spaces, Inspections, TypeOK, SpaceFits, IInv
  <1>2. InspectionFits'
    BY DEF NoInspection, Recovering, ReferenceKept, RetryBinding, SpaceFits, InspectionFits, IInv
  <1>3. ASSUME NEW m \in Tabs PROVE SpaceFits(m)'
    BY DEF NoInspection, Command, Recovering, RetryBinding, Unpublished, SpaceFits, IInv
  <1>4. Cardinality(OpenTabs)' <= MaxOpen
    <2>1. OpenTabs' = OpenTabs
      BY DEF RetryBinding, OpenTabs, IInv
    <2> QED
      BY <2>1 DEF IInv
  <1> QED
    BY <1>1, <1>2, <1>3, <1>4 DEF IInv

LEMMA DiscardRecoveryKeeps ==
    ASSUME StoreBounds, IInv, NEW n \in Tabs, DiscardRecovery(n)
    PROVE  IInv'
  <1>1. TypeOK'
    <2> DEFINE next == IF space[n].selected = NoSelection THEN space[n].revision + 1 ELSE space[n].revision
    <2>1. next \in Nat
      BY DEF IInv, TypeOK, Spaces
    <2>2. space' = [space EXCEPT ![n] = [space[n] EXCEPT !.recovery = NoRecovery, !.revision = next]]
      BY DEF DiscardRecovery, IInv, TypeOK, Spaces
    <2>3. [space[n] EXCEPT !.recovery = NoRecovery, !.revision = next] \in Spaces
      BY <2>1, Shapes DEF IInv, TypeOK, Spaces
    <2> QED
      BY <2>2, <2>3 DEF DiscardRecovery, IInv, TypeOK
  <1>2. InspectionFits'
    BY DEF DiscardRecovery, TypeOK, InspectionFits, IInv
  <1>3. ASSUME NEW m \in Tabs PROVE SpaceFits(m)'
    BY DEF NoSelection, NoRecovery, CheckSigner, DiscardRecovery, TypeOK, ContextFits, Unpublished,
       SpaceFits, IInv
  <1>4. OpenTabs' = OpenTabs
    BY DEF DiscardRecovery, OpenTabs
  <1> QED
    BY <1>1, <1>2, <1>3, <1>4 DEF IInv

LEMMA SpoilTabKeeps ==
    ASSUME StoreBounds, IInv, NEW n \in Tabs, SpoilTab(n)
    PROVE  IInv'
  <1>1. TypeOK'
    <2>1. PICK at \in {"saved", "bad"} : tab' = [tab EXCEPT ![n] = [tab[n] EXCEPT !.at = at]]
      BY DEF SpoilTab, IInv, TypeOK, TabRecords
    <2>2. [tab[n] EXCEPT !.at = at] \in TabRecords
      BY <2>1 DEF IInv, TypeOK, TabRecords
    <2> QED
      BY <2>1, <2>2 DEF SpoilTab, IInv, TypeOK
  <1>2. InspectionFits'
    BY DEF SpoilTab, InspectionFits, IInv
  <1>3. ASSUME NEW m \in Tabs PROVE SpaceFits(m)'
    BY DEF SpoilTab, Unpublished, SpaceFits, IInv
  <1>4. OpenTabs' = OpenTabs
    BY DEF SpoilTab, OpenTabs, IInv, TypeOK, TabRecords
  <1> QED
    BY <1>1, <1>2, <1>3, <1>4 DEF IInv

LEMMA ResolvePendingKeeps ==
    ASSUME StoreBounds, IInv, NEW n \in Tabs, ResolvePending(n)
    PROVE  IInv'
  <1>1. TypeOK'
    BY DEF ResolvePending, TypeOK, IInv
  <1>2. InspectionFits'
    BY DEF ResolvePending, InspectionFits, IInv
  <1>3. ASSUME NEW m \in Tabs PROVE SpaceFits(m)'
    BY DEF ResolvePending, Unpublished, SpaceFits, IInv
  <1>4. Cardinality(OpenTabs)' <= MaxOpen
    <2>1. OpenTabs' = OpenTabs
      BY DEF ResolvePending, OpenTabs, IInv
    <2> QED
      BY <2>1 DEF IInv
  <1> QED
    BY <1>1, <1>2, <1>3, <1>4 DEF IInv

LEMMA InspectKeeps ==
    ASSUME StoreBounds, IInv, NEW n \in Tabs, NEW source \in Sources, Inspect(n, source)
    PROVE  IInv'
  <1>1. TypeOK'
    BY DEF Record, Stored, Inspect, Places, Selections, Records, Contexts, TabRecords, Inspections,
       TypeOK, IInv
  <1>2. InspectionFits'
    BY DEF Inspect, ContextFits, InspectionFits, IInv
  <1>3. ASSUME NEW m \in Tabs PROVE SpaceFits(m)'
    BY DEF NoInspection, Command, Inspect, Unpublished, SpaceFits, IInv
  <1>4. Cardinality(OpenTabs)' <= MaxOpen
    <2>1. OpenTabs' = OpenTabs
      BY DEF Inspect, OpenTabs, IInv
    <2> QED
      BY <2>1 DEF IInv
  <1> QED
    BY <1>1, <1>2, <1>3, <1>4 DEF IInv

LEMMA ReconcileKeeps ==
    ASSUME StoreBounds, IInv, NEW record \in inspection.todo, Reconcile(record)
    PROVE  IInv'
  <1> DEFINE done == [inspection EXCEPT !.todo = inspection.todo \ {record}]
             context == [inspection.context EXCEPT !.entries = inspection.context.entries \cup {record}]
             kept == [done EXCEPT !.context = context]
  <1>1. /\ inspection \in Inspections /\ inspection.at = "reconcile" /\ inspection.tab \in Tabs
        /\ record \in Records
    BY DEF Reconcile, IInv, TypeOK, InspectionFits, Inspections
  <1>2. inspection' \in {done, kept}
    BY <1>1 DEF Reconcile, Inspections
  <1>3. done \in Inspections /\ kept \in Inspections
    <2>1. inspection.todo \ {record} \in SUBSET Records
      BY <1>1 DEF Inspections
    <2>2. context \in Contexts
      BY <1>1 DEF Inspections, Contexts
    <2>3. done \in Inspections
      BY <1>1, <2>1 DEF Inspections
    <2> HIDE DEF context, done
    <2>4. kept \in Inspections
      BY <2>2, <2>3 DEF Inspections
    <2> QED
      BY <2>3, <2>4
  <1>4. profile' \in [Tabs -> [Profiles -> Files]]
    <2> DEFINE n == inspection.tab
               schema == inspection.context.selected.schema
    <2>1. CASE profile' = profile
      BY <2>1 DEF IInv, TypeOK
    <2>2. CASE profile' = [profile EXCEPT ![n][record.id].schema = schema]
      <3>1. schema \in Schemas \cup {0} /\ record.id \in Profiles
        BY <1>1 DEF Inspections, Contexts, Selections, Records
      <3>2. profile' = [profile EXCEPT ![n] = [profile[n] EXCEPT ![record.id] =
                           [profile[n][record.id] EXCEPT !.schema = schema]]]
        BY <1>1, <2>2, <3>1 DEF IInv, TypeOK
      <3>3. profile[n] \in [Profiles -> Files] /\ profile[n][record.id] \in Files
        BY <1>1, <3>1 DEF IInv, TypeOK
      <3>4. [profile[n][record.id] EXCEPT !.schema = schema] \in Files
        BY <3>1, <3>3 DEF Files
      <3> HIDE DEF n, schema
      <3>5. [profile[n] EXCEPT ![record.id] = [profile[n][record.id] EXCEPT !.schema = schema]]
               \in [Profiles -> Files]
        BY <3>3, <3>4
      <3> QED
        BY <3>2, <3>5 DEF IInv, TypeOK
    <2> QED
      BY <2>1, <2>2 DEF Reconcile
  <1>5. /\ inspection'.context.selected = inspection.context.selected
        /\ inspection'.context.reference = inspection.context.reference
        /\ inspection'.context.relocation = inspection.context.relocation
        /\ inspection'.at = "reconcile" /\ inspection'.tab = inspection.tab
        /\ inspection'.bound = inspection.bound
    <2>1. /\ done.at = inspection.at /\ done.tab = inspection.tab /\ done.bound = inspection.bound
          /\ done.context = inspection.context /\ done \in Inspections
      BY <1>1, <1>3 DEF Inspections
    <2>2. /\ context.selected = inspection.context.selected
          /\ context.reference = inspection.context.reference
          /\ context.relocation = inspection.context.relocation
      BY <1>1 DEF Inspections, Contexts
    <2> HIDE DEF context, done
    <2>3. /\ kept.at = done.at /\ kept.tab = done.tab /\ kept.bound = done.bound
          /\ kept.context = context
      BY <2>1 DEF Inspections
    <2> HIDE DEF kept
    <2> QED
      BY <1>1, <1>2, <2>1, <2>2, <2>3
  <1> HIDE DEF done, kept, context
  <1>6. UNCHANGED <<tab, pending, content, space>>
    BY DEF Reconcile
  <1>7. TypeOK'
    BY <1>2, <1>3, <1>4, <1>6 DEF IInv, TypeOK
  <1>8. InspectionFits'
    BY <1>1, <1>5, <1>6 DEF IInv, InspectionFits, ContextFits, CheckSigner
  <1>9. ASSUME NEW m \in Tabs PROVE SpaceFits(m)'
    BY <1>1, <1>5, <1>6 DEF IInv, SpaceFits, Unpublished, ContextFits, CheckSigner
  <1>10. OpenTabs' = OpenTabs
    BY <1>6 DEF OpenTabs
  <1> QED
    BY <1>7, <1>8, <1>9, <1>10 DEF IInv

LEMMA ReconciledKeeps ==
    ASSUME StoreBounds, IInv, Reconciled
    PROVE  IInv'
  <1>1. TypeOK'
    BY DEF Reconciled, Inspections, TypeOK, IInv
  <1>2. InspectionFits'
    BY DEF Reconciled, InspectionFits, IInv
  <1>3. ASSUME NEW m \in Tabs PROVE SpaceFits(m)'
    BY DEF Reconciled, Unpublished, SpaceFits, IInv
  <1>4. Cardinality(OpenTabs)' <= MaxOpen
    <2>1. OpenTabs' = OpenTabs
      BY DEF Reconciled, OpenTabs, IInv
    <2> QED
      BY <2>1 DEF IInv
  <1> QED
    BY <1>1, <1>2, <1>3, <1>4 DEF IInv

LEMMA BindKeeps ==
    ASSUME StoreBounds, IInv, Bind
    PROVE  IInv'
  <1> DEFINE n == inspection.tab
             source == inspection.context.selected.source
  <1>1. /\ inspection \in Inspections /\ inspection.at = "bind" /\ n \in Tabs
        /\ source \in Places
    BY DEF Bind, IInv, TypeOK, InspectionFits, Inspections, Contexts, Selections
  <1>2. UNCHANGED <<profile, pending, content, space>>
    BY DEF Bind
  <1>3. PICK bound \in {"ok", "incompatible", "failed"} :
            /\ inspection' = [inspection EXCEPT !.at = "publish", !.bound = bound]
            /\ tab' = IF bound = "ok" THEN [tab EXCEPT ![n].source = source] ELSE tab
    BY DEF Bind
  <1>4. tab' = [tab EXCEPT ![n] = [tab[n] EXCEPT !.source = IF bound = "ok" THEN source ELSE tab[n].source]]
    BY <1>1, <1>3 DEF IInv, TypeOK, TabRecords
  <1>5. /\ inspection' \in Inspections /\ inspection'.at = "publish" /\ inspection'.tab = n
        /\ inspection'.context = inspection.context /\ inspection'.bound = bound
    BY <1>1, <1>3 DEF Inspections
  <1>6. tab' \in [Tabs -> TabRecords]
    <2>1. [tab[n] EXCEPT !.source = IF bound = "ok" THEN source ELSE tab[n].source] \in TabRecords
      BY <1>1 DEF IInv, TypeOK, TabRecords
    <2> QED
      BY <1>1, <1>4, <2>1 DEF IInv, TypeOK
  <1>7. ASSUME NEW m \in Tabs
        PROVE  /\ tab'[m].at = tab[m].at /\ tab'[m].open = tab[m].open
               /\ tab'[m].source = IF m = n /\ bound = "ok" THEN source ELSE tab[m].source
               /\ m # n => tab'[m] = tab[m]
    BY <1>1, <1>4 DEF IInv, TypeOK, TabRecords
  <1>8. bound = "ok" => tab[n].at = "saved"
    BY <1>1, <1>3 DEF Bind, Saved, Inspections
  <1> HIDE DEF n, source
  <1>9. TypeOK'
    BY <1>2, <1>5, <1>6 DEF IInv, TypeOK
  <1>10. InspectionFits'
    BY <1>1, <1>2, <1>5, <1>7 DEF IInv, InspectionFits, n, source
  <1>11. ASSUME NEW m \in Tabs PROVE SpaceFits(m)'
    <2>1. ContextFits(space[m].recovery)'
      BY <1>2 DEF IInv, SpaceFits, ContextFits, CheckSigner
    <2>2. space[m].open' => tab[m].open'
      BY <1>2, <1>7 DEF IInv, SpaceFits
    <2>3. (tab[m].at = "absent" => tab[m] = NoTab)'
      <3>1. CASE m = n /\ bound = "ok"
        BY <1>7, <1>8, <3>1
      <3>2. CASE ~(m = n /\ bound = "ok")
        <4>1. tab'[m] = tab[m]
          BY <1>3, <1>7, <3>2
        <4> QED
          BY <4>1 DEF IInv, SpaceFits, NoTab
      <3> QED
        BY <3>1, <3>2
    <2>4. (space[m].open /\ space[m].selected # NoSelection /\ ~Unpublished(m) =>
              space[m].selected.source = tab[m].source)'
      BY <1>1, <1>2, <1>5, <1>7 DEF IInv, SpaceFits, Unpublished, n
    <2> QED
      BY <2>1, <2>2, <2>3, <2>4 DEF SpaceFits
  <1>12. OpenTabs' = OpenTabs
    BY <1>7 DEF OpenTabs
  <1> QED
    BY <1>9, <1>10, <1>11, <1>12 DEF IInv

LEMMA PublishInspectionKeeps ==
    ASSUME StoreBounds, IInv, PublishInspection
    PROVE  IInv'
  <1> DEFINE n == inspection.tab
             next == Published(space[n], inspection.context, inspection.bound)
  <1>1. n \in Tabs /\ inspection.at = "publish" /\ inspection.context \in Contexts
    BY DEF PublishInspection, IInv, InspectionFits, TypeOK, Inspections
  <1>2. space[n] \in Spaces /\ ContextFits(space[n].recovery) /\ ContextFits(inspection.context)
    BY <1>1 DEF IInv, InspectionFits, SpaceFits, TypeOK
  <1>3. /\ next \in Spaces /\ next.open = space[n].open /\ ContextFits(next.recovery)
        /\ inspection.bound = "ok" => next.selected = inspection.context.selected
        /\ inspection.bound # "ok" => next.selected \in {NoSelection, space[n].selected}
    BY <1>1, <1>2, PublishedFits
  <1>4. \/ space' = space /\ inspection.bound # "ok"
        \/ space' = [space EXCEPT ![n] = next]
    BY DEF PublishInspection
  <1>5. inspection' = NoInspection /\ UNCHANGED <<tab, profile, pending, content>>
    BY DEF PublishInspection
  <1> HIDE DEF next
  <1>6. TypeOK'
    BY <1>1, <1>3, <1>4, <1>5, Shapes DEF IInv, TypeOK
  <1>7. InspectionFits'
    BY <1>5, Shapes DEF InspectionFits, NoInspection, ContextFits, CheckSigner
  <1>8. ASSUME NEW m \in Tabs PROVE SpaceFits(m)'
    <2>1. CASE space'[m] = space[m] /\ ~Unpublished(m)
      BY <1>5, <2>1 DEF IInv, SpaceFits, Unpublished, ContextFits, CheckSigner
    <2>2. CASE m = n /\ space'[m] = next
      <3>1. inspection.bound = "ok" => next.selected.source = tab[n].source
        BY <1>1, <1>3 DEF IInv, InspectionFits
      <3>2. inspection.bound # "ok" => ~Unpublished(n)
        BY DEF Unpublished
      <3> QED
        BY <1>1, <1>3, <1>5, <2>2, <3>1, <3>2 DEF IInv, SpaceFits, ContextFits, CheckSigner
    <2>3. (space'[m] = space[m] /\ ~Unpublished(m)) \/ (m = n /\ space'[m] = next)
      BY <1>1, <1>4 DEF IInv, TypeOK, Unpublished
    <2> QED
      BY <2>1, <2>2, <2>3
  <1>9. OpenTabs' = OpenTabs
    BY <1>5 DEF OpenTabs
  <1> QED
    BY <1>6, <1>7, <1>8, <1>9 DEF IInv

LEMMA RestartKeeps ==
    ASSUME StoreBounds, IInv, Restart
    PROVE  IInv'
  <1>1. PICK verified \in [Tabs -> BOOLEAN] :
            space' = [n \in Tabs |-> IF Saved(n) /\ tab[n].open THEN Restored(n, verified[n]) ELSE Closed]
    BY DEF Restart
  <1>2. ASSUME NEW n \in Tabs
        PROVE  /\ Restored(n, verified[n]) \in Spaces /\ Restored(n, verified[n]).recovery = NoRecovery
               /\ \/ Restored(n, verified[n]).selected = NoSelection
                  \/ Restored(n, verified[n]).selected.source = tab[n].source
    BY RestoredFits DEF IInv
  <1>3. inspection' = NoInspection /\ UNCHANGED <<tab, profile, content>>
    BY DEF Restart
  <1>4. TypeOK'
    <2>1. pending' \subseteq Tabs
      BY DEF Restart, IInv, TypeOK
    <2>2. space' \in [Tabs -> Spaces]
      BY <1>1, <1>2, Shapes
    <2> QED
      BY <1>3, <2>1, <2>2, Shapes DEF IInv, TypeOK
  <1>5. InspectionFits'
    BY <1>3, Shapes DEF InspectionFits, NoInspection, ContextFits, CheckSigner
  <1>6. ASSUME NEW m \in Tabs PROVE SpaceFits(m)'
    <2>1. CASE space'[m] = Restored(m, verified[m]) /\ tab[m].open
      BY <1>2, <1>3, <2>1, Shapes DEF IInv, SpaceFits, ContextFits, CheckSigner
    <2>2. CASE space'[m] = Closed
      BY <1>3, <2>2, Shapes DEF IInv, SpaceFits, ContextFits, CheckSigner, Closed
    <2> QED
      BY <1>1, <2>1, <2>2
  <1>7. OpenTabs' = OpenTabs
    BY <1>3 DEF OpenTabs
  <1> QED
    BY <1>4, <1>5, <1>6, <1>7 DEF IInv

LEMMA MutateRecoveryKeeps ==
    ASSUME StoreBounds, IInv, NEW n \in Tabs, NEW values \in Values,
           NEW record \in space[n].recovery.entries, MutateRecovery(n, record, values)
    PROVE  IInv'
  <1> DEFINE context == [space[n].recovery EXCEPT !.entries = space[n].recovery.entries \ {record}]
             schema == space[n].recovery.selected.schema
  <1>1. space[n] \in Spaces /\ space[n].recovery \in Contexts
    BY DEF IInv, TypeOK, Spaces
  <1>2. context \in Contexts /\ schema \in Schemas \cup {0} /\ record.id \in Profiles
    BY <1>1 DEF Contexts, Selections, Records
  <1>3. ContextFits(context)
    BY <1>1 DEF Contexts, ContextFits, CheckSigner, IInv, SpaceFits
  <1>4. space' = [space EXCEPT ![n] = [space[n] EXCEPT !.recovery = context]]
    BY <1>1 DEF MutateRecovery, IInv, TypeOK, Spaces
  <1>5. profile' \in [Tabs -> [Profiles -> Files]]
    <2>1. [schema |-> schema, values |-> values] \in Files
      BY <1>2 DEF Files
    <2>2. profile' = [profile EXCEPT ![n] = [profile[n] EXCEPT ![record.id] = [schema |-> schema, values |-> values]]]
      BY DEF MutateRecovery, IInv, TypeOK
    <2>3. profile[n] \in [Profiles -> Files]
      BY DEF IInv, TypeOK
    <2> HIDE DEF schema
    <2>4. [profile[n] EXCEPT ![record.id] = [schema |-> schema, values |-> values]] \in [Profiles -> Files]
      BY <2>1, <2>3
    <2> QED
      BY <2>2, <2>4 DEF IInv, TypeOK
  <1>6. UNCHANGED <<tab, pending, content, inspection>>
    BY DEF MutateRecovery
  <1> HIDE DEF context
  <1>7. space' \in [Tabs -> Spaces]
    <2>1. [space[n] EXCEPT !.recovery = context] \in Spaces
      BY <1>1, <1>2 DEF Spaces
    <2> QED
      BY <1>4, <2>1 DEF IInv, TypeOK
  <1>8. ASSUME NEW m \in Tabs
        PROVE  /\ space'[m].open = space[m].open /\ space'[m].selected = space[m].selected
               /\ space'[m].recovery \in {space[m].recovery, context}
    BY <1>1, <1>4 DEF IInv, TypeOK, Spaces
  <1>9. TypeOK'
    BY <1>5, <1>6, <1>7 DEF IInv, TypeOK
  <1>10. InspectionFits'
    BY <1>6, <1>8 DEF IInv, InspectionFits, ContextFits, CheckSigner
  <1>11. ASSUME NEW m \in Tabs PROVE SpaceFits(m)'
    BY <1>3, <1>6, <1>8 DEF IInv, SpaceFits, Unpublished, ContextFits, CheckSigner
  <1>12. OpenTabs' = OpenTabs
    BY <1>6 DEF OpenTabs
  <1> QED
    BY <1>9, <1>10, <1>11, <1>12 DEF IInv

LEMMA DeleteProfileKeeps ==
    ASSUME StoreBounds, IInv, NEW n \in Tabs, NEW id \in Profiles, DeleteProfile(n, id)
    PROVE  IInv'
  <1>1. TypeOK'
    BY DEF NoProfile, DeleteProfile, Files, TypeOK, IInv
  <1>2. InspectionFits'
    BY DEF DeleteProfile, InspectionFits, IInv
  <1>3. ASSUME NEW m \in Tabs PROVE SpaceFits(m)'
    BY DEF DeleteProfile, Unpublished, SpaceFits, IInv
  <1>4. Cardinality(OpenTabs)' <= MaxOpen
    <2>1. OpenTabs' = OpenTabs
      BY DEF DeleteProfile, OpenTabs, IInv
    <2> QED
      BY <2>1 DEF IInv
  <1> QED
    BY <1>1, <1>2, <1>3, <1>4 DEF IInv

LEMMA EditProfileKeeps ==
    ASSUME StoreBounds, IInv, NEW n \in Tabs, NEW id \in Profiles, EditProfile(n, id)
    PROVE  IInv'
  <1>1. TypeOK'
    <2>1. PICK values \in Values : profile' = [profile EXCEPT ![n][id].values = values]
      BY DEF EditProfile
    <2>2. profile[n] \in [Profiles -> Files] /\ profile[n][id] \in Files
      BY DEF IInv, TypeOK
    <2>3. [profile[n][id] EXCEPT !.values = values] \in Files
      BY <2>1, <2>2 DEF Files
    <2>4. [profile[n] EXCEPT ![id] = [profile[n][id] EXCEPT !.values = values]] \in [Profiles -> Files]
      BY <2>2, <2>3
    <2>5. profile' = [profile EXCEPT ![n] = [profile[n] EXCEPT ![id] =
                         [profile[n][id] EXCEPT !.values = values]]]
      BY <2>1, <2>2 DEF IInv, TypeOK
    <2> QED
      BY <2>4, <2>5 DEF EditProfile, IInv, TypeOK
  <1>2. InspectionFits'
    BY DEF EditProfile, InspectionFits, IInv
  <1>3. ASSUME NEW m \in Tabs PROVE SpaceFits(m)'
    BY DEF EditProfile, Unpublished, SpaceFits, IInv
  <1>4. OpenTabs' = OpenTabs
    BY DEF EditProfile, OpenTabs
  <1> QED
    BY <1>1, <1>2, <1>3, <1>4 DEF IInv

LEMMA SaveProfileKeeps ==
    ASSUME StoreBounds, IInv, NEW n \in Tabs, NEW id \in Profiles, NEW values \in Values, SaveProfile(n, id, values)
    PROVE  IInv'
  <1>1. TypeOK'
    BY DEF SaveProfile, Selections, Files, Spaces, TypeOK, IInv
  <1>2. InspectionFits'
    BY DEF SaveProfile, InspectionFits, IInv
  <1>3. ASSUME NEW m \in Tabs PROVE SpaceFits(m)'
    BY DEF SaveProfile, Unpublished, SpaceFits, IInv
  <1>4. Cardinality(OpenTabs)' <= MaxOpen
    <2>1. OpenTabs' = OpenTabs
      BY DEF SaveProfile, OpenTabs, IInv
    <2> QED
      BY <2>1 DEF IInv
  <1> QED
    BY <1>1, <1>2, <1>3, <1>4 DEF IInv

LEMMA EditPackageKeeps ==
    ASSUME StoreBounds, IInv, NEW source \in Sources, EditPackage(source)
    PROVE  IInv'
  <1>1. TypeOK'
    BY DEF EditPackage, TypeOK, IInv
  <1>2. InspectionFits'
    BY DEF EditPackage, InspectionFits, IInv
  <1>3. ASSUME NEW m \in Tabs PROVE SpaceFits(m)'
    BY DEF EditPackage, Unpublished, SpaceFits, IInv
  <1>4. Cardinality(OpenTabs)' <= MaxOpen
    <2>1. OpenTabs' = OpenTabs
      BY DEF EditPackage, OpenTabs, IInv
    <2> QED
      BY <2>1 DEF IInv
  <1> QED
    BY <1>1, <1>2, <1>3, <1>4 DEF IInv

LEMMA InitFits == ASSUME StoreBounds, Init PROVE IInv
  <1>1. TypeOK
    <2>1. NoTab \in TabRecords /\ NoProfile \in Files
      BY DEF NoTab, NoProfile, TabRecords, Files, Places
    <2> QED
      BY <2>1, Shapes DEF Init, TypeOK
  <1>2. InspectionFits
    BY Shapes DEF Init, InspectionFits, NoInspection
  <1>3. ASSUME NEW n \in Tabs PROVE SpaceFits(n)
    BY Shapes DEF Init, SpaceFits, Closed
  <1>4. OpenTabs = {}
    BY DEF Init, OpenTabs, NoTab
  <1> QED
    BY <1>1, <1>2, <1>3, <1>4, FS_EmptySet DEF IInv, StoreBounds

LEMMA StutterKeeps == ASSUME IInv, UNCHANGED storeVars PROVE IInv'
  BY DEF storeVars, IInv, TypeOK, InspectionFits, SpaceFits, Unpublished, OpenTabs

LEMMA StepKeeps == ASSUME StoreBounds, IInv, [Next]_storeVars PROVE IInv'
  <1>1. CASE UNCHANGED storeVars
    BY <1>1, StutterKeeps
  <1>2. ASSUME NEW n \in Tabs,
               \/ CreateWorkspace(n) \/ ReopenWorkspace(n) \/ CloseWorkspace(n) \/ RetryBinding(n)
               \/ DiscardRecovery(n) \/ SpoilTab(n) \/ ResolvePending(n)
        PROVE  IInv'
    BY <1>2, CreateWorkspaceKeeps, ReopenWorkspaceKeeps, CloseWorkspaceKeeps, RetryBindingKeeps,
       DiscardRecoveryKeeps, SpoilTabKeeps, ResolvePendingKeeps
  <1>3. ASSUME NEW n \in Inspected, NEW source \in Sources, Inspect(n, source) PROVE IInv'
    BY <1>3, InspectKeeps DEF StoreBounds
  <1>4. ASSUME NEW record \in inspection.todo, Reconcile(record) PROVE IInv'
    BY <1>4, ReconcileKeeps
  <1>5. CASE Reconciled \/ Bind \/ PublishInspection \/ Restart
    BY <1>5, ReconciledKeeps, BindKeeps, PublishInspectionKeeps, RestartKeeps
  <1>6. ASSUME NEW n \in Tabs, NEW values \in Values, NEW record \in space[n].recovery.entries,
               MutateRecovery(n, record, values)
        PROVE  IInv'
    BY <1>6, MutateRecoveryKeeps
  <1>7. ASSUME NEW n \in Tabs, NEW id \in Profiles, DeleteProfile(n, id) \/ EditProfile(n, id)
        PROVE  IInv'
    BY <1>7, DeleteProfileKeeps, EditProfileKeeps
  <1>8. ASSUME NEW n \in Tabs, NEW id \in Profiles, NEW values \in Values, SaveProfile(n, id, values)
        PROVE  IInv'
    BY <1>8, SaveProfileKeeps
  <1>9. ASSUME NEW source \in Sources, EditPackage(source) PROVE IInv'
    BY <1>9, EditPackageKeeps
  <1> QED
    BY <1>1, <1>2, <1>3, <1>4, <1>5, <1>6, <1>7, <1>8, <1>9 DEF Next

LEMMA InvAgrees == ASSUME IInv PROVE WorkspacesAgree
  BY DEF IInv, SpaceFits, Unpublished, Command, NoInspection, WorkspacesAgree, OpenTabs

\* Only Bind gives a bound Tab another source.
LEMMA OnlyBind ==
    ASSUME IInv, Next, NEW n \in Tabs, tab[n].source # NoSource, tab'[n].source # tab[n].source
    PROVE  Bind /\ n = inspection.tab
  <1> USE DEF IInv, TypeOK, TabRecords
  <1>1. ASSUME NEW m \in Tabs, \/ CreateWorkspace(m) \/ ReopenWorkspace(m) \/ CloseWorkspace(m)
                               \/ RetryBinding(m) \/ DiscardRecovery(m) \/ SpoilTab(m) \/ ResolvePending(m)
        PROVE  FALSE
    <2>1. CASE CreateWorkspace(m)
      BY <2>1 DEF CreateWorkspace, NoTab
    <2>2. CASE ReopenWorkspace(m) \/ CloseWorkspace(m) \/ SpoilTab(m)
      <3>1. CASE ReopenWorkspace(m) \/ CloseWorkspace(m)
        <4>1. PICK open \in BOOLEAN : tab' = [tab EXCEPT ![m].open = open]
          BY <3>1 DEF ReopenWorkspace, CloseWorkspace
        <4> QED
          BY <4>1
      <3>2. CASE SpoilTab(m)
        <4>1. PICK at \in {"saved", "bad"} : tab' = [tab EXCEPT ![m].at = at]
          BY <3>2 DEF SpoilTab
        <4> QED
          BY <4>1
      <3> QED
        BY <2>2, <3>1, <3>2
    <2>3. CASE RetryBinding(m) \/ DiscardRecovery(m) \/ ResolvePending(m)
      BY <2>3 DEF RetryBinding, DiscardRecovery, ResolvePending
    <2> QED
      BY <1>1, <2>1, <2>2, <2>3
  <1>2. ASSUME NEW m \in Inspected, NEW source \in Sources, Inspect(m, source) PROVE FALSE
    BY <1>2 DEF Inspect
  <1>3. ASSUME NEW record \in inspection.todo, Reconcile(record) PROVE FALSE
    BY <1>3 DEF Reconcile
  <1>4. CASE Bind
    BY <1>4 DEF Bind
  <1>5. CASE Reconciled \/ PublishInspection \/ Restart
    BY <1>5 DEF Reconciled, PublishInspection, Restart
  <1>6. ASSUME NEW m \in Tabs, NEW values \in Values, NEW record \in space[m].recovery.entries,
               MutateRecovery(m, record, values)
        PROVE  FALSE
    BY <1>6 DEF MutateRecovery
  <1>7. ASSUME NEW m \in Tabs, NEW id \in Profiles, DeleteProfile(m, id) \/ EditProfile(m, id)
        PROVE  FALSE
    BY <1>7 DEF DeleteProfile, EditProfile
  <1>8. ASSUME NEW m \in Tabs, NEW id \in Profiles, NEW values \in Values, SaveProfile(m, id, values)
        PROVE  FALSE
    BY <1>8 DEF SaveProfile
  <1>9. ASSUME NEW source \in Sources, EditPackage(source) PROVE FALSE
    BY <1>9 DEF EditPackage
  <1> QED
    BY <1>1, <1>2, <1>3, <1>4, <1>5, <1>6, <1>7, <1>8, <1>9 DEF Next

\* Only MutateRecovery takes a record of a context that stays, and writes a profile in the same step.
LEMMA OnlyMutate ==
    ASSUME IInv, Next, NEW n \in Tabs, space'[n] # space[n], profile' # profile
    PROVE  \E values \in Values : \E record \in space[n].recovery.entries : MutateRecovery(n, record, values)
  <1>1. ASSUME NEW m \in Tabs, \/ CreateWorkspace(m) \/ ReopenWorkspace(m) \/ CloseWorkspace(m)
                               \/ RetryBinding(m) \/ DiscardRecovery(m) \/ SpoilTab(m) \/ ResolvePending(m)
        PROVE  FALSE
    BY <1>1 DEF CreateWorkspace, ReopenWorkspace, CloseWorkspace, RetryBinding, DiscardRecovery,
       SpoilTab, ResolvePending
  <1>2. ASSUME NEW m \in Inspected, NEW source \in Sources, Inspect(m, source) PROVE FALSE
    BY <1>2 DEF Inspect
  <1>3. ASSUME NEW record \in inspection.todo, Reconcile(record) PROVE FALSE
    BY <1>3 DEF Reconcile
  <1>4. CASE Reconciled \/ Bind \/ PublishInspection \/ Restart
    BY <1>4 DEF Reconciled, Bind, PublishInspection, Restart
  <1>5. ASSUME NEW m \in Tabs, NEW values \in Values, NEW record \in space[m].recovery.entries,
               MutateRecovery(m, record, values)
        PROVE  m = n
    <2>1. space' = [space EXCEPT ![m].recovery.entries = @ \ {record}]
      BY <1>5 DEF MutateRecovery
    <2> QED
      BY <2>1 DEF IInv, TypeOK
  <1>6. ASSUME NEW m \in Tabs, NEW id \in Profiles, DeleteProfile(m, id) \/ EditProfile(m, id)
        PROVE  FALSE
    BY <1>6 DEF DeleteProfile, EditProfile
  <1>7. ASSUME NEW m \in Tabs, NEW id \in Profiles, NEW values \in Values, SaveProfile(m, id, values)
        PROVE  FALSE
    BY <1>7 DEF SaveProfile
  <1>8. ASSUME NEW source \in Sources, EditPackage(source) PROVE FALSE
    BY <1>8 DEF EditPackage
  <1> QED
    BY <1>1, <1>2, <1>3, <1>4, <1>5, <1>6, <1>7, <1>8 DEF Next

LEMMA StepIsSafe ==
    ASSUME StoreBounds, IInv, [Next]_storeVars
    PROVE  [ReplacementIsSafeStep]_storeVars
  <1> SUFFICES ASSUME Next PROVE ReplacementIsSafeStep
    OBVIOUS
  <1>1. ASSUME NEW n \in Tabs, NoSource \notin {tab[n].source, tab'[n].source},
               tab'[n].source # tab[n].source
        PROVE  /\ \A id \in Stored(n) : Serves(profile[n][id], inspection.context.selected.schema)
               /\ {tab[n].source, tab'[n].source} \subseteq Installed =>
                     Signer(tab[n].source) = Signer(tab'[n].source)
    <2> DEFINE context == inspection.context
    <2>1. Bind /\ n = inspection.tab
      BY <1>1, OnlyBind
    <2>2. /\ context.reference = tab[n].source /\ ContextFits(context)
      BY <2>1 DEF Bind, IInv, InspectionFits
    <2>3. MayBind(n, context) /\ tab'[n].source = context.selected.source
      BY <1>1, <2>1 DEF Bind, IInv, TypeOK, TabRecords
    <2>4. context.relocation
      BY <1>1, <2>2, <2>3 DEF ContextFits
    <2>5. Compatible(n, context.selected.schema)
      BY <2>3, <2>4 DEF MayBind
    <2> QED
      BY <2>2, <2>3, <2>5 DEF Compatible, ContextFits, CheckSigner
  <1>2. ASSUME NEW n \in Tabs, NEW record \in space[n].recovery.entries,
               record \notin space'[n].recovery.entries, profile' # profile
        PROVE  profile[n][record.id] = record.original
    <2>1. PICK values \in Values : \E other \in space[n].recovery.entries : MutateRecovery(n, other, values)
      BY <1>2, OnlyMutate
    <2>2. PICK other \in space[n].recovery.entries : MutateRecovery(n, other, values)
      BY <2>1
    <2>3. space'[n].recovery.entries = space[n].recovery.entries \ {other}
      BY <2>2 DEF MutateRecovery, IInv, TypeOK, Spaces, Contexts
    <2>4. profile[n][other.id] = other.original
      BY <2>2 DEF MutateRecovery
    <2>5. other = record
      BY <1>2, <2>3
    <2> QED
      BY <2>4, <2>5
  <1> QED
    BY <1>1, <1>2 DEF ReplacementIsSafeStep

-----------------------------------------------------------------------------
\* What may ever be said of the store and the session: their types, and that each repair context and
\* inspection is about the source its Tab names (recovery.rs, storage/tabs.rs).
THEOREM StoreCorrect == ASSUME StoreBounds PROVE Spec => []IInv
  <1>1. Init => IInv
    BY InitFits
  <1>2. IInv /\ [Next]_storeVars => IInv'
    BY StepKeeps
  <1> QED
    BY <1>1, <1>2, PTL DEF Spec

\* Between commands, what a Workspace would run is what its Tab names on disk, and the Tabs that the
\* next session would open are never more than it accepts (recovery.rs: publish_inspection;
\* storage/tabs.rs: ensure_open_slot).
THEOREM WorkspacesStayAgreed == ASSUME StoreBounds PROVE Spec => []WorkspacesAgree
  <1>1. IInv => WorkspacesAgree
    BY InvAgrees
  <1> QED
    BY <1>1, StoreCorrect, PTL

\* A source replaces another only when every saved profile serves under it, and an installed release
\* only one of the same signer; a profile that recovery rewrites is still the one it had read
\* (recovery.rs: inspect_candidate, retry_binding, check_signer; storage/profiles.rs: replace_recovery).
THEOREM ReplacementStaysSafe == ASSUME StoreBounds PROVE Spec => ReplacementIsSafe
  <1>1. IInv /\ [Next]_storeVars => [ReplacementIsSafeStep]_storeVars
    BY StepIsSafe
  <1> QED
    BY <1>1, StoreCorrect, PTL DEF Spec, ReplacementIsSafe
=============================================================================
