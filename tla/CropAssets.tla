------------------------------ MODULE CropAssets ------------------------------
(***************************************************************************)
(* The package that a recognition Save writes: which asset each            *)
(* definition's saved crop is, which assets are replaced, given a name of  *)
(* their own or removed, and which ones other JSON files of the package    *)
(* still refer to (authoring/recognition.rs, apply).                       *)
(***************************************************************************)
EXTENDS Naturals, FiniteSets
LOCAL INSTANCE FiniteSetsExt

CONSTANTS Definitions,  \* definitions of the package's captures
          Assets,       \* bound: asset identities; their file names follow their order
          Pixels        \* contents of a crop

AssetConstants == Assets \subseteq Nat \ {0} /\ 0 \notin Pixels

VARIABLES saved,     \* the asset of each definition's crop; NoCrop without one, Gone without the definition
          declared,  \* the content of each declared asset, 0 when it is not declared
          referred   \* assets that an unrelated JSON file refers to

assetVars == <<saved, declared, referred>>

NoCrop == 0
Gone == Cardinality(Assets) + 1
Kept(s) == {s[d] : d \in Definitions} \ {NoCrop, Gone}
Init ==
    /\ saved = [d \in Definitions |-> NoCrop]
    /\ declared = [a \in Assets |-> 0] /\ referred = {}

\* What a draft may submit for a definition: nothing, which keeps what it has, or an asset that
\* some definition has, but not in place of another one of its own.
Submits(d, a) == a \in Kept(saved) /\ (saved[d] \in {NoCrop, Gone} \/ saved[d] = a)
Merged(d, a) == IF a = NoCrop /\ saved[d] # Gone THEN saved[d] ELSE a
Packages == {s \in [Definitions -> Assets \cup {NoCrop, Gone}] :
                 \A d \in Definitions : s[d] \in {NoCrop, Gone} \/ Submits(d, s[d])}

\* Mutant: only the definitions are asked whether a crop is somebody else's too.
SharedByDefinitions(s, d) == Cardinality({e \in Definitions : s[e] = s[d]}) > 1
\* A crop that anything else refers to is not written over.
Shared(s, d) == Cardinality({e \in Definitions : s[e] = s[d]}) > 1 \/ s[d] \in referred
\* Numbered after every other crop file of the package.
Vacant(content) == IF \A a \in Assets : content[a] = 0 THEN Assets
                   ELSE {a \in Assets : \A b \in Assets : content[b] # 0 => a > b}
\* One selected crop: its asset is replaced, or one of its own is declared.
Selected(state, d, pixels) ==
    LET s == state.saved
        own == IF s[d] # NoCrop /\ ~Shared(s, d) THEN s[d] ELSE CHOOSE a \in Vacant(state.declared) : \A b \in Vacant(state.declared) : a <= b
    IN [saved |-> [s EXCEPT ![d] = own], declared |-> [state.declared EXCEPT ![own] = pixels]]
Room(content, crops) == Cardinality(Vacant(content)) >= Cardinality(crops)
\* The assets that no definition keeps go, unless some other file refers to them.
Swept(state) ==
    [state EXCEPT !.declared = [a \in Assets |->
        IF a \in Kept(saved) \ Kept(state.saved) /\ a \notin referred THEN 0 ELSE state.declared[a]]]
SelectedAll(state, crops, pixels) == FoldSet(LAMBDA d, done : Selected(done, d, pixels), state, crops)

Save(draft, crops, pixels) ==
    /\ crops \subseteq {d \in Definitions : draft[d] # Gone} /\ Room(declared, crops)
    /\ LET package == [d \in Definitions |-> Merged(d, draft[d])]
           next == Swept(SelectedAll([saved |-> package, declared |-> declared], crops, pixels)) IN
       saved' = next.saved /\ declared' = next.declared
    /\ UNCHANGED referred

\* check_remove: the catalogue takes an asset away only when nothing refers to it.
Removable(a) == a \notin Kept(saved) \cup referred
Remove(a) ==
    /\ declared[a] # 0 /\ Removable(a)
    /\ declared' = [declared EXCEPT ![a] = 0] /\ UNCHANGED <<saved, referred>>
\* The user's own JSON files of the package.
Refer(a) ==
    /\ declared[a] # 0
    /\ referred' = IF a \in referred THEN referred \ {a} ELSE referred \cup {a}
    /\ UNCHANGED <<saved, declared>>

Next ==
    \/ \E draft \in Packages, crops \in SUBSET Definitions, pixels \in Pixels : Save(draft, crops, pixels)
    \/ \E a \in Assets : Remove(a) \/ Refer(a)
Spec == Init /\ [][Next]_assetVars

-----------------------------------------------------------------------------
\* The step CropsAreKept allows.
CropsAreKeptStep ==
    /\ \A d \in Definitions : saved'[d] \notin {NoCrop, Gone} => declared'[saved'[d]] # 0
    /\ \A a \in referred : declared[a] # 0 => declared'[a] = declared[a]
    /\ \A d, e \in Definitions :
          d # e /\ saved'[d] = saved'[e] /\ saved'[d] = saved[d] /\ saved[d] \notin {NoCrop, Gone}
             => declared'[saved[d]] = declared[saved[d]]

\* Whatever refers to a crop still finds it, and with the pixels it had: a Save changes the pixels
\* of no other definition and of no other file's asset (apply, unrelated_reference, check_remove).
CropsAreKept == [][CropsAreKeptStep]_assetVars
=============================================================================
