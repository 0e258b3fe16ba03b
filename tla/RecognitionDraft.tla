--------------------------- MODULE RecognitionDraft ---------------------------
(***************************************************************************)
(* Recognition authoring under an Edit lease: captures with their geometry *)
(* basis, the single decoded frame, crops staged from earlier frames, the  *)
(* displayed preview, trials and the copies they verify, and Save.         *)
(*                                                                         *)
(* Every operation holds the command mutex; loading, previewing, copying   *)
(* and saving give the workspaces mutex back for their slow part, and a    *)
(* trial gives the command mutex back too while its child runs.  A capture *)
(* has one definition, whose region is 0 while it does not exist; the      *)
(* definition's name, kind and search settings do not matter here.         *)
(***************************************************************************)
EXTENDS Naturals, FiniteSets

CONSTANTS MaxCaptures,   \* bound: captures ever created
          Sizes,         \* raster sizes of the images a user loads
          Drawn,         \* bound: the documents an edit may make
          Original,      \* the package's first document
          Configurations,\* OCR configurations
          MaxRevision,   \* MAX_SESSION_COUNTER
          MaxFrames,     \* bound: frames
          MaxSource      \* bound: revisions of the package source

DraftConstants == /\ {MaxCaptures, MaxRevision, MaxFrames, MaxSource} \subseteq Nat \ {0}
                         /\ Sizes \subseteq Nat \ {0}
                         /\ Drawn \cup {Original} \subseteq [size : Sizes, content : Nat \ {0}, region : Nat]

VARIABLES source,        \* the package on disk
          lease,         \* the lease's revision and the candidate it opened
          recognition,   \* RecognitionState
          command,       \* the command that holds the command mutex
          receipt,       \* the last RecognitionCopy
          configuration  \* the OCR settings in force

draftVars == <<source, lease, recognition, command, receipt, configuration>>

Captures == 1..MaxCaptures
Absent == [size |-> 0, content |-> 0, region |-> 0]
Basis(x) == [size |-> x.size, content |-> x.content]
None == [at |-> "none"]
NoFrame == [id |-> 0, size |-> 0, confirmed |-> FALSE]
\* A trial that failed or became stale is kept for display only, and is NoTrial here.
NoTrial == [revision |-> 0, capture |-> 0, draft |-> 0, frame |-> 0, sample |-> FALSE,
            configuration |-> 0, document |-> Absent]
First(package) == IF \E c \in Captures : package[c] # Absent
                  THEN CHOOSE c \in Captures : package[c] # Absent /\ \A b \in 1..(c - 1) : package[b] = Absent
                  ELSE 0

Init ==
    /\ source = [revision |-> 1, package |-> [c \in Captures |-> IF c = 1 THEN Original ELSE Absent]]
    /\ lease = [revision |-> 1, candidate |-> source]
    /\ recognition = [initialized |-> FALSE, revision |-> 0, from |-> 0, issued |-> 1, next |-> 0, selected |-> 0,
                      package |-> [c \in Captures |-> Absent], saved |-> [c \in Captures |-> Absent],
                      confirmed |-> {}, staged |-> {}, frame |-> NoFrame, preview |-> 0, prepared |-> <<>>,
                      trial |-> NoTrial, run |-> None, zones |-> FALSE]
    /\ command = None /\ receipt = None
    /\ configuration \in Configurations

-----------------------------------------------------------------------------
\* Operations on RecognitionState; each returns the state after it.

Document(r) == IF r.selected = 0 THEN Absent ELSE r.package[r.selected]
\* The bound on the revision is checked before anything is changed.
Advance(r) == [r EXCEPT !.revision = @ + 1, !.trial = NoTrial]
DropFrame(r) == [r EXCEPT !.frame = NoFrame, !.preview = 0]
\* A frame whose raster is not the basis' cannot stay.
Reconcile(r) == IF r.frame.id # 0 /\ Document(r) # Absent /\ r.frame.size # Document(r).size THEN DropFrame(r) ELSE r
Listed(package) == {c \in Captures : package[c] # Absent}
Reselect(r) == IF r.selected # 0 /\ r.package[r.selected] # Absent THEN r
               ELSE DropFrame([r EXCEPT !.selected = First(r.package)])

\* initialize: a clean draft follows the source, a changed source makes earlier evidence stale.
Adopt(r, package) == Reconcile(Reselect([r EXCEPT !.package = package, !.confirmed = Listed(package)]))
Initialize(r) ==
    LET new == lease.candidate.package
        adopted == IF ~r.initialized \/ r.package = r.saved THEN Adopt(r, new) ELSE r
        marked == IF r.initialized /\ new # r.saved
                  THEN [Advance(adopted) EXCEPT !.frame.confirmed = FALSE] ELSE adopted
    IN IF r.initialized /\ r.from = lease.candidate.revision THEN r
       ELSE [marked EXCEPT !.saved = new, !.from = lease.candidate.revision, !.initialized = TRUE]

BasisConfirmed(r, c) == c \in r.confirmed \/ (r.saved[c] # Absent /\ Basis(r.saved[c]) = Basis(r.package[c]))
ReleaseRefused(r, leaving) ==
    (leaving \/ r.frame.id # 0) /\ r.selected # 0 /\ ~BasisConfirmed(r, r.selected)
Release(r) == [DropFrame(Advance(r)) EXCEPT !.staged = {s \in @ : s.capture # r.selected}]

\* A crop is the pixels of a region of one frame; its fingerprint is the basis and the region.
Crop(r, f) == [capture |-> r.selected, frame |-> f.id, raster |-> f.size, basis |-> Basis(Document(r)), region |-> Document(r).region]
Fingerprint(crop) == [basis |-> crop.basis, region |-> crop.region]
StagedFrom(r, id) == {s \in r.staged : s.capture = r.selected /\ s.frame = id}
\* Mutant: a staged crop is taken by its definition alone, whatever was edited since.
AvailableUnchecked(r, id) ==
    /\ Document(r) # Absent /\ Document(r).region # 0
    /\ StagedFrom(r, id) # {} \/ (r.frame.confirmed /\ r.frame.id = id)

\* Pixels asked for are staged ones with the same fingerprint, or are in the confirmed frame.
Available(r, id) ==
    /\ Document(r) # Absent /\ Document(r).region # 0
    /\ IF StagedFrom(r, id) # {} THEN \A s \in StagedFrom(r, id) : Fingerprint(s) = Fingerprint(Crop(r, r.frame))
       ELSE r.frame.confirmed /\ r.frame.id = id
Pixels(r, id) == IF StagedFrom(r, id) # {} THEN StagedFrom(r, id) ELSE {Crop(r, r.frame)}
Stage(r, id) == [r EXCEPT !.staged = {s \in @ : s.capture # r.selected} \cup (IF id = 0 THEN {} ELSE Pixels(r, id))]
\* prepare_image and commit_image: a capture of its own for a new image, or another frame of this one.
InstallRefused(r, new) == r.next = MaxFrames \/ ((new \/ r.selected = 0) /\ r.issued = MaxCaptures)
Fresh(r, size, default) ==
    LET c == r.issued + 1 IN
    [r EXCEPT !.issued = c, !.selected = c, !.package[c] = [size |-> size, content |-> 1, region |-> 0],
              !.confirmed = IF default THEN @ \cup {c} ELSE @,
              !.frame = [id |-> r.next + 1, size |-> size, confirmed |-> default]]
Again(r, size) ==
    [r EXCEPT !.frame = [id |-> r.next + 1, size |-> size,
                         confirmed |-> r.selected \in r.confirmed /\ Document(r).size = size]]
Install(r, size, new, default) ==
    [(IF new \/ r.selected = 0 THEN Fresh(r, size, default) ELSE Again(r, size))
     EXCEPT !.next = r.next + 1, !.prepared = <<>>]

-----------------------------------------------------------------------------
\* Commands that run under both mutexes from beginning to end.

Current == lease.revision = lease.candidate.revision
Idle == recognition.run.at # "running"
Free == command = None /\ Current
Bounded == recognition.revision < MaxRevision - 1
Only(r) == recognition' = r /\ UNCHANGED <<source, lease, command, receipt, configuration>>

View == Free /\ Bounded /\ Only(Initialize(recognition))

Update(d) ==
    /\ Free /\ Idle /\ Bounded
    /\ LET r == Initialize(recognition)
           moved == Basis(d) # Basis(Document(r))
           edited == Advance([r EXCEPT !.package[r.selected] = d]) IN
       /\ r.selected # 0 /\ Document(r) # d
       /\ ~(moved /\ r.frame.id # 0 /\ d.size # r.frame.size)
       /\ Only(IF moved THEN [edited EXCEPT !.confirmed = @ \ {r.selected}, !.frame.confirmed = FALSE] ELSE edited)

Confirm ==
    /\ Free /\ Idle
    /\ LET r == recognition IN
       /\ r.selected # 0 /\ r.frame.id # 0 /\ Document(r).size = r.frame.size
       /\ Only([r EXCEPT !.frame.confirmed = TRUE, !.confirmed = @ \cup {r.selected}])

Discard ==
    /\ Free /\ Idle /\ Bounded
    /\ LET r == Advance(Initialize(recognition))
           back == Reselect([r EXCEPT !.package = r.saved, !.staged = {}, !.confirmed = Listed(r.saved)])
       IN Only([Reconcile(back) EXCEPT !.frame.confirmed = FALSE])

Select(c) ==
    /\ Free /\ Idle /\ Bounded
    /\ LET r == Initialize(recognition) IN
       /\ r.package[c] # Absent /\ r.selected # c /\ ~ReleaseRefused(r, TRUE)
       /\ Only([Release(r) EXCEPT !.selected = c])

\* The sole original is let go before an external capture; the crops asked for are kept.
PrepareCapture(new, id) ==
    /\ Free /\ Idle /\ Bounded
    /\ LET r == Initialize(recognition) IN
       /\ id = 0 \/ Available(r, id)
       /\ LET left == DropFrame(Advance(Stage(r, id))) IN Only([left EXCEPT !.prepared = <<left.revision, new>>])
InstallCapture(size) ==
    /\ Free /\ Idle /\ Bounded
    /\ LET r == recognition IN
       /\ r.prepared # <<>> /\ r.prepared[1] = r.revision /\ r.frame.id = 0 /\ ~InstallRefused(r, r.prepared[2])
       /\ Only(Install(Advance(r), size, r.prepared[2], FALSE))

\* The preview window gives its picture back without any mutex but the workspaces'.
ReleasePreview ==
    /\ recognition' = [recognition EXCEPT !.preview = 0]
    /\ command' = IF command.at = "encoding" THEN [command EXCEPT !.current = FALSE] ELSE command
    /\ UNCHANGED <<source, lease, receipt, configuration>>

-----------------------------------------------------------------------------
\* Commands that give the workspaces mutex back while they work.

Load(new) ==
    /\ Free /\ Idle /\ Bounded
    /\ LET r == Initialize(recognition) IN
       /\ ~ReleaseRefused(r, new)
       /\ recognition' = Release(r)
       /\ command' = [at |-> "reading", new |-> new, capture |-> r.selected, revision |-> Release(r).revision]
    /\ UNCHANGED <<source, lease, receipt, configuration>>
Loaded(size) ==
    /\ command.at = "reading" /\ command' = None
    /\ LET r == recognition IN
       IF /\ r.selected = command.capture /\ r.revision = command.revision /\ r.frame.id = 0
          /\ ~InstallRefused(r, command.new)
       THEN recognition' = Install(r, size, command.new, TRUE)
       ELSE UNCHANGED recognition
    /\ UNCHANGED <<source, lease, receipt, configuration>>

Preview ==
    /\ command = None /\ recognition.frame.id # 0
    /\ recognition' = [recognition EXCEPT !.preview = 0]
    /\ command' = [at |-> "encoding", frame |-> recognition.frame.id, capture |-> recognition.selected, current |-> TRUE]
    /\ UNCHANGED <<source, lease, receipt, configuration>>
Previewed ==
    /\ command.at = "encoding" /\ command' = None
    /\ recognition' = IF /\ command.current /\ recognition.selected = command.capture
                         /\ recognition.frame.id = command.frame
                      THEN [recognition EXCEPT !.preview = command.frame] ELSE recognition
    /\ UNCHANGED <<source, lease, receipt, configuration>>

\* A read, an encoding, a publication or a reopening that fails leaves everything as it is.
Fails ==
    /\ command.at \in {"reading", "encoding", "publishing", "reopening"} /\ command' = None
    /\ UNCHANGED <<source, lease, recognition, receipt, configuration>>

Save(id) ==
    /\ Free /\ Idle /\ Bounded
    /\ LET r == Initialize(recognition) IN
       /\ r.selected # 0 /\ \A c \in Listed(r.package) : BasisConfirmed(r, c)
       /\ id = 0 \/ Available(r, id)
       /\ recognition' = r
       /\ command' = [at |-> "publishing", capture |-> r.selected, package |-> r.package,
                      asked |-> id, crops |-> IF id = 0 THEN {} ELSE Pixels(r, id)]
    /\ UNCHANGED <<source, lease, receipt, configuration>>
Publish ==
    /\ command.at = "publishing" /\ source.revision = lease.candidate.revision /\ source.revision < MaxSource
    /\ source' = [revision |-> source.revision + 1, package |-> command.package]
    /\ command' = [at |-> "saved", capture |-> command.capture, revision |-> source.revision + 1]
    /\ UNCHANGED <<lease, recognition, receipt, configuration>>
\* Whether the package could be read again decides how much is known of what was saved.
Saved(reread) ==
    /\ command.at = "saved" /\ command' = None
    /\ reread => source.revision = command.revision
    /\ LET kept == [recognition EXCEPT !.staged = {s \in @ : s.capture # command.capture}]
           next == [Advance(kept) EXCEPT !.initialized = FALSE] IN
       IF reread
       THEN /\ lease' = [revision |-> command.revision, candidate |-> source]
            /\ recognition' = [next EXCEPT !.initialized = TRUE, !.from = source.revision,
                                           !.package = source.package, !.saved = source.package]
       ELSE lease' = [lease EXCEPT !.revision = command.revision] /\ recognition' = next
    /\ UNCHANGED <<source, receipt, configuration>>

-----------------------------------------------------------------------------
\* Trials.

Run(ticket) == [at |-> "running", ticket |-> ticket]
Capabilities ==
    /\ Free /\ Idle
    /\ Only([recognition EXCEPT !.run = Run(NoTrial)])
\* A sample trial judges the saved crop, any other one the confirmed frame.
Trial(sample) ==
    /\ Free /\ Idle /\ Bounded
    /\ LET r == Initialize(recognition) IN
       /\ Document(r).region # 0 /\ (sample \/ r.frame.confirmed)
       /\ Only([r EXCEPT !.run = Run([revision |-> lease.revision, capture |-> r.selected,
                    draft |-> r.revision, frame |-> IF sample THEN 0 ELSE r.frame.id, sample |-> sample,
                    configuration |-> configuration, document |-> Document(r)])])
\* settle, where collect ends the run's ownership; any caller's collect may come first.
Stale(r, ticket) ==
    \/ ticket.revision # lease.revision \/ ticket.capture # r.selected \/ ticket.draft # r.revision
    \/ ~ticket.sample /\ ticket.frame # r.frame.id
Settle(good) ==
    /\ recognition.run.at = "running"
    /\ LET r == recognition
           t == r.run.ticket IN
       Only([r EXCEPT !.run = [at |-> "settled"], !.zones = @ \/ (t = NoTrial /\ good),
                      !.trial = IF t = NoTrial THEN @
                                ELSE IF good /\ (r.zones \/ t.sample) /\ ~Stale(r, t) THEN t ELSE NoTrial])
\* The trial's own thread replies once the run is settled.
Returned ==
    /\ recognition.run.at = "settled"
    /\ Only([recognition EXCEPT !.run = None,
                                !.trial = IF recognition.trial.configuration = configuration THEN @ ELSE NoTrial])

Copy ==
    /\ Free /\ Bounded
    /\ LET r == Initialize(recognition) IN
       /\ r.selected # 0 /\ r.frame.confirmed
       /\ recognition' = r
       /\ command' = [at |-> "reopening", frame |-> r.frame.id, capture |-> r.selected, draft |-> r.revision]
    /\ UNCHANGED <<source, lease, receipt, configuration>>
\* Mutant: the configuration of the trial is not compared.
VerifiedAnyConfiguration(r) ==
    LET t == r.trial IN
    /\ t # NoTrial /\ t.revision = lease.revision /\ t.capture = r.selected /\ t.draft = r.revision /\ ~t.sample
    /\ t.frame = r.frame.id
Verified(r) ==
    LET t == r.trial IN
    /\ t # NoTrial /\ t.revision = lease.revision /\ t.capture = r.selected /\ t.draft = r.revision /\ ~t.sample
    /\ t.frame = r.frame.id /\ t.configuration = configuration
Copied ==
    /\ command.at = "reopening" /\ command' = None
    /\ LET r == recognition IN
       IF /\ source.revision = lease.revision /\ r.selected = command.capture /\ r.revision = command.draft
          /\ r.frame.id = command.frame /\ r.frame.confirmed
       THEN receipt' = [at |-> "copied", capture |-> r.selected, draft |-> r.revision, revision |-> lease.revision,
                        document |-> Document(r), verified |-> Verified(r),
                        exact |-> r.trial.document = Document(r) /\ r.trial.frame = r.frame.id
                                  /\ r.trial.configuration = configuration]
       ELSE UNCHANGED receipt
    /\ UNCHANGED <<source, lease, recognition, configuration>>
\* The clipboard is written once, while the command mutex is held.
Publishable ==
    /\ receipt.at = "copied" /\ lease.revision = receipt.revision
    /\ recognition.selected = receipt.capture /\ recognition.revision = receipt.draft /\ recognition.frame.confirmed
PublishCopy ==
    /\ Free /\ Publishable
    /\ receipt' = None
    /\ UNCHANGED <<source, lease, recognition, command, configuration>>

-----------------------------------------------------------------------------
\* Other operations on the lease, the settings, and the user's own editor.

Refresh ==
    /\ command = None /\ Idle
    /\ lease' = [revision |-> source.revision, candidate |-> source]
    /\ UNCHANGED <<source, recognition, command, receipt, configuration>>
SaveText ==
    /\ Free /\ Idle /\ source.revision = lease.revision /\ source.revision < MaxSource
    /\ source' = [source EXCEPT !.revision = @ + 1]
    /\ lease' = [revision |-> source.revision + 1, candidate |-> source']
    /\ UNCHANGED <<recognition, command, receipt, configuration>>
Configure ==
    /\ command = None /\ configuration' \in Configurations \ {configuration}
    /\ UNCHANGED <<source, lease, recognition, command, receipt>>
EditSource ==
    /\ source.revision < MaxSource
    /\ \E d \in Drawn \cup {Absent} :
          d # source.package[1] /\ source' = [revision |-> source.revision + 1, package |-> [source.package EXCEPT ![1] = d]]
    /\ UNCHANGED <<lease, recognition, command, receipt, configuration>>

Next ==
    \/ View \/ Confirm \/ Discard \/ ReleasePreview \/ Preview \/ Previewed \/ Fails
    \/ \E d \in Drawn : Update(d)
    \/ \E c \in Captures : Select(c)
    \/ \E new \in BOOLEAN : Load(new) \/ \E id \in 0..recognition.next : PrepareCapture(new, id)
    \/ \E size \in Sizes : Loaded(size) \/ InstallCapture(size)
    \/ \E id \in 0..recognition.next : Save(id)
    \/ Publish \/ \E reread \in BOOLEAN : Saved(reread)
    \/ Capabilities \/ Returned \/ \E b \in BOOLEAN : Trial(b) \/ Settle(b)
    \/ Copy \/ Copied \/ PublishCopy
    \/ Refresh \/ SaveText \/ Configure \/ EditSource
Spec == Init /\ [][Next]_draftVars

-----------------------------------------------------------------------------
\* A staged or saved crop is a region of a raster that has the size its basis was drawn on, and a
\* saved one has the region and the basis of the document it is saved with (stage_crops,
\* recognition_save).
CropsAreExact ==
    /\ \A s \in recognition.staged : s.raster = s.basis.size /\ s.region # 0
    /\ \A s, t \in recognition.staged : s.capture = t.capture => s = t
    /\ command.at = "publishing" =>
          \A s \in command.crops : /\ s.frame = command.asked /\ s.raster = s.basis.size
                                   /\ s.basis = Basis(command.package[command.capture])
                                   /\ s.region = command.package[command.capture].region

\* The confirmed frame has the raster of the geometry it confirms, and the preview kept is the frame's.
FrameIsConsistent ==
    /\ recognition.frame.confirmed => recognition.frame.size = Document(recognition).size
    /\ recognition.preview \in {0, recognition.frame.id}

\* A copy is called verified only when a trial judged that very document on that very frame under
\* that configuration, and a copy that may still be published is the draft's (recognition_copy,
\* recognition_publish_copy).
CopyIsExact ==
    receipt.at = "copied" => /\ receipt.verified => receipt.exact
                             /\ Publishable => receipt.document = Document(recognition)

DraftIsExact == CropsAreExact /\ FrameIsConsistent /\ CopyIsExact
=============================================================================
