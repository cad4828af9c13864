---------------------------- MODULE ApplePipeline ----------------------------
(***************************************************************************)
(* The Apple adapter as the publisher of FramePipeline: one reader thread  *)
(* decodes a frame into the display surface, then publishes what changed   *)
(* (crates/frd-protocol-apple/src/network_reader.rs,                       *)
(* handle_complete_mvs_record, and surface_publisher.rs).  An overflow of  *)
(* the mailbox is answered by a snapshot of the whole surface, cut into    *)
(* bands; a frame that cannot be shown yet by a request for a full one.    *)
(***************************************************************************)
EXTENDS FramePipeline

VARIABLES
    image,        \* the decoded display surface
    draws,        \* how many draws the surface has seen
    revision,     \* AppleSurfacePublisher.revision
    established,  \* AppleSurfacePublisher.baseline_established
    job,          \* what is being published, <<>> when the reader waits
    fullRequested,\* a full update was requested and has not arrived
    ended         \* the reader returned FramePortRejected: the session ends

publisherVars == <<revision, established>>
appleVars == <<image, draws, publisherVars, job, fullRequested, ended>>
allVars == <<pipelineVars, appleVars>>

(***************************************************************************)
(* A publication in progress: the patches still to publish, the            *)
(* completeness of the last of them, whether they are a recovery and       *)
(* whether the boundary of the first one is due.                           *)
(***************************************************************************)
Job(bands, full, recovering) ==
    [bands |-> bands, full |-> full, recovering |-> recovering, boundaryDue |-> FALSE]

NoJob == Job(<<>>, FALSE, FALSE)
ReaderWaits == call = "none" /\ job = NoJob /\ ~ ended /\ ~ poisoned

AppleInit ==
    /\ PipelineInit
    /\ image = Unpainted
    /\ draws = 0
    /\ revision = 0
    /\ established = FALSE
    /\ job = NoJob
    /\ fullRequested = FALSE
    /\ ended = FALSE

Draw(S) ==
    /\ draws < MaxDraws
    /\ draws' = draws + 1
    /\ image' = [c \in Cells |-> IF c \in S THEN draws + 1 ELSE image[c]]

-----------------------------------------------------------------------------
(***************************************************************************)
(* A new generation: Reset is published, the surface becomes blank and a   *)
(* full update is requested.                                               *)
(***************************************************************************)
AppleBeginGeneration ==
    /\ ReaderWaits
    /\ draws < MaxDraws
    /\ BeginGenerationEvent
    /\ UNCHANGED appleVars

ApplePublishReset ==
    /\ BeginGenerationReset
    /\ UNCHANGED appleVars

\* begin_admitted_next_generation after the runtime has accepted it.
AppleGenerationBegun ==
    /\ WakeAfterGeneration
    /\ revision' = 0
    /\ established' = FALSE
    /\ Draw(Cells)
    /\ fullRequested' = TRUE
    /\ UNCHANGED <<job, ended>>

\* publication_completeness
Completeness(kind) ==
    CASE kind = "Complete" -> "FullBaseline"
      [] kind = "Black"    -> "NeedsFullBaseline"
      [] kind = "Partial"  -> IF established THEN "Incremental" ELSE "NeedsFullBaseline"

(***************************************************************************)
(* A frame was decoded into the surface: a complete one, a complete one    *)
(* that is all black, or one that updates some cells.  It is published or  *)
(* answered by a request for a full frame.                                 *)
(***************************************************************************)
DecodeFrame(S, kind) ==
    /\ ReaderWaits
    /\ runtimeGeneration # 0
    /\ S # {} /\ (kind # "Partial" => S = Cells)
    /\ Draw(S)
    /\ IF Completeness(kind) = "NeedsFullBaseline"
       THEN fullRequested' = TRUE /\ UNCHANGED job
       ELSE /\ job' = Job(<<S>>, Completeness(kind) = "FullBaseline", FALSE)
            /\ fullRequested' = (fullRequested /\ kind = "Partial")
    /\ UNCHANGED <<pipelineVars, publisherVars, ended>>

-----------------------------------------------------------------------------
PatchOf(S) == [c \in S |-> image[c]]

DamageOfJob ==
    DamageUpdate(Session, runtimeGeneration, revision + 1,
                 Cardinality(Head(job.bands)), PatchOf(Head(job.bands)))

CompletesBaseline == job.full /\ Len(job.bands) = 1

BoundaryOfJob ==
    BoundaryUpdate(Session, runtimeGeneration, revision + 1,
                   IF CompletesBaseline THEN FullBaseline ELSE NoPayload)

\* MUTANT: an overflow counts as published.
RecoverNothing ==
    /\ job' = NoJob
    /\ UNCHANGED <<established, ended>>

\* republish_full_snapshot; a second overflow ends the session.
Recover ==
    IF job.recovering
    THEN job' = NoJob /\ ended' = TRUE /\ UNCHANGED established
    ELSE job' = Job(Bands, TRUE, TRUE) /\ established' = FALSE /\ UNCHANGED ended

Rejected == job' = NoJob /\ ended' = TRUE /\ UNCHANGED established

\* publish_patches, its Damage.
PublishDamageOfJob ==
    /\ job # NoJob /\ ~ job.boundaryDue
    /\ PublishSurface(DamageOfJob)
    /\ CASE SurfaceOutcome(DamageOfJob) = "Queued" ->
              job' = [job EXCEPT !.boundaryDue = TRUE] /\ UNCHANGED <<established, ended>>
         [] SurfaceOutcome(DamageOfJob) = "NeedsFullSnapshot" -> Recover
         [] OTHER -> Rejected
    /\ UNCHANGED <<image, draws, revision, fullRequested>>

\* MUTANT: an overflow at the boundary leaves the revision where it was.
RevisionAfterBoundaryKept(outcome) ==
    IF outcome = "Queued" THEN revision + 1 ELSE revision

\* The damage was accepted, so its revision is used up either way.
RevisionAfterBoundary(outcome) ==
    IF outcome \in {"Queued", "NeedsFullSnapshot"} THEN revision + 1 ELSE revision

\* publish_patches, its FrameBoundary.
PublishBoundaryOfJob ==
    /\ job.boundaryDue
    /\ PublishSurface(BoundaryOfJob)
    /\ revision' = RevisionAfterBoundary(SurfaceOutcome(BoundaryOfJob))
    /\ CASE SurfaceOutcome(BoundaryOfJob) = "Queued" ->
              /\ established' = (established \/ CompletesBaseline)
              /\ job' = IF Len(job.bands) = 1 THEN NoJob
                        ELSE [job EXCEPT !.bands = Tail(@), !.boundaryDue = FALSE]
              /\ UNCHANGED ended
         [] SurfaceOutcome(BoundaryOfJob) = "NeedsFullSnapshot" -> Recover
         [] OTHER -> Rejected
    /\ UNCHANGED <<image, draws, fullRequested>>

AppleWake ==
    /\ WakeAfterSurface
    /\ UNCHANGED appleVars

AppleUi ==
    /\ UiStep
    /\ UNCHANGED appleVars

\* What the reader does on its own, once a frame is there.
ReaderStep ==
    \/ ApplePublishReset
    \/ AppleGenerationBegun
    \/ PublishDamageOfJob
    \/ PublishBoundaryOfJob
    \/ AppleWake

AppleNext ==
    \/ AppleBeginGeneration
    \/ \E S \in SUBSET Cells, kind \in {"Complete", "Black", "Partial"} : DecodeFrame(S, kind)
    \/ ReaderStep
    \/ AppleUi

(***************************************************************************)
(* The reader never waits in the middle of a publication, except for the   *)
(* mailbox lock, which the UI holds only while it empties the mailbox and  *)
(* which is granted at last.  Nothing is assumed of the server: it may     *)
(* stop to send frames.                                                    *)
(***************************************************************************)
AppleSpec ==
    /\ AppleInit /\ [][AppleNext]_allVars
    /\ UiFairness
    /\ SF_allVars(ReaderStep)

-----------------------------------------------------------------------------
(***************************************************************************)
(* The revision counter of the publisher and the lifecycle of the mailbox  *)
(* never disagree, even when a boundary overflows after its damage was     *)
(* accepted, so the runtime is never poisoned; and a recovery never        *)
(* overflows again, whatever is still queued, so the reader never ends the *)
(* session with FramePortRejected (surface_publisher.rs, publish_patches). *)
(***************************************************************************)
PortAccepts == ~ poisoned /\ ~ ended

(***************************************************************************)
(* A texture is never installed in part, and when nothing is under way and *)
(* no full frame was asked for, it shows the surface: no drawn cell was    *)
(* lost to an overflow, a stale generation or a missing baseline.          *)
(***************************************************************************)
Quiet ==
    /\ Running /\ ReaderWaits /\ runtimeGeneration # 0
    /\ callback = "none" /\ queue = <<>> /\ phase = "idle"

ShowsImage == StartupPaintsEverything /\ (Quiet /\ ~ fullRequested => pixels = image)

(***************************************************************************)
(* If the server falls silent and the window is left alone, what it drew   *)
(* last is in the texture and on the screen at last, unless a frame error  *)
(* ended the session or a full frame is owed by the server.  It is in the  *)
(* texture only if the window stays occluded or minimized, or the surface  *)
(* had no frame for the redraw: that is not repeated (application.rs:3924).*)
(***************************************************************************)
OnScreen ==
    /\ pixels = image
    /\ \/ screen.generation = runtimeGeneration /\ screen.revision = texture.lastBoundary
       \/ Hidden
       \/ skipped

EventuallyOnScreen ==
    WindowSettles => <>[](~ Running \/ fullRequested \/ runtimeGeneration = 0 \/ OnScreen)

=============================================================================
