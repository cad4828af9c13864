----------------------------- MODULE RdpPipeline -----------------------------
(***************************************************************************)
(* The RDP adapter as the publisher of FramePipeline: one thread decodes a *)
(* PDU into its image, then publishes each region the PDU changed          *)
(* (crates/frd-protocol-rdp/src/active_session.rs and baseline.rs).  The   *)
(* server never sends a full frame of its own: the adapter counts which    *)
(* cells it has published, and answers an overflow by a snapshot in bands. *)
(*                                                                         *)
(* A reactivation replaces the image.  If the server's display capability  *)
(* changed under a resize it is not committed: the image of the new size   *)
(* is quarantined, decoded into but never published, until a later one is. *)
(***************************************************************************)
EXTENDS FramePipeline

CONSTANT PduRegions  \* what one PDU may change: sequences of regions

ASSUME RdpAssumption == PduRegions \subseteq Seq((SUBSET Cells) \ {{}})

VARIABLES
    image,        \* DecodedImage
    draws,        \* how many draws the image has seen
    revision,     \* RdpBaseline.revision
    coverage,     \* CoverageTracker: the cells published in this generation
    established,  \* RdpBaseline.baseline_established
    quarantined,  \* DisplayRetryState.pending
    job,          \* what is being published, NoJob when the loop reads
    ended,        \* run_active_loop returned an error of the frame port
    staleDraws    \* history: the draws into a quarantined image

baselineVars == <<revision, coverage, established>>
rdpVars == <<image, draws, baselineVars, quarantined, job, ended, staleDraws>>
allVars == <<pipelineVars, rdpVars>>

(***************************************************************************)
(* A publication in progress: the regions of the PDU still to publish, the *)
(* bands of the recovery that interrupts it, and whether the boundary of   *)
(* the first of them is due.                                               *)
(***************************************************************************)
Job(regions, bands) == [regions |-> regions, bands |-> bands, boundaryDue |-> FALSE]
NoJob == Job(<<>>, <<>>)
LoopReads == call = "none" /\ job = NoJob /\ ~ ended /\ ~ poisoned

RdpInit ==
    /\ PipelineInit
    /\ image = Unpainted
    /\ draws = 0
    /\ revision = 0
    /\ coverage = {}
    /\ established = FALSE
    /\ quarantined = FALSE
    /\ job = NoJob
    /\ ended = FALSE
    /\ staleDraws = {}

Draw(S) ==
    /\ draws < MaxDraws
    /\ draws' = draws + 1
    /\ image' = [c \in Cells |-> IF c \in S THEN draws + 1 ELSE image[c]]

-----------------------------------------------------------------------------
(***************************************************************************)
(* RdpBaseline::begin, and commit_reactivated_surface once the             *)
(* reactivation that follows a DeactivateAll is confirmed: the generation  *)
(* begins, then the image is blank.                                        *)
(***************************************************************************)
RdpBeginGeneration ==
    /\ LoopReads
    /\ draws < MaxDraws
    /\ BeginGenerationEvent
    /\ UNCHANGED rdpVars

RdpPublishReset ==
    /\ BeginGenerationReset
    /\ UNCHANGED rdpVars

RdpGenerationBegun ==
    /\ WakeAfterGeneration
    /\ revision' = 0 /\ coverage' = {} /\ established' = FALSE
    /\ Draw(Cells)
    /\ quarantined' = FALSE
    /\ UNCHANGED <<job, ended, staleDraws>>

\* A reactivation under a stale display capability (finalize_reactivated_surface).
ReactivationQuarantined ==
    /\ LoopReads /\ runtimeGeneration # 0
    /\ Draw(Cells)
    /\ quarantined' = TRUE
    /\ staleDraws' = staleDraws \cup {draws + 1}
    /\ UNCHANGED <<pipelineVars, baselineVars, job, ended>>

\* A PDU is decoded, all of it before the first region is published.
DecodePdu(regions) ==
    /\ LoopReads /\ runtimeGeneration # 0
    /\ Draw(UNION {regions[i] : i \in 1..Len(regions)})
    /\ job' = IF quarantined THEN NoJob ELSE Job(regions, <<>>)
    /\ staleDraws' = IF quarantined THEN staleDraws \cup {draws + 1} ELSE staleDraws
    /\ UNCHANGED <<pipelineVars, baselineVars, quarantined, ended>>

-----------------------------------------------------------------------------
Recovering == job.bands # <<>>
Region == IF Recovering THEN Head(job.bands) ELSE Head(job.regions)

DamageOfJob ==
    DamageUpdate(Session, runtimeGeneration, revision + 1, Cardinality(Region),
                 [c \in Region |-> image[c]])

CompletesBaseline ==
    IF Recovering THEN Len(job.bands) = 1 ELSE ~ established /\ coverage = Cells

BoundaryOfJob ==
    BoundaryUpdate(Session, runtimeGeneration, revision,
                   IF CompletesBaseline THEN FullBaseline ELSE NoPayload)

\* MUTANT: the region that overflowed is republished, the surface is not.
RecoverRegion ==
    IF Recovering
    THEN job' = NoJob /\ ended' = TRUE
    ELSE job' = Job(job.regions, <<Head(job.regions)>>) /\ UNCHANGED ended

\* MUTANT: a boundary that overflowed is tried again.
RecoverAtBoundary ==
    IF Recovering
    THEN job' = NoJob /\ ended' = TRUE
    ELSE job' = [job EXCEPT !.bands = Bands] /\ UNCHANGED ended

\* recover_full_snapshot; an overflow inside it ends the session.
Recover ==
    IF Recovering
    THEN job' = NoJob /\ ended' = TRUE
    ELSE job' = Job(job.regions, Bands) /\ UNCHANGED ended

Rejected == job' = NoJob /\ ended' = TRUE

\* publish, its Damage: its revision is used up even by an overflow, coverage
\* is recorded once it is accepted.
PublishDamageOfJob ==
    /\ job # NoJob /\ ~ job.boundaryDue
    /\ PublishSurface(DamageOfJob)
    /\ revision' = revision + 1
    /\ CASE SurfaceOutcome(DamageOfJob) = "Queued" ->
              /\ job' = [job EXCEPT !.boundaryDue = TRUE]
              /\ coverage' = IF Recovering THEN coverage ELSE coverage \cup Region
              /\ UNCHANGED ended
         [] SurfaceOutcome(DamageOfJob) = "NeedsFullSnapshot" ->
              Recover /\ UNCHANGED coverage
         [] OTHER -> Rejected /\ UNCHANGED coverage
    /\ UNCHANGED <<image, draws, established, quarantined, staleDraws>>

\* Once a region, or the last band, is published the PDU's next region follows.
JobAfterBoundary ==
    IF Recovering /\ Len(job.bands) > 1
    THEN Job(job.regions, Tail(job.bands))
    ELSE Job(Tail(job.regions), <<>>)

\* publish, its FrameBoundary.
PublishBoundaryOfJob ==
    /\ job.boundaryDue
    /\ PublishSurface(BoundaryOfJob)
    /\ CASE SurfaceOutcome(BoundaryOfJob) = "Queued" ->
              /\ established' = (established \/ CompletesBaseline)
              /\ coverage' = IF Recovering /\ CompletesBaseline THEN Cells ELSE coverage
              /\ job' = JobAfterBoundary
              /\ UNCHANGED ended
         [] SurfaceOutcome(BoundaryOfJob) = "NeedsFullSnapshot" ->
              Recover /\ UNCHANGED <<established, coverage>>
         [] OTHER -> Rejected /\ UNCHANGED <<established, coverage>>
    /\ UNCHANGED <<image, draws, revision, quarantined, staleDraws>>

RdpWake ==
    /\ WakeAfterSurface
    /\ UNCHANGED rdpVars

RdpUi ==
    /\ UiStep
    /\ UNCHANGED rdpVars

\* What the loop does on its own, once a PDU is there.
LoopStep ==
    \/ RdpPublishReset
    \/ RdpGenerationBegun
    \/ PublishDamageOfJob
    \/ PublishBoundaryOfJob
    \/ RdpWake

RdpNext ==
    \/ RdpBeginGeneration
    \/ ReactivationQuarantined
    \/ \E regions \in PduRegions : DecodePdu(regions)
    \/ LoopStep
    \/ RdpUi

(***************************************************************************)
(* As in ApplePipeline: the loop waits only for the mailbox lock, which is *)
(* granted at last; nothing is assumed of the server.                      *)
(***************************************************************************)
RdpSpec ==
    /\ RdpInit /\ [][RdpNext]_allVars
    /\ UiFairness
    /\ SF_allVars(LoopStep)

-----------------------------------------------------------------------------
(***************************************************************************)
(* Neither the mailbox nor the runtime ever refuses an update of the       *)
(* adapter, across overflows of either half of a region and of several     *)
(* regions of one PDU, and a recovery never overflows again (baseline.rs,  *)
(* publish_with_recovery_patch_limit and recover_full_snapshot).           *)
(***************************************************************************)
PortAccepts == ~ poisoned /\ ~ ended

(***************************************************************************)
(* When nothing is under way the texture shows every cell the adapter      *)
(* claims to cover as the image has it: what overflows dropped was         *)
(* republished, and a baseline is never claimed for cells that were lost.  *)
(* A picture of a quarantined image is never shown, neither before the     *)
(* reactivation that ends the quarantine nor by a recovery after it.       *)
(***************************************************************************)
Quiet ==
    /\ Running /\ LoopReads /\ runtimeGeneration # 0 /\ ~ quarantined
    /\ callback = "none" /\ queue = <<>> /\ phase = "idle"

ShowsImage ==
    /\ Quiet => \A c \in coverage : established => pixels[c] = image[c]
    /\ \A c \in Cells : pixels[c] \notin staleDraws

(***************************************************************************)
(* Once the server falls silent after a baseline and the window is left    *)
(* alone, what it drew last is in the texture and on the screen at last,   *)
(* unless a frame error ended the session; in the texture only if the      *)
(* window stays hidden or the surface had no frame for the redraw.         *)
(***************************************************************************)
OnScreen ==
    /\ pixels = image
    /\ \/ screen.generation = runtimeGeneration /\ screen.revision = texture.lastBoundary
       \/ Hidden
       \/ skipped

EventuallyOnScreen ==
    WindowSettles => <>[](~ Running \/ ~ established \/ quarantined \/ OnScreen)

=============================================================================
