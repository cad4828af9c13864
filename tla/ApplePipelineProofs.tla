------------------------- MODULE ApplePipelineProofs -------------------------
(***************************************************************************)
(* Proofs about the Apple adapter in front of the mailbox, for every       *)
(* surface, cut of it into bands and limit of the mailbox, and for any     *)
(* number of draws and generations: what is published wakes the UI until   *)
(* it is presented, the frame port refuses nothing, and at rest the        *)
(* texture shows the last picture of the server.                           *)
(***************************************************************************)
EXTENDS ApplePipeline, FramePipelineProofs

Jobs ==
    [bands : Seq(SUBSET Cells), full : BOOLEAN, recovering : BOOLEAN, boundaryDue : BOOLEAN]

-----------------------------------------------------------------------------
(***************************************************************************)
(* What the frame port relies on.  Publisher, runtime and mailbox agree on *)
(* the generation; the revision of the publisher is at least that of the   *)
(* mailbox, and one behind while a boundary is due.                        *)
(***************************************************************************)
AppleTypes ==
    /\ call \in {"none", "surfaceWake", "reset", "generationWake"}
    /\ runtimeGeneration \in Nat
    /\ draws \in 0..MaxDraws
    /\ image \in [Cells -> 0..MaxDraws]
    /\ revision \in Nat
    /\ established \in BOOLEAN
    /\ job \in Jobs
    /\ fullRequested \in BOOLEAN

\* The image is whole from the moment a generation is admitted.
ImagePainted == runtimeGeneration # 0 => image \in [Cells -> 1..MaxDraws]

GenerationsAgree ==
    /\ current.generation =
         IF call = "generationWake" THEN runtimeGeneration + 1 ELSE runtimeGeneration
    /\ Established => current.session = Session

JobsInOrder ==
    /\ job # NoJob => runtimeGeneration # 0 /\ call \in {"none", "surfaceWake"}
    /\ job # NoJob => job.bands # <<>>
    /\ ~ job.recovering => Len(job.bands) <= 1

RevisionsAgree ==
    /\ call = "generationWake" => current.lastDamage = 0 /\ current.lastBoundary = 0
    /\ IF job.boundaryDue
       THEN /\ current.lastDamage = revision + 1 /\ current.eligible = revision + 1
            /\ current.lastBoundary <= revision
       ELSE current.lastDamage <= revision /\ current.lastBoundary <= revision

\* What a recovery has done, and that the rest of it fits the mailbox.
Done == DoneBefore(job.bands)
RecoveryFits ==
    job.recovering => Room(job.bands, job.boundaryDue, Len(queue), queuedPixelBytes)

PortInvariant ==
    /\ MailboxInvariant
    /\ AppleTypes
    /\ ImagePainted
    /\ GenerationsAgree
    /\ JobsInOrder
    /\ RevisionsAgree
    /\ ResetsEmpty
    /\ RecoveryFits
    /\ PortAccepts

AppleInvariant == PortInvariant /\ WakeInvariant

-----------------------------------------------------------------------------
(***************************************************************************)
(* The steps that leave the mailbox alone, and those of the UI.            *)
(***************************************************************************)
LEMMA PortStarts == AppleInit => PortInvariant
<1> SUFFICES ASSUME AppleInit PROVE PortInvariant
  OBVIOUS
<1>1. /\ MailboxInvariant /\ queue = <<>> /\ current = NoSurface /\ call = "none"
      /\ runtimeGeneration = 0 /\ poisoned = FALSE /\ image = Unpainted /\ draws = 0
      /\ revision = 0 /\ established = FALSE /\ job = NoJob /\ fullRequested = FALSE
      /\ ended = FALSE
  BY InitialInvariant DEF AppleInit, PipelineInit, DeliveryInit, Init
<1>2. NoJob \in Jobs /\ ~ NoJob.boundaryDue /\ ~ NoJob.recovering /\ Len(NoJob.bands) <= 1
  BY DEF NoJob, Job, Jobs
<1>3. AppleTypes
  <2>1. 0 \in 0..MaxDraws
    BY PipelineAssumption
  <2>2. image \in [Cells -> 0..MaxDraws]
    BY <1>1, <2>1 DEF Unpainted
  <2> QED
    BY <1>1, <1>2, <2>1, <2>2 DEF AppleTypes
<1>4. ResetsEmpty
  BY <1>1 DEF ResetsEmpty
<1>5. GenerationsAgree /\ RevisionsAgree
  BY <1>1, <1>2
  DEF GenerationsAgree, RevisionsAgree, Established, NoSurface, FreshSurface
<1> QED
  BY <1>1, <1>2, <1>3, <1>4, <1>5
  DEF PortInvariant, ImagePainted, JobsInOrder, RecoveryFits, PortAccepts

LEMMA NoJobFacts ==
    /\ NoJob \in Jobs /\ ~ NoJob.boundaryDue /\ ~ NoJob.recovering
    /\ NoJob.bands = <<>> /\ Len(NoJob.bands) = 0
BY DEF NoJob, Job, Jobs

LEMMA GenerationOpens ==
    ASSUME PortInvariant, AppleBeginGeneration
    PROVE  PortInvariant'
<1>1. /\ call = "none" /\ job = NoJob /\ call' = "reset"
      /\ UNCHANGED <<queue, queuedPixelBytes, current, lastPopped, runtimeGeneration, poisoned,
                     image, draws, revision, established, job, fullRequested, ended>>
  BY DEF AppleBeginGeneration, ReaderWaits, BeginGenerationEvent, mailbox, uiSide, appleVars,
         publisherVars
<1>2. MailboxInvariant'
  BY <1>1, StutterStep DEF PortInvariant, vars
<1> QED
  BY <1>1, <1>2
  DEF PortInvariant, AppleTypes, ImagePainted, GenerationsAgree, Established, JobsInOrder,
      RevisionsAgree, ResetsEmpty, RecoveryFits, PortAccepts

LEMMA ResetPublished ==
    ASSUME PortInvariant, ApplePublishReset
    PROVE  /\ PortInvariant'
           /\ call' = "generationWake"
           /\ UNCHANGED <<uiSide, armed, wakes, events>>
<1>1. /\ call = "reset"
      /\ UNCHANGED <<uiSide, lastPopped, events, armed, wakes, runtimeGeneration, image, draws,
                     revision, established, job, fullRequested, ended>>
  BY DEF ApplePublishReset, BeginGenerationReset, uiSide, wakeVars, appleVars, publisherVars
<1> DEFINE u == ResetUpdate(Session, runtimeGeneration + 1)
<1>2. /\ u \in Update /\ u.kind = "Reset" /\ u.bytes = 0 /\ u.revision = 0
      /\ u.session = Session /\ u.generation = runtimeGeneration + 1
      /\ runtimeGeneration \in Nat
  BY MailboxAssumption, DeliveryAssumption DEF PortInvariant, AppleTypes, ResetUpdate, Update
<1>3. ResetAccepted(u, TRUE)
  BY <1>1, <1>2 DEF ResetAccepted, PortInvariant, GenerationsAgree, Established
<1> HIDE DEF u
<1>4. PushOutcome(u, TRUE) = "Queued"
  BY <1>2, <1>3 DEF PushOutcome, Accepted
<1>5. PushReset(u, TRUE) /\ poisoned' = FALSE /\ call' = "generationWake"
  BY <1>4, Zenon DEF ApplePublishReset, BeginGenerationReset, u
<1>6. EnqueueReset(u)
  BY <1>3, <1>5 DEF PushReset
<1>7. MailboxInvariant'
  BY <1>1, <1>2, <1>5, PushStep DEF PortInvariant, Push
<1>8. queue' = <<u>> /\ current' = FreshSurface(Session, runtimeGeneration + 1)
  BY <1>2, <1>6 DEF EnqueueReset
<1>9. ResetsEmpty'
  BY <1>2, <1>8 DEF ResetsEmpty
<1>10. job = NoJob /\ ~ job.boundaryDue /\ ~ job.recovering
  BY <1>1, NoJobFacts DEF PortInvariant, JobsInOrder
<1>11. AppleTypes' /\ ImagePainted'
  BY <1>1, <1>5 DEF PortInvariant, AppleTypes, ImagePainted
<1>12. GenerationsAgree' /\ RevisionsAgree'
  BY <1>1, <1>2, <1>5, <1>8, <1>10
  DEF PortInvariant, AppleTypes, GenerationsAgree, RevisionsAgree, Established, FreshSurface
<1> QED
  BY <1>1, <1>5, <1>7, <1>9, <1>10, <1>11, <1>12
  DEF PortInvariant, JobsInOrder, RecoveryFits, PortAccepts

LEMMA GenerationBegun ==
    ASSUME PortInvariant, AppleGenerationBegun
    PROVE  PortInvariant'
<1>1. /\ call = "generationWake" /\ call' = "none"
      /\ runtimeGeneration' = runtimeGeneration + 1
      /\ revision' = 0 /\ established' = FALSE /\ fullRequested' = TRUE
      /\ Draw(Cells)
      /\ UNCHANGED <<queue, queuedPixelBytes, current, lastPopped, poisoned, job, ended>>
  BY DEF AppleGenerationBegun, WakeAfterGeneration, mailbox, uiSide
<1>2. MailboxInvariant'
  BY <1>1, StutterStep DEF PortInvariant, vars
<1>3. job = NoJob /\ ~ job.boundaryDue /\ ~ job.recovering
  BY <1>1, NoJobFacts DEF PortInvariant, JobsInOrder
<1>4. draws' \in 0..MaxDraws /\ image' \in [Cells -> 1..MaxDraws]
  BY <1>1, PipelineAssumption DEF PortInvariant, AppleTypes, Draw
<1>5. AppleTypes' /\ ImagePainted'
  <2>1. image' \in [Cells -> 0..MaxDraws]
    <3>1. 1..MaxDraws \subseteq 0..MaxDraws
      BY PipelineAssumption
    <3> QED
      BY <1>4, <3>1
  <2>2. runtimeGeneration' \in Nat /\ job' \in Jobs
    BY <1>1 DEF PortInvariant, AppleTypes
  <2> QED
    BY <1>1, <1>4, <2>1, <2>2 DEF AppleTypes, ImagePainted
<1>6. GenerationsAgree' /\ RevisionsAgree'
  BY <1>1, <1>3
  DEF PortInvariant, AppleTypes, GenerationsAgree, RevisionsAgree, Established
<1> QED
  BY <1>1, <1>2, <1>3, <1>5, <1>6
  DEF PortInvariant, JobsInOrder, ResetsEmpty, RecoveryFits, PortAccepts

LEMMA FrameDecoded ==
    ASSUME PortInvariant, NEW S \in SUBSET Cells, NEW kind \in {"Complete", "Black", "Partial"},
           DecodeFrame(S, kind)
    PROVE  PortInvariant'
<1>1. /\ job = NoJob /\ call = "none" /\ runtimeGeneration # 0 /\ Draw(S)
      /\ UNCHANGED <<queue, queuedPixelBytes, current, lastPopped, call, runtimeGeneration,
                     poisoned, revision, established, ended>>
  BY DEF DecodeFrame, ReaderWaits, pipelineVars, vars, runtimeVars, publisherVars
<1>2. MailboxInvariant'
  BY <1>1, StutterStep DEF PortInvariant, vars
<1>3. \/ job' = NoJob
      \/ \E f \in BOOLEAN : job' = Job(<<S>>, f, FALSE)
  BY <1>1 DEF DecodeFrame
<1>4. /\ job' \in Jobs /\ ~ job'.boundaryDue /\ ~ job'.recovering /\ Len(job'.bands) <= 1
      /\ job' # NoJob => job'.bands # <<>>
  <2>1. CASE job' = NoJob
    BY <2>1, NoJobFacts
  <2>2. CASE \E f \in BOOLEAN : job' = Job(<<S>>, f, FALSE)
    BY <2>2 DEF Job, Jobs
  <2> QED
    BY <1>3, <2>1, <2>2
<1>5. fullRequested' \in BOOLEAN
  BY DEF DecodeFrame, PortInvariant, AppleTypes
<1>6. draws' \in 0..MaxDraws /\ image' \in [Cells -> 1..MaxDraws]
  BY <1>1, PipelineAssumption DEF PortInvariant, AppleTypes, ImagePainted, Draw
<1>7. AppleTypes' /\ ImagePainted'
  BY <1>1, <1>4, <1>5, <1>6 DEF PortInvariant, AppleTypes, ImagePainted
<1>8. RevisionsAgree'
  BY <1>1, <1>4, NoJobFacts DEF PortInvariant, RevisionsAgree
<1> QED
  BY <1>1, <1>2, <1>4, <1>7, <1>8
  DEF PortInvariant, GenerationsAgree, Established, JobsInOrder, ResetsEmpty, RecoveryFits,
      PortAccepts

LEMMA UiKeepsPort ==
    ASSUME PortInvariant, AppleUi
    PROVE  PortInvariant'
<1>1. UNCHANGED <<image, draws, revision, established, job, fullRequested, ended, call,
                  runtimeGeneration, poisoned, current>>
  BY UiLeaves DEF AppleUi, appleVars, publisherVars
<1>2. /\ MailboxInvariant' /\ ResetsEmpty'
      /\ Len(queue') <= Len(queue) /\ Len(queue) \in Nat /\ Len(queue') \in Nat
      /\ queuedPixelBytes' <= queuedPixelBytes /\ queuedPixelBytes \in Nat
      /\ queuedPixelBytes' \in Nat
  <2>1. CASE UNCHANGED vars
    <3>1. MailboxInvariant'
      BY <2>1, StutterStep DEF PortInvariant
    <3> QED
      BY <2>1, <3>1
      DEF vars, PortInvariant, ResetsEmpty, MailboxInvariant, TypeInvariant
  <2>2. CASE Pop
    <3>1. MailboxInvariant'
      BY <2>2, PopStep DEF PortInvariant
    <3> QED
      BY <2>2, <3>1, Popped DEF PortInvariant, MailboxInvariant, TypeInvariant
  <2> QED
    BY <2>1, <2>2, UiLeaves DEF AppleUi
<1>3. RecoveryFits'
  <2>1. SUFFICES ASSUME job.recovering PROVE RecoveryFits'
    BY <1>1 DEF RecoveryFits
  <2>2. PICK b \in Seq(SUBSET Cells), due \in BOOLEAN : b = job.bands /\ due = job.boundaryDue
    BY DEF PortInvariant, AppleTypes, Jobs
  <2>3. Room(b, due, Len(queue), queuedPixelBytes)
    BY <2>1, <2>2 DEF PortInvariant, RecoveryFits
  <2>4. Room(b, due, Len(queue'), queuedPixelBytes')
    BY <1>2, <2>3, RoomDrained
  <2> QED
    BY <1>1, <2>2, <2>4 DEF RecoveryFits
<1> QED
  BY <1>1, <1>2, <1>3
  DEF PortInvariant, AppleTypes, ImagePainted, GenerationsAgree, Established, JobsInOrder,
      RevisionsAgree, PortAccepts

LEMMA WakeKeepsPort ==
    ASSUME PortInvariant, AppleWake
    PROVE  PortInvariant'
<1>1. /\ call = "surfaceWake" /\ call' = "none"
      /\ UNCHANGED <<queue, queuedPixelBytes, current, lastPopped, runtimeGeneration, poisoned,
                     image, draws, revision, established, job, fullRequested, ended>>
  BY DEF AppleWake, WakeAfterSurface, mailbox, uiSide, appleVars, publisherVars
<1>2. MailboxInvariant'
  BY <1>1, StutterStep DEF PortInvariant, vars
<1> QED
  BY <1>1, <1>2
  DEF PortInvariant, AppleTypes, ImagePainted, GenerationsAgree, Established, JobsInOrder,
      RevisionsAgree, ResetsEmpty, RecoveryFits, PortAccepts

-----------------------------------------------------------------------------
(***************************************************************************)
(* What a publication hands to the port: it is never refused, and inside a *)
(* recovery it always fits.                                                *)
(***************************************************************************)
LEMMA JobFacts ==
    ASSUME PortInvariant, job # NoJob
    PROVE  /\ runtimeGeneration \in Nat \ {0} /\ revision \in Nat /\ job \in Jobs
           /\ image \in [Cells -> 1..MaxDraws]
           /\ job.bands \in Seq(SUBSET Cells) /\ job.bands # <<>>
           /\ Head(job.bands) \in SUBSET Cells
           /\ Cardinality(Head(job.bands)) \in Nat
           /\ PatchOf(Head(job.bands)) \in Payloads
<1>1. /\ runtimeGeneration \in Nat \ {0} /\ revision \in Nat /\ job \in Jobs
      /\ image \in [Cells -> 1..MaxDraws] /\ job.bands # <<>>
  BY DEF PortInvariant, AppleTypes, ImagePainted, JobsInOrder
<1>2. job.bands \in Seq(SUBSET Cells)
  BY <1>1 DEF Jobs
<1>3. PICK B \in SUBSET Cells : B = Head(job.bands)
  BY <1>1, <1>2
<1>4. IsFiniteSet(B) /\ Cardinality(B) \in Nat
  BY PipelineAssumption, FS_Subset, FS_CardinalityType
<1>5. PatchOf(B) \in Payloads
  <2>1. PatchOf(B) \in [B -> 1..MaxDraws]
    BY <1>1 DEF PatchOf
  <2> QED
    BY <2>1, PipelineAssumption
<1> QED
  BY <1>1, <1>2, <1>3, <1>4, <1>5

\* In a recovery what is left to do fits.
LEMMA RecoveryFacts ==
    ASSUME PortInvariant, job.recovering
    PROVE  /\ job # NoJob /\ job.bands \in Seq(SUBSET Cells) /\ job.bands # <<>>
           /\ ~ job.boundaryDue => Room(job.bands, FALSE, Len(queue), queuedPixelBytes)
           /\ job.boundaryDue => Room(job.bands, TRUE, Len(queue), queuedPixelBytes)
           /\ Len(job.bands) \in 1..Len(Bands)
           /\ Len(queue) \in Nat /\ queuedPixelBytes \in Nat
<1>1. job # NoJob
  BY NoJobFacts
<1>2. Len(queue) \in Nat /\ queuedPixelBytes \in Nat
  BY DEF PortInvariant, MailboxInvariant, TypeInvariant
<1>3. PICK due \in BOOLEAN : due = job.boundaryDue
  BY DEF PortInvariant, AppleTypes, Jobs
<1>4. Room(job.bands, due, Len(queue), queuedPixelBytes)
  BY <1>3 DEF PortInvariant, RecoveryFits
<1>5. Len(job.bands) \in 1..Len(Bands)
  BY <1>4 DEF Room
<1>6. (due = TRUE /\ job.boundaryDue) \/ (due = FALSE /\ ~ job.boundaryDue)
  BY <1>3, Zenon
<1>7. /\ ~ job.boundaryDue => Room(job.bands, FALSE, Len(queue), queuedPixelBytes)
      /\ job.boundaryDue => Room(job.bands, TRUE, Len(queue), queuedPixelBytes)
  BY <1>4, <1>6, Zenon
<1> QED
  BY <1>1, <1>2, <1>5, <1>7, JobFacts

LEMMA DamageReady ==
    ASSUME PortInvariant, job # NoJob, ~ job.boundaryDue, call = "none"
    PROVE  /\ DamageOfJob \in Update /\ DamageOfJob.kind = "Damage"
           /\ DamageOfJob.revision = revision + 1
           /\ DamageOfJob.bytes = Cardinality(Head(job.bands))
           /\ DamageAccepted(DamageOfJob, TRUE)
           /\ SurfaceOutcome(DamageOfJob)
                = IF Overflows(DamageOfJob) THEN "NeedsFullSnapshot" ELSE "Queued"
           /\ job.recovering => ~ Overflows(DamageOfJob)
<1>1. PICK u : u = DamageOfJob
  OBVIOUS
<1>2. Session \in Nat
  BY MailboxAssumption, DeliveryAssumption
<1>3. /\ u \in Update /\ u.kind = "Damage" /\ u.session = Session
      /\ u.generation = runtimeGeneration /\ u.revision = revision + 1
      /\ u.bytes = Cardinality(Head(job.bands))
  BY <1>1, <1>2, JobFacts DEF DamageOfJob, DamageUpdate, Update
<1>4. /\ runtimeGeneration # 0 /\ revision \in Nat
      /\ current.generation = runtimeGeneration /\ current.session = Session
      /\ current.lastDamage <= revision /\ current.lastDamage \in Nat
  BY JobFacts
  DEF PortInvariant, GenerationsAgree, Established, RevisionsAgree, MailboxInvariant,
      TypeInvariant, Surface
<1>5. DamageAccepted(u, TRUE)
  BY <1>3, <1>4 DEF DamageAccepted, MatchesCurrent, Established
<1>6. SurfaceOutcome(u) = IF Overflows(u) THEN "NeedsFullSnapshot" ELSE "Queued"
  BY <1>3, <1>5 DEF SurfaceOutcome, PushOutcome, Accepted
<1>7. ASSUME job.recovering PROVE ~ Overflows(u)
  <2>1. Room(job.bands, FALSE, Len(queue), queuedPixelBytes) /\ job.bands \in Seq(SUBSET Cells)
    BY <1>7, RecoveryFacts
  <2> QED
    BY <1>3, <2>1, RoomForDamage DEF PortInvariant
<1> QED
  BY <1>1, <1>3, <1>5, <1>6, <1>7

LEMMA BoundaryReady ==
    ASSUME PortInvariant, job.boundaryDue, call = "none"
    PROVE  /\ job # NoJob
           /\ BoundaryOfJob \in Update /\ BoundaryOfJob.kind = "Boundary"
           /\ BoundaryOfJob.revision = revision + 1 /\ BoundaryOfJob.bytes = 0
           /\ BoundaryAccepted(BoundaryOfJob)
           /\ SurfaceOutcome(BoundaryOfJob)
                = IF Overflows(BoundaryOfJob) THEN "NeedsFullSnapshot" ELSE "Queued"
           /\ job.recovering => ~ Overflows(BoundaryOfJob)
<1>1. PICK u : u = BoundaryOfJob
  OBVIOUS
<1>2. Session \in Nat /\ FullBaseline \in Payloads /\ NoPayload \in Payloads /\ job # NoJob
  BY MailboxAssumption, DeliveryAssumption, PipelineAssumption, NoJobFacts
<1>3. /\ u \in Update /\ u.kind = "Boundary" /\ u.session = Session /\ u.bytes = 0
      /\ u.generation = runtimeGeneration /\ u.revision = revision + 1
  BY <1>1, <1>2, JobFacts DEF BoundaryOfJob, BoundaryUpdate, Update
<1>4. /\ runtimeGeneration # 0 /\ revision \in Nat
      /\ current.generation = runtimeGeneration /\ current.session = Session
      /\ current.lastDamage = revision + 1 /\ current.eligible = revision + 1
      /\ current.lastBoundary <= revision /\ current.lastBoundary \in Nat
  BY <1>2, JobFacts
  DEF PortInvariant, GenerationsAgree, Established, RevisionsAgree, MailboxInvariant,
      TypeInvariant, Surface
<1>5. BoundaryAccepted(u)
  BY <1>3, <1>4 DEF BoundaryAccepted, MatchesCurrent, Established
<1>6. SurfaceOutcome(u) = IF Overflows(u) THEN "NeedsFullSnapshot" ELSE "Queued"
  BY <1>3, <1>5 DEF SurfaceOutcome, PushOutcome, Accepted
<1>7. ASSUME job.recovering PROVE ~ Overflows(u)
  <2>1. Room(job.bands, TRUE, Len(queue), queuedPixelBytes) /\ job.bands \in Seq(SUBSET Cells)
    BY <1>7, RecoveryFacts
  <2> QED
    BY <1>3, <2>1, RoomForBoundary DEF PortInvariant
<1> QED
  BY <1>1, <1>2, <1>3, <1>5, <1>6, <1>7

-----------------------------------------------------------------------------
(***************************************************************************)
(* A publication, its damage and its boundary, when it is queued and when  *)
(* it overflows.                                                           *)
(***************************************************************************)
LEMMA JobUpdated ==
    ASSUME NEW j \in Jobs
    PROVE  /\ [j EXCEPT !.boundaryDue = TRUE] \in Jobs
           /\ [j EXCEPT !.boundaryDue = TRUE].bands = j.bands
           /\ [j EXCEPT !.boundaryDue = TRUE].recovering = j.recovering
           /\ [j EXCEPT !.boundaryDue = TRUE].boundaryDue
           /\ j.bands # <<>> =>
                /\ [j EXCEPT !.bands = Tail(@), !.boundaryDue = FALSE] \in Jobs
                /\ [j EXCEPT !.bands = Tail(@), !.boundaryDue = FALSE].bands = Tail(j.bands)
                /\ [j EXCEPT !.bands = Tail(@), !.boundaryDue = FALSE].recovering = j.recovering
                /\ ~ [j EXCEPT !.bands = Tail(@), !.boundaryDue = FALSE].boundaryDue
<1>1. j.bands \in Seq(SUBSET Cells)
  BY DEF Jobs
<1>2. j.bands # <<>> => Tail(j.bands) \in Seq(SUBSET Cells)
  BY <1>1
<1> QED
  BY <1>1, <1>2 DEF Jobs

LEMMA RecoveryBegins ==
    ASSUME PortInvariant, job # NoJob, ~ job.recovering, call = "none", call' = "none",
           ClearCurrentDamageAndBoundaries, MailboxInvariant',
           job' = Job(Bands, TRUE, TRUE), established' \in BOOLEAN, ended' = ended,
           poisoned' = FALSE, revision' \in Nat, current.lastDamage <= revision',
           current.lastBoundary <= revision',
           UNCHANGED <<runtimeGeneration, image, draws, fullRequested>>
    PROVE  PortInvariant'
<1>1. /\ current' = [current EXCEPT !.eligible = 0] /\ current \in Surface
      /\ Len(queue') <= 1 /\ queuedPixelBytes' = 0 /\ ResetsEmpty'
  BY Overflowed DEF PortInvariant, MailboxInvariant, TypeInvariant
<1>2. /\ current'.generation = current.generation /\ current'.session = current.session
      /\ current'.lastDamage = current.lastDamage
      /\ current'.lastBoundary = current.lastBoundary
  BY <1>1 DEF Surface
<1>3. /\ Bands \in Seq(SUBSET Cells) /\ Bands # <<>>
      /\ Room(Bands, FALSE, Len(queue'), 0)
  <2>1. Len(queue') \in Nat
    BY DEF MailboxInvariant, TypeInvariant
  <2> QED
    BY <1>1, <2>1, RoomBegins
<1>4. /\ job' \in Jobs /\ job'.bands = Bands /\ job'.recovering /\ job'.boundaryDue = FALSE
      /\ job' # NoJob
  BY <1>3 DEF Job, Jobs, NoJob
<1>5. runtimeGeneration # 0
  BY JobFacts
<1>6. AppleTypes' /\ ImagePainted'
  BY <1>4 DEF PortInvariant, AppleTypes, ImagePainted
<1>7. GenerationsAgree' /\ RevisionsAgree'
  BY <1>2, <1>4 DEF PortInvariant, GenerationsAgree, Established, RevisionsAgree
<1>8. RecoveryFits'
  BY <1>1, <1>3, <1>4, Zenon DEF RecoveryFits
<1>9. JobsInOrder'
  BY <1>3, <1>4, <1>5 DEF JobsInOrder
<1> QED
  BY <1>1, <1>6, <1>7, <1>8, <1>9 DEF PortInvariant, PortAccepts

LEMMA DamageOutcomes ==
    ASSUME PortInvariant, PublishDamageOfJob
    PROVE  /\ job # NoJob /\ ~ job.boundaryDue /\ call = "none" /\ poisoned' = FALSE
           /\ UNCHANGED <<uiSide, lastPopped, events, armed, wakes, runtimeGeneration, image,
                          draws, revision, fullRequested>>
           /\ Push(DamageOfJob, TRUE)
           /\ \/ /\ ~ job.recovering /\ call' = "none" /\ ClearCurrentDamageAndBoundaries
                 /\ job' = Job(Bands, TRUE, TRUE) /\ established' = FALSE /\ ended' = ended
              \/ /\ call' = "surfaceWake" /\ EnqueueDamage(DamageOfJob)
                 /\ job' = [job EXCEPT !.boundaryDue = TRUE]
                 /\ established' = established /\ ended' = ended
<1>1. /\ job # NoJob /\ ~ job.boundaryDue /\ call = "none"
      /\ UNCHANGED <<uiSide, lastPopped, events, armed, wakes, runtimeGeneration, image, draws,
                     revision, fullRequested>>
  BY DEF PublishDamageOfJob, PublishSurface, uiSide, wakeVars
<1>2. PICK u \in Update : u = DamageOfJob
  BY <1>1, DamageReady
<1>3. /\ u.kind = "Damage" /\ DamageAccepted(u, TRUE)
      /\ SurfaceOutcome(u) = IF Overflows(u) THEN "NeedsFullSnapshot" ELSE "Queued"
      /\ job.recovering => ~ Overflows(u)
  BY <1>1, <1>2, DamageReady
<1>4. /\ Push(u, TRUE) /\ PushDamage(u, TRUE)
      /\ call' = (IF SurfaceOutcome(u) = "Queued" THEN "surfaceWake" ELSE "none")
      /\ poisoned' = FALSE
  BY <1>2, <1>3 DEF PublishDamageOfJob, PublishSurface, Push, PushReset, PushBoundary
<1>5. CASE Overflows(u)
  <2>1. /\ SurfaceOutcome(u) = "NeedsFullSnapshot" /\ ~ job.recovering /\ call' = "none"
        /\ ClearCurrentDamageAndBoundaries
    BY <1>3, <1>4, <1>5 DEF PushDamage
  <2>2. Recover
    BY <1>2, <2>1, Zenon DEF PublishDamageOfJob
  <2>3. job' = Job(Bands, TRUE, TRUE) /\ established' = FALSE /\ ended' = ended
    BY <2>1, <2>2 DEF Recover
  <2> QED
    BY <1>1, <1>2, <1>4, <2>1, <2>3
<1>6. CASE ~ Overflows(u)
  <2>1. /\ SurfaceOutcome(u) = "Queued" /\ call' = "surfaceWake" /\ EnqueueDamage(u)
    BY <1>3, <1>4, <1>6 DEF PushDamage
  <2>2. /\ job' = [job EXCEPT !.boundaryDue = TRUE] /\ established' = established
        /\ ended' = ended
    BY <1>2, <2>1, Zenon DEF PublishDamageOfJob
  <2> QED
    BY <1>1, <1>2, <1>4, <2>1, <2>2
<1> QED
  BY <1>5, <1>6

LEMMA DamageStepKept ==
    ASSUME PortInvariant, PublishDamageOfJob
    PROVE  /\ PortInvariant'
           /\ UNCHANGED <<uiSide, armed, wakes, events>>
           /\ \/ call' = "surfaceWake"
              \/ call = "none" /\ call' = "none" /\ (queue' # <<>> => queue # <<>>)
<1>1. /\ job # NoJob /\ ~ job.boundaryDue /\ call = "none"
      /\ UNCHANGED <<uiSide, lastPopped, events, armed, wakes, runtimeGeneration, image, draws,
                     revision, fullRequested>>
  BY DamageOutcomes
<1>2. PICK u \in Update : u = DamageOfJob
  BY <1>1, DamageReady
<1>3. /\ u.kind = "Damage" /\ u.revision = revision + 1
      /\ u.bytes = Cardinality(Head(job.bands))
  BY <1>1, <1>2, DamageReady
<1>4. Push(u, TRUE) /\ poisoned' = FALSE
  BY <1>2, DamageOutcomes
<1>5. MailboxInvariant'
  BY <1>1, <1>3, <1>4, PushStep DEF PortInvariant
<1>6. /\ runtimeGeneration # 0 /\ revision \in Nat /\ job \in Jobs /\ current \in Surface
      /\ established \in BOOLEAN /\ job.bands # <<>>
  BY <1>1, JobFacts DEF PortInvariant, MailboxInvariant, TypeInvariant, AppleTypes
<1>7. CASE call' = "none"
  <2>1. /\ ~ job.recovering /\ ClearCurrentDamageAndBoundaries
        /\ job' = Job(Bands, TRUE, TRUE) /\ established' = FALSE /\ ended' = ended
    BY <1>7, DamageOutcomes
  <2>2. current.lastDamage <= revision /\ current.lastBoundary <= revision
    BY <1>1 DEF PortInvariant, RevisionsAgree
  <2>3. PortInvariant'
    BY <1>1, <1>4, <1>5, <1>6, <1>7, <2>1, <2>2, RecoveryBegins
  <2> QED
    BY <1>1, <1>7, <2>1, <2>3, Overflowed DEF PortInvariant
<1>8. CASE call' # "none"
  <2>1. call' = "surfaceWake" /\ EnqueueDamage(u)
    BY <1>2, <1>8, DamageOutcomes
  <2>2. /\ job' = [job EXCEPT !.boundaryDue = TRUE] /\ established' = established
        /\ ended' = ended
    BY <1>8, DamageOutcomes
  <2>3. /\ current' = [current EXCEPT !.lastDamage = u.revision, !.eligible = u.revision]
        /\ EnqueueCurrent(u)
    BY <2>1 DEF EnqueueDamage
  <2>4. /\ current'.generation = current.generation /\ current'.session = current.session
        /\ current'.lastDamage = revision + 1 /\ current'.eligible = revision + 1
        /\ current'.lastBoundary = current.lastBoundary
    BY <1>3, <1>6, <2>3 DEF Surface
  <2>5. /\ Len(queue') = Len(queue) + 1 /\ ResetsEmpty'
        /\ queuedPixelBytes' = queuedPixelBytes + Cardinality(Head(job.bands))
    BY <1>3, <2>3, Enqueued DEF PortInvariant
  <2>6. /\ job' \in Jobs /\ job'.bands = job.bands /\ job'.recovering = job.recovering
        /\ job'.boundaryDue /\ job' # NoJob
    BY <1>6, <2>2, JobUpdated, NoJobFacts
  <2>7. AppleTypes' /\ ImagePainted'
    BY <1>1, <2>1, <2>2, <2>6 DEF PortInvariant, AppleTypes, ImagePainted
  <2>8. GenerationsAgree' /\ RevisionsAgree'
    BY <1>1, <2>1, <2>4, <2>6 DEF PortInvariant, GenerationsAgree, Established, RevisionsAgree
  <2>9. JobsInOrder'
    BY <1>1, <1>6, <2>1, <2>6 DEF PortInvariant, JobsInOrder
  <2>10. RecoveryFits'
    <3>1. SUFFICES ASSUME job.recovering PROVE RecoveryFits'
      BY <2>6 DEF RecoveryFits
    <3>2. /\ job.bands \in Seq(SUBSET Cells) /\ Len(queue) \in Nat /\ queuedPixelBytes \in Nat
          /\ Room(job.bands, FALSE, Len(queue), queuedPixelBytes)
      BY <1>1, <3>1, RecoveryFacts
    <3>3. Room(job.bands, TRUE, Len(queue) + 1,
               queuedPixelBytes + Cardinality(Head(job.bands)))
      BY <3>2, RoomDamaged
    <3>4. job'.boundaryDue = TRUE
      BY <1>6, <2>2 DEF Jobs
    <3> QED
      BY <2>2, <2>5, <2>6, <3>3, <3>4, Zenon DEF RecoveryFits
  <2>11. PortInvariant'
    BY <1>4, <1>5, <2>2, <2>5, <2>7, <2>8, <2>9, <2>10 DEF PortInvariant, PortAccepts
  <2> QED
    BY <1>1, <2>1, <2>11
<1> QED
  BY <1>7, <1>8

LEMMA BoundaryOutcomes ==
    ASSUME PortInvariant, PublishBoundaryOfJob
    PROVE  /\ job # NoJob /\ job.boundaryDue /\ call = "none" /\ poisoned' = FALSE
           /\ revision' = revision + 1
           /\ UNCHANGED <<uiSide, lastPopped, events, armed, wakes, runtimeGeneration, image,
                          draws, fullRequested>>
           /\ Push(BoundaryOfJob, TRUE)
           /\ \/ /\ ~ job.recovering /\ call' = "none" /\ ClearCurrentDamageAndBoundaries
                 /\ job' = Job(Bands, TRUE, TRUE) /\ established' = FALSE /\ ended' = ended
              \/ /\ call' = "surfaceWake" /\ EnqueueBoundary(BoundaryOfJob)
                 /\ job' = IF Len(job.bands) = 1 THEN NoJob
                           ELSE [job EXCEPT !.bands = Tail(@), !.boundaryDue = FALSE]
                 /\ established' = (established \/ CompletesBaseline) /\ ended' = ended
<1>1. /\ job.boundaryDue /\ call = "none"
      /\ UNCHANGED <<uiSide, lastPopped, events, armed, wakes, runtimeGeneration, image, draws,
                     fullRequested>>
  BY DEF PublishBoundaryOfJob, PublishSurface, uiSide, wakeVars
<1>2. PICK u \in Update : u = BoundaryOfJob
  BY <1>1, BoundaryReady
<1>3. /\ job # NoJob /\ u.kind = "Boundary" /\ BoundaryAccepted(u)
      /\ SurfaceOutcome(u) = IF Overflows(u) THEN "NeedsFullSnapshot" ELSE "Queued"
      /\ job.recovering => ~ Overflows(u)
  BY <1>1, <1>2, BoundaryReady
<1>4. /\ Push(u, TRUE) /\ PushBoundary(u)
      /\ call' = (IF SurfaceOutcome(u) = "Queued" THEN "surfaceWake" ELSE "none")
      /\ poisoned' = FALSE
  BY <1>2, <1>3 DEF PublishBoundaryOfJob, PublishSurface, Push, PushReset, PushDamage
<1>5. revision' = revision + 1
  <2>1. revision' = RevisionAfterBoundary(SurfaceOutcome(u))
    BY <1>2 DEF PublishBoundaryOfJob
  <2> QED
    BY <1>3, <2>1 DEF RevisionAfterBoundary
<1>6. CASE Overflows(u)
  <2>1. /\ SurfaceOutcome(u) = "NeedsFullSnapshot" /\ ~ job.recovering /\ call' = "none"
        /\ ClearCurrentDamageAndBoundaries
    BY <1>3, <1>4, <1>6 DEF PushBoundary
  <2>2. Recover
    BY <1>2, <2>1, Zenon DEF PublishBoundaryOfJob
  <2>3. job' = Job(Bands, TRUE, TRUE) /\ established' = FALSE /\ ended' = ended
    BY <2>1, <2>2 DEF Recover
  <2> QED
    BY <1>1, <1>2, <1>3, <1>4, <1>5, <2>1, <2>3
<1>7. CASE ~ Overflows(u)
  <2>1. /\ SurfaceOutcome(u) = "Queued" /\ call' = "surfaceWake" /\ EnqueueBoundary(u)
    BY <1>3, <1>4, <1>7 DEF PushBoundary
  <2>2. /\ established' = (established \/ CompletesBaseline) /\ ended' = ended
        /\ job' = IF Len(job.bands) = 1 THEN NoJob
                  ELSE [job EXCEPT !.bands = Tail(@), !.boundaryDue = FALSE]
    BY <1>2, <2>1, Zenon DEF PublishBoundaryOfJob
  <2> QED
    BY <1>1, <1>2, <1>3, <1>4, <1>5, <2>1, <2>2, Zenon
<1> QED
  BY <1>6, <1>7

LEMMA BoundaryStepKept ==
    ASSUME PortInvariant, PublishBoundaryOfJob
    PROVE  /\ PortInvariant'
           /\ UNCHANGED <<uiSide, armed, wakes, events>>
           /\ \/ call' = "surfaceWake"
              \/ call = "none" /\ call' = "none" /\ (queue' # <<>> => queue # <<>>)
<1>1. /\ job.boundaryDue /\ call = "none"
      /\ UNCHANGED <<uiSide, lastPopped, events, armed, wakes, runtimeGeneration, image, draws,
                     fullRequested>>
  BY BoundaryOutcomes
<1>2. PICK u \in Update : u = BoundaryOfJob
  BY <1>1, BoundaryReady
<1>3. job # NoJob /\ u.kind = "Boundary" /\ u.revision = revision + 1 /\ u.bytes = 0
  BY <1>1, <1>2, BoundaryReady
<1>4. Push(u, TRUE) /\ poisoned' = FALSE
  BY <1>2, BoundaryOutcomes
<1>5. MailboxInvariant'
  BY <1>1, <1>3, <1>4, PushStep DEF PortInvariant
<1>6. /\ runtimeGeneration # 0 /\ revision \in Nat /\ job \in Jobs /\ current \in Surface
      /\ established \in BOOLEAN /\ job.bands \in Seq(SUBSET Cells) /\ job.bands # <<>>
      /\ current.lastDamage = revision + 1 /\ current.lastBoundary <= revision
      /\ current.lastBoundary \in Nat
  BY <1>1, <1>3, JobFacts
  DEF PortInvariant, MailboxInvariant, TypeInvariant, AppleTypes, RevisionsAgree, Surface
<1>7. revision' = revision + 1
  BY BoundaryOutcomes
<1>8. CASE call' = "none"
  <2>1. /\ ~ job.recovering /\ ClearCurrentDamageAndBoundaries
        /\ job' = Job(Bands, TRUE, TRUE) /\ established' = FALSE /\ ended' = ended
    BY <1>8, BoundaryOutcomes
  <2>2. revision' \in Nat /\ current.lastDamage <= revision' /\ current.lastBoundary <= revision'
    BY <1>6, <1>7
  <2>3. PortInvariant'
    BY <1>1, <1>3, <1>4, <1>5, <1>8, <2>1, <2>2, RecoveryBegins
  <2> QED
    BY <1>1, <1>8, <2>1, <2>3, Overflowed DEF PortInvariant
<1>9. CASE call' # "none"
  <2>1. call' = "surfaceWake" /\ EnqueueBoundary(u)
    BY <1>2, <1>9, BoundaryOutcomes
  <2>2. /\ established' = (established \/ CompletesBaseline) /\ ended' = ended
        /\ job' = IF Len(job.bands) = 1 THEN NoJob
                  ELSE [job EXCEPT !.bands = Tail(@), !.boundaryDue = FALSE]
    BY <1>9, BoundaryOutcomes, Zenon
  <2>3. /\ current' = [current EXCEPT !.lastBoundary = u.revision, !.eligible = 0]
        /\ EnqueueCurrent(u)
    BY <2>1 DEF EnqueueBoundary
  <2>4. /\ current'.generation = current.generation /\ current'.session = current.session
        /\ current'.lastDamage = revision + 1 /\ current'.lastBoundary = revision + 1
    BY <1>3, <1>6, <2>3 DEF Surface
  <2>5. /\ Len(queue') = Len(queue) + 1 /\ ResetsEmpty'
        /\ queuedPixelBytes' = queuedPixelBytes + 0
    BY <1>3, <2>3, Enqueued DEF PortInvariant
  <2>6. /\ job' \in Jobs /\ ~ job'.boundaryDue
        /\ \/ job' = NoJob
           \/ /\ job'.bands = Tail(job.bands) /\ job'.recovering = job.recovering
              /\ Len(job.bands) # 1
    BY <1>6, <2>2, JobUpdated, NoJobFacts
  <2>7. established' \in BOOLEAN
    <3>1. CompletesBaseline \in BOOLEAN
      BY <1>6 DEF CompletesBaseline, Jobs
    <3> QED
      BY <1>6, <2>2, <3>1
  <2>8. AppleTypes' /\ ImagePainted'
    BY <1>1, <1>6, <1>7, <2>1, <2>6, <2>7 DEF PortInvariant, AppleTypes, ImagePainted
  <2>9. GenerationsAgree' /\ RevisionsAgree'
    BY <1>1, <1>6, <1>7, <2>1, <2>4, <2>6
    DEF PortInvariant, GenerationsAgree, Established, RevisionsAgree
  <2>10. /\ Len(job.bands) \in Nat \ {0} /\ Tail(job.bands) \in Seq(SUBSET Cells)
         /\ Len(Tail(job.bands)) = Len(job.bands) - 1
         /\ \A i \in 1..Len(Tail(job.bands)) :
              i + 1 \in 1..Len(job.bands) /\ Tail(job.bands)[i] = job.bands[i + 1]
    BY <1>6
  <2>11. JobsInOrder'
    <3>1. CASE job' = NoJob
      BY <2>1, <3>1, NoJobFacts DEF JobsInOrder
    <3>2. CASE /\ job'.bands = Tail(job.bands) /\ job'.recovering = job.recovering
               /\ Len(job.bands) # 1
      <4>1. Len(job'.bands) = Len(job.bands) - 1 /\ Len(job'.bands) # 0
        BY <2>10, <3>2
      <4>2. job'.bands # <<>>
        <5>1. Len(<<>>) = 0
          OBVIOUS
        <5> QED
          BY <4>1, <5>1, Zenon
      <4>3. ~ job'.recovering => Len(job'.bands) <= 1
        BY <2>6, <2>10, <3>2, <4>1, NoJobFacts DEF PortInvariant, JobsInOrder
      <4> QED
        BY <1>1, <1>6, <2>1, <4>2, <4>3 DEF JobsInOrder
    <3> QED
      BY <2>6, <3>1, <3>2
  <2>12. RecoveryFits'
    <3>1. SUFFICES ASSUME job'.recovering PROVE RecoveryFits'
      BY DEF RecoveryFits
    <3>2. /\ job'.bands = Tail(job.bands) /\ job.recovering /\ Len(job.bands) # 1
      BY <2>6, <3>1, NoJobFacts
    <3>3. /\ job.bands \in Seq(SUBSET Cells) /\ Len(queue) \in Nat /\ queuedPixelBytes \in Nat
          /\ Room(job.bands, TRUE, Len(queue), queuedPixelBytes)
      BY <1>1, <3>2, RecoveryFacts
    <3>4. Room(Tail(job.bands), FALSE, Len(queue) + 1, queuedPixelBytes)
      BY <3>2, <3>3, RoomBounded
    <3>5. queuedPixelBytes + 0 = queuedPixelBytes
      BY <3>3
    <3>6. job'.boundaryDue = FALSE
      BY <1>6, <2>2, <3>1 DEF Jobs, NoJob, Job
    <3> QED
      BY <2>5, <3>2, <3>4, <3>5, <3>6, Zenon DEF RecoveryFits
  <2>13. PortInvariant'
    BY <1>4, <1>5, <2>2, <2>5, <2>8, <2>9, <2>11, <2>12 DEF PortInvariant, PortAccepts
  <2> QED
    BY <1>1, <2>1, <2>13
<1> QED
  BY <1>8, <1>9

LEMMA PortStutters ==
    ASSUME PortInvariant, UNCHANGED allVars
    PROVE  PortInvariant'
<1>1. UNCHANGED <<queue, queuedPixelBytes, current, lastPopped, call, runtimeGeneration,
                  poisoned, image, draws, revision, established, job, fullRequested, ended>>
  BY DEF allVars, pipelineVars, vars, runtimeVars, appleVars, publisherVars
<1>2. MailboxInvariant'
  BY <1>1, StutterStep DEF PortInvariant, vars
<1>3. AppleTypes' /\ ImagePainted' /\ GenerationsAgree' /\ PortAccepts'
  BY <1>1 DEF PortInvariant, AppleTypes, ImagePainted, GenerationsAgree, Established, PortAccepts
<1>4. JobsInOrder' /\ RevisionsAgree' /\ ResetsEmpty'
  BY <1>1 DEF PortInvariant, JobsInOrder, RevisionsAgree, ResetsEmpty, Established
<1>5. RecoveryFits'
  BY <1>1 DEF PortInvariant, RecoveryFits
<1> QED
  BY <1>2, <1>3, <1>4, <1>5 DEF PortInvariant

LEMMA PortStep ==
    ASSUME PortInvariant, [AppleNext]_allVars
    PROVE  PortInvariant'
BY GenerationOpens, FrameDecoded, ResetPublished, GenerationBegun, DamageStepKept,
   BoundaryStepKept, WakeKeepsPort, UiKeepsPort, PortStutters DEF AppleNext, ReaderStep

-----------------------------------------------------------------------------
(***************************************************************************)
(* The steps of the reader keep the invariant of the wakes.                *)
(***************************************************************************)
LEMMA ReaderWakes ==
    ASSUME PortInvariant, WakeInvariant, ReaderStep
    PROVE  WakeInvariant'
<1>1. CASE ApplePublishReset
  BY <1>1, ResetPublished, PublishedSeen
<1>2. CASE AppleGenerationBegun
  BY <1>2, Woken DEF AppleGenerationBegun, WakeAfterGeneration, mailbox
<1>3. CASE PublishDamageOfJob
  <2>1. call = "none"
    BY <1>3 DEF PublishDamageOfJob, PublishSurface
  <2> QED
    BY <1>3, <2>1, DamageStepKept, PublishedSeen
<1>4. CASE PublishBoundaryOfJob
  <2>1. call = "none"
    BY <1>4 DEF PublishBoundaryOfJob, PublishSurface
  <2> QED
    BY <1>4, <2>1, BoundaryStepKept, PublishedSeen
<1>5. CASE AppleWake
  BY <1>5, Woken DEF AppleWake, WakeAfterSurface, mailbox
<1> QED
  BY <1>1, <1>2, <1>3, <1>4, <1>5 DEF ReaderStep

LEMMA WakeStep ==
    ASSUME PortInvariant, WakeInvariant, [AppleNext]_allVars
    PROVE  WakeInvariant'
<1>1. CASE AppleBeginGeneration
  BY <1>1, EventOpened DEF AppleBeginGeneration
<1>2. CASE ReaderStep
  BY <1>2, ReaderWakes
<1>3. CASE AppleUi
  BY <1>3, UiKeepsWakes DEF AppleUi
<1>4. CASE UNCHANGED pipelineVars
  BY <1>4, WakesStutter
<1> QED
  BY <1>1, <1>2, <1>3, <1>4 DEF AppleNext, DecodeFrame, allVars

-----------------------------------------------------------------------------
(***************************************************************************)
(* Every state of the Apple pipeline satisfies the two invariants.         *)
(***************************************************************************)
THEOREM AppleInvariance == AppleSpec => []AppleInvariant
<1>1. AppleInit => AppleInvariant
  BY PortStarts, WakeStarts DEF AppleInvariant, AppleInit
<1>2. AppleInvariant /\ [AppleNext]_allVars => AppleInvariant'
  BY PortStep, WakeStep DEF AppleInvariant
<1> QED
  BY <1>1, <1>2, PTL DEF AppleSpec

(***************************************************************************)
(* Nothing published is forgotten: however publications, callbacks and     *)
(* redraws interleave, a waiting UI has a Wake under way for what is       *)
(* queued.  A picture not yet presented has a redraw under way, unless the *)
(* window does not show (and what reveals it asks for one) or a redraw for *)
(* it was skipped because the surface had no frame, which the code does    *)
(* not repeat (application.rs, RuntimeWakeGate, drain_runtime, render_now  *)
(* and the handlers of window events).                                     *)
(***************************************************************************)
THEOREM NothingIsForgotten == AppleSpec => []NothingForgotten
<1>1. AppleInvariant => NothingForgotten
  BY WaitingIsSeen DEF AppleInvariant
<1> QED
  BY <1>1, AppleInvariance, PTL

(***************************************************************************)
(* The frame port accepts all that the Apple adapter publishes, and a      *)
(* recovery never overflows again, for every surface, cut into bands and   *)
(* limit that admits them, whatever is queued and whenever the UI drains.  *)
(***************************************************************************)
THEOREM PortAlwaysAccepts == AppleSpec => []PortAccepts
<1>1. AppleInvariant => PortAccepts
  BY DEF AppleInvariant, PortInvariant
<1> QED
  BY <1>1, AppleInvariance, PTL

-----------------------------------------------------------------------------
(***************************************************************************)
(* What the texture will show: every drawn cell is still to be published,  *)
(* or its picture is on its way, unless a full frame is owed.              *)
(***************************************************************************)
Drawn == 1..MaxDraws

\* What the job has still to publish.
Remaining ==
    UNION {job.bands[i] : i \in (IF job.boundaryDue THEN 2 ELSE 1)..Len(job.bands)}

ImageArrives ==
    runtimeGeneration # 0 /\ call # "generationWake" /\ ~ fullRequested =>
      \A c \in Cells : c \in Remaining \/ Arrives(c, image[c])

RecoveryIsOver == job.recovering /\ Done # 0 => StartupOver(Len(queue))

BoundaryNext ==
    IF job.boundaryDue
    THEN Newest.kind = "Damage" /\ Newest.payload = PatchOf(Head(job.bands))
    ELSE (job.recovering /\ Done = 0) \/ Newest.kind # "Damage"

FullJobs == job.full /\ ~ job.recovering => job.bands = <<Cells>>

PictureInvariant ==
    /\ pixels \in [Cells -> Drawn \cup {0}]
    /\ DamageCarries(Drawn)
    /\ BoundaryNext
    /\ FullJobs
    /\ Running =>
         /\ BatchWhole(Drawn) /\ FullIsWhole /\ RecoveryIsOver /\ ImageArrives
         /\ StartupPaintsEverything

-----------------------------------------------------------------------------
(***************************************************************************)
(* The pipeline is a use of the path from the mailbox to the screen: its   *)
(* steps keep the invariant of that path.                                  *)
(***************************************************************************)
LEMMA AppleKeepsDelivery ==
    ASSUME PortInvariant, DeliveryInvariant, [AppleNext]_allVars
    PROVE  DeliveryInvariant'
<1>1. CASE UiStep
  BY <1>1, UiKeepsDelivery
<1>2. CASE UNCHANGED <<uiVars, lastPopped>>
  <2>1. PortInvariant'
    BY PortStep
  <2>2. MailboxInvariant' /\ (Established' => current'.session = Session)
    BY <2>1 DEF PortInvariant, GenerationsAgree
  <2> QED
    BY <1>2, <2>2, PublisherKeepsDelivery
<1>3. UiStep \/ UNCHANGED <<uiVars, lastPopped>>
  <2>1. CASE AppleUi
    BY <2>1 DEF AppleUi
  <2>2. CASE ReaderStep
    BY <2>2
    DEF ReaderStep, ApplePublishReset, BeginGenerationReset, AppleGenerationBegun,
        WakeAfterGeneration, PublishDamageOfJob, PublishBoundaryOfJob, PublishSurface, AppleWake,
        WakeAfterSurface, uiSide
  <2>3. CASE AppleBeginGeneration
    BY <2>3 DEF AppleBeginGeneration, BeginGenerationEvent, uiSide
  <2>4. CASE UNCHANGED pipelineVars
    BY <2>4 DEF pipelineVars, vars
  <2> QED
    BY <2>1, <2>2, <2>3, <2>4 DEF AppleNext, DecodeFrame, allVars
<1> QED
  BY <1>1, <1>2, <1>3

-----------------------------------------------------------------------------
(***************************************************************************)
(* The steps that move no picture, and those of the UI.                    *)
(***************************************************************************)
LEMMA DrawnFacts == 0 \notin Drawn /\ Drawn \cup {0} = 0..MaxDraws
BY PipelineAssumption DEF Drawn

LEMMA PictureStarts == AppleInit => PictureInvariant
<1> SUFFICES ASSUME AppleInit PROVE PictureInvariant
  OBVIOUS
<1>1. /\ queue = <<>> /\ lastPopped = NothingPopped /\ transactions = <<>>
      /\ texture = NewTexture(0) /\ pixels = Unpainted /\ job = NoJob
      /\ runtimeGeneration = 0
  BY DEF AppleInit, PipelineInit, DeliveryInit, Init
<1>2. pixels \in [Cells -> Drawn \cup {0}]
  BY <1>1, PipelineAssumption DEF Unpainted
<1>3. lastPopped.kind = "Reset" /\ Newest = lastPopped
  BY <1>1 DEF NothingPopped, ResetUpdate, Newest
<1>4. DamageCarries(Drawn) /\ FullIsWhole /\ BatchWhole(Drawn)
  BY <1>1, <1>3 DEF DamageCarries, FullIsWhole, BatchWhole
<1>5. BoundaryNext /\ FullJobs /\ RecoveryIsOver
  BY <1>1, <1>3 DEF BoundaryNext, FullJobs, RecoveryIsOver, NoJob, Job
<1>6. ImageArrives /\ StartupPaintsEverything
  BY <1>1 DEF ImageArrives, StartupPaintsEverything, NewTexture
<1> QED
  BY <1>2, <1>4, <1>5, <1>6 DEF PictureInvariant

LEMMA PictureKept ==
    ASSUME PictureInvariant,
           UNCHANGED <<queue, lastPopped, transactions, pixels, compiler, failure, image, job>>,
           texture'.generation = texture.generation,
           runtimeGeneration' # 0 /\ call' # "generationWake" /\ ~ fullRequested' =>
             runtimeGeneration # 0 /\ call # "generationWake" /\ ~ fullRequested
    PROVE  PictureInvariant'
<1>1. Newest' = Newest /\ Done' = Done /\ Remaining' = Remaining
  BY DEF Newest, Done, Remaining
<1>2. /\ (pixels \in [Cells -> Drawn \cup {0}])' /\ DamageCarries(Drawn)' /\ FullJobs'
  BY DEF PictureInvariant, DamageCarries, FullJobs
<1>3. BoundaryNext'
  BY <1>1 DEF PictureInvariant, BoundaryNext, PatchOf
<1>4. ASSUME Running' PROVE BatchWhole(Drawn)' /\ RecoveryIsOver' /\ StartupPaintsEverything'
  BY <1>1, <1>4
  DEF PictureInvariant, Running, BatchWhole, RecoveryIsOver, StartupOver, HasStartup,
      StartupPaintsEverything
<1>5. ASSUME Running' PROVE FullIsWhole'
  BY <1>5 DEF PictureInvariant, Running, FullIsWhole, Full, Whole, Before, StartupOver, HasStartup
<1>6. ASSUME NEW c \in Cells, NEW v, Arrives(c, v) PROVE Arrives(c, v)'
  BY <1>6
  DEF Arrives, QueuePaints, QueueSkips, Covers, Shown, BatchPaints, BatchSkips
<1>7. ASSUME Running' PROVE ImageArrives'
  BY <1>1, <1>6, <1>7 DEF PictureInvariant, Running, ImageArrives
<1> QED
  BY <1>2, <1>3, <1>4, <1>5, <1>7 DEF PictureInvariant

LEMMA UiKeepsPicture ==
    ASSUME DeliveryInvariant, PictureInvariant, AppleUi
    PROVE  PictureInvariant'
<1>1. UNCHANGED <<image, job, fullRequested, call, runtimeGeneration>>
  BY UiLeaves DEF AppleUi, appleVars
<1>2. /\ pixels \in [Cells -> Drawn \cup {0}] /\ DamageCarries(Drawn) /\ BoundaryNext /\ FullJobs
      /\ Running =>
           /\ BatchWhole(Drawn) /\ FullIsWhole /\ RecoveryIsOver /\ ImageArrives
           /\ StartupPaintsEverything
  BY DEF PictureInvariant
<1>3. Done' = Done /\ Remaining' = Remaining /\ FullJobs'
  BY <1>1, <1>2 DEF Done, Remaining, FullJobs
<1>4. CASE HandleWake \/ HandleRedraw \/ ReduceEvents \/ RequestRedraw \/ LockMailbox
           \/ UnlockMailbox
  <2>1. UNCHANGED <<queue, lastPopped, transactions, pixels, compiler, failure, texture>>
    BY <1>4
    DEF HandleWake, HandleRedraw, ReduceEvents, RequestRedraw, protocolSide, mailbox, uiVars,
        LockMailbox, BeginDrain, UnlockMailbox, EndDrain, vars, callbackVars
  <2> QED
    BY <1>1, <2>1, PictureKept
<1>5. CASE RenderNow
  <2>1. /\ UNCHANGED <<queue, lastPopped, transactions, pixels, compiler, failure>>
        /\ texture' = texture \/ texture' = Confirmed
    BY <1>5 DEF RenderNow, RenderPresents, RenderSkips, PresentTexture, vars, uiVars
  <2>2. texture \in Texture
    BY DEF DeliveryInvariant, DeliveryTypes
  <2>3. texture'.generation = texture.generation
    BY <2>1, <2>2 DEF Confirmed, Texture
  <2> QED
    BY <1>1, <2>1, <2>3, PictureKept
<1>6. CASE ApplyTransaction /\ BatchError = "None"
  <2>1. /\ Running /\ UNCHANGED <<queue, lastPopped, compiler>>
    BY <1>6 DEF ApplyTransaction, ApplyHead, vars
  <2>2. /\ pixels' \in [Cells -> Drawn \cup {0}]
        /\ BatchWhole(Drawn)' /\ StartupPaintsEverything'
        /\ \A c \in Cells : \A v : Shown(c, v) => Shown(c, v)'
    BY <1>2, <1>6, <2>1, DrawnFacts, HeadApplied
  <2>3. DamageCarries(Drawn)' /\ FullIsWhole' /\ RecoveryIsOver'
    BY <1>1, <1>2, <1>3, <2>1
    DEF DamageCarries, FullIsWhole, Full, Whole, Before, RecoveryIsOver, StartupOver, HasStartup
  <2>4. BoundaryNext'
    BY <1>1, <1>2, <1>3, <2>1 DEF BoundaryNext, Newest, PatchOf
  <2>5. ASSUME NEW c \in Cells, NEW v, Arrives(c, v) PROVE Arrives(c, v)'
    BY <1>1, <2>1, <2>2, <2>5 DEF Arrives, QueuePaints, QueueSkips, Covers
  <2>6. ImageArrives'
    BY <1>1, <1>2, <1>3, <2>1, <2>5 DEF ImageArrives
  <2> QED
    BY <1>3, <2>2, <2>3, <2>4, <2>6 DEF PictureInvariant
<1>7. CASE CompileUpdate
  <2>1. /\ Running /\ CompileHead /\ Pop /\ UNCHANGED <<pixels, texture>>
    BY <1>7 DEF CompileUpdate, CompileHead, callbackVars
  <2>2. Newest' = Newest /\ DamageCarries(Drawn)'
    BY <1>2, <2>1, NewestStays DEF DeliveryInvariant
  <2>3. BoundaryNext'
    BY <1>1, <1>2, <1>3, <2>2 DEF BoundaryNext, PatchOf
  <2>4. ASSUME Running'
        PROVE  /\ BatchWhole(Drawn)' /\ FullIsWhole' /\ RecoveryIsOver' /\ ImageArrives'
               /\ StartupPaintsEverything'
    <3>1. BatchWhole(Drawn)' /\ FullIsWhole'
      BY <1>2, <2>1, <2>4, BatchCompiled, WholePopped DEF DamageCarries
    <3>2. PICK n \in 1..Len(queue) : n = Len(queue) /\ Len(queue') = n - 1
      BY <2>1, <2>4, HeadCompiled
    <3>3. StartupOver(n) => StartupOver(n - 1)'
      BY <2>1, <2>4, StartupPopped
    <3>4. RecoveryIsOver'
      <4>1. StartupOver(Len(queue)) => StartupOver(Len(queue))'
        BY <3>2, <3>3
      <4> QED
        BY <1>1, <1>2, <1>3, <2>1, <4>1 DEF RecoveryIsOver
    <3>5. \A c \in Cells : \A v : Arrives(c, v) => Arrives(c, v)'
      BY <1>1, <2>1, <2>4, ArrivalPopped
    <3>6. ImageArrives'
      BY <1>1, <1>2, <1>3, <2>1, <3>5 DEF ImageArrives
    <3>7. StartupPaintsEverything'
      BY <1>2, <2>1 DEF StartupPaintsEverything
    <3> QED
      BY <3>1, <3>4, <3>6, <3>7
  <2> QED
    BY <1>2, <1>3, <2>1, <2>2, <2>3, <2>4 DEF PictureInvariant
<1>8. CASE ApplyTransaction /\ BatchError # "None"
  <2>1. /\ UNCHANGED <<queue, lastPopped, pixels>> /\ ~ Running'
        /\ transactions' = <<>>
    BY <1>8 DEF ApplyTransaction, ApplyHead, Running, vars
  <2>2. DamageCarries(Drawn)'
    BY <1>1, <1>2, <1>3, <2>1 DEF DamageCarries
  <2>3. BoundaryNext'
    BY <1>1, <1>2, <1>3, <2>1 DEF BoundaryNext, Newest, PatchOf
  <2> QED
    BY <1>1, <1>2, <1>3, <2>1, <2>2, <2>3 DEF PictureInvariant
<1>9. CASE WindowStep
  <2>1. UNCHANGED <<queue, lastPopped, transactions, pixels, compiler, failure, texture>>
    BY <1>9, WindowLeaves DEF vars, uiVars
  <2> QED
    BY <1>1, <2>1, PictureKept
<1> QED
  BY <1>4, <1>5, <1>6, <1>7, <1>8, <1>9 DEF AppleUi, UiStep

-----------------------------------------------------------------------------
(***************************************************************************)
(* The reader: a Reset, a generation, a frame, and what it publishes.      *)
(***************************************************************************)
LEMMA ResetPicture ==
    ASSUME PortInvariant, PictureInvariant, ApplePublishReset
    PROVE  PictureInvariant'
<1>1. /\ call = "reset" /\ call' = "generationWake" /\ UNCHANGED <<image, job>>
      /\ UNCHANGED <<lastPopped, transactions, pixels, compiler, failure, texture>>
  BY ResetPublished
  DEF ApplePublishReset, BeginGenerationReset, appleVars, uiSide, uiVars, callbackVars
<1>2. /\ job = NoJob /\ ~ job.boundaryDue /\ ~ job.recovering /\ ~ job.full
  BY <1>1, NoJobFacts DEF PortInvariant, JobsInOrder, NoJob, Job
<1> DEFINE u == ResetUpdate(Session, runtimeGeneration + 1)
<1>3. u.kind = "Reset"
  BY DEF ResetUpdate
<1>4. queue' = <<u>> \/ queue' = queue
  BY DEF ApplePublishReset, BeginGenerationReset, PushReset, EnqueueReset, mailbox
<1> HIDE DEF u
<1>5. CASE queue' = queue
  BY <1>1, <1>5, PictureKept
<1>6. CASE queue' = <<u>>
  <2>1. /\ queue' # <<>> /\ Len(queue') = 1 /\ queue'[1] = u
        /\ \A i \in 1..Len(queue') : queue'[i].kind = "Reset"
    BY <1>3, <1>6
  <2>2. Newest'.kind = "Reset"
    BY <1>3, <2>1 DEF Newest
  <2>3. (pixels \in [Cells -> Drawn \cup {0}])' /\ DamageCarries(Drawn)' /\ FullJobs'
    BY <1>1, <1>2, <2>1 DEF PictureInvariant, DamageCarries, FullJobs
  <2>4. BoundaryNext'
    BY <1>1, <1>2, <2>2 DEF BoundaryNext
  <2>5. ASSUME Running'
        PROVE  /\ BatchWhole(Drawn)' /\ FullIsWhole' /\ RecoveryIsOver' /\ ImageArrives'
               /\ StartupPaintsEverything'
    BY <1>1, <1>2, <2>1, <2>5
    DEF PictureInvariant, Running, BatchWhole, FullIsWhole, RecoveryIsOver, ImageArrives,
        StartupPaintsEverything
  <2> QED
    BY <2>3, <2>4, <2>5 DEF PictureInvariant
<1> QED
  BY <1>4, <1>5, <1>6

\* A new image: what no publication carries yet is owed by a job or a request.
LEMMA PictureDrawn ==
    ASSUME PictureInvariant, ~ job.boundaryDue, ~ job.recovering,
           ~ job'.boundaryDue, ~ job'.recovering, FullJobs', Running => ImageArrives',
           UNCHANGED <<queue, lastPopped, transactions, pixels, compiler, failure, texture>>
    PROVE  PictureInvariant'
<1>1. Newest' = Newest
  BY DEF Newest
<1>2. (pixels \in [Cells -> Drawn \cup {0}])' /\ DamageCarries(Drawn)'
  BY DEF PictureInvariant, DamageCarries
<1>3. BoundaryNext'
  BY <1>1 DEF PictureInvariant, BoundaryNext
<1>4. ASSUME Running'
      PROVE  BatchWhole(Drawn)' /\ RecoveryIsOver' /\ StartupPaintsEverything'
  BY <1>4 DEF PictureInvariant, Running, BatchWhole, RecoveryIsOver, StartupPaintsEverything
<1>5. ASSUME Running' PROVE FullIsWhole'
  BY <1>5 DEF PictureInvariant, Running, FullIsWhole, Full, Whole, Before, StartupOver, HasStartup
<1> QED
  BY <1>2, <1>3, <1>4, <1>5 DEF PictureInvariant, Running

LEMMA BegunPicture ==
    ASSUME PortInvariant, PictureInvariant, AppleGenerationBegun
    PROVE  PictureInvariant'
<1>1. /\ call = "generationWake" /\ fullRequested' = TRUE /\ UNCHANGED job
      /\ UNCHANGED <<queue, lastPopped, transactions, pixels, compiler, failure, texture>>
  BY DEF AppleGenerationBegun, WakeAfterGeneration, mailbox, uiSide, uiVars, callbackVars
<1>2. /\ job = NoJob /\ ~ job.boundaryDue /\ ~ job.recovering /\ ~ job.full
  BY <1>1, NoJobFacts DEF PortInvariant, JobsInOrder, NoJob, Job
<1>3. FullJobs' /\ ImageArrives'
  BY <1>1, <1>2 DEF FullJobs, ImageArrives
<1> QED
  BY <1>1, <1>2, <1>3, PictureDrawn

LEMMA DecodedPicture ==
    ASSUME PortInvariant, PictureInvariant, NEW S \in SUBSET Cells,
           NEW kind \in {"Complete", "Black", "Partial"}, DecodeFrame(S, kind)
    PROVE  PictureInvariant'
<1>1. /\ job = NoJob /\ call = "none" /\ runtimeGeneration # 0 /\ Draw(S)
      /\ (kind # "Partial" => S = Cells)
      /\ UNCHANGED <<queue, lastPopped, transactions, pixels, compiler, failure, texture>>
      /\ UNCHANGED <<call, runtimeGeneration>>
  BY DEF DecodeFrame, ReaderWaits, pipelineVars, vars, uiVars, runtimeVars, callbackVars
<1>2. /\ ~ NoJob.boundaryDue /\ ~ NoJob.recovering /\ ~ NoJob.full /\ Len(NoJob.bands) = 0
  BY DEF NoJob, Job
<1>3. CASE job' = NoJob /\ fullRequested' = TRUE
  <2>1. FullJobs' /\ ImageArrives'
    BY <1>2, <1>3 DEF FullJobs, ImageArrives
  <2> QED
    BY <1>1, <1>2, <1>3, <2>1, PictureDrawn
<1>4. CASE /\ job' = Job(<<S>>, Completeness(kind) = "FullBaseline", FALSE)
           /\ fullRequested' = (fullRequested /\ kind = "Partial")
  <2>1. /\ ~ job'.boundaryDue /\ ~ job'.recovering /\ job'.bands = <<S>>
        /\ Len(job'.bands) = 1 /\ job'.bands[1] = S
        /\ job'.full <=> Completeness(kind) = "FullBaseline"
    BY <1>4 DEF Job
  <2>2. FullJobs'
    <3>1. kind = "Partial" => Completeness(kind) # "FullBaseline"
      BY DEF Completeness
    <3> QED
      BY <1>1, <2>1, <3>1 DEF FullJobs
  <2>3. Running => ImageArrives'
    <3>1. SUFFICES ASSUME Running, ~ fullRequested', NEW c \in Cells
                   PROVE  c \in Remaining' \/ Arrives(c, image[c])'
      BY DEF ImageArrives
    <3>2. Remaining' = S
      BY <2>1 DEF Remaining
    <3>3. CASE c \notin S
      <4>1. kind = "Partial" /\ ~ fullRequested
        BY <1>1, <1>4, <3>1, <3>3
      <4>2. c \notin Remaining
        BY <1>1, <1>2 DEF Remaining
      <4>3. Arrives(c, image[c])
        BY <1>1, <3>1, <4>1, <4>2 DEF PictureInvariant, ImageArrives
      <4>4. image'[c] = image[c]
        BY <1>1, <3>3 DEF Draw
      <4> QED
        BY <1>1, <4>3, <4>4
        DEF Arrives, QueuePaints, QueueSkips, Covers, Shown, BatchPaints, BatchSkips
    <3> QED
      BY <3>2, <3>3
  <2> QED
    BY <1>1, <1>2, <2>1, <2>2, <2>3, PictureDrawn
<1>5. \/ job' = NoJob /\ fullRequested' = TRUE
      \/ /\ job' = Job(<<S>>, Completeness(kind) = "FullBaseline", FALSE)
         /\ fullRequested' = (fullRequested /\ kind = "Partial")
  BY <1>1 DEF DecodeFrame
<1> QED
  BY <1>3, <1>4, <1>5

\* A recovery owes the whole surface, and leaves at most a Reset in the queue.
LEMMA RecoveryPicture ==
    ASSUME PortInvariant, PictureInvariant, ClearCurrentDamageAndBoundaries,
           job' = Job(Bands, TRUE, TRUE),
           UNCHANGED <<lastPopped, transactions, pixels, compiler, failure, texture>>
    PROVE  PictureInvariant'
<1>1. queue \in Seq(Update) /\ queue' = HeadReset(queue)
  BY RetainedIsHeadReset
  DEF ClearCurrentDamageAndBoundaries, PortInvariant, MailboxInvariant, TypeInvariant,
      QueueCoherent
<1>2. \A i \in 1..Len(queue') : queue'[i].kind = "Reset"
  BY <1>1 DEF HeadReset
<1>3. /\ job'.bands = Bands /\ job'.recovering /\ ~ job'.boundaryDue
      /\ Bands \in Seq(SUBSET Cells)
  BY PipelineAssumption DEF Job
<1>4. Done' = 0
  <2>1. Len(Bands) - Len(Bands) = 0
    BY <1>3
  <2> QED
    BY <1>3, <2>1, Zenon DEF Done, DoneBefore
<1>5. /\ (pixels \in [Cells -> Drawn \cup {0}])' /\ DamageCarries(Drawn)' /\ FullJobs'
      /\ BoundaryNext'
  BY <1>2, <1>3, <1>4 DEF PictureInvariant, DamageCarries, FullJobs, BoundaryNext
<1>6. ImageArrives'
  <2>1. Remaining' = UNION {Bands[i] : i \in 1..Len(Bands)}
    BY <1>3 DEF Remaining
  <2>2. Remaining' = Cells
    BY <2>1, PipelineAssumption
  <2> QED
    BY <2>2 DEF ImageArrives
<1>7. ASSUME Running'
      PROVE  BatchWhole(Drawn)' /\ FullIsWhole' /\ RecoveryIsOver' /\ StartupPaintsEverything'
  BY <1>2, <1>4, <1>7
  DEF PictureInvariant, Running, BatchWhole, FullIsWhole, RecoveryIsOver, StartupPaintsEverything
<1> QED
  BY <1>5, <1>6, <1>7 DEF PictureInvariant

LEMMA DamagePicture ==
    ASSUME PortInvariant, PictureInvariant, PublishDamageOfJob
    PROVE  PictureInvariant'
<1>1. /\ job # NoJob /\ ~ job.boundaryDue /\ call = "none"
      /\ UNCHANGED <<lastPopped, transactions, pixels, compiler, failure, texture>>
      /\ UNCHANGED <<runtimeGeneration, image, fullRequested>>
  BY DamageOutcomes DEF uiSide, uiVars, callbackVars
<1>2. CASE call' = "none"
  BY <1>1, <1>2, DamageOutcomes, RecoveryPicture
<1>3. CASE call' # "none"
  <2>1. /\ call' = "surfaceWake" /\ EnqueueDamage(DamageOfJob)
        /\ job' = [job EXCEPT !.boundaryDue = TRUE]
    BY <1>3, DamageOutcomes
  <2> DEFINE S == Head(job.bands)
  <2>2. PICK u \in Update : u = DamageOfJob
    BY <1>1, DamageReady
  <2>3. u.kind = "Damage" /\ u.payload = PatchOf(S) /\ queue' = Append(queue, u)
    BY <2>1, <2>2 DEF DamageOfJob, DamageUpdate, EnqueueDamage, EnqueueCurrent
  <2>4. AppendFacts(u)
    BY <2>3, AppendedQueue DEF PortInvariant, MailboxInvariant, TypeInvariant
  <2>5. /\ image \in [Cells -> 1..MaxDraws] /\ job \in Jobs
        /\ job.bands \in Seq(SUBSET Cells) /\ job.bands # <<>> /\ S \in SUBSET Cells
    BY <1>1, JobFacts
  <2>6. /\ u.payload \in Pictures(Drawn) /\ DOMAIN u.payload = S
        /\ \A c \in S : u.payload[c] = image[c]
    BY <2>3, <2>5 DEF PatchOf, Pictures, Drawn
  <2>7. /\ job'.bands = job.bands /\ job'.recovering = job.recovering /\ job'.boundaryDue
        /\ job'.full = job.full
    BY <2>1, <2>5 DEF Jobs
  <2>8. Newest' = u
    BY <2>4 DEF AppendFacts
  <2>9. DamageCarries(Drawn)'
    BY <1>1, <2>4, <2>6 DEF PictureInvariant, DamageCarries, AppendFacts
  <2>10. BoundaryNext'
    BY <1>1, <2>3, <2>7, <2>8 DEF BoundaryNext, PatchOf
  <2>11. (pixels \in [Cells -> Drawn \cup {0}])' /\ FullJobs'
    BY <1>1, <2>7 DEF PictureInvariant, FullJobs
  <2>12. ASSUME Running'
         PROVE  /\ BatchWhole(Drawn)' /\ FullIsWhole' /\ RecoveryIsOver' /\ ImageArrives'
                /\ StartupPaintsEverything'
    <3>1. /\ BatchWhole(Drawn) /\ FullIsWhole /\ RecoveryIsOver /\ ImageArrives
          /\ StartupPaintsEverything
      BY <1>1, <2>12 DEF PictureInvariant, Running
    <3>2. FullIsWhole'
      BY <1>1, <2>3, <2>4, <3>1, WholeAppended
    <3>3. RecoveryIsOver'
      <4>1. StartupOver(Len(queue)) => StartupOver(Len(queue))'
        BY <1>1, <2>3, <2>4, StartupAppended
      <4> QED
        BY <2>7, <3>1, <4>1 DEF RecoveryIsOver, Done
    <3>4. ImageArrives'
      <4>1. SUFFICES ASSUME runtimeGeneration # 0, ~ fullRequested, NEW c \in Cells
                     PROVE  c \in Remaining' \/ Arrives(c, image[c])'
        BY <1>1 DEF ImageArrives
      <4>2. c \in Remaining \/ Arrives(c, image[c])
        BY <1>1, <3>1, <4>1 DEF ImageArrives
      <4>3. CASE c \in S
        <5>1. Covers(u, c) /\ u.payload[c] = image[c]
          BY <2>3, <2>6, <4>3 DEF Covers
        <5> QED
          BY <1>1, <2>3, <2>4, <5>1, ArrivalAppended
      <4>4. CASE c \notin S /\ c \in Remaining
        <5>1. PICK i \in 1..Len(job.bands) : c \in job.bands[i]
          BY <1>1, <4>4 DEF Remaining
        <5>2. i # 1
          BY <2>5, <4>4, <5>1
        <5>3. i \in 2..Len(job.bands)
          BY <2>5, <5>1, <5>2
        <5> QED
          BY <2>7, <5>1, <5>3 DEF Remaining
      <4>5. CASE c \notin S /\ Arrives(c, image[c])
        <5>1. ~ Covers(u, c)
          BY <2>6, <4>5 DEF Covers
        <5> QED
          BY <1>1, <2>3, <2>4, <4>5, <5>1, ArrivalAppended
      <4> QED
        BY <4>2, <4>3, <4>4, <4>5
    <3> QED
      BY <1>1, <3>1, <3>2, <3>3, <3>4 DEF BatchWhole, StartupPaintsEverything, Running
  <2> QED
    BY <2>9, <2>10, <2>11, <2>12 DEF PictureInvariant
<1> QED
  BY <1>2, <1>3

LEMMA BoundaryPicture ==
    ASSUME PortInvariant, PictureInvariant, PublishBoundaryOfJob
    PROVE  PictureInvariant'
<1>1. /\ job # NoJob /\ job.boundaryDue /\ call = "none"
      /\ UNCHANGED <<lastPopped, transactions, pixels, compiler, failure, texture>>
      /\ UNCHANGED <<runtimeGeneration, image, fullRequested>>
  BY BoundaryOutcomes DEF uiSide, uiVars, callbackVars
<1>2. CASE call' = "none"
  BY <1>1, <1>2, BoundaryOutcomes, RecoveryPicture
<1>3. CASE call' # "none"
  <2>1. /\ call' = "surfaceWake" /\ EnqueueBoundary(BoundaryOfJob)
        /\ job' = IF Len(job.bands) = 1 THEN NoJob
                  ELSE [job EXCEPT !.bands = Tail(@), !.boundaryDue = FALSE]
    BY <1>3, BoundaryOutcomes
  <2>2. PICK u \in Update : u = BoundaryOfJob
    BY <1>1, BoundaryReady
  <2>3. /\ u.kind = "Boundary" /\ queue' = Append(queue, u)
        /\ u.payload = IF CompletesBaseline THEN FullBaseline ELSE NoPayload
    BY <2>1, <2>2 DEF BoundaryOfJob, BoundaryUpdate, EnqueueBoundary, EnqueueCurrent
  <2>4. AppendFacts(u)
    BY <2>3, AppendedQueue DEF PortInvariant, MailboxInvariant, TypeInvariant
  <2>5. /\ image \in [Cells -> 1..MaxDraws] /\ job \in Jobs
        /\ job.bands \in Seq(SUBSET Cells) /\ job.bands # <<>>
        /\ Len(job.bands) \in Nat \ {0} /\ Head(job.bands) = job.bands[1]
    BY <1>1, JobFacts
  <2>6. ~ job'.boundaryDue
    <3>1. CASE Len(job.bands) = 1
      BY <2>1, <3>1 DEF NoJob, Job
    <3>2. CASE Len(job.bands) # 1
      BY <2>1, <2>5, <3>2, JobUpdated
    <3> QED
      BY <3>1, <3>2
  <2>7. Newest' = u
    BY <2>4 DEF AppendFacts
  <2>8. DamageCarries(Drawn)'
    BY <1>1, <2>3, <2>4 DEF PictureInvariant, DamageCarries, AppendFacts
  <2>9. BoundaryNext'
    BY <2>3, <2>6, <2>7 DEF BoundaryNext
  <2>10. FullJobs'
    <3>1. CASE Len(job.bands) = 1
      BY <2>1, <3>1 DEF FullJobs, NoJob, Job
    <3>2. CASE Len(job.bands) # 1
      <4>1. job.recovering
        <5>1. ~ job.recovering => Len(job.bands) <= 1
          BY DEF PortInvariant, JobsInOrder
        <5>2. ~ (Len(job.bands) <= 1)
          <6>1. \A n \in Nat \ {0} : n # 1 => ~ (n <= 1)
            OBVIOUS
          <6> QED
            BY <2>5, <3>2, <6>1, Zenon
        <5> QED
          BY <5>1, <5>2, Zenon
      <4>2. job'.recovering = job.recovering
        BY <2>1, <2>5, <3>2, JobUpdated
      <4> QED
        BY <4>1, <4>2 DEF FullJobs
    <3> QED
      BY <3>1, <3>2
  <2>11. (pixels \in [Cells -> Drawn \cup {0}])'
    BY <1>1 DEF PictureInvariant
  <2>12. ASSUME Running'
         PROVE  /\ BatchWhole(Drawn)' /\ FullIsWhole' /\ RecoveryIsOver' /\ ImageArrives'
                /\ StartupPaintsEverything'
    <3>1. /\ BatchWhole(Drawn) /\ FullIsWhole /\ RecoveryIsOver /\ ImageArrives
          /\ StartupPaintsEverything
      BY <1>1, <2>12 DEF PictureInvariant, Running
    <3>2. Full(u) => Whole(Newest) \/ StartupOver(Len(queue))
      <4>1. SUFFICES ASSUME Full(u) PROVE Whole(Newest) \/ StartupOver(Len(queue))
        OBVIOUS
      <4>2. job.full /\ Len(job.bands) = 1
        BY <2>3, <4>1, PipelineAssumption DEF Full, CompletesBaseline
      <4>3. Newest.kind = "Damage" /\ Newest.payload = PatchOf(job.bands[1])
        BY <1>1, <2>5 DEF PictureInvariant, BoundaryNext
      <4>4. job.bands[1] = Cells => Whole(Newest)
        BY <4>3 DEF Whole, PatchOf
      <4>5. CASE ~ job.recovering
        <5>1. job.bands = <<Cells>>
          BY <4>2, <4>5 DEF PictureInvariant, FullJobs
        <5> QED
          BY <4>4, <5>1
      <4>6. CASE job.recovering /\ Done # 0
        BY <3>1, <4>6 DEF RecoveryIsOver
      <4>7. CASE job.recovering /\ Done = 0
        <5>1. Len(Bands) = 1 /\ job.bands[1] = Bands[1]
          <6>1. Room(job.bands, TRUE, Len(queue), queuedPixelBytes)
            BY <1>1, <4>7, RecoveryFacts
          <6>2. Len(Bands) = 1 /\ Head(job.bands) = Bands[Done + 1]
            <7>1. Len(Bands) \in Nat /\ Head(job.bands) = Bands[Done + 1]
              BY <2>5, <6>1, RoomFacts DEF Done
            <7>2. Len(Bands) - 1 = 0
              BY <4>2, <4>7 DEF Done, DoneBefore
            <7> QED
              BY <7>1, <7>2
          <6> QED
            BY <2>5, <4>7, <6>2
        <5>2. Bands[1] = Cells
          <6>1. UNION {Bands[i] : i \in 1..1} = Cells
            BY <5>1, PipelineAssumption
          <6>2. 1..1 = {1}
            OBVIOUS
          <6> QED
            BY <6>1, <6>2
        <5> QED
          BY <4>4, <5>1, <5>2
      <4> QED
        BY <4>5, <4>6, <4>7
    <3>3. FullIsWhole'
      BY <1>1, <2>3, <2>4, <3>1, <3>2, WholeAppended
    <3>4. StartupOver(Len(queue))'
      BY <1>1, <2>3, <2>4, StartupAppended
    <3>5. RecoveryIsOver'
      BY <3>4 DEF RecoveryIsOver
    <3>6. ImageArrives'
      <4>1. SUFFICES ASSUME runtimeGeneration # 0, ~ fullRequested, NEW c \in Cells
                     PROVE  c \in Remaining' \/ Arrives(c, image[c])'
        BY <1>1 DEF ImageArrives
      <4>2. c \in Remaining \/ Arrives(c, image[c])
        BY <1>1, <3>1, <4>1 DEF ImageArrives
      <4>3. CASE c \in Remaining
        <5>1. PICK i \in 2..Len(job.bands) : c \in job.bands[i]
          BY <1>1, <4>3 DEF Remaining
        <5>2. Len(job.bands) # 1
          BY <2>5, <5>1
        <5>3. job'.bands = Tail(job.bands)
          BY <2>1, <2>5, <5>2, JobUpdated
        <5>4. /\ i - 1 \in 1..Len(Tail(job.bands))
              /\ Tail(job.bands)[i - 1] = job.bands[i]
          BY <2>5, <5>1
        <5> QED
          BY <2>6, <5>1, <5>3, <5>4 DEF Remaining
      <4>4. CASE Arrives(c, image[c])
        <5>1. ~ Covers(u, c)
          BY <2>3 DEF Covers
        <5> QED
          BY <1>1, <2>3, <2>4, <4>4, <5>1, ArrivalAppended
      <4> QED
        BY <4>2, <4>3, <4>4
    <3> QED
      BY <1>1, <3>1, <3>3, <3>5, <3>6 DEF BatchWhole, StartupPaintsEverything, Running
  <2> QED
    BY <2>8, <2>9, <2>10, <2>11, <2>12 DEF PictureInvariant
<1> QED
  BY <1>2, <1>3

LEMMA PictureStep ==
    ASSUME PortInvariant, DeliveryInvariant, PictureInvariant, [AppleNext]_allVars
    PROVE  PictureInvariant'
<1>1. CASE AppleBeginGeneration
  <2>1. /\ call = "none" /\ UNCHANGED <<runtimeGeneration, fullRequested>>
        /\ UNCHANGED <<queue, lastPopped, transactions, pixels, compiler, failure, image, job,
                       texture>>
    BY <1>1
    DEF AppleBeginGeneration, BeginGenerationEvent, mailbox, uiSide, uiVars, callbackVars,
        appleVars
  <2> QED
    BY <2>1, PictureKept
<1>2. CASE AppleWake
  <2>1. /\ call = "surfaceWake" /\ UNCHANGED <<runtimeGeneration, fullRequested>>
        /\ UNCHANGED <<queue, lastPopped, transactions, pixels, compiler, failure, image, job,
                       texture>>
    BY <1>2 DEF AppleWake, WakeAfterSurface, mailbox, uiSide, uiVars, callbackVars, appleVars
  <2> QED
    BY <2>1, PictureKept
<1>3. CASE UNCHANGED allVars
  <2>1. UNCHANGED <<queue, lastPopped, transactions, pixels, compiler, failure, image, job,
                    texture, runtimeGeneration, call, fullRequested>>
    BY <1>3 DEF allVars, pipelineVars, vars, uiVars, runtimeVars, callbackVars, appleVars
  <2> QED
    BY <2>1, PictureKept
<1> QED
  BY <1>1, <1>2, <1>3, ResetPicture, BegunPicture, DecodedPicture, DamagePicture,
     BoundaryPicture, UiKeepsPicture
  DEF AppleNext, ReaderStep

-----------------------------------------------------------------------------
(***************************************************************************)
(* Every state satisfies the invariants of the path and of the pictures.   *)
(***************************************************************************)
THEOREM PictureInvariance == AppleSpec => [](DeliveryInvariant /\ PictureInvariant)
<1>1. AppleInit => PortInvariant /\ DeliveryInvariant /\ PictureInvariant
  BY PortStarts, DeliveryStarts, PictureStarts DEF AppleInit, PipelineInit
<1>2. PortInvariant /\ DeliveryInvariant /\ PictureInvariant /\ [AppleNext]_allVars
        => PortInvariant' /\ DeliveryInvariant' /\ PictureInvariant'
  BY PortStep, AppleKeepsDelivery, PictureStep
<1> QED
  BY <1>1, <1>2, PTL DEF AppleSpec

(***************************************************************************)
(* A texture is never installed in part, and when nothing is under way and *)
(* no full frame is owed it shows the decoded surface: whatever overflowed *)
(* and however it was recovered, no drawn cell was lost.                   *)
(***************************************************************************)
THEOREM TextureShowsImage == AppleSpec => []ShowsImage
<1>1. AppleInvariant /\ DeliveryInvariant /\ PictureInvariant => ShowsImage
  <2>1. SUFFICES ASSUME AppleInvariant, DeliveryInvariant, PictureInvariant
                 PROVE  ShowsImage
    OBVIOUS
  <2>2. StartupPaintsEverything
    BY <2>1 DEF PictureInvariant, StartupPaintsEverything
  <2>3. ASSUME Quiet, ~ fullRequested PROVE pixels = image
    <3>1. /\ Running /\ call = "none" /\ job = NoJob /\ runtimeGeneration # 0
          /\ queue = <<>> /\ phase = "idle"
      BY <2>3 DEF Quiet, ReaderWaits
    <3>2. transactions = <<>>
      BY <2>1, <3>1 DEF DeliveryInvariant, LayersAgree
    <3>3. ~ job.boundaryDue /\ ~ job.recovering /\ Remaining = {}
      BY <3>1, NoJobFacts DEF Remaining
    <3>4. lastPopped.kind # "Damage"
      BY <2>1, <3>1, <3>3 DEF PictureInvariant, BoundaryNext, Newest
    <3>5. ASSUME NEW c \in Cells PROVE pixels[c] = image[c]
      <4>1. Arrives(c, image[c])
        BY <2>1, <2>3, <3>1, <3>3 DEF PictureInvariant, ImageArrives
      <4> QED
        BY <3>1, <3>2, <3>4, <4>1 DEF Arrives, QueuePaints, Covers, Shown, BatchPaints
    <3>6. pixels \in [Cells -> Drawn \cup {0}] /\ image \in [Cells -> Drawn \cup {0}]
      BY <2>1, DrawnFacts DEF PictureInvariant, AppleInvariant, PortInvariant, AppleTypes
    <3> QED
      BY <3>5, <3>6
  <2> QED
    BY <2>2, <2>3 DEF ShowsImage
<1> QED
  BY <1>1, AppleInvariance, PictureInvariance, PTL

=============================================================================
