-------------------------- MODULE RdpPipelineProofs --------------------------
(***************************************************************************)
(* Proofs about the RDP adapter in front of the mailbox, for every         *)
(* surface, cut of it into bands, set of PDUs and limit of the mailbox:    *)
(* what is published wakes the UI until it is presented, the frame port    *)
(* refuses nothing, at rest the texture shows what the adapter claims to   *)
(* cover, and a quarantined image never reaches it.                        *)
(***************************************************************************)
EXTENDS RdpPipeline, FramePipelineProofs

Regions == Seq(SUBSET Cells)
Jobs == [regions : Regions, bands : Regions, boundaryDue : BOOLEAN]

\* The draws that may be shown: those into an image that is not quarantined.
Seen == {n \in 1..draws : n \notin staleDraws}

-----------------------------------------------------------------------------
(***************************************************************************)
(* What the frame port relies on.  Publisher, runtime and mailbox agree on *)
(* the generation; the revision of a damage is used up even by an          *)
(* overflow, so the mailbox is never ahead of the publisher, and exactly   *)
(* where it is while a boundary is due.                                    *)
(***************************************************************************)
RdpTypes ==
    /\ call \in {"none", "surfaceWake", "reset", "generationWake"}
    /\ runtimeGeneration \in Nat
    /\ draws \in 0..MaxDraws
    /\ staleDraws \subseteq 1..draws
    /\ revision \in Nat
    /\ coverage \subseteq Cells
    /\ established \in BOOLEAN
    /\ quarantined \in BOOLEAN
    /\ job \in Jobs

\* The image is whole from the moment a generation is admitted, and all of it
\* may be shown unless it is quarantined.
ImagePainted ==
    runtimeGeneration # 0 /\ ~ quarantined => image \in [Cells -> Seen]

GenerationsAgree ==
    /\ current.generation =
         IF call = "generationWake" THEN runtimeGeneration + 1 ELSE runtimeGeneration
    /\ Established => current.session = Session

JobsInOrder ==
    job # NoJob =>
      /\ job.regions # <<>>
      /\ runtimeGeneration # 0 /\ call \in {"none", "surfaceWake"} /\ ~ quarantined

RevisionsAgree ==
    /\ call = "generationWake" => current.lastDamage = 0 /\ current.lastBoundary = 0
    /\ IF job.boundaryDue
       THEN /\ current.lastDamage = revision /\ current.eligible = revision
            /\ current.lastBoundary < revision
       ELSE current.lastDamage <= revision /\ current.lastBoundary <= revision

\* What a recovery has done, and that the rest of it fits the mailbox.
Done == DoneBefore(job.bands)
RecoveryFits ==
    Recovering => Room(job.bands, job.boundaryDue, Len(queue), queuedPixelBytes)

PortInvariant ==
    /\ MailboxInvariant
    /\ RdpTypes
    /\ ImagePainted
    /\ GenerationsAgree
    /\ JobsInOrder
    /\ RevisionsAgree
    /\ ResetsEmpty
    /\ RecoveryFits
    /\ PortAccepts

RdpInvariant == PortInvariant /\ WakeInvariant

-----------------------------------------------------------------------------
(***************************************************************************)
(* What the texture will show: every cell that counts as covered, and in a *)
(* recovery every cell, is still to be published or its picture is on its  *)
(* way.                                                                    *)
(***************************************************************************)
\* The bands of the recovery still to publish, and the regions after it.
OfRecovery ==
    UNION {job.bands[i] : i \in (IF job.boundaryDue THEN 2 ELSE 1)..Len(job.bands)}
OfRegions ==
    UNION {job.regions[i] : i \in (IF job.boundaryDue \/ Recovering THEN 2 ELSE 1)
                                    ..Len(job.regions)}
Remaining == OfRecovery \cup OfRegions

ImageArrives ==
    runtimeGeneration # 0 /\ call # "generationWake" /\ ~ quarantined =>
      \A c \in Cells :
        c \in coverage \/ Recovering => c \in Remaining \/ Arrives(c, image[c])

RecoveryIsOver == Recovering /\ Done # 0 => StartupOver(Len(queue))

(***************************************************************************)
(* A baseline is claimed for a region of the whole surface, or behind the  *)
(* boundary that ends the startup.                                         *)
(***************************************************************************)
CoverageStarts ==
    call # "generationWake" /\ ~ established /\ ~ Recovering =>
      \/ coverage = {}
      \/ job.boundaryDue /\ coverage = Region
      \/ StartupOver(Len(queue))

BoundaryNext ==
    IF job.boundaryDue
    THEN Newest.kind = "Damage" /\ Newest.payload = [c \in Region |-> image[c]]
    ELSE (Recovering /\ Done = 0) \/ Newest.kind # "Damage"

PictureInvariant ==
    /\ pixels \in [Cells -> Seen \cup {0}]
    /\ DamageCarries(Seen)
    /\ BoundaryNext
    /\ Running =>
         /\ BatchWhole(Seen) /\ FullIsWhole /\ RecoveryIsOver /\ CoverageStarts /\ ImageArrives
         /\ StartupPaintsEverything


-----------------------------------------------------------------------------
(***************************************************************************)
(* The steps that leave the mailbox alone, and those of the UI.            *)
(***************************************************************************)
LEMMA NoJobFacts ==
    /\ NoJob \in Jobs /\ NoJob.boundaryDue = FALSE
    /\ NoJob.regions = <<>> /\ Len(NoJob.regions) = 0
    /\ NoJob.bands = <<>> /\ Len(NoJob.bands) = 0
BY DEF NoJob, Job, Jobs, Regions

LEMMA JobMade ==
    ASSUME NEW r \in Regions, NEW b \in Regions
    PROVE  /\ Job(r, b) \in Jobs /\ Job(r, b).regions = r /\ Job(r, b).bands = b
           /\ Job(r, b).boundaryDue = FALSE
BY DEF Job, Jobs

LEMMA PortStarts == RdpInit => PortInvariant
<1> SUFFICES ASSUME RdpInit PROVE PortInvariant
  OBVIOUS
<1>1. /\ MailboxInvariant /\ queue = <<>> /\ current = NoSurface /\ call = "none"
      /\ runtimeGeneration = 0 /\ poisoned = FALSE /\ image = Unpainted /\ draws = 0
      /\ revision = 0 /\ coverage = {} /\ established = FALSE /\ quarantined = FALSE
      /\ job = NoJob /\ ended = FALSE /\ staleDraws = {}
  BY InitialInvariant DEF RdpInit, PipelineInit, DeliveryInit, Init
<1>2. RdpTypes
  <2>1. 0 \in 0..MaxDraws
    BY PipelineAssumption
  <2> QED
    BY <1>1, <2>1, NoJobFacts DEF RdpTypes
<1>3. ResetsEmpty
  BY <1>1 DEF ResetsEmpty
<1>4. GenerationsAgree /\ RevisionsAgree
  BY <1>1, NoJobFacts
  DEF GenerationsAgree, RevisionsAgree, Established, NoSurface, FreshSurface
<1> QED
  BY <1>1, <1>2, <1>3, <1>4, NoJobFacts
  DEF PortInvariant, ImagePainted, JobsInOrder, RecoveryFits, Recovering, PortAccepts

LEMMA GenerationOpens ==
    ASSUME PortInvariant, RdpBeginGeneration
    PROVE  PortInvariant'
<1>1. /\ call = "none" /\ job = NoJob /\ call' = "reset"
      /\ UNCHANGED <<queue, queuedPixelBytes, current, lastPopped, runtimeGeneration, poisoned,
                     image, draws, revision, coverage, established, quarantined, job, ended,
                     staleDraws>>
  BY DEF RdpBeginGeneration, LoopReads, BeginGenerationEvent, mailbox, uiSide, rdpVars,
         baselineVars
<1>2. MailboxInvariant'
  BY <1>1, StutterStep DEF PortInvariant, vars
<1>3. ImagePainted'
  BY <1>1 DEF PortInvariant, ImagePainted, Seen
<1> QED
  BY <1>1, <1>2, <1>3
  DEF PortInvariant, RdpTypes, GenerationsAgree, Established, JobsInOrder, RevisionsAgree,
      ResetsEmpty, RecoveryFits, Recovering, PortAccepts

LEMMA ResetPublished ==
    ASSUME PortInvariant, RdpPublishReset
    PROVE  /\ PortInvariant'
           /\ call' = "generationWake"
           /\ UNCHANGED <<uiSide, armed, wakes, events>>
<1>1. /\ call = "reset"
      /\ UNCHANGED <<uiSide, lastPopped, events, armed, wakes, runtimeGeneration, image, draws,
                     revision, coverage, established, quarantined, job, ended, staleDraws>>
  BY DEF RdpPublishReset, BeginGenerationReset, uiSide, wakeVars, rdpVars, baselineVars
<1> DEFINE u == ResetUpdate(Session, runtimeGeneration + 1)
<1>2. /\ u \in Update /\ u.kind = "Reset" /\ u.bytes = 0 /\ u.revision = 0
      /\ u.session = Session /\ u.generation = runtimeGeneration + 1
      /\ runtimeGeneration \in Nat
  BY MailboxAssumption, DeliveryAssumption DEF PortInvariant, RdpTypes, ResetUpdate, Update
<1>3. ResetAccepted(u, TRUE)
  BY <1>1, <1>2 DEF ResetAccepted, PortInvariant, GenerationsAgree, Established
<1> HIDE DEF u
<1>4. PushOutcome(u, TRUE) = "Queued"
  BY <1>2, <1>3 DEF PushOutcome, Accepted
<1>5. PushReset(u, TRUE) /\ poisoned' = FALSE /\ call' = "generationWake"
  BY <1>4, Zenon DEF RdpPublishReset, BeginGenerationReset, u
<1>6. EnqueueReset(u)
  BY <1>3, <1>5 DEF PushReset
<1>7. MailboxInvariant'
  BY <1>1, <1>2, <1>5, PushStep DEF PortInvariant, Push
<1>8. queue' = <<u>> /\ current' = FreshSurface(Session, runtimeGeneration + 1)
  BY <1>2, <1>6 DEF EnqueueReset
<1>9. ResetsEmpty'
  BY <1>2, <1>8 DEF ResetsEmpty
<1>10. job = NoJob
  BY <1>1 DEF PortInvariant, JobsInOrder
<1>11. RdpTypes' /\ ImagePainted'
  BY <1>1, <1>5 DEF PortInvariant, RdpTypes, ImagePainted, Seen
<1>12. GenerationsAgree' /\ RevisionsAgree'
  BY <1>1, <1>2, <1>5, <1>8, <1>10, NoJobFacts
  DEF PortInvariant, RdpTypes, GenerationsAgree, RevisionsAgree, Established, FreshSurface
<1>13. RecoveryFits'
  BY <1>1, <1>10, NoJobFacts DEF RecoveryFits, Recovering
<1> QED
  BY <1>1, <1>5, <1>7, <1>9, <1>10, <1>11, <1>12, <1>13
  DEF PortInvariant, JobsInOrder, PortAccepts

\* A draw: every cell it paints has the new picture.
LEMMA DrawFacts ==
    ASSUME PortInvariant, NEW S \in SUBSET Cells, Draw(S)
    PROVE  /\ draws \in Nat /\ draws' = draws + 1 /\ draws' \in 0..MaxDraws
           /\ staleDraws \subseteq 1..draws /\ draws + 1 \notin staleDraws
           /\ 1..draws \subseteq 1..draws' /\ draws' \in 1..draws'
           /\ \A c \in Cells : image'[c] = IF c \in S THEN draws' ELSE image[c]
           /\ DOMAIN image' = Cells
           /\ image' = [c \in Cells |-> IF c \in S THEN draws' ELSE image[c]]
<1>1. draws \in 0..MaxDraws /\ staleDraws \subseteq 1..draws /\ MaxDraws \in Nat
  BY PipelineAssumption DEF PortInvariant, RdpTypes
<1> QED
  BY <1>1 DEF Draw

\* Into an image that may be shown, or one that is quarantined.
LEMMA SeenGrows ==
    ASSUME PortInvariant, NEW S \in SUBSET Cells, Draw(S)
    PROVE  /\ UNCHANGED staleDraws => Seen' = Seen \cup {draws'} /\ draws' \in Seen'
           /\ staleDraws' = staleDraws \cup {draws'} => Seen' = Seen
<1>1. draws \in Nat /\ draws' = draws + 1 /\ staleDraws \subseteq 1..draws
  BY DrawFacts
<1> QED
  BY <1>1 DEF Seen

LEMMA GenerationBegun ==
    ASSUME PortInvariant, RdpGenerationBegun
    PROVE  PortInvariant'
<1>1. /\ call = "generationWake" /\ call' = "none"
      /\ runtimeGeneration' = runtimeGeneration + 1
      /\ revision' = 0 /\ coverage' = {} /\ established' = FALSE /\ quarantined' = FALSE
      /\ Draw(Cells)
      /\ UNCHANGED <<queue, queuedPixelBytes, current, lastPopped, poisoned, job, ended,
                     staleDraws>>
  BY DEF RdpGenerationBegun, WakeAfterGeneration, mailbox, uiSide
<1>2. MailboxInvariant'
  BY <1>1, StutterStep DEF PortInvariant, vars
<1>3. job = NoJob
  BY <1>1 DEF PortInvariant, JobsInOrder
<1>4. RdpTypes'
  <2>1. draws' \in 0..MaxDraws /\ staleDraws \subseteq 1..draws'
    BY <1>1, DrawFacts
  <2>2. runtimeGeneration' \in Nat /\ job' \in Jobs
    BY <1>1 DEF PortInvariant, RdpTypes
  <2>3. /\ call' = "none" /\ revision' = 0 /\ coverage' = {} /\ established' = FALSE
        /\ quarantined' = FALSE /\ staleDraws' = staleDraws
    BY <1>1
  <2> QED
    BY <2>1, <2>2, <2>3 DEF RdpTypes
<1>5. ImagePainted'
  <2>1. image' = [c \in Cells |-> draws'] /\ draws' \in Seen'
    BY <1>1, DrawFacts, SeenGrows
  <2> QED
    BY <2>1 DEF ImagePainted
<1>6. GenerationsAgree' /\ RevisionsAgree'
  BY <1>1, <1>3, NoJobFacts
  DEF PortInvariant, RdpTypes, GenerationsAgree, RevisionsAgree, Established
<1>7. RecoveryFits'
  BY <1>1, <1>3, NoJobFacts DEF RecoveryFits, Recovering
<1> QED
  BY <1>1, <1>2, <1>3, <1>4, <1>5, <1>6, <1>7
  DEF PortInvariant, JobsInOrder, ResetsEmpty, PortAccepts

LEMMA ImageQuarantined ==
    ASSUME PortInvariant, ReactivationQuarantined
    PROVE  PortInvariant'
<1>1. /\ job = NoJob /\ call = "none" /\ Draw(Cells) /\ quarantined' = TRUE
      /\ staleDraws' = staleDraws \cup {draws + 1}
      /\ UNCHANGED <<queue, queuedPixelBytes, current, lastPopped, call, runtimeGeneration,
                     poisoned, revision, coverage, established, job, ended>>
  BY DEF ReactivationQuarantined, LoopReads, pipelineVars, vars, runtimeVars, baselineVars
<1>2. MailboxInvariant'
  BY <1>1, StutterStep DEF PortInvariant, vars
<1>3. RdpTypes'
  <2>1. draws' \in 0..MaxDraws /\ staleDraws' \subseteq 1..draws'
    BY <1>1, DrawFacts
  <2> QED
    BY <1>1, <2>1 DEF PortInvariant, RdpTypes
<1>4. ImagePainted'
  BY <1>1 DEF ImagePainted
<1>5. RecoveryFits'
  BY <1>1, NoJobFacts DEF RecoveryFits, Recovering
<1> QED
  BY <1>1, <1>2, <1>3, <1>4, <1>5
  DEF PortInvariant, GenerationsAgree, Established, JobsInOrder, RevisionsAgree, ResetsEmpty,
      PortAccepts

LEMMA PduFacts ==
    ASSUME NEW regions \in PduRegions
    PROVE  /\ regions \in Regions
           /\ UNION {regions[i] : i \in 1..Len(regions)} \in SUBSET Cells
<1>1. regions \in Seq((SUBSET Cells) \ {{}})
  BY RdpAssumption
<1>2. \A i \in 1..Len(regions) : regions[i] \in SUBSET Cells
  BY <1>1
<1>3. regions \in Regions
  BY <1>1 DEF Regions
<1> QED
  BY <1>2, <1>3

LEMMA PduDecoded ==
    ASSUME PortInvariant, NEW regions \in PduRegions, DecodePdu(regions)
    PROVE  PortInvariant'
<1> DEFINE S == UNION {regions[i] : i \in 1..Len(regions)}
<1>1. /\ job = NoJob /\ call = "none" /\ runtimeGeneration # 0 /\ Draw(S) /\ S \in SUBSET Cells
      /\ UNCHANGED <<queue, queuedPixelBytes, current, lastPopped, call, runtimeGeneration,
                     poisoned, revision, coverage, established, quarantined, ended>>
  BY PduFacts DEF DecodePdu, LoopReads, pipelineVars, vars, runtimeVars, baselineVars
<1>2. /\ job' = IF quarantined THEN NoJob ELSE Job(regions, <<>>)
      /\ staleDraws' = IF quarantined THEN staleDraws \cup {draws + 1} ELSE staleDraws
  BY DEF DecodePdu
<1> HIDE DEF S
<1>3. MailboxInvariant'
  BY <1>1, StutterStep DEF PortInvariant, vars
<1>4. /\ job' \in Jobs /\ job'.boundaryDue = FALSE /\ job'.bands = <<>>
      /\ job' # NoJob => job'.regions # <<>> /\ ~ quarantined
  <2>1. CASE job' = NoJob
    BY <2>1, NoJobFacts
  <2>2. CASE job' # NoJob
    <3>1. job' = Job(regions, <<>>) /\ ~ quarantined
      BY <1>2, <2>2
    <3>2. <<>> \in Regions /\ regions \in Regions
      BY PduFacts DEF Regions
    <3> QED
      BY <2>2, <3>1, <3>2, JobMade DEF NoJob
  <2> QED
    BY <2>1, <2>2
<1>5. RdpTypes'
  <2>1. draws' \in 0..MaxDraws /\ staleDraws' \subseteq 1..draws'
    BY <1>1, <1>2, DrawFacts
  <2> QED
    BY <1>1, <1>4, <2>1 DEF PortInvariant, RdpTypes
<1>6. ImagePainted'
  <2>1. SUFFICES ASSUME ~ quarantined PROVE image' \in [Cells -> Seen']
    BY <1>1 DEF ImagePainted
  <2>2. Seen' = Seen \cup {draws'}
    BY <1>1, <1>2, <2>1, SeenGrows
  <2>3. image \in [Cells -> Seen]
    BY <1>1, <2>1 DEF PortInvariant, ImagePainted
  <2>4. image' = [c \in Cells |-> IF c \in S THEN draws' ELSE image[c]]
    BY <1>1, DrawFacts
  <2> QED
    BY <2>2, <2>3, <2>4
<1>7. RevisionsAgree'
  BY <1>1, <1>4, NoJobFacts DEF PortInvariant, RevisionsAgree
<1>8. RecoveryFits'
  BY <1>4 DEF RecoveryFits, Recovering
<1> QED
  BY <1>1, <1>3, <1>4, <1>5, <1>6, <1>7, <1>8
  DEF PortInvariant, GenerationsAgree, Established, JobsInOrder, ResetsEmpty, PortAccepts

LEMMA UiKeepsPort ==
    ASSUME PortInvariant, RdpUi
    PROVE  PortInvariant'
<1>1. UNCHANGED <<image, draws, revision, coverage, established, quarantined, job, ended,
                  staleDraws, call, runtimeGeneration, poisoned, current>>
  BY UiLeaves DEF RdpUi, rdpVars, baselineVars
<1>2. /\ MailboxInvariant' /\ ResetsEmpty'
      /\ Len(queue') <= Len(queue) /\ Len(queue) \in Nat /\ Len(queue') \in Nat
      /\ queuedPixelBytes' <= queuedPixelBytes /\ queuedPixelBytes \in Nat
      /\ queuedPixelBytes' \in Nat
  <2>1. CASE UNCHANGED vars
    <3>1. MailboxInvariant'
      BY <2>1, StutterStep DEF PortInvariant
    <3> QED
      BY <2>1, <3>1
      DEF vars, PortInvariant, ResetsEmpty, MailboxInvariant, TypeInvariant
  <2>2. CASE Pop
    <3>1. MailboxInvariant'
      BY <2>2, PopStep DEF PortInvariant
    <3> QED
      BY <2>2, <3>1, Popped DEF PortInvariant, MailboxInvariant, TypeInvariant
  <2> QED
    BY <2>1, <2>2, UiLeaves DEF RdpUi
<1>3. RecoveryFits'
  <2>1. SUFFICES ASSUME Recovering PROVE RecoveryFits'
    BY <1>1 DEF RecoveryFits, Recovering
  <2>2. PICK b \in Seq(SUBSET Cells), due \in BOOLEAN : b = job.bands /\ due = job.boundaryDue
    BY DEF PortInvariant, RdpTypes, Jobs, Regions
  <2>3. Room(b, due, Len(queue), queuedPixelBytes)
    BY <2>1, <2>2 DEF PortInvariant, RecoveryFits
  <2>4. Room(b, due, Len(queue'), queuedPixelBytes')
    BY <1>2, <2>3, RoomDrained
  <2> QED
    BY <1>1, <2>2, <2>4 DEF RecoveryFits
<1>4. ImagePainted' /\ RdpTypes'
  BY <1>1 DEF PortInvariant, ImagePainted, Seen, RdpTypes
<1> QED
  BY <1>1, <1>2, <1>3, <1>4
  DEF PortInvariant, GenerationsAgree, Established, JobsInOrder, RevisionsAgree, PortAccepts

LEMMA WakeKeepsPort ==
    ASSUME PortInvariant, RdpWake
    PROVE  PortInvariant'
<1>1. /\ call = "surfaceWake" /\ call' = "none"
      /\ UNCHANGED <<queue, queuedPixelBytes, current, lastPopped, runtimeGeneration, poisoned,
                     image, draws, revision, coverage, established, quarantined, job, ended,
                     staleDraws>>
  BY DEF RdpWake, WakeAfterSurface, mailbox, uiSide, rdpVars, baselineVars
<1>2. MailboxInvariant'
  BY <1>1, StutterStep DEF PortInvariant, vars
<1>3. ImagePainted' /\ RdpTypes'
  BY <1>1 DEF PortInvariant, ImagePainted, Seen, RdpTypes
<1> QED
  BY <1>1, <1>2, <1>3
  DEF PortInvariant, GenerationsAgree, Established, JobsInOrder, RevisionsAgree, ResetsEmpty,
      RecoveryFits, Recovering, PortAccepts

-----------------------------------------------------------------------------
(***************************************************************************)
(* What a publication hands to the port: it is never refused, and inside a *)
(* recovery it always fits.                                                *)
(***************************************************************************)
LEMMA JobFacts ==
    ASSUME PortInvariant, job # NoJob
    PROVE  /\ runtimeGeneration \in Nat \ {0} /\ revision \in Nat /\ job \in Jobs
           /\ ~ quarantined /\ image \in [Cells -> Seen] /\ Seen \subseteq 1..MaxDraws
           /\ job.regions \in Seq(SUBSET Cells) /\ job.bands \in Seq(SUBSET Cells)
           /\ Len(job.regions) \in Nat \ {0} /\ Len(job.bands) \in Nat
           /\ Region \in SUBSET Cells /\ Cardinality(Region) \in Nat
           /\ [c \in Region |-> image[c]] \in [Region -> Seen]
           /\ [c \in Region |-> image[c]] \in Payloads
<1>1. /\ runtimeGeneration \in Nat \ {0} /\ revision \in Nat /\ job \in Jobs
      /\ ~ quarantined /\ image \in [Cells -> Seen] /\ job.regions # <<>>
  BY DEF PortInvariant, RdpTypes, ImagePainted, JobsInOrder
<1>2. Seen \subseteq 1..MaxDraws
  BY PipelineAssumption DEF PortInvariant, RdpTypes, Seen
<1>3. job.regions \in Seq(SUBSET Cells) /\ job.bands \in Seq(SUBSET Cells)
  BY <1>1 DEF Jobs, Regions
<1>4. Region \in SUBSET Cells
  BY <1>1, <1>3 DEF Region, Recovering
<1>5. Cardinality(Region) \in Nat
  BY <1>4, PipelineAssumption, FS_Subset, FS_CardinalityType
<1>6. [c \in Region |-> image[c]] \in [Region -> Seen]
  BY <1>1, <1>4
<1>7. [c \in Region |-> image[c]] \in Payloads
  <2>1. [c \in Region |-> image[c]] \in [Region -> 1..MaxDraws]
    BY <1>2, <1>6
  <2> QED
    BY <1>4, <2>1, PipelineAssumption
<1>8. Len(job.regions) \in Nat \ {0} /\ Len(job.bands) \in Nat
  BY <1>1, <1>3
<1> QED
  BY <1>1, <1>2, <1>3, <1>4, <1>5, <1>6, <1>7, <1>8

\* In a recovery what is left to do fits.
LEMMA RecoveryFacts ==
    ASSUME PortInvariant, Recovering
    PROVE  /\ job # NoJob /\ job.bands \in Seq(SUBSET Cells) /\ Region = Head(job.bands)
           /\ ~ job.boundaryDue => Room(job.bands, FALSE, Len(queue), queuedPixelBytes)
           /\ job.boundaryDue => Room(job.bands, TRUE, Len(queue), queuedPixelBytes)
           /\ Len(job.bands) \in 1..Len(Bands)
           /\ Len(queue) \in Nat /\ queuedPixelBytes \in Nat
<1>1. job # NoJob /\ Region = Head(job.bands)
  BY NoJobFacts DEF Recovering, Region
<1>2. Len(queue) \in Nat /\ queuedPixelBytes \in Nat
  BY DEF PortInvariant, MailboxInvariant, TypeInvariant
<1>3. PICK due \in BOOLEAN : due = job.boundaryDue
  BY DEF PortInvariant, RdpTypes, Jobs
<1>4. Room(job.bands, due, Len(queue), queuedPixelBytes)
  BY <1>3 DEF PortInvariant, RecoveryFits
<1>5. Len(job.bands) \in 1..Len(Bands)
  BY <1>4 DEF Room
<1>6. (due = TRUE /\ job.boundaryDue) \/ (due = FALSE /\ ~ job.boundaryDue)
  BY <1>3, Zenon
<1>7. /\ ~ job.boundaryDue => Room(job.bands, FALSE, Len(queue), queuedPixelBytes)
      /\ job.boundaryDue => Room(job.bands, TRUE, Len(queue), queuedPixelBytes)
  BY <1>4, <1>6, Zenon
<1> QED
  BY <1>1, <1>2, <1>5, <1>7, JobFacts

LEMMA DamageReady ==
    ASSUME PortInvariant, job # NoJob, ~ job.boundaryDue, call = "none"
    PROVE  /\ DamageOfJob \in Update /\ DamageOfJob.kind = "Damage"
           /\ DamageOfJob.revision = revision + 1
           /\ DamageOfJob.bytes = Cardinality(Region)
           /\ DamageOfJob.payload = [c \in Region |-> image[c]]
           /\ DamageAccepted(DamageOfJob, TRUE)
           /\ SurfaceOutcome(DamageOfJob)
                = IF Overflows(DamageOfJob) THEN "NeedsFullSnapshot" ELSE "Queued"
           /\ Recovering => ~ Overflows(DamageOfJob)
<1>1. PICK u : u = DamageOfJob
  OBVIOUS
<1>2. Session \in Nat
  BY MailboxAssumption, DeliveryAssumption
<1>3. /\ u \in Update /\ u.kind = "Damage" /\ u.session = Session
      /\ u.generation = runtimeGeneration /\ u.revision = revision + 1
      /\ u.bytes = Cardinality(Region) /\ u.payload = [c \in Region |-> image[c]]
  BY <1>1, <1>2, JobFacts DEF DamageOfJob, DamageUpdate, Update
<1>4. /\ runtimeGeneration # 0 /\ revision \in Nat
      /\ current.generation = runtimeGeneration /\ current.session = Session
      /\ current.lastDamage <= revision /\ current.lastDamage \in Nat
  BY JobFacts
  DEF PortInvariant, GenerationsAgree, Established, RevisionsAgree, MailboxInvariant,
      TypeInvariant, Surface
<1>5. DamageAccepted(u, TRUE)
  BY <1>3, <1>4 DEF DamageAccepted, MatchesCurrent, Established
<1>6. SurfaceOutcome(u) = IF Overflows(u) THEN "NeedsFullSnapshot" ELSE "Queued"
  BY <1>3, <1>5 DEF SurfaceOutcome, PushOutcome, Accepted
<1>7. ASSUME Recovering PROVE ~ Overflows(u)
  <2>1. /\ Room(job.bands, FALSE, Len(queue), queuedPixelBytes) /\ job.bands \in Seq(SUBSET Cells)
        /\ Region = Head(job.bands)
    BY <1>7, RecoveryFacts
  <2> QED
    BY <1>3, <2>1, RoomForDamage DEF PortInvariant
<1> QED
  BY <1>1, <1>3, <1>5, <1>6, <1>7

LEMMA BoundaryReady ==
    ASSUME PortInvariant, job.boundaryDue, call = "none"
    PROVE  /\ job # NoJob
           /\ BoundaryOfJob \in Update /\ BoundaryOfJob.kind = "Boundary"
           /\ BoundaryOfJob.revision = revision /\ BoundaryOfJob.bytes = 0
           /\ BoundaryOfJob.payload = IF CompletesBaseline THEN FullBaseline ELSE NoPayload
           /\ BoundaryAccepted(BoundaryOfJob)
           /\ SurfaceOutcome(BoundaryOfJob)
                = IF Overflows(BoundaryOfJob) THEN "NeedsFullSnapshot" ELSE "Queued"
           /\ Recovering => ~ Overflows(BoundaryOfJob)
<1>1. PICK u : u = BoundaryOfJob
  OBVIOUS
<1>2. Session \in Nat /\ FullBaseline \in Payloads /\ NoPayload \in Payloads /\ job # NoJob
  BY MailboxAssumption, DeliveryAssumption, PipelineAssumption, NoJobFacts
<1>3. /\ u \in Update /\ u.kind = "Boundary" /\ u.session = Session /\ u.bytes = 0
      /\ u.generation = runtimeGeneration /\ u.revision = revision
      /\ u.payload = IF CompletesBaseline THEN FullBaseline ELSE NoPayload
  BY <1>1, <1>2, JobFacts DEF BoundaryOfJob, BoundaryUpdate, Update
<1>4. /\ runtimeGeneration # 0 /\ revision \in Nat
      /\ current.generation = runtimeGeneration /\ current.session = Session
      /\ current.lastDamage = revision /\ current.eligible = revision
      /\ current.lastBoundary < revision /\ current.lastBoundary \in Nat
  BY <1>2, JobFacts
  DEF PortInvariant, GenerationsAgree, Established, RevisionsAgree, MailboxInvariant,
      TypeInvariant, Surface
<1>5. BoundaryAccepted(u)
  BY <1>3, <1>4 DEF BoundaryAccepted, MatchesCurrent, Established
<1>6. SurfaceOutcome(u) = IF Overflows(u) THEN "NeedsFullSnapshot" ELSE "Queued"
  BY <1>3, <1>5 DEF SurfaceOutcome, PushOutcome, Accepted
<1>7. ASSUME Recovering PROVE ~ Overflows(u)
  <2>1. Room(job.bands, TRUE, Len(queue), queuedPixelBytes) /\ job.bands \in Seq(SUBSET Cells)
    BY <1>7, RecoveryFacts
  <2> QED
    BY <1>3, <2>1, RoomForBoundary DEF PortInvariant
<1> QED
  BY <1>1, <1>2, <1>3, <1>5, <1>6, <1>7

-----------------------------------------------------------------------------
(***************************************************************************)
(* A publication, its damage and its boundary, when it is queued and when  *)
(* it overflows.                                                           *)
(***************************************************************************)
LEMMA BoundaryMadeDue ==
    ASSUME NEW j \in Jobs
    PROVE  /\ [j EXCEPT !.boundaryDue = TRUE] \in Jobs
           /\ [j EXCEPT !.boundaryDue = TRUE].regions = j.regions
           /\ [j EXCEPT !.boundaryDue = TRUE].bands = j.bands
           /\ [j EXCEPT !.boundaryDue = TRUE].boundaryDue = TRUE
BY DEF Jobs

LEMMA RecoveryBegins ==
    ASSUME PortInvariant, job # NoJob, call = "none", call' = "none",
           ClearCurrentDamageAndBoundaries, MailboxInvariant',
           job' = Job(job.regions, Bands), ended' = ended, poisoned' = FALSE,
           revision' \in Nat, current.lastDamage <= revision', current.lastBoundary <= revision',
           UNCHANGED <<runtimeGeneration, image, draws, coverage, established, quarantined,
                       staleDraws>>
    PROVE  PortInvariant'
<1>1. /\ current' = [current EXCEPT !.eligible = 0] /\ current \in Surface
      /\ Len(queue') <= 1 /\ queuedPixelBytes' = 0 /\ ResetsEmpty'
  BY Overflowed DEF PortInvariant, MailboxInvariant, TypeInvariant
<1>2. /\ current'.generation = current.generation /\ current'.session = current.session
      /\ current'.lastDamage = current.lastDamage
      /\ current'.lastBoundary = current.lastBoundary
  BY <1>1 DEF Surface
<1>3. /\ Bands \in Seq(SUBSET Cells) /\ Bands # <<>>
      /\ Room(Bands, FALSE, Len(queue'), 0)
  <2>1. Len(queue') \in Nat
    BY DEF MailboxInvariant, TypeInvariant
  <2> QED
    BY <1>1, <2>1, RoomBegins
<1>4. /\ job.regions # <<>> /\ job.regions \in Regions /\ Bands \in Regions
      /\ runtimeGeneration # 0 /\ ~ quarantined
  BY <1>3, JobFacts DEF PortInvariant, JobsInOrder, Regions
<1>5. /\ job' \in Jobs /\ job'.regions # <<>> /\ job'.bands = Bands /\ job'.boundaryDue = FALSE
  <2>1. job.regions \in Regions /\ Bands \in Regions /\ job.regions # <<>>
    BY <1>4
  <2>2. job' = Job(job.regions, Bands)
    OBVIOUS
  <2> DEFINE made == Job(job.regions, Bands)
  <2>3. /\ made \in Jobs /\ made.regions = job.regions /\ made.bands = Bands
        /\ made.boundaryDue = FALSE
    BY <2>1, JobMade, Zenon
  <2> HIDE DEF made
  <2>4. job' = made
    BY <2>2 DEF made
  <2> QED
    BY <2>1, <2>3, <2>4
<1>6. RdpTypes' /\ ImagePainted'
  BY <1>5 DEF PortInvariant, RdpTypes, ImagePainted, Seen
<1>7. GenerationsAgree' /\ RevisionsAgree'
  BY <1>2, <1>5 DEF PortInvariant, GenerationsAgree, Established, RevisionsAgree
<1>8. RecoveryFits'
  BY <1>1, <1>3, <1>5, Zenon DEF RecoveryFits
<1>9. JobsInOrder'
  BY <1>4, <1>5 DEF JobsInOrder
<1> QED
  BY <1>1, <1>6, <1>7, <1>8, <1>9 DEF PortInvariant, PortAccepts

LEMMA DamageOutcomes ==
    ASSUME PortInvariant, PublishDamageOfJob
    PROVE  /\ job # NoJob /\ ~ job.boundaryDue /\ call = "none" /\ poisoned' = FALSE
           /\ revision' = revision + 1
           /\ UNCHANGED <<uiSide, lastPopped, events, armed, wakes, runtimeGeneration, image,
                          draws, established, quarantined, staleDraws>>
           /\ Push(DamageOfJob, TRUE)
           /\ \/ /\ ~ Recovering /\ call' = "none" /\ ClearCurrentDamageAndBoundaries
                 /\ job' = Job(job.regions, Bands) /\ coverage' = coverage /\ ended' = ended
              \/ /\ call' = "surfaceWake" /\ EnqueueDamage(DamageOfJob)
                 /\ job' = [job EXCEPT !.boundaryDue = TRUE]
                 /\ coverage' = (IF Recovering THEN coverage ELSE coverage \cup Region)
                 /\ ended' = ended
<1>1. /\ job # NoJob /\ ~ job.boundaryDue /\ call = "none" /\ revision' = revision + 1
      /\ UNCHANGED <<uiSide, lastPopped, events, armed, wakes, runtimeGeneration, image, draws,
                     established, quarantined, staleDraws>>
  BY DEF PublishDamageOfJob, PublishSurface, uiSide, wakeVars
<1>2. PICK u \in Update : u = DamageOfJob
  BY <1>1, DamageReady
<1>3. /\ u.kind = "Damage" /\ DamageAccepted(u, TRUE)
      /\ SurfaceOutcome(u) = IF Overflows(u) THEN "NeedsFullSnapshot" ELSE "Queued"
      /\ Recovering => ~ Overflows(u)
  BY <1>1, <1>2, DamageReady
<1>4. /\ Push(u, TRUE) /\ PushDamage(u, TRUE)
      /\ call' = (IF SurfaceOutcome(u) = "Queued" THEN "surfaceWake" ELSE "none")
      /\ poisoned' = FALSE
  BY <1>2, <1>3 DEF PublishDamageOfJob, PublishSurface, Push, PushReset, PushBoundary
<1>5. CASE Overflows(u)
  <2>1. /\ SurfaceOutcome(u) = "NeedsFullSnapshot" /\ ~ Recovering /\ call' = "none"
        /\ ClearCurrentDamageAndBoundaries
    BY <1>3, <1>4, <1>5 DEF PushDamage
  <2>2. Recover /\ coverage' = coverage
    BY <1>2, <2>1, Zenon DEF PublishDamageOfJob
  <2>3. job' = Job(job.regions, Bands) /\ ended' = ended
    BY <2>1, <2>2 DEF Recover
  <2> QED
    BY <1>1, <1>2, <1>4, <2>1, <2>2, <2>3
<1>6. CASE ~ Overflows(u)
  <2>1. /\ SurfaceOutcome(u) = "Queued" /\ call' = "surfaceWake" /\ EnqueueDamage(u)
    BY <1>3, <1>4, <1>6 DEF PushDamage
  <2>2. /\ job' = [job EXCEPT !.boundaryDue = TRUE]
        /\ coverage' = (IF Recovering THEN coverage ELSE coverage \cup Region)
        /\ ended' = ended
    BY <1>2, <2>1, Zenon DEF PublishDamageOfJob
  <2> QED
    BY <1>1, <1>2, <1>4, <2>1, <2>2
<1> QED
  BY <1>5, <1>6

LEMMA DamageStepKept ==
    ASSUME PortInvariant, PublishDamageOfJob
    PROVE  /\ PortInvariant'
           /\ UNCHANGED <<uiSide, armed, wakes, events>>
           /\ \/ call' = "surfaceWake"
              \/ call = "none" /\ call' = "none" /\ (queue' # <<>> => queue # <<>>)
<1>1. /\ job # NoJob /\ ~ job.boundaryDue /\ call = "none" /\ revision' = revision + 1
      /\ UNCHANGED <<uiSide, lastPopped, events, armed, wakes, runtimeGeneration, image, draws,
                     established, quarantined, staleDraws>>
  BY DamageOutcomes
<1>2. PICK u \in Update : u = DamageOfJob
  BY <1>1, DamageReady
<1>3. u.kind = "Damage" /\ u.revision = revision + 1 /\ u.bytes = Cardinality(Region)
  BY <1>1, <1>2, DamageReady
<1>4. Push(u, TRUE) /\ poisoned' = FALSE
  BY <1>2, DamageOutcomes
<1>5. MailboxInvariant'
  BY <1>1, <1>3, <1>4, PushStep DEF PortInvariant
<1>6. /\ runtimeGeneration # 0 /\ revision \in Nat /\ job \in Jobs /\ current \in Surface
      /\ coverage \subseteq Cells /\ Region \in SUBSET Cells
      /\ job.regions # <<>> /\ ~ quarantined
      /\ current.lastDamage <= revision /\ current.lastBoundary <= revision
      /\ current.lastDamage \in Nat /\ current.lastBoundary \in Nat
  BY <1>1, JobFacts
  DEF PortInvariant, MailboxInvariant, TypeInvariant, RdpTypes, JobsInOrder, RevisionsAgree,
      Surface
<1>7. CASE call' = "none"
  <2>1. /\ ClearCurrentDamageAndBoundaries
        /\ job' = Job(job.regions, Bands) /\ coverage' = coverage /\ ended' = ended
    BY <1>7, DamageOutcomes
  <2>2. /\ revision' \in Nat /\ current.lastDamage <= revision'
        /\ current.lastBoundary <= revision'
    BY <1>1, <1>6
  <2>3. PortInvariant'
    BY <1>1, <1>4, <1>5, <1>7, <2>1, <2>2, RecoveryBegins
  <2> QED
    BY <1>1, <1>7, <2>1, <2>3, Overflowed DEF PortInvariant
<1>8. CASE call' # "none"
  <2>1. call' = "surfaceWake" /\ EnqueueDamage(u)
    BY <1>2, <1>8, DamageOutcomes
  <2>2. /\ job' = [job EXCEPT !.boundaryDue = TRUE] /\ ended' = ended
        /\ coverage' = (IF Recovering THEN coverage ELSE coverage \cup Region)
    BY <1>8, DamageOutcomes
  <2>3. /\ current' = [current EXCEPT !.lastDamage = u.revision, !.eligible = u.revision]
        /\ EnqueueCurrent(u)
    BY <2>1 DEF EnqueueDamage
  <2>4. /\ current'.generation = current.generation /\ current'.session = current.session
        /\ current'.lastDamage = revision + 1 /\ current'.eligible = revision + 1
        /\ current'.lastBoundary = current.lastBoundary
    BY <1>3, <1>6, <2>3 DEF Surface
  <2>5. /\ Len(queue') = Len(queue) + 1 /\ ResetsEmpty'
        /\ queuedPixelBytes' = queuedPixelBytes + Cardinality(Region)
    BY <1>3, <2>3, Enqueued DEF PortInvariant
  <2>6. /\ job' \in Jobs /\ job'.regions = job.regions /\ job'.bands = job.bands
        /\ job'.boundaryDue = TRUE
    BY <1>6, <2>2, BoundaryMadeDue
  <2>7. RdpTypes' /\ ImagePainted'
    <3>1. coverage' \subseteq Cells /\ revision' \in Nat
      BY <1>1, <1>6, <2>2
    <3> QED
      BY <1>1, <2>1, <2>6, <3>1 DEF PortInvariant, RdpTypes, ImagePainted, Seen
  <2>8. GenerationsAgree' /\ RevisionsAgree'
    BY <1>1, <1>6, <2>1, <2>4, <2>6
    DEF PortInvariant, GenerationsAgree, Established, RevisionsAgree
  <2>9. JobsInOrder'
    BY <1>1, <1>6, <2>1, <2>6 DEF JobsInOrder
  <2>10. RecoveryFits'
    <3>1. SUFFICES ASSUME Recovering PROVE RecoveryFits'
      BY <2>6 DEF RecoveryFits, Recovering
    <3>2. /\ job.bands \in Seq(SUBSET Cells) /\ Len(queue) \in Nat /\ queuedPixelBytes \in Nat
          /\ Room(job.bands, FALSE, Len(queue), queuedPixelBytes) /\ Region = Head(job.bands)
      BY <1>1, <3>1, RecoveryFacts
    <3>3. Room(job.bands, TRUE, Len(queue) + 1,
               queuedPixelBytes + Cardinality(Head(job.bands)))
      BY <3>2, RoomDamaged
    <3> QED
      BY <2>5, <2>6, <3>2, <3>3, Zenon DEF RecoveryFits
  <2>11. PortInvariant'
    BY <1>4, <1>5, <2>2, <2>5, <2>7, <2>8, <2>9, <2>10 DEF PortInvariant, PortAccepts
  <2> QED
    BY <1>1, <2>1, <2>11
<1> QED
  BY <1>7, <1>8

LEMMA BoundaryOutcomes ==
    ASSUME PortInvariant, PublishBoundaryOfJob
    PROVE  /\ job # NoJob /\ job.boundaryDue /\ call = "none" /\ poisoned' = FALSE
           /\ UNCHANGED <<uiSide, lastPopped, events, armed, wakes, runtimeGeneration, image,
                          draws, revision, quarantined, staleDraws>>
           /\ Push(BoundaryOfJob, TRUE)
           /\ \/ /\ ~ Recovering /\ call' = "none" /\ ClearCurrentDamageAndBoundaries
                 /\ job' = Job(job.regions, Bands) /\ coverage' = coverage
                 /\ established' = established /\ ended' = ended
              \/ /\ call' = "surfaceWake" /\ EnqueueBoundary(BoundaryOfJob)
                 /\ job' = JobAfterBoundary
                 /\ established' = (established \/ CompletesBaseline)
                 /\ coverage' = (IF Recovering /\ CompletesBaseline THEN Cells ELSE coverage)
                 /\ ended' = ended
<1>1. /\ job.boundaryDue /\ call = "none"
      /\ UNCHANGED <<uiSide, lastPopped, events, armed, wakes, runtimeGeneration, image, draws,
                     revision, quarantined, staleDraws>>
  BY DEF PublishBoundaryOfJob, PublishSurface, uiSide, wakeVars
<1>2. PICK u \in Update : u = BoundaryOfJob
  BY <1>1, BoundaryReady
<1>3. /\ job # NoJob /\ u.kind = "Boundary" /\ BoundaryAccepted(u)
      /\ SurfaceOutcome(u) = IF Overflows(u) THEN "NeedsFullSnapshot" ELSE "Queued"
      /\ Recovering => ~ Overflows(u)
  BY <1>1, <1>2, BoundaryReady
<1>4. /\ Push(u, TRUE) /\ PushBoundary(u)
      /\ call' = (IF SurfaceOutcome(u) = "Queued" THEN "surfaceWake" ELSE "none")
      /\ poisoned' = FALSE
  BY <1>2, <1>3 DEF PublishBoundaryOfJob, PublishSurface, Push, PushReset, PushDamage
<1>5. CASE Overflows(u)
  <2>1. /\ SurfaceOutcome(u) = "NeedsFullSnapshot" /\ ~ Recovering /\ call' = "none"
        /\ ClearCurrentDamageAndBoundaries
    BY <1>3, <1>4, <1>5 DEF PushBoundary
  <2>2. Recover /\ established' = established /\ coverage' = coverage
    BY <1>2, <2>1, Zenon DEF PublishBoundaryOfJob
  <2>3. job' = Job(job.regions, Bands) /\ ended' = ended
    BY <2>1, <2>2 DEF Recover
  <2> QED
    BY <1>1, <1>2, <1>3, <1>4, <2>1, <2>2, <2>3
<1>6. CASE ~ Overflows(u)
  <2>1. /\ SurfaceOutcome(u) = "Queued" /\ call' = "surfaceWake" /\ EnqueueBoundary(u)
    BY <1>3, <1>4, <1>6 DEF PushBoundary
  <2>2. /\ established' = (established \/ CompletesBaseline) /\ ended' = ended
        /\ coverage' = (IF Recovering /\ CompletesBaseline THEN Cells ELSE coverage)
        /\ job' = JobAfterBoundary
    BY <1>2, <2>1, Zenon DEF PublishBoundaryOfJob
  <2> QED
    BY <1>1, <1>2, <1>3, <1>4, <2>1, <2>2, Zenon
<1> QED
  BY <1>5, <1>6

\* The next band of a recovery, or the next region.
LEMMA JobContinues ==
    ASSUME PortInvariant, job # NoJob
    PROVE  /\ JobAfterBoundary \in Jobs /\ JobAfterBoundary.boundaryDue = FALSE
           /\ JobAfterBoundary # NoJob => JobAfterBoundary.regions # <<>>
           /\ \/ /\ Recovering /\ Len(job.bands) > 1
                 /\ JobAfterBoundary.regions = job.regions
                 /\ JobAfterBoundary.bands = Tail(job.bands)
                 /\ JobAfterBoundary.bands # <<>>
              \/ /\ ~ (Recovering /\ Len(job.bands) > 1)
                 /\ JobAfterBoundary.regions = Tail(job.regions)
                 /\ JobAfterBoundary.bands = <<>>
<1>1. /\ job.regions \in Seq(SUBSET Cells) /\ job.bands \in Seq(SUBSET Cells)
      /\ Len(job.regions) \in Nat \ {0} /\ Len(job.bands) \in Nat
  BY JobFacts
<1>2. job.regions # <<>> /\ Tail(job.regions) \in Regions /\ <<>> \in Regions
  BY <1>1 DEF Regions
<1>3. CASE Recovering /\ Len(job.bands) > 1
  <2>1. Tail(job.bands) \in Regions /\ Tail(job.bands) # <<>> /\ job.regions \in Regions
    <3>1. job.bands # <<>>
      BY <1>3 DEF Recovering
    <3>2. /\ Tail(job.bands) \in Seq(SUBSET Cells)
          /\ Len(Tail(job.bands)) = Len(job.bands) - 1
      BY <1>1, <3>1
    <3>3. Len(Tail(job.bands)) # 0
      <4>1. \A n \in Nat : n > 1 => n - 1 # 0
        OBVIOUS
      <4> QED
        BY <1>1, <1>3, <3>2, <4>1, Zenon
    <3>4. Len(<<>>) = 0
      OBVIOUS
    <3>5. Tail(job.bands) # <<>>
      BY <3>3, <3>4, Zenon
    <3> QED
      BY <1>1, <3>2, <3>5 DEF Regions
  <2>2. JobAfterBoundary = Job(job.regions, Tail(job.bands))
    BY <1>3 DEF JobAfterBoundary
  <2> DEFINE made == Job(job.regions, Tail(job.bands))
  <2>3. /\ made \in Jobs /\ made.regions = job.regions /\ made.bands = Tail(job.bands)
        /\ made.boundaryDue = FALSE
    BY <2>1, JobMade, Zenon
  <2> HIDE DEF made
  <2>4. JobAfterBoundary = made
    BY <2>2 DEF made
  <2> QED
    BY <1>2, <1>3, <2>1, <2>3, <2>4, Zenon
<1>4. CASE ~ (Recovering /\ Len(job.bands) > 1)
  <2>1. JobAfterBoundary = Job(Tail(job.regions), <<>>)
    BY <1>4 DEF JobAfterBoundary
  <2>2. Tail(job.regions) = <<>> => JobAfterBoundary = NoJob
    BY <2>1 DEF NoJob
  <2> DEFINE made == Job(Tail(job.regions), <<>>)
  <2>3. /\ made \in Jobs /\ made.regions = Tail(job.regions) /\ made.bands = <<>>
        /\ made.boundaryDue = FALSE
    BY <1>2, JobMade, Zenon
  <2> HIDE DEF made
  <2>4. JobAfterBoundary = made
    BY <2>1 DEF made
  <2> QED
    BY <1>4, <2>2, <2>3, <2>4, Zenon
<1> QED
  BY <1>3, <1>4

LEMMA BoundaryStepKept ==
    ASSUME PortInvariant, PublishBoundaryOfJob
    PROVE  /\ PortInvariant'
           /\ UNCHANGED <<uiSide, armed, wakes, events>>
           /\ \/ call' = "surfaceWake"
              \/ call = "none" /\ call' = "none" /\ (queue' # <<>> => queue # <<>>)
<1>1. /\ job.boundaryDue /\ call = "none"
      /\ UNCHANGED <<uiSide, lastPopped, events, armed, wakes, runtimeGeneration, image, draws,
                     revision, quarantined, staleDraws>>
  BY BoundaryOutcomes
<1>2. PICK u \in Update : u = BoundaryOfJob
  BY <1>1, BoundaryReady
<1>3. job # NoJob /\ u.kind = "Boundary" /\ u.revision = revision /\ u.bytes = 0
  BY <1>1, <1>2, BoundaryReady
<1>4. Push(u, TRUE) /\ poisoned' = FALSE
  BY <1>2, BoundaryOutcomes
<1>5. MailboxInvariant'
  BY <1>1, <1>3, <1>4, PushStep DEF PortInvariant
<1>6. /\ runtimeGeneration # 0 /\ revision \in Nat /\ current \in Surface
      /\ coverage \subseteq Cells /\ established \in BOOLEAN /\ ~ quarantined
      /\ current.lastDamage = revision /\ current.lastBoundary < revision
      /\ current.lastBoundary \in Nat
  BY <1>1, <1>3, JobFacts
  DEF PortInvariant, MailboxInvariant, TypeInvariant, RdpTypes, RevisionsAgree, Surface
<1>7. CASE call' = "none"
  <2>1. /\ ClearCurrentDamageAndBoundaries
        /\ job' = Job(job.regions, Bands) /\ coverage' = coverage
        /\ established' = established /\ ended' = ended
    BY <1>7, BoundaryOutcomes
  <2>2. /\ revision' \in Nat /\ current.lastDamage <= revision'
        /\ current.lastBoundary <= revision'
    BY <1>1, <1>6
  <2>3. PortInvariant'
    BY <1>1, <1>3, <1>4, <1>5, <1>7, <2>1, <2>2, RecoveryBegins
  <2> QED
    BY <1>1, <1>7, <2>1, <2>3, Overflowed DEF PortInvariant
<1>8. CASE call' # "none"
  <2>1. call' = "surfaceWake" /\ EnqueueBoundary(u)
    BY <1>2, <1>8, BoundaryOutcomes
  <2>2. /\ established' = (established \/ CompletesBaseline) /\ ended' = ended
        /\ coverage' = (IF Recovering /\ CompletesBaseline THEN Cells ELSE coverage)
        /\ job' = JobAfterBoundary
    BY <1>8, BoundaryOutcomes, Zenon
  <2>3. /\ current' = [current EXCEPT !.lastBoundary = u.revision, !.eligible = 0]
        /\ EnqueueCurrent(u)
    BY <2>1 DEF EnqueueBoundary
  <2>4. /\ current'.generation = current.generation /\ current'.session = current.session
        /\ current'.lastDamage = revision /\ current'.lastBoundary = revision
    BY <1>3, <1>6, <2>3 DEF Surface
  <2>5. /\ Len(queue') = Len(queue) + 1 /\ ResetsEmpty'
        /\ queuedPixelBytes' = queuedPixelBytes + 0
    BY <1>3, <2>3, Enqueued DEF PortInvariant
  <2>6. /\ job' \in Jobs /\ job'.boundaryDue = FALSE
        /\ job' # NoJob => job'.regions # <<>>
    BY <1>3, <2>2, JobContinues
  <2>7. established' \in BOOLEAN /\ coverage' \subseteq Cells
    <3>1. CompletesBaseline \in BOOLEAN
      BY <1>6 DEF CompletesBaseline
    <3> QED
      BY <1>6, <2>2, <3>1
  <2>8. RdpTypes' /\ ImagePainted'
    BY <1>1, <2>1, <2>6, <2>7 DEF PortInvariant, RdpTypes, ImagePainted, Seen
  <2>9. GenerationsAgree' /\ RevisionsAgree'
    BY <1>1, <1>6, <2>1, <2>4, <2>6
    DEF PortInvariant, GenerationsAgree, Established, RevisionsAgree
  <2>10. JobsInOrder'
    BY <1>1, <1>6, <2>1, <2>6 DEF JobsInOrder
  <2>11. RecoveryFits'
    <3>1. SUFFICES ASSUME Recovering' PROVE RecoveryFits'
      BY DEF RecoveryFits
    <3>2. job'.bands = Tail(job.bands) /\ Recovering /\ Len(job.bands) > 1
      BY <1>3, <2>2, <3>1, JobContinues DEF Recovering
    <3>3. /\ job.bands \in Seq(SUBSET Cells) /\ Len(queue) \in Nat /\ queuedPixelBytes \in Nat
          /\ Room(job.bands, TRUE, Len(queue), queuedPixelBytes)
      BY <1>1, <3>2, RecoveryFacts
    <3>4. Room(Tail(job.bands), FALSE, Len(queue) + 1, queuedPixelBytes)
      <4>1. \A n \in Nat : n > 1 => n # 1
        OBVIOUS
      <4>2. Len(job.bands) \in Nat
        BY <1>3, JobFacts
      <4>3. Len(job.bands) # 1
        BY <3>2, <4>1, <4>2, Zenon
      <4> QED
        BY <3>3, <4>3, RoomBounded
    <3>5. queuedPixelBytes + 0 = queuedPixelBytes
      BY <3>3
    <3> QED
      BY <2>5, <2>6, <3>2, <3>4, <3>5, Zenon DEF RecoveryFits
  <2>12. PortInvariant'
    BY <1>4, <1>5, <2>2, <2>5, <2>8, <2>9, <2>10, <2>11 DEF PortInvariant, PortAccepts
  <2> QED
    BY <1>1, <2>1, <2>12
<1> QED
  BY <1>7, <1>8

LEMMA PortStutters ==
    ASSUME PortInvariant, UNCHANGED allVars
    PROVE  PortInvariant'
<1>1. UNCHANGED <<queue, queuedPixelBytes, current, lastPopped, call, runtimeGeneration,
                  poisoned, image, draws, revision, coverage, established, quarantined, job,
                  ended, staleDraws>>
  BY DEF allVars, pipelineVars, vars, runtimeVars, rdpVars, baselineVars
<1>2. MailboxInvariant'
  BY <1>1, StutterStep DEF PortInvariant, vars
<1>3. RdpTypes' /\ ImagePainted' /\ GenerationsAgree' /\ PortAccepts'
  BY <1>1
  DEF PortInvariant, RdpTypes, ImagePainted, Seen, GenerationsAgree, Established, PortAccepts
<1>4. JobsInOrder' /\ RevisionsAgree' /\ ResetsEmpty'
  BY <1>1 DEF PortInvariant, JobsInOrder, RevisionsAgree, ResetsEmpty
<1>5. RecoveryFits'
  BY <1>1 DEF PortInvariant, RecoveryFits, Recovering
<1> QED
  BY <1>2, <1>3, <1>4, <1>5 DEF PortInvariant

LEMMA PortStep ==
    ASSUME PortInvariant, [RdpNext]_allVars
    PROVE  PortInvariant'
BY GenerationOpens, ImageQuarantined, PduDecoded, ResetPublished, GenerationBegun,
   DamageStepKept, BoundaryStepKept, WakeKeepsPort, UiKeepsPort, PortStutters
DEF RdpNext, LoopStep

-----------------------------------------------------------------------------
(***************************************************************************)
(* The steps of the loop keep the invariant of the wakes.                  *)
(***************************************************************************)
LEMMA LoopWakes ==
    ASSUME PortInvariant, WakeInvariant, LoopStep
    PROVE  WakeInvariant'
<1>1. CASE RdpPublishReset
  BY <1>1, ResetPublished, PublishedSeen
<1>2. CASE RdpGenerationBegun
  BY <1>2, Woken DEF RdpGenerationBegun, WakeAfterGeneration, mailbox
<1>3. CASE PublishDamageOfJob
  <2>1. call = "none"
    BY <1>3 DEF PublishDamageOfJob, PublishSurface
  <2> QED
    BY <1>3, <2>1, DamageStepKept, PublishedSeen
<1>4. CASE PublishBoundaryOfJob
  <2>1. call = "none"
    BY <1>4 DEF PublishBoundaryOfJob, PublishSurface
  <2> QED
    BY <1>4, <2>1, BoundaryStepKept, PublishedSeen
<1>5. CASE RdpWake
  BY <1>5, Woken DEF RdpWake, WakeAfterSurface, mailbox
<1> QED
  BY <1>1, <1>2, <1>3, <1>4, <1>5 DEF LoopStep

LEMMA WakeStep ==
    ASSUME PortInvariant, WakeInvariant, [RdpNext]_allVars
    PROVE  WakeInvariant'
<1>1. CASE RdpBeginGeneration
  BY <1>1, EventOpened DEF RdpBeginGeneration
<1>2. CASE LoopStep
  BY <1>2, LoopWakes
<1>3. CASE RdpUi
  BY <1>3, UiKeepsWakes DEF RdpUi
<1>4. CASE UNCHANGED pipelineVars
  BY <1>4, WakesStutter
<1> QED
  BY <1>1, <1>2, <1>3, <1>4 DEF RdpNext, ReactivationQuarantined, DecodePdu, allVars

-----------------------------------------------------------------------------
(***************************************************************************)
(* Every state of the RDP pipeline satisfies the two invariants.           *)
(***************************************************************************)
THEOREM RdpInvariance == RdpSpec => []RdpInvariant
<1>1. RdpInit => RdpInvariant
  BY PortStarts, WakeStarts DEF RdpInvariant, RdpInit
<1>2. RdpInvariant /\ [RdpNext]_allVars => RdpInvariant'
  BY PortStep, WakeStep DEF RdpInvariant
<1> QED
  BY <1>1, <1>2, PTL DEF RdpSpec

(***************************************************************************)
(* What the RDP adapter publishes is never forgotten either: a waiting UI  *)
(* has a Wake under way for what is queued, also when an overflow emptied  *)
(* the mailbox without waking it, and a redraw for a picture not yet       *)
(* presented, but in a window that does not show and after a redraw for    *)
(* which the surface had no frame (application.rs, RuntimeWakeGate,        *)
(* drain_runtime, render_now and the handlers of window events).           *)
(***************************************************************************)
THEOREM RdpNothingIsForgotten == RdpSpec => []NothingForgotten
<1>1. RdpInvariant => NothingForgotten
  BY WaitingIsSeen DEF RdpInvariant
<1> QED
  BY <1>1, RdpInvariance, PTL

(***************************************************************************)
(* The frame port accepts all that the RDP adapter publishes: a damage     *)
(* that overflowed used up its revision, and a recovery in the midst of    *)
(* the regions of a PDU fits the mailbox, for every surface, cut of it     *)
(* into bands, PDU and limit that admits them (baseline.rs, publish and    *)
(* recover_full_snapshot).                                                 *)
(***************************************************************************)
THEOREM RdpPortAccepts == RdpSpec => []PortAccepts
<1>1. RdpInvariant => PortAccepts
  BY DEF RdpInvariant, PortInvariant
<1> QED
  BY <1>1, RdpInvariance, PTL

-----------------------------------------------------------------------------
(***************************************************************************)
(* The pipeline is a use of the path from the mailbox to the screen: its   *)
(* steps keep the invariant of that path.                                  *)
(***************************************************************************)
LEMMA RdpKeepsDelivery ==
    ASSUME PortInvariant, DeliveryInvariant, [RdpNext]_allVars
    PROVE  DeliveryInvariant'
<1>1. CASE UiStep
  BY <1>1, UiKeepsDelivery
<1>2. CASE UNCHANGED <<uiVars, lastPopped>>
  <2>1. PortInvariant'
    BY PortStep
  <2>2. MailboxInvariant' /\ (Established' => current'.session = Session)
    BY <2>1 DEF PortInvariant, GenerationsAgree
  <2> QED
    BY <1>2, <2>2, PublisherKeepsDelivery
<1>3. UiStep \/ UNCHANGED <<uiVars, lastPopped>>
  <2>1. CASE RdpUi
    BY <2>1 DEF RdpUi
  <2>2. CASE LoopStep
    BY <2>2
    DEF LoopStep, RdpPublishReset, BeginGenerationReset, RdpGenerationBegun,
        WakeAfterGeneration, PublishDamageOfJob, PublishBoundaryOfJob, PublishSurface, RdpWake,
        WakeAfterSurface, uiSide
  <2>3. CASE RdpBeginGeneration
    BY <2>3 DEF RdpBeginGeneration, BeginGenerationEvent, uiSide
  <2>4. CASE UNCHANGED pipelineVars
    BY <2>4 DEF pipelineVars, vars
  <2> QED
    BY <2>1, <2>2, <2>3, <2>4 DEF RdpNext, ReactivationQuarantined, DecodePdu, allVars
<1> QED
  BY <1>1, <1>2, <1>3

-----------------------------------------------------------------------------
(***************************************************************************)
(* The steps that move no picture, and those of the UI.                    *)
(***************************************************************************)
LEMMA NothingRemains == job = NoJob => Remaining = {} /\ ~ Recovering /\ ~ job.boundaryDue
BY NoJobFacts DEF Remaining, OfRecovery, OfRegions, Recovering

LEMMA PictureStarts == RdpInit => PictureInvariant
<1> SUFFICES ASSUME RdpInit PROVE PictureInvariant
  OBVIOUS
<1>1. /\ queue = <<>> /\ lastPopped = NothingPopped /\ transactions = <<>>
      /\ texture = NewTexture(0) /\ pixels = Unpainted /\ job = NoJob
      /\ runtimeGeneration = 0 /\ coverage = {}
  BY DEF RdpInit, PipelineInit, DeliveryInit, Init
<1>2. pixels \in [Cells -> Seen \cup {0}]
  BY <1>1 DEF Unpainted
<1>3. lastPopped.kind = "Reset" /\ Newest = lastPopped
  BY <1>1 DEF NothingPopped, ResetUpdate, Newest
<1>4. DamageCarries(Seen) /\ FullIsWhole /\ BatchWhole(Seen)
  BY <1>1, <1>3 DEF DamageCarries, FullIsWhole, BatchWhole
<1>5. BoundaryNext /\ RecoveryIsOver
  BY <1>1, <1>3, NothingRemains DEF BoundaryNext, RecoveryIsOver
<1>6. ImageArrives /\ CoverageStarts /\ StartupPaintsEverything
  BY <1>1 DEF ImageArrives, CoverageStarts, StartupPaintsEverything, NewTexture
<1> QED
  BY <1>2, <1>4, <1>5, <1>6 DEF PictureInvariant

LEMMA PictureKept ==
    ASSUME PictureInvariant,
           UNCHANGED <<queue, lastPopped, transactions, pixels, compiler, failure, image, draws,
                       staleDraws, coverage, established, quarantined, job, runtimeGeneration>>,
           texture'.generation = texture.generation,
           call' # "generationWake" => call # "generationWake"
    PROVE  PictureInvariant'
<1>1. /\ Newest' = Newest /\ Done' = Done /\ Remaining' = Remaining /\ Seen' = Seen
      /\ Region' = Region /\ (Recovering' <=> Recovering)
  BY DEF Newest, Done, Remaining, OfRecovery, OfRegions, Seen, Region, Recovering
<1>2. (pixels \in [Cells -> Seen \cup {0}])' /\ DamageCarries(Seen)'
  BY <1>1 DEF PictureInvariant, DamageCarries
<1>3. BoundaryNext'
  BY <1>1 DEF PictureInvariant, BoundaryNext
<1>4. ASSUME Running' PROVE BatchWhole(Seen)' /\ StartupPaintsEverything'
  BY <1>1, <1>4 DEF PictureInvariant, Running, BatchWhole, StartupPaintsEverything
<1>5. ASSUME Running' PROVE FullIsWhole'
  BY <1>5 DEF PictureInvariant, Running, FullIsWhole, Full, Whole, Before, StartupOver, HasStartup
<1>6. StartupOver(Len(queue)) => StartupOver(Len(queue))'
  BY DEF StartupOver, HasStartup
<1>7. ASSUME Running' PROVE RecoveryIsOver' /\ CoverageStarts'
  BY <1>1, <1>6, <1>7 DEF PictureInvariant, Running, RecoveryIsOver, CoverageStarts
<1>8. ASSUME NEW c \in Cells, NEW v, Arrives(c, v) PROVE Arrives(c, v)'
  BY <1>8
  DEF Arrives, QueuePaints, QueueSkips, Covers, Shown, BatchPaints, BatchSkips
<1>9. ASSUME Running' PROVE ImageArrives'
  BY <1>1, <1>8, <1>9 DEF PictureInvariant, Running, ImageArrives
<1> QED
  BY <1>2, <1>3, <1>4, <1>5, <1>7, <1>9 DEF PictureInvariant

LEMMA UiKeepsPicture ==
    ASSUME DeliveryInvariant, PictureInvariant, PortInvariant, RdpUi
    PROVE  PictureInvariant'
<1>1. UNCHANGED <<image, draws, staleDraws, coverage, established, quarantined, job, call,
                  runtimeGeneration>>
  BY UiLeaves DEF RdpUi, rdpVars, baselineVars
<1>2. PICK W : W = Seen
  OBVIOUS
<1>3. /\ Seen' = W /\ 0 \notin W /\ Done' = Done /\ Remaining' = Remaining
      /\ Region' = Region /\ (Recovering' <=> Recovering)
  BY <1>1, <1>2 DEF Seen, Done, Remaining, OfRecovery, OfRegions, Region, Recovering
<1>4. /\ pixels \in [Cells -> W \cup {0}] /\ DamageCarries(W) /\ BoundaryNext
      /\ Running =>
           /\ BatchWhole(W) /\ FullIsWhole /\ RecoveryIsOver /\ CoverageStarts /\ ImageArrives
           /\ StartupPaintsEverything
  BY <1>2 DEF PictureInvariant
<1>5. CASE HandleWake \/ HandleRedraw \/ ReduceEvents \/ RequestRedraw \/ LockMailbox
           \/ UnlockMailbox
  <2>1. UNCHANGED <<queue, lastPopped, transactions, pixels, compiler, failure, texture>>
    BY <1>5
    DEF HandleWake, HandleRedraw, ReduceEvents, RequestRedraw, protocolSide, mailbox, uiVars,
        LockMailbox, BeginDrain, UnlockMailbox, EndDrain, vars, callbackVars
  <2> QED
    BY <1>1, <2>1, PictureKept
<1>6. CASE RenderNow
  <2>1. /\ UNCHANGED <<queue, lastPopped, transactions, pixels, compiler, failure>>
        /\ texture' = texture \/ texture' = Confirmed
    BY <1>6 DEF RenderNow, RenderPresents, RenderSkips, PresentTexture, vars, uiVars
  <2>2. texture \in Texture
    BY DEF DeliveryInvariant, DeliveryTypes
  <2>3. texture'.generation = texture.generation
    BY <2>1, <2>2 DEF Confirmed, Texture
  <2> QED
    BY <1>1, <2>1, <2>3, PictureKept
<1>7. CASE ApplyTransaction /\ BatchError = "None"
  <2>1. /\ Running /\ UNCHANGED <<queue, lastPopped, compiler>>
    BY <1>7 DEF ApplyTransaction, ApplyHead, vars
  <2>2. /\ pixels' \in [Cells -> W \cup {0}]
        /\ BatchWhole(W)' /\ StartupPaintsEverything'
        /\ \A c \in Cells : \A v : Shown(c, v) => Shown(c, v)'
    BY <1>3, <1>4, <1>7, <2>1, HeadApplied
  <2>3. DamageCarries(W)' /\ FullIsWhole'
    BY <1>4, <2>1 DEF DamageCarries, FullIsWhole, Full, Whole, Before, StartupOver, HasStartup
  <2>4. StartupOver(Len(queue)) => StartupOver(Len(queue))'
    BY <2>1 DEF StartupOver, HasStartup
  <2>5. RecoveryIsOver' /\ CoverageStarts'
    BY <1>1, <1>3, <1>4, <2>1, <2>4 DEF RecoveryIsOver, CoverageStarts
  <2>6. BoundaryNext'
    BY <1>1, <1>3, <1>4, <2>1 DEF BoundaryNext, Newest
  <2>7. ASSUME NEW c \in Cells, NEW v, Arrives(c, v) PROVE Arrives(c, v)'
    BY <2>1, <2>2, <2>7 DEF Arrives, QueuePaints, QueueSkips, Covers
  <2>8. ImageArrives'
    BY <1>1, <1>3, <1>4, <2>1, <2>7 DEF ImageArrives
  <2> QED
    BY <1>3, <2>2, <2>3, <2>5, <2>6, <2>8 DEF PictureInvariant
<1>8. CASE CompileUpdate
  <2>1. /\ Running /\ CompileHead /\ Pop /\ UNCHANGED <<pixels, texture>>
    BY <1>8 DEF CompileUpdate, CompileHead, callbackVars
  <2>2. Newest' = Newest /\ DamageCarries(W)'
    BY <1>4, <2>1, NewestStays DEF DeliveryInvariant
  <2>3. BoundaryNext'
    BY <1>1, <1>3, <1>4, <2>2 DEF BoundaryNext
  <2>4. ASSUME Running'
        PROVE  /\ BatchWhole(W)' /\ FullIsWhole' /\ RecoveryIsOver' /\ CoverageStarts'
               /\ ImageArrives' /\ StartupPaintsEverything'
    <3>1. BatchWhole(W)' /\ FullIsWhole'
      BY <1>4, <2>1, <2>4, BatchCompiled, WholePopped DEF DamageCarries
    <3>2. PICK n \in 1..Len(queue) : n = Len(queue) /\ Len(queue') = n - 1
      BY <2>1, <2>4, HeadCompiled
    <3>3. StartupOver(n) => StartupOver(n - 1)'
      BY <2>1, <2>4, StartupPopped
    <3>4. StartupOver(Len(queue)) => StartupOver(Len(queue))'
      BY <3>2, <3>3
    <3>5. RecoveryIsOver' /\ CoverageStarts'
      BY <1>1, <1>3, <1>4, <2>1, <3>4 DEF RecoveryIsOver, CoverageStarts
    <3>6. \A c \in Cells : \A v : Arrives(c, v) => Arrives(c, v)'
      BY <2>1, <2>4, ArrivalPopped
    <3>7. ImageArrives'
      BY <1>1, <1>3, <1>4, <2>1, <3>6 DEF ImageArrives
    <3>8. StartupPaintsEverything'
      BY <1>4, <2>1 DEF StartupPaintsEverything
    <3> QED
      BY <3>1, <3>5, <3>7, <3>8
  <2> QED
    BY <1>3, <1>4, <2>1, <2>2, <2>3, <2>4 DEF PictureInvariant
<1>9. CASE ApplyTransaction /\ BatchError # "None"
  <2>1. /\ UNCHANGED <<queue, lastPopped, pixels>> /\ ~ Running'
        /\ transactions' = <<>>
    BY <1>9 DEF ApplyTransaction, ApplyHead, Running, vars
  <2>2. DamageCarries(W)'
    BY <1>1, <1>3, <1>4, <2>1 DEF DamageCarries
  <2>3. BoundaryNext'
    BY <1>1, <1>3, <1>4, <2>1 DEF BoundaryNext, Newest
  <2> QED
    BY <1>1, <1>3, <1>4, <2>1, <2>2, <2>3 DEF PictureInvariant
<1>10. CASE WindowStep
  <2>1. UNCHANGED <<queue, lastPopped, transactions, pixels, compiler, failure, texture>>
    BY <1>10, WindowLeaves DEF vars, uiVars
  <2> QED
    BY <1>1, <2>1, PictureKept
<1> QED
  BY <1>5, <1>6, <1>7, <1>8, <1>9, <1>10 DEF RdpUi, UiStep

-----------------------------------------------------------------------------
(***************************************************************************)
(* The loop: a Reset, a generation, a quarantined image and a PDU.         *)
(***************************************************************************)
LEMMA ResetPicture ==
    ASSUME PortInvariant, PictureInvariant, RdpPublishReset
    PROVE  PictureInvariant'
<1>1. /\ call = "reset" /\ call' = "generationWake"
      /\ UNCHANGED <<image, draws, staleDraws, coverage, established, quarantined, job,
                     runtimeGeneration>>
      /\ UNCHANGED <<lastPopped, transactions, pixels, compiler, failure, texture>>
  BY ResetPublished
  DEF RdpPublishReset, BeginGenerationReset, rdpVars, baselineVars, uiSide, uiVars, callbackVars
<1>2. job = NoJob /\ ~ Recovering /\ ~ job.boundaryDue
  BY <1>1, NothingRemains DEF PortInvariant, JobsInOrder
<1> DEFINE u == ResetUpdate(Session, runtimeGeneration + 1)
<1>3. u.kind = "Reset"
  BY DEF ResetUpdate
<1>4. queue' = <<u>> \/ queue' = queue
  BY DEF RdpPublishReset, BeginGenerationReset, PushReset, EnqueueReset, mailbox
<1> HIDE DEF u
<1>5. CASE queue' = queue
  BY <1>1, <1>5, PictureKept
<1>6. CASE queue' = <<u>>
  <2>1. /\ queue' # <<>> /\ Len(queue') = 1 /\ queue'[1] = u
        /\ \A i \in 1..Len(queue') : queue'[i].kind = "Reset"
    BY <1>3, <1>6
  <2>2. Newest'.kind = "Reset"
    BY <1>3, <2>1 DEF Newest
  <2>3. ~ Recovering' /\ Seen' = Seen
    BY <1>1, <1>2 DEF Recovering, Seen
  <2>4. (pixels \in [Cells -> Seen \cup {0}])' /\ DamageCarries(Seen)'
    BY <1>1, <2>1, <2>3 DEF PictureInvariant, DamageCarries
  <2>5. BoundaryNext'
    BY <1>1, <1>2, <2>2 DEF BoundaryNext
  <2>6. ASSUME Running'
        PROVE  /\ BatchWhole(Seen)' /\ FullIsWhole' /\ RecoveryIsOver' /\ CoverageStarts'
               /\ ImageArrives' /\ StartupPaintsEverything'
    BY <1>1, <1>2, <2>1, <2>3, <2>6
    DEF PictureInvariant, Running, BatchWhole, FullIsWhole, RecoveryIsOver, CoverageStarts,
        ImageArrives, StartupPaintsEverything
  <2> QED
    BY <2>4, <2>5, <2>6 DEF PictureInvariant
<1> QED
  BY <1>4, <1>5, <1>6

LEMMA PicturesGrow ==
    ASSUME NEW V, NEW W, V \subseteq W
    PROVE  Pictures(V) \subseteq Pictures(W)
<1>1. \A S \in SUBSET Cells : [S -> V] \subseteq [S -> W]
  OBVIOUS
<1> QED
  BY <1>1 DEF Pictures

\* A new image: what no publication carries yet is owed by a job, or by the
\* reactivation that ends a quarantine.
LEMMA PictureDrawn ==
    ASSUME PictureInvariant, Seen \subseteq Seen',
           ~ job.boundaryDue, ~ Recovering, ~ job'.boundaryDue, ~ Recovering',
           Running => ImageArrives' /\ CoverageStarts',
           UNCHANGED <<queue, lastPopped, transactions, pixels, compiler, failure, texture>>
    PROVE  PictureInvariant'
<1>1. Newest' = Newest
  BY DEF Newest
<1>2. Pictures(Seen) \subseteq Pictures(Seen')
  BY PicturesGrow
<1>3. (pixels \in [Cells -> Seen \cup {0}])' /\ DamageCarries(Seen)'
  BY <1>2 DEF PictureInvariant, DamageCarries
<1>4. BoundaryNext'
  BY <1>1 DEF PictureInvariant, BoundaryNext
<1>5. ASSUME Running'
      PROVE  BatchWhole(Seen)' /\ RecoveryIsOver' /\ StartupPaintsEverything'
  BY <1>2, <1>5 DEF PictureInvariant, Running, BatchWhole, RecoveryIsOver, StartupPaintsEverything
<1>6. ASSUME Running' PROVE FullIsWhole'
  BY <1>6 DEF PictureInvariant, Running, FullIsWhole, Full, Whole, Before, StartupOver, HasStartup
<1> QED
  BY <1>3, <1>4, <1>5, <1>6 DEF PictureInvariant, Running

LEMMA BegunPicture ==
    ASSUME PortInvariant, PictureInvariant, RdpGenerationBegun
    PROVE  PictureInvariant'
<1>1. /\ call = "generationWake" /\ coverage' = {} /\ Draw(Cells) /\ UNCHANGED <<job, staleDraws>>
      /\ UNCHANGED <<queue, lastPopped, transactions, pixels, compiler, failure, texture>>
  BY DEF RdpGenerationBegun, WakeAfterGeneration, mailbox, uiSide, uiVars, callbackVars
<1>2. /\ job = NoJob /\ ~ Recovering /\ ~ job.boundaryDue
      /\ ~ Recovering' /\ ~ job'.boundaryDue
  BY <1>1, NothingRemains DEF PortInvariant, JobsInOrder, Recovering
<1>3. ImageArrives' /\ CoverageStarts'
  BY <1>1, <1>2 DEF ImageArrives, CoverageStarts
<1>4. Seen \subseteq Seen'
  BY <1>1, SeenGrows
<1> QED
  BY <1>1, <1>2, <1>3, <1>4, PictureDrawn

\* The startup of the generation is where it was.
LEMMA CoverageKept ==
    ASSUME PictureInvariant, Running, job = NoJob, call = "none", ~ Recovering',
           UNCHANGED <<coverage, established, queue, compiler, failure>>
    PROVE  CoverageStarts'
<1>1. ~ established => coverage = {} \/ StartupOver(Len(queue))
  BY NothingRemains DEF PictureInvariant, CoverageStarts
<1>2. StartupOver(Len(queue)) => StartupOver(Len(queue))'
  BY DEF StartupOver, HasStartup
<1> QED
  BY <1>1, <1>2 DEF CoverageStarts

LEMMA QuarantinedPicture ==
    ASSUME PortInvariant, PictureInvariant, ReactivationQuarantined
    PROVE  PictureInvariant'
<1>1. /\ job = NoJob /\ call = "none" /\ Draw(Cells) /\ quarantined' = TRUE
      /\ staleDraws' = staleDraws \cup {draws + 1}
      /\ UNCHANGED <<coverage, established, job>>
      /\ UNCHANGED <<queue, lastPopped, transactions, pixels, compiler, failure, texture>>
  BY DEF ReactivationQuarantined, LoopReads, pipelineVars, vars, uiVars, callbackVars, baselineVars
<1>2. ~ Recovering /\ ~ job.boundaryDue /\ ~ Recovering' /\ ~ job'.boundaryDue
  BY <1>1, NothingRemains DEF Recovering
<1>3. Running => ImageArrives' /\ CoverageStarts'
  BY <1>1, <1>2, CoverageKept DEF ImageArrives
<1>4. Seen \subseteq Seen'
  BY <1>1, DrawFacts, SeenGrows
<1> QED
  BY <1>1, <1>2, <1>3, <1>4, PictureDrawn

LEMMA DecodedPicture ==
    ASSUME PortInvariant, PictureInvariant, NEW regions \in PduRegions, DecodePdu(regions)
    PROVE  PictureInvariant'
<1> DEFINE S == UNION {regions[i] : i \in 1..Len(regions)}
<1>1. /\ job = NoJob /\ call = "none" /\ runtimeGeneration # 0 /\ Draw(S) /\ S \in SUBSET Cells
      /\ UNCHANGED <<call, runtimeGeneration, coverage, established, quarantined>>
      /\ UNCHANGED <<queue, lastPopped, transactions, pixels, compiler, failure, texture>>
  BY PduFacts
  DEF DecodePdu, LoopReads, pipelineVars, vars, uiVars, runtimeVars, callbackVars, baselineVars
<1>2. /\ job' = IF quarantined THEN NoJob ELSE Job(regions, <<>>)
      /\ staleDraws' = IF quarantined THEN staleDraws \cup {draws + 1} ELSE staleDraws
  BY DEF DecodePdu
<1>3. job'.bands = <<>> /\ job'.boundaryDue = FALSE
  <2>1. <<>> \in Regions /\ regions \in Regions
    BY PduFacts DEF Regions
  <2> QED
    BY <1>2, <2>1, JobMade, NoJobFacts
<1>4. Seen \subseteq Seen'
  BY <1>1, <1>2, DrawFacts, SeenGrows
<1>5. ~ Recovering /\ ~ job.boundaryDue /\ ~ Recovering' /\ ~ job'.boundaryDue
  BY <1>1, <1>3, NothingRemains DEF Recovering
<1>6. Running => CoverageStarts'
  BY <1>1, <1>5, CoverageKept
<1>7. Running => ImageArrives'
  <2>1. SUFFICES ASSUME Running, ~ quarantined, NEW c \in coverage
                 PROVE  c \in Remaining' \/ Arrives(c, image[c])'
    BY <1>1, <1>5 DEF ImageArrives
  <2>2. c \in Cells
    BY DEF PortInvariant, RdpTypes
  <2>3. CASE c \in S
    <3>1. job'.regions = regions
      <4>1. <<>> \in Regions /\ regions \in Regions
        BY PduFacts DEF Regions
      <4> QED
        BY <1>2, <2>1, <4>1, JobMade
    <3>2. OfRegions' = S
      BY <1>5, <3>1 DEF OfRegions
    <3> QED
      BY <2>3, <3>2 DEF Remaining
  <2>4. CASE c \notin S
    <3>1. Arrives(c, image[c])
      BY <1>1, <2>1, <2>2, NothingRemains DEF PictureInvariant, ImageArrives
    <3>2. image'[c] = image[c]
      BY <1>1, <2>2, <2>4, DrawFacts
    <3> QED
      BY <1>1, <3>1, <3>2
      DEF Arrives, QueuePaints, QueueSkips, Covers, Shown, BatchPaints, BatchSkips
  <2> QED
    BY <2>3, <2>4
<1> QED
  BY <1>1, <1>4, <1>5, <1>6, <1>7, PictureDrawn

-----------------------------------------------------------------------------
(***************************************************************************)
(* The loop: what it publishes.                                            *)
(***************************************************************************)
\* A recovery owes the whole surface, and leaves at most a Reset in the queue.
LEMMA RecoveryPicture ==
    ASSUME PortInvariant, PictureInvariant, job # NoJob, ClearCurrentDamageAndBoundaries,
           job' = Job(job.regions, Bands),
           UNCHANGED <<image, draws, staleDraws>>,
           UNCHANGED <<lastPopped, transactions, pixels, compiler, failure, texture>>
    PROVE  PictureInvariant'
<1>1. queue \in Seq(Update) /\ queue' = HeadReset(queue)
  BY RetainedIsHeadReset
  DEF ClearCurrentDamageAndBoundaries, PortInvariant, MailboxInvariant, TypeInvariant,
      QueueCoherent
<1>2. \A i \in 1..Len(queue') : queue'[i].kind = "Reset"
  BY <1>1 DEF HeadReset
<1>3. /\ Bands \in Seq(SUBSET Cells) /\ Bands # <<>> /\ DoneBefore(Bands) = 0
  <2>1. PICK n \in Nat : n <= 1
    OBVIOUS
  <2> QED
    BY <2>1, RoomBegins, Zenon
<1>4. /\ job'.bands = Bands /\ job'.boundaryDue = FALSE
  <2>1. Bands \in Regions /\ job.regions \in Regions
    BY <1>3, JobFacts DEF Regions
  <2> QED
    BY <2>1, JobMade
<1>5. Recovering' /\ Done' = 0 /\ Seen' = Seen
  BY <1>3, <1>4 DEF Recovering, Done, Seen
<1>6. (pixels \in [Cells -> Seen \cup {0}])' /\ DamageCarries(Seen)' /\ BoundaryNext'
  BY <1>2, <1>4, <1>5 DEF PictureInvariant, DamageCarries, BoundaryNext
<1>7. ImageArrives'
  <2>1. OfRecovery' = UNION {Bands[i] : i \in 1..Len(Bands)}
    BY <1>4 DEF OfRecovery
  <2>2. Cells \subseteq Remaining'
    BY <2>1, PipelineAssumption DEF Remaining
  <2> QED
    BY <2>2 DEF ImageArrives
<1>8. ASSUME Running'
      PROVE  /\ BatchWhole(Seen)' /\ FullIsWhole' /\ RecoveryIsOver' /\ CoverageStarts'
             /\ StartupPaintsEverything'
  BY <1>2, <1>5, <1>8
  DEF PictureInvariant, Running, BatchWhole, FullIsWhole, RecoveryIsOver, CoverageStarts,
      StartupPaintsEverything
<1> QED
  BY <1>6, <1>7, <1>8 DEF PictureInvariant

\* What remains once the damage of a region is out, and once its boundary is.
LEMMA RemainsAfterDamage ==
    ASSUME PortInvariant, job # NoJob, ~ job.boundaryDue,
           job' = [job EXCEPT !.boundaryDue = TRUE], NEW c \in Remaining
    PROVE  c \in Region \/ c \in Remaining'
<1>1. /\ job \in Jobs /\ job.regions \in Seq(SUBSET Cells) /\ job.bands \in Seq(SUBSET Cells)
      /\ Len(job.regions) \in Nat \ {0} /\ Len(job.bands) \in Nat
  BY JobFacts
<1>2. /\ job'.regions = job.regions /\ job'.bands = job.bands /\ job'.boundaryDue = TRUE
  BY <1>1, BoundaryMadeDue
<1>3. CASE c \in OfRecovery
  <2>1. PICK i \in 1..Len(job.bands) : c \in job.bands[i]
    BY <1>3 DEF OfRecovery
  <2>2. CASE i = 1
    <3>1. Recovering /\ job.bands[1] = Head(job.bands)
      BY <1>1, <2>1 DEF Recovering
    <3> QED
      BY <2>1, <2>2, <3>1 DEF Region
  <2>3. CASE i # 1
    <3>1. i \in 2..Len(job.bands)
      BY <1>1, <2>1, <2>3
    <3> QED
      BY <1>2, <2>1, <3>1 DEF Remaining, OfRecovery
  <2> QED
    BY <2>2, <2>3
<1>4. CASE c \in OfRegions
  <2>1. PICK i \in (IF Recovering THEN 2 ELSE 1)..Len(job.regions) : c \in job.regions[i]
    BY <1>4 DEF OfRegions
  <2>2. CASE i = 1
    <3>1. ~ Recovering /\ job.regions[1] = Head(job.regions)
      BY <1>1, <2>1, <2>2
    <3> QED
      BY <2>1, <2>2, <3>1 DEF Region
  <2>3. CASE i # 1
    <3>1. i \in 2..Len(job.regions)
      BY <1>1, <2>1, <2>3
    <3> QED
      BY <1>2, <2>1, <3>1 DEF Remaining, OfRegions
  <2> QED
    BY <2>2, <2>3
<1> QED
  BY <1>3, <1>4 DEF Remaining

LEMMA RemainsAfterBoundary ==
    ASSUME PortInvariant, job.boundaryDue, job' = JobAfterBoundary, NEW c \in Remaining
    PROVE  c \in Remaining'
<1>1. job # NoJob
  BY NoJobFacts
<1>2. /\ job.regions \in Seq(SUBSET Cells) /\ job.bands \in Seq(SUBSET Cells)
      /\ Len(job.regions) \in Nat \ {0} /\ Len(job.bands) \in Nat
  BY <1>1, JobFacts
<1>3. job'.boundaryDue = FALSE
  BY <1>1, JobContinues
<1>4. CASE Recovering /\ Len(job.bands) > 1
  <2>1. job'.regions = job.regions /\ job'.bands = Tail(job.bands) /\ Recovering'
    BY <1>1, <1>4, JobContinues DEF Recovering
  <2>2. CASE c \in OfRecovery
    <3>1. PICK i \in 2..Len(job.bands) : c \in job.bands[i]
      BY <2>2 DEF OfRecovery
    <3>2. /\ i - 1 \in 1..Len(Tail(job.bands))
          /\ Tail(job.bands)[i - 1] = job.bands[i]
      BY <1>2, <3>1
    <3> QED
      BY <1>3, <2>1, <3>1, <3>2 DEF Remaining, OfRecovery
  <2>3. CASE c \in OfRegions
    BY <1>3, <2>1, <2>3 DEF Remaining, OfRegions
  <2> QED
    BY <2>2, <2>3 DEF Remaining
<1>5. CASE ~ (Recovering /\ Len(job.bands) > 1)
  <2>1. job'.regions = Tail(job.regions) /\ job'.bands = <<>> /\ ~ Recovering'
    BY <1>1, <1>5, JobContinues DEF Recovering
  <2>2. c \notin OfRecovery
    <3>1. SUFFICES ASSUME NEW i \in 2..Len(job.bands) PROVE FALSE
      BY DEF OfRecovery
    <3>2. Len(job.bands) > 1
      BY <1>2, <3>1
    <3>3. job.bands # <<>>
      BY <3>2
    <3> QED
      BY <1>5, <3>2, <3>3 DEF Recovering
  <2>3. PICK i \in 2..Len(job.regions) : c \in job.regions[i]
    BY <2>2 DEF Remaining, OfRegions
  <2>4. /\ i - 1 \in 1..Len(Tail(job.regions))
        /\ Tail(job.regions)[i - 1] = job.regions[i]
    BY <1>2, <2>3
  <2>5. OfRegions' = UNION {job'.regions[k] : k \in 1..Len(job'.regions)}
    BY <1>3, <2>1 DEF OfRegions
  <2>6. c \in job'.regions[i - 1] /\ i - 1 \in 1..Len(job'.regions)
    BY <2>1, <2>3, <2>4
  <2> QED
    BY <2>5, <2>6, Zenon DEF Remaining
<1> QED
  BY <1>4, <1>5

LEMMA DamagePicture ==
    ASSUME PortInvariant, PictureInvariant, PublishDamageOfJob
    PROVE  PictureInvariant'
<1>1. /\ job # NoJob /\ ~ job.boundaryDue /\ call = "none"
      /\ UNCHANGED <<lastPopped, transactions, pixels, compiler, failure, texture>>
      /\ UNCHANGED <<runtimeGeneration, image, draws, established, quarantined, staleDraws>>
  BY DamageOutcomes DEF uiSide, uiVars, callbackVars
<1>2. CASE call' = "none"
  <2>1. ClearCurrentDamageAndBoundaries /\ job' = Job(job.regions, Bands)
    BY <1>2, DamageOutcomes
  <2> QED
    BY <1>1, <2>1, RecoveryPicture
<1>3. CASE call' # "none"
  <2>1. /\ call' = "surfaceWake" /\ EnqueueDamage(DamageOfJob)
        /\ job' = [job EXCEPT !.boundaryDue = TRUE]
        /\ coverage' = (IF Recovering THEN coverage ELSE coverage \cup Region)
    BY <1>3, DamageOutcomes
  <2>2. PICK u \in Update : u = DamageOfJob
    BY <1>1, DamageReady
  <2>3. /\ u.kind = "Damage" /\ u.payload = [c \in Region |-> image[c]]
        /\ queue' = Append(queue, u)
    BY <1>1, <2>1, <2>2, DamageReady DEF EnqueueDamage, EnqueueCurrent
  <2>4. AppendFacts(u)
    BY <2>3, AppendedQueue DEF PortInvariant, MailboxInvariant, TypeInvariant
  <2>5. /\ job \in Jobs /\ Region \in SUBSET Cells /\ u.payload \in [Region -> Seen]
    BY <1>1, <2>3, JobFacts
  <2>6. /\ u.payload \in Pictures(Seen) /\ DOMAIN u.payload = Region
        /\ \A c \in Region : u.payload[c] = image[c]
    BY <2>3, <2>5 DEF Pictures
  <2>7. /\ job'.regions = job.regions /\ job'.bands = job.bands /\ job'.boundaryDue = TRUE
    BY <2>1, <2>5, BoundaryMadeDue
  <2>8. /\ Newest' = u /\ Seen' = Seen /\ Region' = Region /\ (Recovering' <=> Recovering)
        /\ Done' = Done
    BY <1>1, <2>4, <2>7 DEF AppendFacts, Seen, Region, Recovering, Done
  <2>9. DamageCarries(Seen)'
    BY <1>1, <2>4, <2>6, <2>8 DEF PictureInvariant, DamageCarries, AppendFacts
  <2>10. BoundaryNext'
    BY <1>1, <2>3, <2>7, <2>8 DEF BoundaryNext
  <2>11. (pixels \in [Cells -> Seen \cup {0}])'
    BY <1>1, <2>8 DEF PictureInvariant
  <2>12. ASSUME Running'
         PROVE  /\ BatchWhole(Seen)' /\ FullIsWhole' /\ RecoveryIsOver' /\ CoverageStarts'
                /\ ImageArrives' /\ StartupPaintsEverything'
    <3>1. /\ BatchWhole(Seen) /\ FullIsWhole /\ RecoveryIsOver /\ CoverageStarts
          /\ ImageArrives /\ StartupPaintsEverything
      BY <1>1, <2>12 DEF PictureInvariant, Running
    <3>2. FullIsWhole'
      BY <1>1, <2>3, <2>4, <3>1, WholeAppended
    <3>3. StartupOver(Len(queue)) => StartupOver(Len(queue))'
      BY <1>1, <2>3, <2>4, StartupAppended
    <3>4. RecoveryIsOver'
      BY <2>8, <3>1, <3>3 DEF RecoveryIsOver
    <3>5. CoverageStarts'
      <4>1. SUFFICES ASSUME ~ established, ~ Recovering
                     PROVE  (job'.boundaryDue /\ coverage' = Region') \/ StartupOver(Len(queue))'
        BY <1>1, <2>8 DEF CoverageStarts
      <4>2. coverage = {} \/ StartupOver(Len(queue))
        BY <1>1, <3>1, <4>1 DEF CoverageStarts
      <4>3. coverage' = coverage \cup Region
        BY <2>1, <4>1
      <4> QED
        BY <2>7, <2>8, <3>3, <4>2, <4>3
    <3>6. ImageArrives'
      <4>1. SUFFICES ASSUME runtimeGeneration # 0, ~ quarantined, NEW c \in Cells,
                            c \in coverage' \/ Recovering
                     PROVE  c \in Remaining' \/ Arrives(c, image[c])'
        BY <1>1, <2>8 DEF ImageArrives
      <4>2. CASE c \in Region
        <5>1. Covers(u, c) /\ u.payload[c] = image[c]
          BY <2>3, <2>6, <4>2 DEF Covers
        <5> QED
          BY <1>1, <2>3, <2>4, <5>1, ArrivalAppended
      <4>3. CASE c \notin Region
        <5>1. c \in coverage \/ Recovering
          BY <2>1, <4>1, <4>3
        <5>2. c \in Remaining \/ Arrives(c, image[c])
          BY <1>1, <3>1, <4>1, <5>1 DEF ImageArrives
        <5>3. ~ Covers(u, c)
          BY <2>6, <4>3 DEF Covers
        <5>4. Arrives(c, image[c]) => Arrives(c, image[c])'
          BY <1>1, <2>3, <2>4, <5>3, ArrivalAppended
        <5>5. c \in Remaining => c \in Remaining'
          BY <1>1, <2>1, <4>3, RemainsAfterDamage
        <5> QED
          BY <5>2, <5>4, <5>5
      <4> QED
        BY <4>2, <4>3
    <3> QED
      BY <1>1, <2>8, <3>1, <3>2, <3>4, <3>5, <3>6 DEF BatchWhole, StartupPaintsEverything, Running
  <2> QED
    BY <2>9, <2>10, <2>11, <2>12 DEF PictureInvariant
<1> QED
  BY <1>2, <1>3

\* A full boundary stands behind a picture of the whole surface, or behind the
\* boundary that ended the startup.
LEMMA FullIsDue ==
    ASSUME PortInvariant, PictureInvariant, Running, job.boundaryDue, call = "none",
           CompletesBaseline
    PROVE  Whole(Newest) \/ StartupOver(Len(queue))
<1>1. RecoveryIsOver /\ CoverageStarts
  BY DEF PictureInvariant
<1>2. Newest.kind = "Damage" /\ Newest.payload = [c \in Region |-> image[c]]
  BY DEF PictureInvariant, BoundaryNext
<1>3. Region = Cells => Whole(Newest)
  BY <1>2 DEF Whole
<1>4. CASE ~ Recovering
  <2>1. ~ established /\ coverage = Cells
    BY <1>4 DEF CompletesBaseline
  <2>2. coverage # {}
    BY <2>1, PipelineAssumption
  <2> QED
    BY <1>1, <1>3, <1>4, <2>1, <2>2 DEF CoverageStarts
<1>5. CASE Recovering /\ Done # 0
  BY <1>1, <1>5 DEF RecoveryIsOver
<1>6. CASE Recovering /\ Done = 0
  <2>1. Len(job.bands) = 1
    BY <1>6 DEF CompletesBaseline
  <2>2. /\ Room(job.bands, TRUE, Len(queue), queuedPixelBytes) /\ Region = Head(job.bands)
        /\ job.bands \in Seq(SUBSET Cells)
    BY <1>6, RecoveryFacts
  <2>3. Len(Bands) \in Nat /\ Region = Bands[Done + 1]
    BY <2>2, RoomFacts DEF Done
  <2>4. Len(Bands) - 1 = 0
    BY <1>6, <2>1 DEF Done, DoneBefore
  <2>5. Len(Bands) = 1 /\ Region = Bands[1]
    BY <1>6, <2>3, <2>4
  <2>6. UNION {Bands[i] : i \in 1..1} = Cells
    BY <2>5, PipelineAssumption
  <2>7. 1..1 = {1}
    OBVIOUS
  <2>8. Bands[1] = Cells
    BY <2>6, <2>7
  <2> QED
    BY <1>3, <2>5, <2>8
<1> QED
  BY <1>4, <1>5, <1>6

LEMMA BoundaryPicture ==
    ASSUME PortInvariant, PictureInvariant, PublishBoundaryOfJob
    PROVE  PictureInvariant'
<1>1. /\ job # NoJob /\ job.boundaryDue /\ call = "none"
      /\ UNCHANGED <<lastPopped, transactions, pixels, compiler, failure, texture>>
      /\ UNCHANGED <<runtimeGeneration, image, draws, quarantined, staleDraws>>
  BY BoundaryOutcomes DEF uiSide, uiVars, callbackVars
<1>2. CASE call' = "none"
  <2>1. ClearCurrentDamageAndBoundaries /\ job' = Job(job.regions, Bands)
    BY <1>2, BoundaryOutcomes
  <2> QED
    BY <1>1, <2>1, RecoveryPicture
<1>3. CASE call' # "none"
  <2>1. /\ call' = "surfaceWake" /\ EnqueueBoundary(BoundaryOfJob)
        /\ job' = JobAfterBoundary
        /\ coverage' = (IF Recovering /\ CompletesBaseline THEN Cells ELSE coverage)
    BY <1>3, BoundaryOutcomes, Zenon
  <2>2. PICK u \in Update : u = BoundaryOfJob
    BY <1>1, BoundaryReady
  <2>3. /\ u.kind = "Boundary" /\ queue' = Append(queue, u)
        /\ u.payload = IF CompletesBaseline THEN FullBaseline ELSE NoPayload
    BY <1>1, <2>1, <2>2, BoundaryReady DEF EnqueueBoundary, EnqueueCurrent
  <2>4. AppendFacts(u)
    BY <2>3, AppendedQueue DEF PortInvariant, MailboxInvariant, TypeInvariant
  <2>5. /\ job'.boundaryDue = FALSE
        /\ job'.bands # <<>> => Recovering
    BY <1>1, <2>1, JobContinues
  <2>6. Newest' = u /\ Seen' = Seen /\ (Recovering' => Recovering)
    BY <1>1, <2>4, <2>5 DEF AppendFacts, Seen, Recovering
  <2>7. DamageCarries(Seen)'
    BY <1>1, <2>3, <2>4, <2>6 DEF PictureInvariant, DamageCarries, AppendFacts
  <2>8. BoundaryNext'
    BY <2>3, <2>5, <2>6 DEF BoundaryNext
  <2>9. (pixels \in [Cells -> Seen \cup {0}])'
    BY <1>1, <2>6 DEF PictureInvariant
  <2>10. ASSUME Running'
         PROVE  /\ BatchWhole(Seen)' /\ FullIsWhole' /\ RecoveryIsOver' /\ CoverageStarts'
                /\ ImageArrives' /\ StartupPaintsEverything'
    <3>1. /\ Running /\ BatchWhole(Seen) /\ FullIsWhole /\ ImageArrives
          /\ StartupPaintsEverything
      BY <1>1, <2>10 DEF PictureInvariant, Running
    <3>2. Full(u) => Whole(Newest) \/ StartupOver(Len(queue))
      <4>1. Full(u) => CompletesBaseline
        BY <2>3, PipelineAssumption DEF Full
      <4> QED
        BY <1>1, <3>1, <4>1, FullIsDue
    <3>3. FullIsWhole'
      BY <1>1, <2>3, <2>4, <3>1, <3>2, WholeAppended
    <3>4. StartupOver(Len(queue))'
      BY <1>1, <2>3, <2>4, StartupAppended
    <3>5. RecoveryIsOver' /\ CoverageStarts'
      BY <3>4 DEF RecoveryIsOver, CoverageStarts
    <3>6. ImageArrives'
      <4>1. SUFFICES ASSUME runtimeGeneration # 0, ~ quarantined, NEW c \in Cells,
                            c \in coverage' \/ Recovering'
                     PROVE  c \in Remaining' \/ Arrives(c, image[c])'
        BY <1>1 DEF ImageArrives
      <4>2. c \in coverage \/ Recovering
        BY <2>1, <2>6, <4>1
      <4>3. c \in Remaining \/ Arrives(c, image[c])
        BY <1>1, <3>1, <4>1, <4>2 DEF ImageArrives
      <4>4. ~ Covers(u, c)
        BY <2>3 DEF Covers
      <4>5. Arrives(c, image[c]) => Arrives(c, image[c])'
        BY <1>1, <2>3, <2>4, <4>4, ArrivalAppended
      <4>6. c \in Remaining => c \in Remaining'
        BY <1>1, <2>1, RemainsAfterBoundary
      <4> QED
        BY <4>3, <4>5, <4>6
    <3> QED
      BY <1>1, <2>6, <3>1, <3>3, <3>5, <3>6 DEF BatchWhole, StartupPaintsEverything, Running
  <2> QED
    BY <2>7, <2>8, <2>9, <2>10 DEF PictureInvariant
<1> QED
  BY <1>2, <1>3

LEMMA PictureStep ==
    ASSUME PortInvariant, DeliveryInvariant, PictureInvariant, [RdpNext]_allVars
    PROVE  PictureInvariant'
<1>1. CASE RdpBeginGeneration
  <2>1. /\ call = "none"
        /\ UNCHANGED <<queue, lastPopped, transactions, pixels, compiler, failure, texture>>
        /\ UNCHANGED <<image, draws, staleDraws, coverage, established, quarantined, job,
                       runtimeGeneration>>
    BY <1>1
    DEF RdpBeginGeneration, BeginGenerationEvent, mailbox, uiSide, uiVars, callbackVars,
        rdpVars, baselineVars
  <2> QED
    BY <2>1, PictureKept
<1>2. CASE RdpWake
  <2>1. /\ call = "surfaceWake"
        /\ UNCHANGED <<queue, lastPopped, transactions, pixels, compiler, failure, texture>>
        /\ UNCHANGED <<image, draws, staleDraws, coverage, established, quarantined, job,
                       runtimeGeneration>>
    BY <1>2
    DEF RdpWake, WakeAfterSurface, mailbox, uiSide, uiVars, callbackVars, rdpVars, baselineVars
  <2> QED
    BY <2>1, PictureKept
<1>3. CASE UNCHANGED allVars
  <2>1. /\ UNCHANGED <<queue, lastPopped, transactions, pixels, compiler, failure, texture>>
        /\ UNCHANGED <<image, draws, staleDraws, coverage, established, quarantined, job,
                       runtimeGeneration, call>>
    BY <1>3
    DEF allVars, pipelineVars, vars, uiVars, runtimeVars, callbackVars, rdpVars, baselineVars
  <2> QED
    BY <2>1, PictureKept
<1> QED
  BY <1>1, <1>2, <1>3, ResetPicture, BegunPicture, QuarantinedPicture, DecodedPicture,
     DamagePicture, BoundaryPicture, UiKeepsPicture
  DEF RdpNext, LoopStep

-----------------------------------------------------------------------------
(***************************************************************************)
(* Every state of the RDP pipeline satisfies the invariants of the path    *)
(* and of the pictures.                                                    *)
(***************************************************************************)
THEOREM RdpPictureInvariance == RdpSpec => [](DeliveryInvariant /\ PictureInvariant)
<1>1. RdpInit => PortInvariant /\ DeliveryInvariant /\ PictureInvariant
  BY PortStarts, DeliveryStarts, PictureStarts DEF RdpInit, PipelineInit
<1>2. PortInvariant /\ DeliveryInvariant /\ PictureInvariant /\ [RdpNext]_allVars
        => PortInvariant' /\ DeliveryInvariant' /\ PictureInvariant'
  BY PortStep, RdpKeepsDelivery, PictureStep
<1> QED
  BY <1>1, <1>2, PTL DEF RdpSpec

(***************************************************************************)
(* When nothing is under way the texture shows every cell of an            *)
(* established baseline as the image has it, whatever overflowed and was   *)
(* recovered in the midst of a PDU, and no cell ever shows a picture of a  *)
(* quarantined image (baseline.rs, publish_with_recovery_patch_limit;      *)
(* active_session.rs, finalize_reactivated_surface).                       *)
(***************************************************************************)
THEOREM CoverageIsShown == RdpSpec => []ShowsImage
<1>1. RdpInvariant /\ DeliveryInvariant /\ PictureInvariant => ShowsImage
  <2>1. SUFFICES ASSUME RdpInvariant, DeliveryInvariant, PictureInvariant
                 PROVE  ShowsImage
    OBVIOUS
  <2>2. ASSUME NEW c \in Cells PROVE pixels[c] \notin staleDraws
    <3>1. pixels[c] \in Seen \/ pixels[c] = 0
      BY <2>1 DEF PictureInvariant
    <3>2. staleDraws \subseteq 1..draws
      BY <2>1 DEF RdpInvariant, PortInvariant, RdpTypes
    <3> QED
      BY <3>1, <3>2 DEF Seen
  <2>3. ASSUME Quiet, NEW c \in coverage PROVE pixels[c] = image[c]
    <3>1. /\ Running /\ call = "none" /\ job = NoJob /\ runtimeGeneration # 0
          /\ ~ quarantined /\ queue = <<>> /\ phase = "idle"
      BY <2>3 DEF Quiet, LoopReads
    <3>2. c \in Cells
      BY <2>1 DEF RdpInvariant, PortInvariant, RdpTypes
    <3>3. transactions = <<>>
      BY <2>1, <3>1 DEF DeliveryInvariant, LayersAgree
    <3>4. ~ job.boundaryDue /\ ~ Recovering /\ Remaining = {}
      BY <3>1, NothingRemains
    <3>5. lastPopped.kind # "Damage"
      BY <2>1, <3>1, <3>4 DEF PictureInvariant, BoundaryNext, Newest
    <3>6. Arrives(c, image[c])
      BY <2>1, <2>3, <3>1, <3>2, <3>4 DEF PictureInvariant, ImageArrives
    <3> QED
      BY <3>1, <3>3, <3>5, <3>6 DEF Arrives, QueuePaints, Covers, Shown, BatchPaints
  <2> QED
    BY <2>2, <2>3 DEF ShowsImage
<1> QED
  BY <1>1, RdpInvariance, RdpPictureInvariance, PTL

=============================================================================
