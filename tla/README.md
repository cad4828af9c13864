# FreeRemoteDesk in TLA+

FreeRemoteDesk shows a remote desktop (Apple Screen Sharing, or Windows over RDP) in
a native window. The program is a set of Rust crates; what is hard in it is not the
pixels but the threads around them: a protocol thread that publishes surface updates
into a bounded mailbox, a UI thread that drains, compiles, uploads and presents them,
a supervisor that keeps a decoder fed, background threads that launch a session and take
it down while the user may cancel, disconnect or close the window at any moment; and the
server at the other end, whose answers cross what the client asks next.

This directory holds TLA+ modules of those parts, the TLC configurations that check
them on small instances, and proofs, checked by TLAPS, of what mailbox, delivery path,
Apple pipeline, session lifecycle, video decoder, RDP channels, Apple reader, video
reception and remembered logins promise for every limit, user and server. Paths below are
relative to the repository's `crates/`.

## 1. Inventory

### Threads and what they share

| Thread | Code | Shares |
|---|---|---|
| UI (winit event loop) | `frd-shell-desktop/src/application.rs` | owns controller, session host, exit state, renderer; reads events, mailbox |
| protocol | `frd-protocol-apple` reader, `frd-protocol-rdp` active loop | writes mailbox, session events, media; reads commands |
| audio, video decoder | `application.rs`, `video_decode_worker.rs` | bounded media channels, wake |
| launch | `application.rs`, `run_background_launch` | `launch_cancelled`, posts `LaunchFinished` |
| cleanup | `cleanup.rs`, `frd-session/src/coordinator.rs` | commands, worker handles, posts `CleanupFinished` |

The channels between them: the frame mailbox (a mutex around `FrameMailbox`), the
session-event and command channels, the wake gate (an atomic flag and one posted
`Wake`), the user events posted to the event loop, the start barrier of the protocol
worker and the start channel of the audio worker.

### Components

| Component | State | Operations | What makes it hard | What makes it correct | Modelled in |
|---|---|---|---|---|---|
| Frame mailbox, `frd-frame/src/mailbox.rs` | queue, byte ledger, surface lifecycle | `push` (Reset, Damage, FrameBoundary), `pop` | two limits; overflow drops part of the queue but keeps the Reset | limits and ledger exact; what is popped is in order | FrameMailbox |
| Transaction compiler, `frd-frame/src/transaction.rs` | pending startup, pending damage, active revision | `compile` | keeps its own idea of generation and revision | agrees with the mailbox but for two known refusals (section 5) | FrameDelivery |
| Remote texture, `frd-render-wgpu/src/remote_texture.rs` | generation, revisions, receipt, baseline flags | `apply_update_batch`, `confirm_presented` | receipts are confirmed after further batches | shows and reports only what was applied | FrameDelivery, FramePipeline |
| Protocol runtime, `frd-protocol-api/src/lib.rs` | current generation, terminal flag | `admit/begin_generation`, `publish_surface`, `publish_event`, media, commands | any error but an overflow poisons the session | overflow is survivable, order event-Reset-wake | FramePipeline; commands in RdpChannels, media in VideoDecode and VideoReceive |
| Wake gate and drain, `application.rs` | gate, `RuntimeDrainOutcome` | `wake`, `consume`, `drain_runtime`, `render` | publish may fall between consume, event drain and frame drain | nothing published is forgotten | FramePipeline |
| Apple publisher and MVS records, `frd-protocol-apple` | next revision, completeness, recovery state | publish patch, recover, begin generation | boundary may overflow after its damage was accepted | the last picture is at last on the screen | ApplePipeline |
| RDP baseline and loop, `frd-protocol-rdp` | coverage, established, quarantine | publish region, recover, reactivate | several regions per PDU, recovery in the middle | coverage never claims lost cells; no stale image | RdpPipeline |
| Session host, cleanup, coordinator | launch, handle, coordinator, workers, attempts | `begin_launch`, `accept_launch_outcome`, `begin_cleanup`, `complete_cleanup` | cancel races publication, retries, exit deadline | slot follows host, one session at a time, clean exit | SessionLifecycle |
| Controller, `frd-app/src/controller.rs` | page, session slot, pending profile, gate | intents, session events, presentation | two state machines kept apart from the host's | no event finds an invalid state | SessionLifecycle, FramePipeline; profiles in SavedProfiles |
| RDP display control, `frd-protocol-rdp/src/display.rs` | negotiated, queued, in flight, confirmed size | `set_negotiated`, `observe_viewport`, `take_request`, `confirm_reactivation` | a capability that goes while its request is out; a quarantined desktop | a quarantine ends; no input for another desktop | RdpDisplay, RdpChannels |
| RDP clipboard, `clipboard.rs` | local offer and epoch, remote offer, pending request, actions | offers, requests, responses, `execute_next` | offers cross on the wire; an answer may belong to an offer that is gone | the newest text is offered and nothing is stuck | RdpClipboard, RdpChannels |
| RDP audio, `audio.rs` | offer, current format, ready frames | `start`, `push`, `stop`, drain | offer, failure and reactivation between two drains | sound only between its announcement and its end | RdpAudio, RdpChannels |
| RDP active loop, `active_session.rs`, `runtime.rs` | retry state, recorded capability | commands, channels, read, reactivation | the order of a pass; what waits while a desktop is replaced | as above | RdpChannels |
| Video decoder worker, `video_decode_worker.rs` | stream epochs, routes, input queues, publications | configuration and access units, worker and supervisor loop, `confirm_presented` | a configuration overtakes units in the decoder; late failures, panics, reaps | frames of their epoch, no broken reference, every configuration answered | VideoDecode (rate fallback: planned) |
| Apple reader and dynamic resolution, `network_reader.rs`, `dynamic_resolution.rs` | request in flight, follow-up, resize pending, three generations | MVS record, `ServerState`, viewport, tick | time-outs race late answers; the server resizes by itself | the three generations agree; the next picture is asked for | AppleReader |
| Apple video reception, `srtp.rs`, `hevc_rtp.rs`, `hevc_access_unit.rs`, `media_runtime.rs`, `high_performance_video.rs` | replay window and rollover, reorder buffer, recovery state, active and retired SSRC | open, push, `accept_rtp`, `publish_access_unit`, picture-loss report | packets lost, repeated, late; numbers that wrap; a stream replaced; a full media channel | whole pictures, references kept, nothing left out in silence | HevcAssembly, VideoReceive |
| Remembered logins, `frd-app/src/controller.rs`, `frd-platform-windows/src/secure_credentials.rs`, `connection_profiles.rs` | vault, staged secrets, profile file, pending transaction | `start_connection`, `finish_pending_profile`, `compensate_credential_commit`, `discard_pending_profile`, purge at start | two stores, every call may fail, a crash between any two | only accepted passwords are saved; what is staged ends; honest warnings | SavedProfiles |
| Audio of Apple sessions, single instance | | | | | not modelled |
| Window and compositor, `lifecycle.rs`, `frd-compositor-wgpu` | occluded, paused, scale factor pending | occlusion, resize, scale change, render | a redraw may present nothing | whatever shows the window again asks for a redraw | FramePipeline (recovery after errors: not) |
| GPU, codecs, wire formats, views, handshakes | | | sequential, pure, or device work | | not modelled |

PROJECT.json lists every component with its sources and status, and the hazards of the
code at their lines with the properties that watch them.

## 2. The modules

```
FrameMailbox ── FrameDelivery ── FramePipeline ──┬─ ApplePipeline ── MCApplePipeline
                     │  (implements FrameStream) └─ RdpPipeline ──── MCRdpPipeline

FramePipelineProofs (of FrameMailbox, FrameDelivery, FramePipeline) ──┬─ ApplePipelineProofs
                                                                      └─ RdpPipelineProofs

RdpClipboard ─┐
RdpDisplay ───┼─ RdpChannels ── RdpChannelsProofs
RdpAudio ─────┘
AppleReader ────────────────┬─ AppleProtocolProofs
HevcAssembly ── VideoReceive ┘
SavedProfiles ── SavedProfilesProofs
VideoDecode ── VideoDecodeProofs
SessionLifecycle ── SessionLifecycleProofs
```

- **FrameMailbox** is `FrameMailbox::push` and `pop`, action for action, with any
  publisher: `PublishReset`, `PublishDamage`, `PublishBoundary`, `Pop`. A pixel buffer
  is its byte count and an opaque payload. `lastPopped` is a history variable.
- **FrameStream** is the abstract specification: what the viewer of a session is
  promised. The texture moves forward only, a picture is presented at most once, and
  the first one presented of a generation is a complete baseline.
- **FrameDelivery** adds the UI side: lock, compile one update per pop
  (`CompileHead`), unlock, apply the compiled transactions one by one
  (`ApplyHead`, the plan and commit of `RemoteUpdateState`), present and confirm
  (`PresentTexture`). Every error of compiler and planner is a value of `failure`, those
  about what is published too: a Damage without patches (`NoPatches`), which mailbox,
  runtime and compiler let through, and a surface the renderer cannot hold, which a Reset
  of a generation in `ForeignFormat`, `OverBudget` or `TooLarge` asks for. An error ends
  the session. The code plans a batch as a whole and installs it or nothing, while
  `ApplyHead` goes transaction by transaction: the steps of one batch show nothing in
  between, and after a failure nothing is read of the texture any more.
- **FramePipeline** adds threads. A call of `ProtocolRuntime` is several steps (event,
  Reset, wake; or update, wake), a callback of the UI is several steps (events, lock,
  pops, apply, redraw or render), and the wake gate, the first-frame gate and the
  cells of the surface are explicit. The pixel of a cell is the number of the draw that
  painted it last. `window` is what keeps the window from showing anything: occluded
  (`lifecycle.rs`), minimized or paused (the compositor's size), between two scale factors
  (`DpiTransition`); `Occlude`, `Reveal`, `Minimize`, `Resize`, `ScaleChanges` and
  `ScaleSettles` are the events that change it and the redraws these ask for. A redraw is
  `RenderPresents`, or `RenderSkips`: because there is nothing new or the window does not
  show, and at any other time because the surface has no frame to give (Timeout, Occluded,
  Outdated, Lost). The code takes that for success and asks for no other redraw
  (`application.rs:3924`); the history variable `skipped` remembers it.
- **ApplePipeline** and **RdpPipeline** are the two publishers on top of it: what is
  published for a decoded frame or PDU, what follows an overflow, and how a new
  generation begins.
- **SessionLifecycle** is the life of a session. A callback of the UI thread is one
  step; the launch thread, the cleanup thread and three workers interleave with it.
  `Connect`, `Cancel`, `Close`, `ReturnToConnection` are the user; `Accept...` handle the
  posted outcomes; `Drain` is `drain_runtime` as far as it ends sessions; `Launch...`,
  `Cleanup...`, `Protocol...`, `Audio...`, `VideoExits` are the other threads. Every
  thread spawn, factory call and worker may fail.

- **RdpClipboard** has the clipboard of the client (`clip`, `actions`) and its peer at the
  other end of two ordered channels (`wire`, `peer`); **RdpDisplay** and **RdpAudio** are
  the display-control and audio adapters as operators on a record, for they run only when
  the loop calls them. **RdpChannels** is that loop: one pass is `Refresh`, the commands,
  the clipboard's actions, `SendAndDrain`, the capabilities again and one read; a
  reactivation replaces the desktop in `Finalize`, which takes the verdict of
  `confirm_reactivation`. The user (`SeeGeneration`, `ResizeWindow`, `PressKey`,
  `CopyText`) acts between any two steps.
- **AppleReader** is the control of the Apple reader: each action is one frame of the
  connection, one tick or one command, and the whole handler with the tick it ends in.
  `owed` counts what the server still has to answer, at most two.
- **VideoDecode** is the protocol thread's end of the video, the router, the supervisor,
  the worker with its decoder, and the window. A configuration accepted is an epoch; an
  access unit and its frame share an index, so that a frame can be compared with what it
  was decoded from. Threads may fail to start, the decoder to open, accept or flush, and
  the worker may panic at any call.
- **HevcAssembly** is the assembler of access units and its depacketizer as operators on a
  record; **VideoReceive** has the server (`SendPicture`, `StartStream`), the network
  (`Deliver` takes any packet that is less than half the sequence space old, again if it
  likes, or never) and the receiver: one delivered packet goes through SRTP, assembly,
  `accept_rtp` and the publication, as in one call of `try_recv_decrypted`. `room` is what
  the media channel still takes. `Report` is the picture-loss report of the next tick.
- **SavedProfiles** is the pending profile of the controller against the vault and the
  profile file. A call of a store is one step and may be refused; `save.step` is the next
  call of `finish_pending_profile`, its undo (`UndoDelete`, `UndoStage` and the two commits
  again) or a deletion. `Crash` may come between any two calls; `Start` purges what is
  staged. The deletion's key is the login's: the form forgets the selected profile when its
  identity is edited (`frd-ui-model/src/lib.rs:128`).

Left out on purpose:

- in RdpChannels, graphics (RdpPipeline has them) and the contents of texts and sounds;
- in AppleReader, pixels (ApplePipeline) and the media startup gate, under which the code
  ignores a later `ServerState`;
- in VideoDecode, the waking of threads (every wait of the code has a condition that the
  model's guards state);
- in HevcAssembly, byte limits and malformed packets (a packet came from the server, which
  SRTP authenticates), and parameter sets that change within a generation, which end it;
- in SavedProfiles, the validation of the form, the contents of the profile list and the
  identity of servers;
- in the pipelines, other session events and the wakes they cause (fewer wakes make
  "nothing is forgotten" harder), and what the renderer refuses: both adapters ask for the
  one format it takes, both bound a surface by the mailbox's 64 MiB, well within the
  renderer's 256 MiB, and bands have cells; that the device's textures are large enough for the surface is an assumption
  (`PipelineAssumption`: `ForeignFormat`, `OverBudget` and `TooLarge` are empty);
- in the pipelines, errors of the surface and of the device, which go through their own
  recovery, and the presentation of video;
- in VideoReceive, the eviction of the least recently used of too many SRTP streams
  (`srtp.rs:786`): two streams do not reach it;
- in SessionLifecycle, the frames (a failing drain is `PresentationFails`) and the
  difference between the waiting and the open remote page.

A system may ask for a redraw at any time in the pipelines and in SessionLifecycle.

## 3. The runs

| Run | States | What it shows |
|---|---|---|
| frame_delivery | 195,396 | any publisher, also of damage without patches and of surfaces in a foreign format, over the budget or too large: the mailbox keeps its limits and the order of what is popped; but for what was published, only two errors of compiler and planner can end a session; mailbox, compiler and texture agree; receipts are honest; the path implements FrameStream |
| apple_pipeline | 367,110 | with a window that is covered and shown again: a texture is never partly installed, nothing published is forgotten, a picture that waits has a redraw to come or is waited for by what shows the window again, no update is refused, a recovery always fits, a quiet system shows the surface, and the last drawing is at last on the screen, unless the surface had no frame for its redraw |
| rdp_pipeline | 154,657 | the same for the RDP loop with its coverage, plus the quarantine of a reactivated image, with a window that is minimized, resized and moved between scale factors |
| session_lifecycle | 149,042 | slot and host agree between callbacks, no InvalidState report or missing coordinator, a cancelled launch never runs its protocol, one session's workers at a time, clean exit; closing ends the application, an ended session frees its slot, a launch thread comes to an end |
| video_decode | 333,511 | a frame is published under the epoch of its unit, no unit is decoded without the one it refers to, no page opens for a replaced stream, a failure is the last of its epoch; every configuration is answered and closing ends the worker |
| rdp_channels | 854,345 | the clipboard answers at most what was asked, the newest text is on offer and nothing is stuck; input only for its desktop; sound only while announced; a quarantine ends |
| apple_reader | 28,579 | surface, controller and admission agree on the generation; the next picture is always asked for, but after a resize the server did not answer |
| video_receive | 250,364 | a picture given to the decoder is one that was sent, whole; it follows the one it refers to; pictures go forwards while the channel has room; what is left out is asked for; a rollover is guessed right |
| saved_profiles | 565,808 | only accepted passwords are saved, staged ones end with the wait for their session, no credential is left without a profile but where a save was cut short, and the warning shown is what became of the login: after a save whose undo was refused too, what may be left is bounded call by call |
| apple_overflow, apple_recovery_start, apple_first_frame | | violations: section 5 |

Bounds. In frame_delivery a mailbox of 3 entries and 3 bytes takes damage of 1 or 2: each
limit is met without the other. Two generations can be shown and may follow each other with
two revisions each; three more have a surface that is refused, each for its own reason, so
that every one of the six errors `OnlyOrderOrContentFails` allows is reached. The mailbox
of the pipelines holds 5 entries and 3 pixel bytes (code: 256 and 64 MiB) on a surface of 2
cells that are also the 2 bands of a recovery (code: bands of up to 1 MiB). These are the
smallest limits that admit a generation and still overflow on its damage, on its boundary,
before and after a Reset was popped, and inside a recovery's neighbourhood. In
apple_pipeline `MaxDraws = 4` allows a picture, an overflow, a recovery and a drawing after
it; in rdp_pipeline 3 are enough, because a PDU of two regions publishes twice: an overflow
in its first region is followed by the recovery and by its second. `MaxGeneration = 2`
allows a change of generation while the first is in flight. `WindowEvents` is a bound too:
each of the two runs has its own share, because all at once they make too many states for
liveness; the UI's half is the same for both adapters, and
`NothingForgotten` is proved for any set of events. `MaxSessions = 2` lets a session follow
one that is still being taken down; `MaxAttempts = 2` stands for the 500 attempts of
`CleanupPolicy`: a retry that finds steps done, and exhaustion.

`video_decode` has two configurations and two units, a queue of one and a decoder that
holds one back: a configuration can overtake a queued, a decoding and a held unit, and a
unit can be refused; the second epoch may keep the generation or raise it. `rdp_channels`
has three sizes and two limits of the area, so that a capability can be lowered below a
request in flight and raised again, two things the user does and three the server does
unasked (an offer that crosses another, and one more thing in between); answers are not
bounded. `video_receive` has a sequence space of 16, of which a stream begins at 13, so
that numbers wrap within the first pictures (code: 2^16), a reorder window of 3, a replay
window of 7, two streams and seven packets: a picture of two packets, another with a hole,
and what follows them, or a stream that replaces it. The replay window is wider than the
reorder window (in the code both are 256, but the assembler begins anew where SRTP does not
forget), so that a picture that comes late can overtake: with a replay window of 3 pictures
seem to go forwards always, which they do not (section 5). `saved_profiles` has two connections, two
passwords and three sessions: a login saved, replaced by another password and deleted,
with a crash or a refusal anywhere. `apple_reader` has three sizes, three changes of the
viewport and five generations: a resize, one of the server's own that overtakes it, a
time-out and a late answer follow each other. TypeInvariant is proved in every module with
proofs and not run; what else is proved does not depend on bounds (section 4).

Deadlock is checked for frame_delivery, video_decode and saved_profiles. It is not for the
pipelines, where a failed session stops, for session_lifecycle, where the event loop ends,
for rdp_channels, where a mismatched reactivation ends the session, for apple_reader,
where a repeated table record does, and for video_receive, where an error of the stream
does.

Fairness. `UiFairness`: a callback that began goes on (weak); a posted Wake and a
requested redraw are delivered at last however often the system asks for redraws of its
own (strong: winit delivers posted events and redraws, in no fixed order); a pending change
of the scale factor is settled (strong: `about_to_wait` runs before the event loop waits,
`application.rs:5098`). That the surface ever has a frame is not assumed, nor that the
system leaves the window alone: `EventuallyOnScreen` promises something only of behaviours
in which it does at last (`WindowSettles`), and nothing of a presentation that was skipped.
The protocol thread goes on inside a publication; it is strong because it may find the
mailbox locked again and again, and the UI holds the lock only while it empties the
mailbox. Nothing is assumed of the server. In SessionLifecycle the event loop handles what
is posted and its shutdown timer, the application's own threads run, and a protocol told to
disconnect ends; nothing is assumed of the user, of a protocol that was not told to, or of
`ProtocolFactory::create`, which may hang: that is what the exit deadline is for. A worker
that never stops is covered by the exhausted attempts: their report is fatal and ends the
loop.

In VideoDecode, supervisor and worker are threads of their own and a call into a decoder
returns; nothing makes the source send or the session close. In RdpChannels the loop runs,
the server goes on drawing (strong: other messages may come first) and answers the requests
it reads (strong). Without the first, a quarantined desktop that waits in its read serves no
channel and sends no resize (`active_session.rs:188`). In AppleReader the loop ticks and
every interval passes at last; the server owes nothing to fairness.

Every property has a mutant: a plausible bug in one mapped definition (marked MUTANT in
the modules) under which TLC finds the property violated.

## 4. The proofs

**FramePipelineProofs, the mailbox** (for every `EntryLimit`, `PixelByteLimit`, set of sessions,
generations, revisions and payloads, from `MailboxAssumption`: the limits are naturals
and at least one entry is allowed). The inductive invariant is

    MailboxInvariant == TypeInvariant /\ WithinBudget /\ LedgerExact /\ QueueCoherent

`DeliveredInOrder`, the property that matters, speaks of two pops and is not inductive.
`QueueCoherent` makes it so: whatever is queued continues what was popped before it,
and the lifecycle record (`lastDamage`, `eligible`) describes the newest of them, so
that the checks of the next push decide about the order at the other end. The ledger
needs `PixelBytesOf` to be a sum: its lemmas (`PixelBytesAppend`, `PixelBytesTail`) go
by uniqueness of the recursive function's body on 0..n, and `RetainedIsHeadReset` shows
that what an overflow keeps is the Reset at the head, or nothing. Theorems:
`MailboxInvariance`, `TypeHolds`, `BudgetHolds`, `LedgerHolds`, `CoherenceHolds`, and
`OrderHolds` for the action property. The run of the delivery path checks `WithinBudget` and
`DeliveredInOrder` for the publisher of one session; ledger, coherence and a mailbox that
changes sessions are covered by the proofs.

**FramePipelineProofs, the path** (`DeliveryAssumption`: one session, as in the code, where a
mailbox belongs to one). The invariant adds the types of the UI side, `OneSession`,
`OnlyOrderOrContentFails`, `LayersAgree` and `ReceiptsHonest`. `LayersAgree` carries the
weight: `CompilerAfter(lastPopped)` says which buffers the compiler has after the last
update it was given, and transactions run on from the texture to the compiler's active
surface. From the mailbox's order and `CompilerAfter` it follows which of the
compiler's errors are possible (`CompileErrorsKnown`), and of the planner's (`PlanOutcomes`,
`BatchOutcomes`), and the step lemmas re-establish it. Theorems: `DeliveryInvariance`,
`OnlyOrderOrContent`, `LayersHold`, `ReceiptsHold`,
and `DeliveryImplementsStream`: every behaviour is one of FrameStream, under the mapping
of `Stream` (texture generation and boundary revision to `shown`).

`OnlyOrderOrContent` is the strongest statement here about the code: of all the errors in
`transaction.rs` and the planner of `remote_texture.rs`, whatever a protocol publishes,
exactly two that blame the order of the stream can occur (`OrderErrors`); the runs of
section 5 show that those two do. The others (a stale update, a damage without a Reset, a
boundary without its damage, a duplicate, a revision that does not grow, a generation of 0)
are unreachable behind the mailbox. What is left is about contents (`ContentErrors`): a
damage without patches, and a surface of another format, over the budget or larger than
the device's textures. `PortAlwaysAccepts` and `RdpPortAccepts` are about the mailbox and
not about these; that the adapters cause none of them rests on `PipelineAssumption` and on
bands and damage that are never empty.

**FramePipelineProofs, what the adapters share.** `WakeInvariant` says what the UI cannot
overlook: while there are events or updates, either a Wake is posted (which is so exactly
when the gate is armed), or the call that published them is still to wake, or the callback
under way has not come to the place where it looks; a picture that was applied has a redraw
under way, or the window does not show, or the last redraw was skipped.
`NothingForgotten` is its case at rest; of the window it needs only that every event that
makes it show again asks for a redraw (`WindowRedraws`).
`Room` says why a recovery fits: an overflow leaves at most a Reset, every band adds one
damage and one boundary, and the bands are disjoint, so that the bytes queued are at most the
cells of the bands done (`BandsTo`) and the next band fits. `Arrives(c, p)` says that `p`
is the newest picture of cell `c` on its way: last among the damage queued, or held by the
compiler, or in the batch, or already in the texture, and nothing older comes after it.
`StartupOver(n)` says that by the place `n` in the queue no starting generation can drop
what follows, and `FullIsWhole` that the boundary that completes a startup follows damage
of the whole surface. Step lemmas for pushes, pops and the UI keep each of them,
whichever adapter publishes.

**ApplePipelineProofs** (`PipelineAssumption`, for every finite surface, every cut of it
into disjoint bands, and any number of draws and generations; the mailbox admits the whole
surface in bytes and, in entries, a Reset and two for each band, as
`supports_complete_surface` requires before a generation is admitted). The proof has two layers.

    AppleInvariant == PortInvariant /\ WakeInvariant
    PictureInvariant: where the newest picture of each cell is

`PortInvariant` relates the revisions and generations of publisher, runtime and mailbox. What
makes `PortAccepts` inductive is `RecoveryFits`, the `Room` of the recovery under way:
without it a second overflow within a recovery, which poisons the session, could not be
excluded. `PictureInvariant` says that each cell's newest picture is in what the job has
still to publish or arrives. That a starting generation drops nothing of it needs
`FullIsWhole` (a recovery in bands never meets a startup that would accept it) and
`RecoveryIsOver`. It is proved together with `DeliveryInvariant`, which the pipeline
inherits because every step of it is one of FrameDelivery, and it has been checked
by TLC on the bounds of apple_pipeline before. Theorems: `AppleInvariance`,
`NothingIsForgotten`, `PortAlwaysAccepts`, `PictureInvariance`, `TextureShowsImage`.

**RdpPipelineProofs** (`PipelineAssumption` and `RdpAssumption`: a PDU names any number of
regions, none of them empty). The same two layers, for a publisher that differs in three
ways. A damage uses up its revision even when it overflows, so that `RevisionsAgree`
lets the publisher run ahead of the mailbox, and has them equal while a boundary is due. A job
publishes the regions of a PDU one after the other and may stop for a recovery between
them or in the middle of one: `RecoveryFits` then holds beside the regions that are left. And
only what is covered is promised: `ImageArrives` speaks of covered cells, and of
every cell during a recovery, and `CoverageStarts` says that coverage begins with a region
of the whole surface, or behind the boundary that ends the startup, so that the compiler
will not drop it. Quarantine is part of the types of the picture layer: texture, batch,
compiler and queue hold only pictures of `Seen`, the draws into an image that was not
quarantined, and the commit of a reactivation paints the image anew before coverage can
grow. Theorems: `RdpInvariance`, `RdpNothingIsForgotten`, `RdpPortAccepts`,
`RdpPictureInvariance`, `CoverageIsShown`. TLC has checked both layers on the bounds of
rdp_pipeline before.

**SessionLifecycleProofs** (`LifecycleAssumption`, for any number of sessions and cleanup
attempts). The center of the invariant is `Stage`: the application is at rest, launching,
has a launch answered, runs, cleans up, or has a cleanup answered, and each of these fixes
controller, host, threads and posted outcomes together. Around it stand the types,
`BarrierHolds` (a worker works only behind its start barrier), `NotYetAsked` (sessions to
come are untouched), `OneWorks` (only the session of the stage has workers) and `Leaves` (how
the event loop may end). Theorems: `LifecycleInvariance`, `SlotAlwaysTracksHost`,
`CancelAlwaysWins`, `WorkersAlwaysGoneInTime`.

**VideoDecodeProofs** (`VideoAssumption`, for any number of configurations and units, any
queue limit and any number of frames a decoder holds back). Two arguments meet in
`VideoInvariant`. Where a unit may be: `DecoderHolds`, `PublishedHolds` and `ShownHolds` say
that decoder, publications and window have only units of the epoch they name, and
`OthersAreOver` that what is in a replaced queue, or with its worker, is of an epoch that
is over. What a unit may follow: by `ConfigHolds`, `UnitsHold` and `ReferenceHolds` the units
queued continue what the decoder was given last, or begin with random access, through every
refusal, replacement and reopening. `RouteIsOver`, `FailureHolds` and `StopHolds` add what
is still to come of a stream that failed. Theorems: `VideoInvariance`,
`FramesKeepTheirEpoch`, `NoReferenceIsBroken` and, for the action property,
`NothingFollowsTheEnd`. The proof found an error of the model: two arms of a CASE in
`After`, where a worker goes on after its frames are published, overlapped, so that their
value was left open; it is now one value for each place.

**RdpChannelsProofs** (for every set of sizes, limits and bounds, from `SizesAssumption`:
sizes are positive, limits naturals). The invariant is

    ChannelsInvariant == Types /\ NothingStuck /\ RequestInvariant
                         /\ SoundInvariant /\ InputInvariant

one part for each subsystem, and a step lemma for each part: `RequestInvariant` ties what
the client asked to what the wire and the peer hold, `SoundInvariant` adds to
`SoundAnnounced` what the adapter's own state says between two refreshes, and
`InputInvariant` that a desktop's surface and image differ only in a quarantine, and that
what was made for a generation was made for its surface. Theorems: `ClipboardProgress`,
`NewestTextHolds`, `SoundHolds`, `InputHolds`.

`AnswersFit`, that an answer belongs to the request it answers, has an invariant of its own,
`OffersInvariant`: the answers that wait match, in order, what the server asked (`Matched`,
by a function from requests to actions), and the text an answer names by its offer is the one
the server asked for, or is gone by then and answered with an error. The latter needs that at
most one list is on the wire, that it is the pending offer, and that answers name older
offers than that (`ListsFit`, `TextsFit`, `OlderOffers`). Theorem: `AnswersHold`.

**AppleProtocolProofs, the reader** (`ReaderAssumption`). An action composes up to six operators on the
reader's record, so that the proof goes by operator: `GoodReader` says that the record has
its type, that an unarmed controller is Unavailable, that the first generation has the
first size, and that the parts agree unless the controller was armed late; there is a lemma
for each operator that keeps it, and actions cite them. Theorem: `GeometryHolds`.

**AppleProtocolProofs, the reception** (`SequenceAssumption`, `ReceiveAssumption`: the sequence space is
even). The run has a space of 16; `GenuineAuthenticates` says that for every even space, the
code's 2^16 with it, a packet less than half the space away from the newest one accepted
gets its own rollover counter, whatever was lost, repeated or reordered before. The
invariant says only that numbers are naturals and that of those accepted there is a highest
one; the weight is in the arithmetic (`Neighbours`, `Guessed`): two such numbers lie in the
same round or in neighbouring ones, and the remainders tell which.

`PicturesAreWhole` says of the same module that what the decoder is given as a picture is
one picture of the server, from its first packet to its marker, for every size of the
windows and any number of packets, pictures and streams. A marker counts modulo the space,
so this cannot hold whatever is lost: if half of the space is lost in a row, the next packet
looks late, or like the continuation of what came a round before. The theorem is of
`Spec /\ [][NoLongLoss]_vars`: no packet is accepted that is `Half - Window` or more ahead of
all of its stream accepted before, where `Window` is the sum of the two windows; in the code,
fewer than 32,768 - 512 packets are lost in a row. The run needs no such hypothesis, as
it sends fewer packets. The invariant `PicturesInvariant` has three parts. `SentOrdered`: the
server's packets are in order, and a marker is what separates pictures. `WholeUnits`: what
was published is whole. And for the assembler `Holds`: there is a number n, of which the
record keeps only the remainder, such that what is assembled is the stretch of packets that
ends just before n and that begins behind a marker, unless it cannot be finished for want of
parameter sets (`Assembled`); what is buffered lies in the window from n on (`Buffered`); and the
numbers SRTP accepted reach to n and not beyond the windows (`InOrder`), or, while the
assembler drops, to its cursor (`Drops`). From the two the remainder determines the packet
(`SameMultiple`). The loops over what is buffered
and over the units of one packet are recursive functions, which the prover knows as a CHOOSE
only: `DrainExists` extends a partial solution one index at a time, so that there is one, and
`UpTo`, induction for a set of indices (from the well-foundedness of the naturals), then gives
that each turn keeps `Holds`.

`NoGapIsSilent` and `ReferencesAreKept` say, of the same runs, that what was once shown goes
on without a hole or is asked for, and that no picture is given without the one it refers
to, or backwards while the channel has room. They relate the assembler to the last picture
given, so `Holds` is made sharper: `Stands(a, s, m, seen)` says that the next picture begins
with number m, or, if the assembler is not configured, with m or later. `Trail` is what one
packet moves: from an assembler that stands at m, by units without a gap between them, to
one that stands at n; from m on exactly if it was configured, else from a random-access
picture on. It is carried through the loop of push (`TakeNextFits`, `DrainedFits`), the late
packet, the jump over the window and the resynchronisation at a marker (`PushKnown`), and
`Gives` through the adapter's loop: what it gives of these units when a picture is
awaited, or the channel is full half way. `ShownInvariant` then has two parts. A configured
assembler with nothing awaited stands right behind the last picture shown; otherwise a
picture is asked for, or the stream has replaced one that is retired. And as long as the
channel had room, the assembler stands beyond the last picture of its stream. The
exceptions of `ReferencesKept` are where the second part fails: a full channel begins the assembler
anew, and an older stream may replace a newer one. `NextUnit` and `LaterUnit` turn numbers
into pictures.

**SavedProfilesProofs** (`ProfileAssumption`, for every set of connections and passwords and
any number of sessions). The invariant `IInv` has one part for each question: `Pending`
(what is pending is the connecting session's, and a save is under way only for it, once the
server has accepted the login), `StagedSecrets` (what is staged is the login's password, or
in an undo the one there was before), `Stage` (for every step of a save, an undo and a
deletion, what vault and file hold then), `Past` (what there was before was accepted and
listed) and `Orphans`. There is a lemma for each action. Theorems: `StageHolds`,
`SavedIsProven`, `StagedSecretsEnd`, `NoneIsOrphaned` and, for the action property,
`WarningsAreHonest`. The last speaks of refused undos too: `save.refusals` remembers which
calls of an undo were refused, and `Stage` follows what they leave (`Deleted`, `LeftBySave`).
With no refusal the password is the one before; it is gone if the one before could be
deleted and not put back; and it is the new one only where that could not be deleted and
nothing was put in its place. The profile file is as before in every case.

Only model-checked: `OverflowRecovers` and `FirstFrameOpensGate`, which do not hold
(section 5), and liveness (`EventuallyOnScreen`, `CloseLeadsToExit`, `SessionEnds`,
`LaunchAnswers`, `ConfigAnswered`, `CloseStops`, `QuarantineEnds`, `RequestedAgain`): the
prover has no rules for fairness or ENABLED. Every other property of a passing run is
stated by a theorem.

## 5. Where code and documents disagree

Each is one run that checks one property, quoted in PROJECT.json.

1. **apple_overflow.** If the UI drains between a Damage and its boundary, and an
   overflow then drops that boundary, the compiler holds damage for ever and refuses the
   recovery (`RevisionWhilePending`): the session ends. The recovery design and the
   mailbox's own comment say that republishing a full snapshot suffices.
2. **apple_recovery_start.** A recovery in several bands right behind a Reset starts
   the generation with an Incremental boundary, which the compiler refuses
   (`StartupBoundaryNotFullBaseline`). The design prescribes these boundaries.
3. **apple_first_frame.** In one callback a generation's event can arrive after the
   events were drained and its baseline before the mailbox is: the baseline is presented
   before the controller knows the generation, and the first-frame gate stays closed
   until the next full baseline.

The first two end the session; the pipelines' other properties are stated for a running
session, so they are not affected by it.

More that the models show and that has no run of its own: no document says otherwise, a
property names the case as its exception, or it is of a kind with a run above:

- *Lifecycle.* If the cleanup thread cannot be spawned, `is_active` is already false while
  the fatal outcome is still queued, so closing the window at that moment ends the loop
  without the fatal report although workers run (`WorkersGoneInTime` names it: `CleanupLost`).
- *Video.* When a configuration is accepted and its decoder fails before the UI has drained
  the admission, the failure is ignored, because the window's owner is not yet that epoch
  (`application.rs:1946`), and the session goes on without a picture; the test at
  `application.rs:5949` wants a failure before selection to end it. A configuration that is
  accepted while the supervisor reports a thread it could not start is closed without any
  event (`ConfigAnswered` names the case).
- *RDP baseline.* The first PDUs of an RDP session seldom cover the surface; their Incremental
  boundaries are refused by the compiler as in 2, although the RDP design
  (`docs/superpowers/specs/2026-08-29-windows-native-rdp-design.md:181`) describes them as
  the normal start (`baseline.rs:266`).
- *Video reception.* Packets lost or out of order within the first picture end the session
  (`MissingInitialParameterSets`, `FuContinuationWithoutStart`), where the reliability plan
  (`docs/superpowers/plans/2026-08-22-ard-media-receive-reliability.md:5`) wants reception to
  survive reordering; the same errors are tolerated after a replacement of the stream or a
  full channel, but then the assembler is reset and no new picture is asked for. A
  picture-loss report is sent once and not repeated if it is lost. A packet that comes late,
  just after a reset, makes the assembler wait for a whole reorder window. When the media
  channel was full the assembler begins anew with whatever comes next, so that a
  random-access picture that was delayed can be given after a newer one
  (`media_runtime.rs:427`), and a stream whose first packet comes after one of its successor
  replaces it and the successor is ignored from then on (`media_runtime.rs:359`):
  `ReferencesKept` excepts both. A stream whose
  first accepted packet lies behind a rollover fails authentication for ever.
- *Remembered logins.* A crash between the credential and its profile leaves a credential
  no profile refers to, as a comment says (`controller.rs:927`); `NoOrphans` names it
  (`torn`). The undo of a commit that failed first deletes the credential there was, even
  when nothing had been written yet, so that a crash just then loses it. A save that fails is
  told as `SaveFailed` also when its undo is refused (`controller.rs:951`): then the new
  password may stay, with or without a profile, or the one before be lost, which the user is
  not told; `WarningsHonest` says exactly when (`LeftBySave`). The program does not
  start while the vault refuses to give up a staged secret.
- *Presentation.* A redraw for which the surface has no frame leaves the picture unpresented
  with no redraw to come (`application.rs:3924`): it is shown with the next change, or when
  the system redraws the window. The architecture design wants such frames skipped
  (`docs/superpowers/specs/2026-08-27-winit-wgpu-windows-first-architecture-design.md:398`).
  `NothingForgotten` and `EventuallyOnScreen` name it (`skipped`).
- *RDP display.* After a stale capability the confirmed size stays the old one: a viewport
  equal to it queues nothing, and the quarantine stays until another size is wanted. A
  reactivation that the server starts by itself while a request of another size is out is a
  mismatch and ends the session. A viewport that is observed before the capabilities is
  ignored and not sent later (`display.rs:77`).
- *RDP channels.* A text copied during a reactivation or a quarantine is dropped
  (`runtime.rs:150`). After an offer without the exact format, the published audio state
  stays "Playing". The limit of ready frames is never reached, since each read is followed
  by a drain.
- *Apple reader.* After a resize that timed out nothing is asked for until the viewport
  changes again (`lapsed`; `network_reader.rs:837`). A controller armed after the first
  generation starts at generation 0 and the next resize ends the session
  (`network_reader.rs:134`; `GeometryAgrees` excepts it). A stream of type-1 records alone
  never serves a viewport.

## 6. Not modelled, and why

GPU work (device loss, upload faults) and FFmpeg are outside the program's own state; of
the compositor the pipelines have its pause and that an acquired frame may be missing, but
not the recovery of surface and device after an error. Codecs, wire formats, key mapping
and layout are pure functions of one value. The handshakes are sequential. Of
`lifecycle.rs` the pipelines have the occlusion, which decides whether redraws are taken.
The statistics modules keep no state that other parts rely on.

## 7. Plan

1. The rate fallback of the decoder (once for a session, never for an older generation's
   load), and the held keys and their release of the RDP input.
2. The identity of servers in the controller: question, answer and store while the session
   waits for them.
3. Apple audio: jitter, concealment and the output's clock.
