---------------------------- MODULE FramePipeline ----------------------------
(***************************************************************************)
(* The two threads of a session around the mailbox: a protocol thread that *)
(* publishes through ProtocolRuntime (crates/frd-protocol-api/src/lib.rs)  *)
(* and the UI thread, whose callbacks drain first the session events and   *)
(* then the mailbox (crates/frd-shell-desktop/src/application.rs), with    *)
(* the wake gate between them and the controller's first-frame gate        *)
(* (crates/frd-app/src/controller.rs) behind them.                         *)
(*                                                                         *)
(* Which updates are published, and what follows an overflow, is the       *)
(* protocol's own: ApplePipeline and RdpPipeline.                          *)
(*                                                                         *)
(* The window decides whether a redraw shows anything: nothing is painted  *)
(* while it is occluded, minimized or between two scale factors, and the   *)
(* surface may have no frame to give at any other time.                    *)
(*                                                                         *)
(* The surface is a set of cells, one pixel byte each.  The picture of a   *)
(* cell is the number of the draw that painted it last; 0 is unpainted.    *)
(***************************************************************************)
EXTENDS FrameDelivery, FiniteSets

CONSTANTS
    Cells,         \* the cells of the surface
    Bands,         \* the bands a full snapshot is cut into, in order
    MaxDraws,      \* bound: how often the remote screen is drawn
    MaxGeneration, \* bound: how many generations a session begins
    WindowEvents,  \* bound: the kinds of window events the system delivers
    FullBaseline   \* the payload of a boundary that completes a baseline

(***************************************************************************)
(* Admission of a generation requires that a complete surface and the      *)
(* updates of its bands fit the mailbox (supports_complete_surface; 64 MiB *)
(* and 256 entries against bands of up to 1 MiB).  Bands are rows of the   *)
(* surface from top to bottom; a patch carries a picture of its cells.     *)
(* Both adapters use Bgrx8UnormSrgb, and 64 MiB are within the renderer's  *)
(* budget; that the device holds a side of the surface is assumed here.    *)
(***************************************************************************)
ASSUME PipelineAssumption ==
    /\ IsFiniteSet(Cells) /\ Cells # {}
    /\ Bands \in Seq(SUBSET Cells)
    /\ UNION {Bands[i] : i \in 1..Len(Bands)} = Cells
    /\ \A i, j \in 1..Len(Bands) : i # j => Bands[i] \cap Bands[j] = {}
    /\ \A i \in 1..Len(Bands) : Bands[i] # {}
    /\ Cardinality(Cells) <= PixelByteLimit
    /\ 2 * Len(Bands) + 1 <= EntryLimit
    /\ FullPayloads = {FullBaseline} /\ FullBaseline # NoPayload
    /\ MaxDraws \in Nat /\ MaxGeneration \in Nat
    /\ \A S \in SUBSET Cells : [S -> 1..MaxDraws] \subseteq Payloads
    /\ NoPatches = [c \in {} |-> 0]
    /\ ForeignFormat = {} /\ OverBudget = {} /\ TooLarge = {}
    /\ WindowEvents \subseteq {"Occluded", "Resized", "ScaleFactorChanged"}

VARIABLES
    \* the protocol thread
    call,              \* what a call of ProtocolRuntime still has to do
    runtimeGeneration, \* ProtocolRuntime.current_generation, 0 for None
    poisoned,          \* ProtocolRuntime.terminal
    \* between the threads
    events,            \* the SurfaceGenerationChanged events not yet drained
    armed,             \* RuntimeWakeGate
    wakes,             \* Wake events posted to the event loop
    \* the UI thread
    callback,          \* the callback that runs: "none", "Wake", "RedrawRequested"
    stage,             \* its progress: "events", "frames", "finish"
    redrawNeeded,      \* RuntimeDrainOutcome.any_redraw
    redrawRequested,   \* a redraw is due from the window
    controller,        \* generation and first-frame gate of the controller
    pixels,            \* what each cell of the remote texture shows
    \* the window
    window,            \* what keeps it from being painted, see WindowStates
    skipped            \* history: the last redraw found a picture and no frame for it

runtimeVars == <<call, runtimeGeneration, poisoned>>
wakeVars == <<armed, wakes>>
windowVars == <<window, skipped>>
callbackVars ==
    <<callback, stage, redrawNeeded, redrawRequested, controller, pixels, windowVars>>
uiSide == <<uiVars, callbackVars, lastPopped>>
pipelineVars == <<vars, uiVars, runtimeVars, events, wakeVars, callbackVars>>

Unpainted == [c \in Cells |-> 0]

PipelineInit ==
    /\ DeliveryInit
    /\ call = "none"
    /\ runtimeGeneration = 0
    /\ poisoned = FALSE
    /\ events = <<>>
    /\ armed = FALSE
    /\ wakes = 0
    /\ callback = "none"
    /\ stage = "finish"
    /\ redrawNeeded = FALSE
    /\ redrawRequested = FALSE
    /\ controller = [generation |-> 0, page |-> "Connecting"]
    /\ pixels = Unpainted
    /\ window = {}
    /\ skipped = FALSE

-----------------------------------------------------------------------------
(***************************************************************************)
(* ProtocolRuntime.  A call publishes and then wakes the UI; the two are   *)
(* separate steps, between which the UI may run.                           *)
(***************************************************************************)
Unlocked == Running => phase # "draining"

\* EventLoopWake::wake: only the publisher that arms the gate posts an event.
PostWake ==
    IF armed THEN UNCHANGED wakeVars ELSE armed' = TRUE /\ wakes' = wakes + 1

\* What publish_surface returns for an update of a running call.
SurfaceOutcome(u) ==
    IF u.generation # runtimeGeneration THEN "StaleSurface" ELSE PushOutcome(u, TRUE)

\* publish_surface up to its wake: an overflow neither wakes nor poisons.
PublishSurface(u) ==
    /\ call = "none" /\ ~ poisoned
    /\ Unlocked
    /\ IF SurfaceOutcome(u) = "StaleSurface" THEN UNCHANGED mailbox ELSE Push(u, TRUE)
    /\ call' = IF SurfaceOutcome(u) = "Queued" THEN "surfaceWake" ELSE "none"
    /\ poisoned' = (SurfaceOutcome(u) = "Rejected")
    /\ UNCHANGED <<runtimeGeneration, events, wakeVars, uiSide>>

WakeAfterSurface ==
    /\ call = "surfaceWake"
    /\ PostWake
    /\ call' = "none"
    /\ UNCHANGED <<mailbox, runtimeGeneration, poisoned, events, uiSide>>

\* begin_admitted_generation, for the generation after the current one:
\* the event, then the Reset, then the wake.
BeginGenerationEvent ==
    /\ call = "none" /\ ~ poisoned
    /\ runtimeGeneration < MaxGeneration
    /\ events' = Append(events, runtimeGeneration + 1)
    /\ call' = "reset"
    /\ UNCHANGED <<mailbox, runtimeGeneration, poisoned, wakeVars, uiSide>>

BeginGenerationReset ==
    /\ call = "reset"
    /\ Unlocked
    /\ LET u == ResetUpdate(Session, runtimeGeneration + 1)
       IN  /\ PushReset(u, TRUE)
           /\ poisoned' = (PushOutcome(u, TRUE) # "Queued")
           /\ call' = IF PushOutcome(u, TRUE) = "Queued" THEN "generationWake" ELSE "none"
    /\ UNCHANGED <<runtimeGeneration, events, wakeVars, uiSide>>

WakeAfterGeneration ==
    /\ call = "generationWake"
    /\ PostWake
    /\ runtimeGeneration' = runtimeGeneration + 1
    /\ call' = "none"
    /\ UNCHANGED <<mailbox, poisoned, events, uiSide>>

-----------------------------------------------------------------------------
(***************************************************************************)
(* The UI thread.  A Wake event consumes the gate before it drains; a      *)
(* redraw, which the system may ask for at any time, drains too and then   *)
(* renders in the same callback.                                           *)
(***************************************************************************)
protocolSide == <<mailbox, runtimeVars>>

\* MUTANT: the gate is reopened only by the next arm that fails.
WakeKeepsGate ==
    /\ Running /\ callback = "none" /\ wakes > 0
    /\ wakes' = wakes - 1
    /\ callback' = "Wake" /\ stage' = "events"
    /\ UNCHANGED <<protocolSide, events, armed, uiVars, lastPopped, redrawNeeded,
                   redrawRequested, controller, pixels, windowVars>>

HandleWake ==
    /\ Running /\ callback = "none" /\ wakes > 0
    /\ wakes' = wakes - 1
    /\ armed' = FALSE
    /\ callback' = "Wake" /\ stage' = "events"
    /\ UNCHANGED <<protocolSide, events, uiVars, lastPopped, redrawNeeded,
                   redrawRequested, controller, pixels, windowVars>>

HandleRedraw ==
    /\ Running /\ callback = "none"
    /\ redrawRequested' = FALSE
    /\ callback' = "RedrawRequested" /\ stage' = "events"
    /\ UNCHANGED <<protocolSide, events, wakeVars, uiVars, lastPopped, redrawNeeded,
                   controller, pixels, windowVars>>

\* drain_session_events; handle_session_event for each of them in turn.
ReduceEvents ==
    /\ callback # "none" /\ stage = "events"
    /\ stage' = "frames"
    /\ events' = <<>>
    /\ redrawNeeded' = (events # <<>>)
    /\ LET newest == IF events = <<>> THEN 0 ELSE events[Len(events)]
       IN  controller' = IF newest > controller.generation
                         THEN [generation |-> newest, page |-> "AwaitingFirstFrame"]
                         ELSE controller
    /\ UNCHANGED <<protocolSide, wakeVars, uiVars, lastPopped, callback, redrawRequested,
                   pixels, windowVars>>

\* drain_frame_transactions takes the lock, pops and compiles.
LockMailbox ==
    /\ stage = "frames"
    /\ BeginDrain
    /\ stage' = "finish"
    /\ UNCHANGED <<runtimeVars, events, wakeVars, callback, redrawNeeded, redrawRequested,
                   controller, pixels, windowVars>>

CompileUpdate ==
    /\ CompileHead
    /\ UNCHANGED <<runtimeVars, events, wakeVars, callbackVars>>

UnlockMailbox ==
    /\ EndDrain
    /\ UNCHANGED <<runtimeVars, events, wakeVars, callbackVars>>

\* apply_update_batch: a startup paints a fresh texture, a revision paints over.
PaintedBy(t) ==
    [c \in Cells |->
        IF c \in DOMAIN t.payload THEN t.payload[c] ELSE IF t.startup THEN 0 ELSE pixels[c]]

\* MUTANT: the frames of a batch ask for no redraw.
ApplyWithoutRedraw ==
    /\ ApplyHead
    /\ pixels' = PaintedBy(Head(transactions))
    /\ UNCHANGED <<runtimeVars, events, wakeVars, callback, stage, redrawNeeded, redrawRequested,
                   controller, windowVars>>

ApplyTransaction ==
    /\ ApplyHead
    /\ pixels' = IF BatchError = "None" THEN PaintedBy(Head(transactions)) ELSE pixels
    /\ redrawNeeded' = TRUE
    /\ skipped' = FALSE
    /\ UNCHANGED <<runtimeVars, events, wakeVars, callback, stage, redrawRequested, controller,
                   window>>

\* dispatch_runtime_drain after a Wake; an occluded window takes no request.
RequestRedraw ==
    /\ Running
    /\ callback = "Wake" /\ stage = "finish" /\ phase = "idle"
    /\ redrawRequested' = (redrawRequested \/ (redrawNeeded /\ "occluded" \notin window))
    /\ redrawNeeded' = FALSE
    /\ callback' = "none"
    /\ UNCHANGED <<protocolSide, events, wakeVars, uiVars, lastPopped, stage, controller, pixels,
                   windowVars>>

\* handle_presentation
GateAfter(receipt) ==
    IF /\ controller.page = "AwaitingFirstFrame"
       /\ receipt.generation = controller.generation
       /\ receipt.full
    THEN [controller EXCEPT !.page = "RemoteSession"]
    ELSE controller

\* The lifecycle takes redraws, the compositor is not paused and no change of
\* the scale factor is pending.
Shows == window \cap {"occluded", "paused", "scaling"} = {}

\* What the texture holds is presented, confirmed and reported to the
\* controller; a full baseline of a remote session is drawn once more.
RenderPresents ==
    /\ Shows
    /\ PresentTexture
    /\ controller' = GateAfter(texture.receipt)
    /\ redrawRequested' =
         (redrawRequested \/ (texture.receipt.full /\ controller'.page = "RemoteSession"))
    /\ skipped' = FALSE

\* Nothing is presented: there is nothing new, the window does not show, or it
\* does and the surface has no frame to give (Timeout, Occluded, Outdated, Lost)
\* or the chrome no room.  That counts as success, and no redraw is asked for.
RenderSkips ==
    /\ skipped' = (Shows /\ texture.receipt.revision # 0)
    /\ UNCHANGED <<vars, uiVars, controller, redrawRequested>>

\* render_now after a RedrawRequested.
RenderNow ==
    /\ Running
    /\ callback = "RedrawRequested" /\ stage = "finish" /\ phase = "idle"
    /\ RenderPresents \/ RenderSkips
    /\ redrawNeeded' = FALSE
    /\ callback' = "none"
    /\ UNCHANGED <<runtimeVars, events, wakeVars, stage, pixels, window>>

-----------------------------------------------------------------------------
(***************************************************************************)
(* The window.  "occluded" is the lifecycle's flag, "paused" the           *)
(* compositor's, "scaling" that of DpiTransition; "minimized" says that    *)
(* the window has no size.                                                 *)
(***************************************************************************)
WindowStates == SUBSET {"occluded", "minimized", "paused", "scaling"}

\* What a window event leaves, and whether it asks for a redraw.
WindowBecomes(state, redraw) ==
    /\ Running /\ callback = "none"
    /\ window' = state
    /\ redrawRequested' = (redrawRequested \/ (redraw /\ "occluded" \notin state))
    /\ UNCHANGED <<protocolSide, events, wakeVars, uiVars, lastPopped, callback, stage,
                   redrawNeeded, controller, pixels, skipped>>

\* Occluded(true), and Occluded(false), which configures the committed size anew.
Occlude ==
    /\ "Occluded" \in WindowEvents /\ "occluded" \notin window
    /\ WindowBecomes(window \cup {"occluded", "paused"}, FALSE)

\* MUTANT: a window that comes back waits for somebody else's redraw.
RevealWithoutRedraw ==
    /\ "Occluded" \in WindowEvents /\ "occluded" \in window
    /\ WindowBecomes(window \ {"occluded", "paused"}, FALSE)

Reveal ==
    /\ "Occluded" \in WindowEvents /\ "occluded" \in window
    /\ WindowBecomes(window \ {"occluded", "paused"}, TRUE)

\* Resized to nothing, and commit_window_resize.
Minimize ==
    /\ "Resized" \in WindowEvents
    /\ WindowBecomes(window \cup {"minimized", "paused"}, FALSE)

Resize ==
    /\ "Resized" \in WindowEvents
    /\ WindowBecomes(window \ {"minimized", "paused", "scaling"}, TRUE)

ScaleChanges ==
    /\ "ScaleFactorChanged" \in WindowEvents
    /\ WindowBecomes(window \cup {"scaling"}, FALSE)

\* MUTANT: a settled scale factor is painted by whatever redraws next.
ScaleSettlesSilently ==
    /\ "scaling" \in window /\ "minimized" \notin window
    /\ WindowBecomes(window \ {"scaling"}, FALSE)

\* about_to_wait: a transition no resize has ended is ended by the window's size,
\* the one it had or, as by commit_window_resize, another.
ScaleSettles ==
    /\ "scaling" \in window /\ "minimized" \notin window
    /\ \/ WindowBecomes(window \ {"scaling"}, TRUE)
       \/ WindowBecomes(window \ {"scaling", "paused"}, TRUE)

WindowStep == Occlude \/ Reveal \/ Minimize \/ Resize \/ ScaleChanges \/ ScaleSettles

UiStep ==
    \/ HandleWake
    \/ HandleRedraw
    \/ ReduceEvents
    \/ LockMailbox
    \/ CompileUpdate
    \/ UnlockMailbox
    \/ ApplyTransaction
    \/ RequestRedraw
    \/ RenderNow
    \/ WindowStep

(***************************************************************************)
(* The UI thread keeps running: a callback runs to its end, and between    *)
(* callbacks the event loop delivers what is due, a posted Wake and a      *)
(* requested redraw, however often the system asks for redraws of its own; *)
(* before it waits it settles a pending scale factor.                      *)
(***************************************************************************)
UiFairness ==
    /\ SF_pipelineVars(HandleWake)
    /\ SF_pipelineVars(redrawRequested /\ HandleRedraw)
    /\ SF_pipelineVars(ScaleSettles)
    /\ WF_pipelineVars(callback # "none" /\ UiStep)

-----------------------------------------------------------------------------
(***************************************************************************)
(* A texture is never installed in part: every cell of it was painted in   *)
(* its own generation, whatever was dropped on the way.                    *)
(***************************************************************************)
StartupPaintsEverything ==
    Running /\ texture.generation # 0 => \A c \in Cells : pixels[c] # 0

(***************************************************************************)
(* Something published is never forgotten: with the UI waiting and no call *)
(* of the protocol still to wake it, a non-empty mailbox or event queue    *)
(* has a Wake under way, and a picture not yet presented has a redraw      *)
(* under way, unless the window does not show; then what makes it show     *)
(* again asks for the redraw.  One case is left, and it is the code's: a   *)
(* redraw for which the surface had no frame (Timeout, Occluded, Outdated, *)
(* Lost) is not repeated, and the picture waits for whatever redraws next  *)
(* (application.rs:3924).                                                  *)
(***************************************************************************)
NothingForgotten ==
    Running /\ callback = "none" =>
      /\ call = "none" /\ (queue # <<>> \/ events # <<>>) => wakes > 0
      /\ texture.receipt.revision # 0 => redrawRequested \/ ~ Shows \/ skipped

(***************************************************************************)
(* What the window is left in when the system leaves it alone at last; the *)
(* liveness properties of the pipelines promise nothing before.            *)
(***************************************************************************)
WindowSettles == <>[][window' = window]_pipelineVars

Hidden == "occluded" \in window \/ "minimized" \in window

(***************************************************************************)
(* The first picture presented of a generation is its full baseline, so    *)
(* once it is presented and the controller has reduced the generation's    *)
(* event, the first-frame gate is open and input flows: nothing else would *)
(* open it but another full baseline (controller.rs, handle_presentation). *)
(***************************************************************************)
FirstFrameOpensGate ==
    /\ Running /\ callback = "none" /\ events = <<>>
    /\ controller.generation # 0 /\ screen.generation = controller.generation
    => controller.page = "RemoteSession"

(***************************************************************************)
(* "A frame mailbox overflow cannot leave the texture without recovery":   *)
(* the updates that follow one are never refused by the compiler.          *)
(***************************************************************************)
OverflowRecovers == failure # "RevisionWhilePending"

(***************************************************************************)
(* A generation whose first boundary is incremental, and completed by a    *)
(* later one, is shown.                                                    *)
(***************************************************************************)
IncrementalStartShown == failure # "StartupBoundaryNotFullBaseline"

=============================================================================
