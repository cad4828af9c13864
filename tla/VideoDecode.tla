----------------------------- MODULE VideoDecode -----------------------------
(***************************************************************************)
(* The video of a session: the protocol thread hands configurations and    *)
(* access units to a router, a supervisor thread keeps one worker thread   *)
(* decoding them, and the UI thread takes what they publish and shows it   *)
(* (crates/frd-shell-desktop/src/video_decode_worker.rs, the drain of      *)
(* application.rs and the epochs of frd-render-wgpu's video renderer).     *)
(*                                                                         *)
(* One stream identity, the one the window shows.  Every accepted          *)
(* configuration is an epoch, named by its serial; a later one may keep    *)
(* the generation (the source changed) or raise it (the display changed).  *)
(* An access unit and the frame decoded from it share an index of `units'. *)
(* The publications are one queue: the code numbers them and takes the     *)
(* least, a newer frame replaces an older one and takes a new number.      *)
(***************************************************************************)
EXTENDS Integers, Sequences, FiniteSets, SequencesExt

CONSTANTS
    MaxEpochs,     \* bound: how many configurations the protocol sends
    MaxUnits,      \* bound: how many access units it sends
    EntryLimit,    \* VIDEO_ACCESS_UNIT_ENTRY_LIMIT
    DecoderDelay   \* bound: access units a decoder may hold back

ASSUME VideoAssumption ==
    /\ MaxEpochs \in Nat \ {0} /\ MaxUnits \in Nat
    /\ EntryLimit \in Nat \ {0} /\ DecoderDelay \in Nat

VARIABLES
    epochs,      \* the generation of each epoch accepted so far
    units,       \* the access units sent so far: their epoch, and whether random access
    source,      \* the protocol thread: "sending", "awaiting" a key unit, "ended"
    router,      \* VideoRouterState: closed, and the route of the stream
    queues,      \* the input queues, each named by the epoch it was made for
    stream,      \* StreamPresentationState, or NoStream
    outbox,      \* VideoEventState: controls and the latest frame, in order
    admission,   \* VideoEventState.admissions: the last generation, 0 if drained
    worker,      \* the worker thread
    supervisor,  \* the supervisor thread
    window       \* the video part of DesktopWindowState

sharedVars == <<epochs, router, queues, stream, outbox, admission>>
vars == <<sharedVars, units, source, worker, supervisor, window>>

Serials == 1..MaxEpochs
Indices == 1..MaxUnits
Current == Len(epochs)

NoStream == [serial |-> 0, latest |-> 0, delivered |-> 0, ready |-> FALSE, terminal |-> FALSE]
NoRoute == [queue |-> 0, started |-> FALSE, terminal |-> FALSE,
            joined |-> FALSE, restart |-> FALSE]
NewRoute(s) == [NoRoute EXCEPT !.queue = s]
EmptyQueue == [config |-> 0, units |-> <<>>, popped |-> 0, closed |-> FALSE]
\* `last' is the unit a decoder was given last.
NoDecoder == [serial |-> 0, last |-> 0, held |-> <<>>]
NoWorker == [pc |-> "none", queue |-> 0, epoch |-> 0, unit |-> 0, frames |-> <<>>,
             decoder |-> NoDecoder, panicked |-> FALSE]
Publication(kind, s, u) == [kind |-> kind, serial |-> s, unit |-> u]
NoWindow == [pc |-> "idle", owner |-> 0, configured |-> 0, pending |-> 0, failed |-> FALSE]

Init ==
    /\ epochs = <<>> /\ units = <<>> /\ source = "sending"
    /\ router = [closed |-> FALSE, route |-> NoRoute]
    /\ queues = [s \in Serials |-> EmptyQueue]
    /\ stream = NoStream /\ outbox = <<>> /\ admission = 0
    /\ worker = NoWorker
    /\ supervisor = [pc |-> "loop", queue |-> 0, epoch |-> 0]
    /\ window = NoWindow

-----------------------------------------------------------------------------
(***************************************************************************)
(* What the worker side publishes (VideoWorkerEvents).  A publication      *)
(* counts only under the epoch that is current when it is made.            *)
(***************************************************************************)
IsCurrent(s) == s # 0 /\ stream.serial = s
HasFrame == \E i \in DOMAIN outbox : outbox[i].kind = "frame"
\* latest_frame: at most one.
WithoutFrame(q) == RemoveFirstMatch(q, LAMBDA p : p.kind = "frame")
\* A Stopped belongs to no epoch, and is said once.
Stopped == Publication("stopped", 0, 0)
OnlyStopped(q) == IF \E i \in DOMAIN q : q[i] = Stopped THEN <<Stopped>> ELSE <<>>

PublishControl(kind, s) ==
    IF IsCurrent(s)
    THEN /\ outbox' = Append(outbox, Publication(kind, s, 0))
         /\ stream' =
                IF kind # "failed" THEN stream
                ELSE [stream EXCEPT !.terminal = TRUE, !.ready = FALSE,
                                    !.latest = IF HasFrame THEN @ ELSE 0,
                                    !.delivered = IF HasFrame THEN @ ELSE 0]
    ELSE UNCHANGED <<outbox, stream>>

PublishFrame(s, u) ==
    IF IsCurrent(s)
    THEN /\ outbox' = Append(WithoutFrame(outbox), Publication("frame", s, u))
         /\ stream' = [stream EXCEPT !.latest = u, !.delivered = 0]
    ELSE UNCHANGED <<outbox, stream>>

\* MUTANT: a panic publishes a failure though the stream had one.
PublishPanicAlways(q) == PublishControl("failed", queues[q].popped)
PublishPanic(q) ==
    IF IsCurrent(queues[q].popped) /\ ~ stream.terminal
    THEN PublishControl("failed", queues[q].popped)
    ELSE UNCHANGED <<outbox, stream>>

(***************************************************************************)
(* cleanup_drained_streams: a route whose thread is joined goes once       *)
(* nothing of its failed stream is left to take or to confirm.             *)
(***************************************************************************)
Drained ==
    /\ stream.terminal /\ stream.latest = 0 /\ stream.delivered = 0 /\ ~ stream.ready
    /\ \A i \in DOMAIN outbox : outbox[i].kind = "stopped"
CleansUp(route) == route.terminal /\ route.joined /\ Drained
Cleaned(route) == IF CleansUp(route) THEN NoRoute ELSE route

-----------------------------------------------------------------------------
(***************************************************************************)
(* The protocol thread.  try_send_config makes a new epoch: it drops what  *)
(* the old one still had to say, and reuses the input queue of the route   *)
(* unless that is finished.                                                *)
(***************************************************************************)
Replaces(route) ==
    \/ route = NoRoute
    \/ route.terminal
    \/ stream.terminal
    \/ queues[route.queue].closed

AcceptConfig(g) ==
    /\ epochs' = Append(epochs, g)
    /\ outbox' = OnlyStopped(outbox)
    /\ stream' = [NoStream EXCEPT !.serial = Current + 1]

PushConfig(q, s) == [queues EXCEPT ![q].config = s, ![q].units = <<>>]

SendConfig ==
    /\ source # "ended"
    /\ Current < MaxEpochs
    /\ ~ router.closed
    /\ \E g \in (IF epochs = <<>> THEN {1} ELSE {Last(epochs), Last(epochs) + 1}) :
           /\ AcceptConfig(g)
           /\ admission' = g
    /\ LET route == IF Replaces(Cleaned(router.route))
                    THEN NewRoute(Current + 1) ELSE router.route
       IN  /\ router' = [router EXCEPT !.route = route]
           /\ queues' = PushConfig(route.queue, Current + 1)
    /\ source' = "awaiting"
    /\ UNCHANGED <<units, worker, supervisor, window>>

\* try_push_tagged_access_unit.  A full queue refuses a unit, or forgets
\* what it holds for one that needs nothing before it.
Saturated(q) == Len(queues[q].units) >= EntryLimit
\* MUTANT: a full queue makes room for every unit.
RefusesNothing(q, key) == FALSE
Refuses(q, key) == Saturated(q) /\ ~ key
PushUnit(q, u) ==
    [queues EXCEPT ![q].units = IF Saturated(q) THEN <<u>> ELSE Append(@, u)]

\* The source skips to a unit of random access after a configuration and
\* after a refusal; a closed port ends it (VideoReceiveState::accept_rtp).
SendUnit ==
    /\ source # "ended"
    /\ Current > 0
    /\ Len(units) < MaxUnits
    /\ ~ router.closed
    /\ \E key \in {k \in BOOLEAN : source = "awaiting" => k} :
        LET u == Len(units) + 1
            route == router.route
        IN  /\ units' = Append(units, [serial |-> Current, key |-> key])
            /\ IF stream = NoStream \/ route = NoRoute
               THEN source' = "sending" /\ UNCHANGED queues
               ELSE IF stream.terminal \/ route.terminal \/ queues[route.queue].closed
               THEN source' = "ended" /\ UNCHANGED queues
               ELSE IF Refuses(route.queue, key)
               THEN source' = "awaiting" /\ UNCHANGED queues
               ELSE source' = "sending" /\ queues' = PushUnit(route.queue, u)
    /\ UNCHANGED <<epochs, router, stream, outbox, admission, worker, supervisor,
                   window>>

\* Any send after the router closed.
SendRefused ==
    /\ source # "ended"
    /\ router.closed
    /\ source' = "ended"
    /\ UNCHANGED <<sharedVars, units, worker, supervisor, window>>

-----------------------------------------------------------------------------
(***************************************************************************)
(* The supervisor thread.                                                  *)
(***************************************************************************)
Startable(route) ==
    /\ route # NoRoute /\ ~ route.started /\ ~ route.terminal
    /\ ~ queues[route.queue].closed
    /\ worker.pc = "none"

\* MUTANT: a configuration that came too late ends with its worker.
SettledForGood(route, q) == [route EXCEPT !.restart = FALSE, !.terminal = TRUE]
\* finish_stream and reap_stream both decide what becomes of a route whose
\* worker is gone: a configuration that came too late for it restarts it.
Settled(route, q) ==
    IF queues[q].config # 0
    THEN [route EXCEPT !.restart = TRUE, !.terminal = FALSE]
    ELSE [route EXCEPT !.restart = FALSE, !.terminal = TRUE]
Emptied(q) == [q EXCEPT !.config = 0, !.units = <<>>, !.closed = TRUE]
CloseUnlessRestart(q) ==
    IF queues[q].config # 0 THEN queues ELSE [queues EXCEPT ![q] = Emptied(@)]

Joined(route) ==
    [route EXCEPT !.started = FALSE, !.joined = TRUE, !.restart = FALSE,
                  !.terminal = @ /\ ~ route.restart]

\* A thread that panicked is judged again when it is joined, unless a new
\* configuration has replaced its route.
Reap ==
    /\ supervisor.pc = "loop"
    /\ worker.pc = "done"
    /\ LET q == worker.queue
           route == router.route
       IN  IF route.queue # q
           THEN UNCHANGED <<router, queues, outbox, stream>>
           ELSE IF worker.panicked
           THEN /\ PublishPanic(q)
                /\ queues' = CloseUnlessRestart(q)
                /\ router' = [router EXCEPT !.route = Joined(Settled(route, q))]
           ELSE /\ router' = [router EXCEPT !.route = Joined(route)]
                /\ UNCHANGED <<queues, outbox, stream>>
    /\ worker' = NoWorker
    /\ UNCHANGED <<epochs, admission, units, source, supervisor, window>>

\* The scan under the router's lock, which also removes drained streams.
CleanUp ==
    /\ supervisor.pc = "loop"
    /\ CleansUp(router.route)
    /\ router' = [router EXCEPT !.route = NoRoute]
    /\ stream' = NoStream
    /\ UNCHANGED <<epochs, queues, outbox, admission, units, source, worker, supervisor,
                   window>>

Start ==
    /\ supervisor.pc = "loop"
    /\ ~ router.closed
    /\ Startable(Cleaned(router.route))
    /\ router' = [router EXCEPT !.route.started = TRUE, !.route.joined = FALSE]
    /\ supervisor' = [supervisor EXCEPT !.pc = "spawn", !.queue = router.route.queue]
    /\ UNCHANGED <<epochs, queues, stream, outbox, admission, units, source, worker,
                   window>>

Spawn ==
    /\ supervisor.pc = "spawn"
    /\ worker' = [NoWorker EXCEPT !.pc = "pop", !.queue = supervisor.queue]
    /\ supervisor' = [supervisor EXCEPT !.pc = "loop", !.queue = 0]
    /\ UNCHANGED <<sharedVars, units, source, window>>

\* The thread is refused: latest_epoch is read, then the failure of that
\* epoch is published, then abort_stream closes the queue: three locks.
LatestEpoch(q) ==
    IF queues[q].config # 0 THEN queues[q].config
    ELSE IF queues[q].units # <<>> THEN units[Last(queues[q].units)].serial ELSE 0

SpawnFails ==
    /\ supervisor.pc = "spawn"
    /\ supervisor' = [supervisor EXCEPT !.pc = "report", !.epoch = LatestEpoch(supervisor.queue)]
    /\ UNCHANGED <<sharedVars, units, source, worker, window>>

ReportSpawnFailure ==
    /\ supervisor.pc = "report"
    /\ PublishControl("failed", supervisor.epoch)
    /\ supervisor' = [supervisor EXCEPT !.pc = "abort", !.epoch = 0]
    /\ UNCHANGED <<epochs, router, queues, admission, units, source, worker, window>>

AbortStream ==
    /\ supervisor.pc = "abort"
    /\ IF router.route.queue = supervisor.queue
       THEN /\ router' = [router EXCEPT !.route =
                   [@ EXCEPT !.started = FALSE, !.terminal = TRUE, !.joined = TRUE,
                             !.restart = FALSE]]
            /\ queues' = [queues EXCEPT ![supervisor.queue] = Emptied(@)]
       ELSE UNCHANGED <<router, queues>>
    /\ supervisor' = [supervisor EXCEPT !.pc = "loop", !.queue = 0]
    /\ UNCHANGED <<epochs, stream, outbox, admission, units, source, worker, window>>

\* The loop sees the router closed, joins the worker and says it stopped.
Stop ==
    /\ supervisor.pc = "loop"
    /\ router.closed
    /\ worker.pc \in {"none", "done"}
    /\ outbox' = Append(outbox, Stopped)
    /\ worker' = NoWorker
    /\ supervisor' = [supervisor EXCEPT !.pc = "ended"]
    /\ UNCHANGED <<epochs, router, queues, stream, admission, units, source, window>>

\* MUTANT: closing the router leaves the input queue open.
CloseRouterOnly ==
    /\ ~ router.closed
    /\ router' = [router EXCEPT !.closed = TRUE]
    /\ UNCHANGED <<epochs, queues, stream, outbox, admission, units, source, worker,
                   supervisor, window>>

\* VideoRouter::close, when the session is cleaned up.
Close ==
    /\ ~ router.closed
    /\ router' = [router EXCEPT !.closed = TRUE]
    /\ queues' = IF router.route = NoRoute THEN queues
                 ELSE [queues EXCEPT ![router.route.queue] = Emptied(@)]
    /\ UNCHANGED <<epochs, stream, outbox, admission, units, source, worker, supervisor,
                   window>>

-----------------------------------------------------------------------------
(***************************************************************************)
(* The worker thread (run_stream_worker).  A decoder gives back frames of  *)
(* units it was given, in order, some calls later, or fails.               *)
(***************************************************************************)
Pop ==
    /\ worker.pc = "pop"
    /\ LET q == worker.queue
           in == queues[q]
       IN  IF in.config # 0
           THEN /\ worker' = [worker EXCEPT !.pc = "config", !.epoch = in.config]
                /\ queues' = [queues EXCEPT ![q].config = 0, ![q].popped = in.config]
           ELSE IF in.units # <<>>
           THEN /\ worker' = [worker EXCEPT !.pc = "unit", !.unit = Head(in.units),
                                            !.epoch = units[Head(in.units)].serial]
                /\ queues' = [queues EXCEPT ![q].units = Tail(@)]
           ELSE /\ in.closed
                /\ worker' = [worker EXCEPT !.pc = IF worker.decoder = NoDecoder
                                                THEN "exit" ELSE "drain"]
                /\ UNCHANGED queues
    /\ UNCHANGED <<epochs, router, stream, outbox, admission, units, source, supervisor,
                   window>>

\* Where the thread is when its frames are published.
After(pc, frames) ==
    IF frames # <<>> THEN pc
    ELSE CASE pc = "emit"   -> "pop"
           [] pc = "leave"  -> "exit"
           [] pc = "reopen" -> "reopen"

\* A configuration, or the end, flushes the decoder there is; what a flush
\* gives is published under the decoder's own epoch.
Flush ==
    /\ worker.pc \in {"config", "drain"}
    /\ worker.decoder # NoDecoder
    /\ worker' = [worker EXCEPT !.frames = worker.decoder.held,
                                !.decoder.held = <<>>,
                                !.pc = IF @ = "config" THEN "reopen"
                                       ELSE After("leave", worker.decoder.held)]
    /\ UNCHANGED <<sharedVars, units, source, supervisor, window>>

\* A failed flush is a failure of the new configuration, or, at the end, of
\* the decoder's own epoch.
FlushFails ==
    /\ worker.pc \in {"config", "drain"}
    /\ worker.decoder # NoDecoder
    /\ PublishControl("failed", IF worker.pc = "config" THEN worker.epoch
                                ELSE worker.decoder.serial)
    /\ worker' = [worker EXCEPT !.pc = "exit", !.decoder = NoDecoder]
    /\ UNCHANGED <<epochs, router, queues, admission, units, source, supervisor, window>>

Opens == \/ worker.pc = "config" /\ worker.decoder = NoDecoder
         \/ worker.pc = "reopen" /\ worker.frames = <<>>

OpenDecoder ==
    /\ Opens
    /\ PublishControl("selected", worker.epoch)
    /\ worker' = [worker EXCEPT !.pc = "pop",
                                !.decoder = [NoDecoder EXCEPT !.serial = worker.epoch]]
    /\ UNCHANGED <<epochs, router, queues, admission, units, source, supervisor, window>>

OpenFails ==
    /\ Opens
    /\ PublishControl("failed", worker.epoch)
    /\ worker' = [worker EXCEPT !.pc = "exit", !.decoder = NoDecoder]
    /\ UNCHANGED <<epochs, router, queues, admission, units, source, supervisor, window>>

\* A unit of an epoch that is over, or not the decoder's, is skipped.
Decodes == worker.decoder.serial = worker.epoch /\ IsCurrent(worker.epoch)

SkipUnit ==
    /\ worker.pc = "unit"
    /\ ~ Decodes
    /\ worker' = [worker EXCEPT !.pc = "pop", !.unit = 0]
    /\ UNCHANGED <<sharedVars, units, source, supervisor, window>>

Submit ==
    /\ worker.pc = "unit"
    /\ Decodes
    /\ LET held == Append(worker.decoder.held, worker.unit)
       IN  \E n \in 0..Len(held) :
            /\ Len(held) - n <= DecoderDelay
            /\ worker' = [worker EXCEPT !.unit = 0,
                                        !.pc = After("emit", SubSeq(held, 1, n)),
                                        !.frames = SubSeq(held, 1, n),
                                        !.decoder.held = SubSeq(held, n + 1, Len(held)),
                                        !.decoder.last = worker.unit]
    /\ UNCHANGED <<sharedVars, units, source, supervisor, window>>

SubmitFails ==
    /\ worker.pc = "unit"
    /\ Decodes
    /\ PublishControl("failed", worker.epoch)
    /\ worker' = [worker EXCEPT !.pc = "exit", !.unit = 0, !.decoder = NoDecoder]
    /\ UNCHANGED <<epochs, router, queues, admission, units, source, supervisor, window>>

\* MUTANT: flushed frames are published under the new epoch.
EmitUnderNew ==
    /\ worker.pc \in {"emit", "reopen", "leave"}
    /\ worker.frames # <<>>
    /\ PublishFrame(worker.epoch, Head(worker.frames))
    /\ worker' = [worker EXCEPT !.frames = Tail(@), !.pc = After(@, Tail(worker.frames))]
    /\ UNCHANGED <<epochs, router, queues, admission, units, source, supervisor, window>>

\* publish_current_frames: each frame takes the lock for itself.
Emit ==
    /\ worker.pc \in {"emit", "reopen", "leave"}
    /\ worker.frames # <<>>
    /\ PublishFrame(worker.decoder.serial, Head(worker.frames))
    /\ worker' = [worker EXCEPT !.frames = Tail(@), !.pc = After(@, Tail(worker.frames))]
    /\ UNCHANGED <<epochs, router, queues, admission, units, source, supervisor, window>>

Panic ==
    /\ worker.pc \in {"config", "unit", "emit"}
    /\ worker' = [worker EXCEPT !.pc = "exit", !.panicked = TRUE, !.frames = <<>>,
                                !.decoder = NoDecoder]
    /\ UNCHANGED <<sharedVars, units, source, supervisor, window>>

\* finish_stream, the last thing the thread does.
FinishStream ==
    /\ worker.pc = "exit"
    /\ LET q == worker.queue
       IN  IF router.route.queue # q
           THEN UNCHANGED <<router, queues, outbox, stream>>
           ELSE /\ IF worker.panicked THEN PublishPanic(q)
                   ELSE UNCHANGED <<outbox, stream>>
                /\ router' = [router EXCEPT !.route = Settled(@, q)]
                /\ queues' = CloseUnlessRestart(q)
    /\ worker' = [worker EXCEPT !.pc = "done", !.decoder = NoDecoder]
    /\ UNCHANGED <<epochs, admission, units, source, supervisor, window>>

-----------------------------------------------------------------------------
(***************************************************************************)
(* The UI thread: drain_runtime takes the admissions, then the events, one *)
(* lock each; a render confirms the frame it showed and then asks whether  *)
(* the stream is ready, again one lock each.                               *)
(***************************************************************************)
GenerationOf(p) == epochs[p.serial]

DrainAdmissions ==
    /\ window.pc = "idle"
    /\ admission' = 0
    /\ window' = IF admission = 0 \/ admission < window.owner
                 THEN [window EXCEPT !.pc = "events"]
                 ELSE [window EXCEPT !.pc = "events", !.owner = admission,
                                     !.configured = 0, !.pending = 0]
    /\ UNCHANGED <<epochs, router, queues, stream, outbox, units, source, worker,
                   supervisor>>

\* drain_video_surface_events and the renderer's configure_stream and
\* upload_frame, for one event.
Shown(p) ==
    LET g == GenerationOf(p) IN
    CASE p.kind = "selected" /\ window.owner = g /\ window.configured <= g ->
             [window EXCEPT !.configured = g, !.pending = 0]
      [] p.kind = "frame" /\ window.owner = g /\ window.configured = g ->
             [window EXCEPT !.pending = p.unit]
      [] p.kind = "failed" /\ window.owner = g ->
             [window EXCEPT !.configured = 0, !.pending = 0, !.failed = TRUE]
      [] p.kind = "stopped" ->
             [window EXCEPT !.configured = 0, !.pending = 0]
      [] OTHER -> window

\* pop_event
TakeEvent ==
    /\ window.pc = "events"
    /\ outbox # <<>>
    /\ LET p == Head(outbox)
       IN  /\ window' = Shown(p)
           /\ outbox' = IF p.kind = "stopped" THEN WithoutFrame(Tail(outbox)) ELSE Tail(outbox)
           /\ stream' = CASE p.kind = "stopped" -> NoStream
                          [] p.kind = "frame" -> [stream EXCEPT !.delivered = stream.latest]
                          [] OTHER -> stream
    /\ UNCHANGED <<epochs, router, queues, admission, units, source, worker, supervisor>>

EventsDrained ==
    /\ window.pc = "events"
    /\ outbox = <<>>
    /\ window' = [window EXCEPT !.pc = "idle"]
    /\ UNCHANGED <<sharedVars, units, source, worker, supervisor>>

\* confirm_presented
Confirms(u) ==
    /\ stream # NoStream
    /\ epochs[stream.serial] = epochs[units[u].serial]
    /\ stream.latest = u
    /\ stream.delivered = u

Render ==
    /\ window.pc = "idle"
    /\ window.pending # 0
    /\ IF Confirms(window.pending)
       THEN /\ stream' = IF stream.terminal
                         THEN [stream EXCEPT !.latest = 0, !.delivered = 0, !.ready = FALSE]
                         ELSE [stream EXCEPT !.ready = TRUE]
            /\ window' = [window EXCEPT !.pc = "ready"]
       ELSE /\ window' = [window EXCEPT !.pending = 0]
            /\ UNCHANGED stream
    /\ UNCHANGED <<epochs, router, queues, outbox, admission, units, source, worker,
                   supervisor>>

\* is_ready; then PresentationEvent::FramePresented opens the session page.
IsReady(u) == /\ stream # NoStream
              /\ epochs[stream.serial] = epochs[units[u].serial]
              /\ stream.ready

Announces == window.pc = "ready" /\ IsReady(window.pending)

Announce ==
    /\ window.pc = "ready"
    /\ window' = [window EXCEPT !.pc = "idle", !.pending = 0]
    /\ UNCHANGED <<sharedVars, units, source, worker, supervisor>>

-----------------------------------------------------------------------------
Protocol == SendConfig \/ SendUnit \/ SendRefused
Supervise == Reap \/ CleanUp \/ Start \/ Spawn \/ SpawnFails \/ ReportSpawnFailure
             \/ AbortStream \/ Stop
Work == Pop \/ Flush \/ FlushFails \/ OpenDecoder \/ OpenFails \/ SkipUnit \/ Submit
        \/ SubmitFails \/ Emit \/ Panic \/ FinishStream
Window == DrainAdmissions \/ TakeEvent \/ EventsDrained \/ Render \/ Announce
Next == Protocol \/ Supervise \/ Work \/ Window \/ Close

(***************************************************************************)
(* Fairness: the supervisor and the worker are threads of their own, and a *)
(* call into a decoder returns.  Nothing makes the source send, the        *)
(* session close, or a thread or a decoder fail.                           *)
(***************************************************************************)
Spec == Init /\ [][Next]_vars /\ WF_vars(Supervise) /\ WF_vars(Work)

-----------------------------------------------------------------------------
(***************************************************************************)
(* A frame is published under the epoch its access unit was sent in: never *)
(* one of the old stream as a frame of the new, whatever the decoder still *)
(* held when the configuration overtook it.                                *)
(* And the page of the session is never opened, or a frame counted as      *)
(* shown, for a frame of a stream that a later configuration has replaced, *)
(* even one of the same generation.                                        *)
(***************************************************************************)
FramesOfTheirEpoch ==
    /\ \A i \in DOMAIN outbox :
         outbox[i].kind = "frame" => outbox[i].serial = units[outbox[i].unit].serial
    /\ Announces => stream.serial = units[window.pending].serial

(***************************************************************************)
(* A decoder is never given a unit that refers to one it was not given:    *)
(* with a queue that refuses and forgets, and threads that come and go,    *)
(* units are skipped only up to one of random access.                      *)
(***************************************************************************)
NoBrokenReference ==
    worker.pc = "unit" /\ Decodes
    => units[worker.unit].key \/ worker.decoder.last = worker.unit - 1

(***************************************************************************)
(* A failure is the last that is heard of an epoch, and Stopped the last   *)
(* that is heard of the worker, though worker, supervisor and panic path   *)
(* each publish failures of their own.                                     *)
(***************************************************************************)
Mentions(q, s) == Cardinality({i \in DOMAIN q : q[i].serial = s})
NothingAfterTheEnd ==
    [][ /\ stream.terminal =>
               Mentions(outbox', stream.serial) <= Mentions(outbox, stream.serial)
        /\ supervisor.pc = "ended" => Len(outbox') <= Len(outbox) ]_vars

(***************************************************************************)
(* A configuration that waits in an input queue is answered by a decoder   *)
(* or by a failure, unless a later one replaces it, the session closes, or *)
(* the operating system refuses a thread.                                  *)
(***************************************************************************)
Waits(s) == \E q \in Serials : queues[q].config = s
Answered(s) == \E i \in DOMAIN outbox :
    outbox[i].serial = s /\ outbox[i].kind \in {"selected", "failed"}
ConfigAnswered ==
    \A s \in Serials :
        Waits(s) ~> \/ Current > s \/ Answered(s)
                    \/ router.closed \/ supervisor.pc \in {"report", "abort"}

(***************************************************************************)
(* Once it is closed, the worker thread is joined and says that it has     *)
(* stopped.                                                                *)
(***************************************************************************)
CloseStops == router.closed ~> supervisor.pc = "ended"
=============================================================================
