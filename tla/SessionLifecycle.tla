--------------------------- MODULE SessionLifecycle ---------------------------
(***************************************************************************)
(* The life of a session in the desktop application: the user asks for a   *)
(* connection, a background thread launches its workers, the UI thread     *)
(* accepts or cancels the launch, the protocol ends or is told to, and a   *)
(* background cleanup returns what the session held                        *)
(* (crates/frd-shell-desktop/src/application.rs and cleanup.rs,            *)
(* crates/frd-session/src/coordinator.rs, crates/frd-app/src/controller.rs)*)
(*                                                                         *)
(* A callback of the UI thread is one step; the launch thread, the cleanup *)
(* thread and the workers of a session interleave with it.  An event of a  *)
(* session and its wake are one step here: FramePipeline has them apart.   *)
(***************************************************************************)
EXTENDS Naturals, Sequences, FiniteSets

CONSTANTS
    MaxSessions, \* bound: how many connections are asked for
    MaxAttempts  \* CleanupPolicy.max_attempts

ASSUME LifecycleAssumption ==
    /\ MaxSessions \in Nat \ {0}
    /\ MaxAttempts \in Nat \ {0}

Sessions == 1..MaxSessions

VARIABLES
    \* the UI thread
    controller,    \* AppController: session id, session slot and page
    host,          \* SessionHost
    returnToForm,  \* return_to_form_after_cancelled_launch
    exit,          \* ApplicationExitState, and whether the event loop ends
    fault,         \* an InvalidState report or a failed expect(), else "None"
    \* between the threads
    posted,        \* the user events posted to the event loop
    armed,         \* RuntimeWakeGate
    launchCancelled, \* SessionHost.launch_cancelled
    \* the other threads
    launch,        \* the launch thread
    cleanup,       \* the cleanup thread
    live,          \* the workers of each session
    \* history
    cancelled,     \* the sessions cancelled while their launch was pending
    asked,         \* how many connections were asked for
    closing        \* the window was closed

uiVars == <<controller, host, returnToForm, exit, fault>>
history == <<cancelled, asked, closing>>
allVars == <<uiVars, posted, armed, launchCancelled, launch, cleanup, live, history>>

-----------------------------------------------------------------------------
Vacant == [session |-> 0, phase |-> "Vacant"]
Idle == [session |-> 0, step |-> "none"]
NoCleanup == [session |-> 0, attempt |-> 0, done |-> {}]

NoWorkers ==
    [protocol   |-> "none",    \* "waiting" at the barrier, "running", "exited"
     audio      |-> "none",    \* "waiting" for its start, "running", "exited"
     video      |-> "none",    \* "running", "panicked", "exited"
     barrier    |-> "Pending", \* ProtocolStartState
     audioStart |-> "held",    \* audio_start_tx: "held", "sent", "dropped"
     disconnect |-> FALSE,     \* SessionCommand::Disconnect was sent
     stopVideo  |-> FALSE,     \* request_stop
     events     |-> <<>>,      \* the session events not yet drained
     reported   |-> {}]        \* which of them the running protocol sent

LifecycleInit ==
    /\ controller = [session |-> 0, slot |-> Vacant, page |-> "ConnectionForm"]
    /\ host = [launching |-> FALSE, active |-> 0, handle |-> 0, cleaning |-> FALSE,
               coordinator |-> "host"]
    /\ returnToForm = FALSE
    /\ exit = [whenClean |-> FALSE, deadline |-> FALSE, fatal |-> FALSE, done |-> FALSE]
    /\ fault = "None"
    /\ posted = <<>>
    /\ armed = FALSE
    /\ launchCancelled = FALSE
    /\ launch = Idle
    /\ cleanup = NoCleanup
    /\ live = [s \in Sessions |-> NoWorkers]
    /\ cancelled = {}
    /\ asked = 0
    /\ closing = FALSE

Wake == [kind |-> "Wake"]
LaunchFinished(s, started, before) ==
    [kind |-> "LaunchFinished", session |-> s, started |-> started, cancelled |-> before]
CleanupFinished(s, complete) ==
    [kind |-> "CleanupFinished", session |-> s, complete |-> complete]

PostWake ==
    /\ armed' = TRUE
    /\ posted' = IF armed THEN posted ELSE Append(posted, Wake)

UiRuns == ~ exit.done

IsActive(h) == h.launching \/ h.handle # 0 \/ h.cleaning

-----------------------------------------------------------------------------
(***************************************************************************)
(* The controller: its session slot and its page.                          *)
(***************************************************************************)
InSlot(c, s, phases) == c.slot.session = s /\ c.slot.phase \in phases

\* CancelConnect and Disconnect; begun only from Connecting or Active.
BeginsDisconnect(c) == InSlot(c, c.session, {"Connecting", "Active"})

\* MUTANT: the page changes, the slot stays connected.
DisconnectedPageOnly(c) ==
    IF BeginsDisconnect(c) THEN [c EXCEPT !.page = "Disconnecting"] ELSE c

Disconnected(c) ==
    IF BeginsDisconnect(c)
    THEN [c EXCEPT !.slot.phase = "Disconnecting", !.page = "Disconnecting"]
    ELSE c

\* handle_session_event for what decides the life of the session; the page
\* "AwaitingFirstFrame" stands for RemoteSession too.
Ended(c, page) ==
    [c EXCEPT !.slot.phase = "CleanupPending", !.page = IF @ = "Failed" THEN @ ELSE page]

AfterEvent(c, e) ==
    CASE e = "Failed" -> Ended(c, "Failed")
      [] e = "Closed" -> Ended(c, "Disconnecting")
      [] e = "Disconnecting" /\ c.page \in {"Connecting", "AwaitingFirstFrame"} -> Disconnected(c)
      [] e = "TransportReady" /\ c.page \in {"Connecting", "AwaitingFirstFrame"} ->
            [c EXCEPT !.page = "AwaitingFirstFrame",
                      !.slot.phase = IF @ = "Connecting" THEN "Active" ELSE @]
      [] OTHER -> c

AfterEvents(c, events) ==
    LET after[i \in 0..Len(events)] ==
            IF i = 0 THEN c ELSE AfterEvent(after[i - 1], events[i])
    IN  after[Len(events)]

-----------------------------------------------------------------------------
(***************************************************************************)
(* handle_application_fatal: the report is latched, a pending launch is    *)
(* cancelled, an active session told to disconnect, and the loop ends.     *)
(***************************************************************************)
TellDisconnect(workers, s) ==
    IF s = 0 THEN workers ELSE [workers EXCEPT ![s].disconnect = TRUE]

Fatal(h, workers) ==
    /\ host' = h
    /\ exit' = [exit EXCEPT !.fatal = TRUE, !.deadline = FALSE, !.done = TRUE]
    /\ launchCancelled' = (launchCancelled \/ h.launching)
    /\ live' = TellDisconnect(workers, h.active)

(***************************************************************************)
(* begin_cleanup of SessionHost, called by start_background_cleanup: the   *)
(* ports of the session are dropped and its coordinator handed to a        *)
(* cleanup thread.  If that thread cannot be spawned the coordinator and   *)
(* the resources are dropped and a fatal outcome is posted after rest.     *)
(***************************************************************************)
StartsCleanup == host.handle # 0 /\ ~ host.cleaning /\ ~ host.launching

CleanupHost(spawned) ==
    [host EXCEPT !.active = 0, !.handle = 0, !.cleaning = spawned,
                 !.coordinator = IF spawned THEN "lent" ELSE "lost"]

BeginCleanup(workers, rest) ==
    IF StartsCleanup
    THEN \E spawned \in BOOLEAN :
            /\ host' = CleanupHost(spawned)
            /\ fault' = IF host.coordinator = "host" THEN fault ELSE "coordinator"
            /\ cleanup' = IF spawned
                          THEN [session |-> host.handle, attempt |-> 1, done |-> {}]
                          ELSE cleanup
            /\ posted' = IF spawned THEN rest ELSE Append(rest, CleanupFinished(host.handle, FALSE))
            /\ live' = [workers EXCEPT ![host.handle].events = <<>>]
    ELSE /\ posted' = rest /\ live' = workers
         /\ UNCHANGED <<host, fault, cleanup>>

\* maybe_finish_exit
ExitIfClean(x, h) == [x EXCEPT !.done = x.whenClean /\ ~ IsActive(h)]

-----------------------------------------------------------------------------
(***************************************************************************)
(* What the user does.                                                     *)
(***************************************************************************)
\* AppIntent::Connect: start_connection, then begin_launch.  The launch thread
\* is spawned, or its failure is reported as a launch rolled back.  A busy host
\* refuses, which is reported as InvalidState.
Connect(s) ==
    /\ UiRuns
    /\ controller.page = "ConnectionForm" /\ controller.slot = Vacant
    /\ s = asked + 1
    /\ asked' = s
    /\ controller' = [session |-> s, page |-> "Connecting",
                      slot |-> [session |-> s, phase |-> "Connecting"]]
    /\ IF IsActive(host)
       THEN /\ fault' = "InvalidState"
            /\ UNCHANGED <<host, launchCancelled, launch, posted>>
       ELSE /\ fault' = IF host.coordinator = "host" THEN fault ELSE "coordinator"
            /\ host' = [host EXCEPT !.launching = TRUE, !.coordinator = "lent"]
            /\ launchCancelled' = FALSE
            /\ \/ launch' = [session |-> s, step |-> "begin"] /\ UNCHANGED posted
               \/ /\ posted' = Append(posted, LaunchFinished(s, FALSE, FALSE))
                  /\ UNCHANGED launch
    /\ UNCHANGED <<returnToForm, exit, armed, cleanup, live, cancelled, closing>>

\* CancelConnect and Disconnect (dispatch_intent): a pending launch is only
\* told to stop; a started session is told to disconnect.
Cancel ==
    /\ UiRuns
    /\ controller.page \in {"Connecting", "AwaitingFirstFrame"}
    /\ IF host.launching
       THEN /\ returnToForm' = TRUE
            /\ launchCancelled' = TRUE
            /\ cancelled' = cancelled \cup {controller.session}
            /\ UNCHANGED <<controller, live>>
       ELSE /\ controller' = Disconnected(controller)
            /\ live' = IF BeginsDisconnect(controller)
                       THEN TellDisconnect(live, host.active) ELSE live
            /\ UNCHANGED <<returnToForm, launchCancelled, cancelled>>
    /\ UNCHANGED <<host, exit, fault, posted, armed, launch, cleanup, asked, closing>>

\* ReturnToConnection, on the page that shows a failure.
ReturnToConnection ==
    /\ UiRuns
    /\ controller.page = "Failed"
    /\ controller' = [controller EXCEPT !.page = "ConnectionForm"]
    /\ UNCHANGED <<host, returnToForm, exit, fault, posted, armed, launchCancelled, launch,
                   cleanup, live, cancelled, asked, closing>>

(***************************************************************************)
(* begin_shutdown.  A pending launch is cancelled and given a deadline; a  *)
(* session is told to disconnect and cleaned up; else the loop ends.       *)
(***************************************************************************)
\* MUTANT: a launch that is cancelled is waited for without a deadline.
CloseWithoutDeadline ==
    /\ host.launching
    /\ launchCancelled' = TRUE
    /\ exit' = [exit EXCEPT !.whenClean = TRUE]
    /\ cancelled' = cancelled \cup {controller.session}
    /\ UNCHANGED <<controller, host, fault, posted, cleanup, live>>

CloseDuringLaunch ==
    /\ host.launching
    /\ launchCancelled' = TRUE
    /\ exit' = [exit EXCEPT !.whenClean = TRUE, !.deadline = TRUE]
    /\ cancelled' = cancelled \cup {controller.session}
    /\ UNCHANGED <<controller, host, fault, posted, cleanup, live>>

CloseSession ==
    /\ ~ host.launching /\ IsActive(host)
    /\ exit' = [exit EXCEPT !.whenClean = TRUE]
    /\ LET disconnects == controller.page # "Disconnecting" /\ BeginsDisconnect(controller)
       IN  /\ controller' = IF disconnects THEN Disconnected(controller) ELSE controller
           /\ BeginCleanup(IF disconnects THEN TellDisconnect(live, host.active) ELSE live, posted)
    /\ UNCHANGED <<launchCancelled, cancelled>>

CloseAtRest ==
    /\ ~ IsActive(host)
    /\ exit' = [exit EXCEPT !.done = TRUE]
    /\ UNCHANGED <<controller, host, fault, posted, launchCancelled, cleanup, live, cancelled>>

Close ==
    /\ UiRuns
    /\ CloseDuringLaunch \/ CloseSession \/ CloseAtRest
    /\ closing' = TRUE
    /\ UNCHANGED <<returnToForm, armed, launch, asked>>

\* about_to_wait: the deadline of a launch that was cancelled by closing.
ShutdownTimeout ==
    /\ UiRuns
    /\ exit.deadline /\ host.launching
    /\ Fatal(host, live)
    /\ UNCHANGED <<controller, returnToForm, fault, posted, armed, launch, cleanup, history>>

-----------------------------------------------------------------------------
(***************************************************************************)
(* drain_runtime: the events of the active session are reduced in turn; a  *)
(* session that ended, or whose video failed, is cleaned up at once.  What  *)
(* cannot be compiled or drawn is fatal, in either callback.               *)
(***************************************************************************)
\* MUTANT: only a failure starts the cleanup.
EndsOnFailure(e) == e = "Failed"

EndsSession(e) == e \in {"Failed", "Closed"}

DrainedEvents == IF host.active = 0 THEN <<>> ELSE live[host.active].events

Drain(rest) ==
    \E videoFailed \in IF host.active = 0 THEN {FALSE} ELSE BOOLEAN :
      LET events == DrainedEvents \o (IF videoFailed THEN <<"Failed">> ELSE <<>>)
          workers == IF host.active = 0 THEN live
                     ELSE [live EXCEPT ![host.active].events = <<>>,
                                       ![host.active].disconnect = @ \/ videoFailed]
      IN  /\ controller' = IF controller.session = host.active
                           THEN AfterEvents(controller, events) ELSE controller
          /\ IF \E i \in 1..Len(events) : EndsSession(events[i])
             THEN BeginCleanup(workers, rest)
             ELSE posted' = rest /\ live' = workers /\ UNCHANGED <<host, fault, cleanup>>
          /\ exit' = ExitIfClean(exit, host')
          /\ UNCHANGED <<returnToForm, launchCancelled, launch, history>>

\* The loop ends: what is queued is dropped, and what the drain did before it
\* failed no longer counts.
PresentationFails ==
    /\ UiRuns
    /\ Fatal(host, live)
    /\ posted' = <<>>
    /\ UNCHANGED <<controller, returnToForm, fault, armed, launch, cleanup, history>>

HandleWake ==
    /\ UiRuns /\ posted # <<>> /\ Head(posted) = Wake
    /\ armed' = FALSE
    /\ Drain(Tail(posted))

HandleRedraw ==
    /\ UiRuns
    /\ Drain(posted)
    /\ UNCHANGED armed

-----------------------------------------------------------------------------
(***************************************************************************)
(* LaunchFinished: accept_launch_outcome and handle_launch_finished.       *)
(***************************************************************************)
Outcome == Head(posted)
OutcomeIs(kind) == UiRuns /\ posted # <<>> /\ Outcome.kind = kind /\ posted' = Tail(posted)

\* MUTANT: a cancellation that came after the outcome was posted is missed.
LaunchWasCancelled == Outcome.cancelled

LaunchIsCancelled == Outcome.cancelled \/ launchCancelled

\* launch_cancelled is swapped unless the outcome itself says cancelled.
TakeCancellation ==
    launchCancelled' = (launchCancelled /\ Outcome.cancelled)

InvalidState ==
    /\ fault' = "InvalidState"
    /\ Fatal(host, live)
    /\ UNCHANGED <<controller, returnToForm, armed, launch, cleanup, history>>

\* consume_launch_rollback wants the same reservation, still connecting; the
\* CancelConnect of a cancelled session wants its slot.
RollsBack(c, s) ==
    c.page = "Connecting" /\ c.session = s /\ InSlot(c, s, {"Connecting"})

HoldsSlot(c) == c.session # 0 /\ c.slot.session = c.session

Expected ==
    /\ host.launching
    /\ ~ Outcome.started => RollsBack(controller, Outcome.session)
    /\ Outcome.started /\ LaunchIsCancelled => HoldsSlot(controller)

StartSession ==
    /\ host' = [host EXCEPT !.launching = FALSE, !.coordinator = "host",
                            !.active = Outcome.session, !.handle = Outcome.session]
    /\ live' = [live EXCEPT ![Outcome.session].barrier = "Started"]
    /\ exit' = [exit EXCEPT !.deadline = FALSE]
    /\ TakeCancellation
    /\ UNCHANGED <<controller, returnToForm, fault, armed, launch, cleanup, history>>

\* The ports and the barrier of a cancelled session are dropped, and it is
\* cleaned up; if the cleanup thread cannot be spawned, that is fatal.
CleanUpCancelled ==
    LET workers == [live EXCEPT ![Outcome.session].barrier = "Cancelled"]
    IN  /\ \/ /\ host' = [host EXCEPT !.launching = FALSE, !.cleaning = TRUE]
              /\ cleanup' = [session |-> Outcome.session, attempt |-> 1, done |-> {}]
              /\ controller' = Disconnected(controller)
              /\ returnToForm' = FALSE
              /\ live' = workers
              /\ exit' = [exit EXCEPT !.deadline = FALSE]
              /\ TakeCancellation
           \/ /\ Fatal([host EXCEPT !.launching = FALSE, !.coordinator = "lost"], workers)
              /\ UNCHANGED <<cleanup, controller, returnToForm>>
        /\ UNCHANGED <<fault, armed, launch, history>>

ReturnSlot ==
    /\ host' = [host EXCEPT !.launching = FALSE, !.coordinator = "host"]
    /\ controller' =
         [session |-> 0, slot |-> Vacant,
          page |-> IF LaunchIsCancelled /\ returnToForm /\ ~ exit.whenClean
                   THEN "ConnectionForm" ELSE "Failed"]
    /\ returnToForm' = (returnToForm /\ ~ LaunchIsCancelled)
    /\ exit' = ExitIfClean([exit EXCEPT !.deadline = FALSE], host')
    /\ TakeCancellation
    /\ UNCHANGED <<fault, armed, launch, cleanup, live, history>>

AcceptStarted ==
    /\ OutcomeIs("LaunchFinished") /\ Outcome.started /\ ~ LaunchIsCancelled
    /\ IF Expected THEN StartSession ELSE InvalidState

AcceptCancelled ==
    /\ OutcomeIs("LaunchFinished") /\ Outcome.started /\ LaunchIsCancelled
    /\ IF Expected THEN CleanUpCancelled ELSE InvalidState

AcceptRolledBack ==
    /\ OutcomeIs("LaunchFinished") /\ ~ Outcome.started
    /\ IF Expected THEN ReturnSlot ELSE InvalidState

(***************************************************************************)
(* CleanupFinished: handle_cleanup_finished.                               *)
(***************************************************************************)
AcceptCleanup ==
    /\ OutcomeIs("CleanupFinished") /\ Outcome.complete
    /\ IF InSlot(controller, Outcome.session, {"Disconnecting", "CleanupPending"})
       THEN /\ host' = [host EXCEPT !.cleaning = FALSE, !.coordinator = "host"]
            /\ controller' =
                 [session |-> 0, slot |-> Vacant,
                  page |-> IF controller.page = "Disconnecting"
                           THEN "ConnectionForm" ELSE controller.page]
            /\ exit' = ExitIfClean(exit, host')
            /\ UNCHANGED <<returnToForm, fault, armed, launchCancelled, launch, cleanup, live,
                           history>>
       ELSE InvalidState

AcceptCleanupFailure ==
    /\ OutcomeIs("CleanupFinished") /\ ~ Outcome.complete
    /\ Fatal([host EXCEPT !.cleaning = FALSE, !.coordinator = "lost"], live)
    /\ UNCHANGED <<controller, returnToForm, fault, armed, launch, cleanup, history>>

HandlePosted ==
    \/ HandleWake
    \/ AcceptStarted
    \/ AcceptCancelled
    \/ AcceptRolledBack
    \/ AcceptCleanup
    \/ AcceptCleanupFailure

-----------------------------------------------------------------------------
(***************************************************************************)
(* The launch thread (run_background_launch, launch_live_session): video   *)
(* worker, protocol session, audio worker and protocol worker in turn; a   *)
(* failure or a cancellation rolls back what was made so far.              *)
(***************************************************************************)
LaunchAt(step) == UiRuns /\ launch.step = step

Finish(started) ==
    /\ posted' = Append(posted, LaunchFinished(launch.session, started, launchCancelled))
    /\ launch' = Idle

GoOn(step) == launch' = [launch EXCEPT !.step = step] /\ UNCHANGED posted

LaunchSetWorkers(changed) == live' = [live EXCEPT ![launch.session] = changed]

launchUnchanged ==
    <<uiVars, armed, launchCancelled, cleanup, history>>

LaunchBegin ==
    /\ LaunchAt("begin")
    /\ \/ Finish(FALSE) /\ UNCHANGED live   \* cancelled, or no video worker
       \/ /\ ~ launchCancelled
          /\ LaunchSetWorkers([live[launch.session] EXCEPT !.video = "running"])
          /\ GoOn("create")
    /\ UNCHANGED launchUnchanged

\* stop_unpublished_video_worker waits a second; a worker that has not stopped
\* by then is left to itself.
RollBack ==
    /\ Finish(FALSE)
    /\ \E how \in {live[launch.session].video, "exited"} :
         LaunchSetWorkers([live[launch.session] EXCEPT !.stopVideo = TRUE, !.video = how])

\* ProtocolFactory::create may take any time.
LaunchCreate ==
    /\ LaunchAt("create")
    /\ \/ RollBack
       \/ ~ launchCancelled /\ GoOn("audio") /\ UNCHANGED live
    /\ UNCHANGED launchUnchanged

LaunchAudio ==
    /\ LaunchAt("audio")
    /\ \/ RollBack                          \* no audio worker
       \/ /\ LaunchSetWorkers([live[launch.session] EXCEPT !.audio = "waiting",
                                !.audioStart = IF launchCancelled THEN "dropped" ELSE "held"])
          /\ GoOn(IF launchCancelled THEN "joinAudio" ELSE "protocol")
    /\ UNCHANGED launchUnchanged

\* MUTANT: the audio worker is joined while its start is still held.
LaunchJoinsFirst ==
    /\ LaunchAt("protocol")
    /\ \/ GoOn("joinAudio") /\ UNCHANGED live
       \/ /\ LaunchSetWorkers([live[launch.session] EXCEPT !.protocol = "waiting",
                                                          !.audioStart = "sent"])
          /\ GoOn("publish")
    /\ UNCHANGED launchUnchanged

LaunchProtocol ==
    /\ LaunchAt("protocol")
    /\ \/ \* no protocol worker: the start of audio is dropped before it is joined
          /\ LaunchSetWorkers([live[launch.session] EXCEPT !.audioStart = "dropped"])
          /\ GoOn("joinAudio")
       \/ /\ LaunchSetWorkers([live[launch.session] EXCEPT !.protocol = "waiting",
                                                          !.audioStart = "sent"])
          /\ GoOn("publish")
    /\ UNCHANGED launchUnchanged

LaunchJoinAudio ==
    /\ LaunchAt("joinAudio")
    /\ live[launch.session].audio = "exited"
    /\ RollBack
    /\ UNCHANGED launchUnchanged

LaunchPublish ==
    /\ LaunchAt("publish")
    /\ Finish(TRUE)
    /\ UNCHANGED live
    /\ UNCHANGED launchUnchanged

LaunchStep ==
    LaunchBegin \/ LaunchAudio \/ LaunchProtocol \/ LaunchJoinAudio \/ LaunchPublish

-----------------------------------------------------------------------------
(***************************************************************************)
(* The workers of session s.                                               *)
(***************************************************************************)
workersUnchanged == <<uiVars, launchCancelled, launch, cleanup, history>>

\* ProtocolStartWaiter::wait
ProtocolStarts(s) ==
    /\ UiRuns
    /\ live[s].protocol = "waiting" /\ live[s].barrier # "Pending"
    /\ live' = [live EXCEPT ![s].protocol =
                    IF live[s].barrier = "Started" THEN "running" ELSE "exited"]
    /\ UNCHANGED <<posted, armed, workersUnchanged>>

\* Once the ports are dropped a send finds no receiver.
Send(s, e) ==
    IF host.active = s THEN Append(live[s].events, e) ELSE live[s].events

ProtocolReports(s, e) ==
    /\ UiRuns
    /\ live[s].protocol = "running" /\ e \notin live[s].reported
    /\ live' = [live EXCEPT ![s].events = Send(s, e), ![s].reported = @ \cup {e}]
    /\ PostWake
    /\ UNCHANGED workersUnchanged

\* session.run() returned; its runtime, and with it the media sender, is dropped.
ProtocolExits(s, e) ==
    /\ UiRuns
    /\ live[s].protocol = "running"
    /\ live' = [live EXCEPT ![s].protocol = "exited", ![s].events = Send(s, e),
                           ![s].reported = {}]
    /\ PostWake
    /\ UNCHANGED workersUnchanged

AudioStarts(s) ==
    /\ UiRuns
    /\ live[s].audio = "waiting" /\ live[s].audioStart # "held"
    /\ live' = [live EXCEPT ![s].audio =
                    IF live[s].audioStart = "sent" THEN "running" ELSE "exited"]
    /\ UNCHANGED <<posted, armed, workersUnchanged>>

\* drain_audio_media ends with the media channel.
AudioExits(s) ==
    /\ UiRuns
    /\ live[s].audio = "running" /\ live[s].protocol = "exited"
    /\ live' = [live EXCEPT ![s].audio = "exited"]
    /\ UNCHANGED <<posted, armed, workersUnchanged>>

\* The output device failed.
AudioFails(s) ==
    /\ UiRuns
    /\ live[s].audio = "running"
    /\ live' = [live EXCEPT ![s].audio = "exited"]
    /\ PostWake
    /\ UNCHANGED workersUnchanged

VideoExits(s, how) ==
    /\ UiRuns
    /\ live[s].video = "running" /\ (live[s].stopVideo \/ how = "panicked")
    /\ live' = [live EXCEPT ![s].video = how]
    /\ UNCHANGED <<posted, armed, workersUnchanged>>

WorkerStep(s) ==
    \/ ProtocolStarts(s)
    \/ live[s].disconnect /\ ProtocolExits(s, "Closed")
    \/ AudioStarts(s)
    \/ AudioExits(s)
    \/ VideoExits(s, "exited")

-----------------------------------------------------------------------------
(***************************************************************************)
(* The cleanup thread (run_cleanup, complete_cleanup): the steps of an     *)
(* attempt that succeeded are not repeated by the next.                    *)
(***************************************************************************)
CleanupAt(done) == UiRuns /\ cleanup.session # 0 /\ cleanup.done = done

cleanupUnchanged ==
    <<uiVars, armed, launchCancelled, launch, history>>

DidStep(step) == cleanup' = [cleanup EXCEPT !.done = @ \cup {step}]

CleanupCancel ==
    /\ CleanupAt({})
    /\ live' = TellDisconnect(live, cleanup.session)
    /\ DidStep("cancel")
    /\ UNCHANGED <<posted, cleanupUnchanged>>

CleanupShutdownWriter ==
    /\ CleanupAt({"cancel"})
    /\ live' = [live EXCEPT ![cleanup.session].stopVideo = TRUE]
    /\ DidStep("writer")
    /\ UNCHANGED <<posted, cleanupUnchanged>>

\* MUTANT: only the protocol worker is joined.
JoinableAlone(w) == w.protocol = "exited"

\* The handles of finished workers are taken: a panic is reported once.
Joinable(w) == w.protocol = "exited" /\ w.audio = "exited" /\ w.video = "exited"

CleanupJoin ==
    /\ CleanupAt({"cancel", "writer"})
    /\ IF Joinable(live[cleanup.session])
       THEN DidStep("join") /\ UNCHANGED <<live, posted>>
       ELSE /\ live' = [live EXCEPT ![cleanup.session].video = IF @ = "panicked" THEN "exited" ELSE @]
            /\ IF cleanup.attempt = MaxAttempts
               THEN /\ posted' = Append(posted, CleanupFinished(cleanup.session, FALSE))
                    /\ cleanup' = NoCleanup
               ELSE /\ cleanup' = [cleanup EXCEPT !.attempt = @ + 1]
                    /\ UNCHANGED posted
    /\ UNCHANGED cleanupUnchanged

CleanupDispose ==
    /\ CleanupAt({"cancel", "writer", "join"})
    /\ posted' = Append(posted, CleanupFinished(cleanup.session, TRUE))
    /\ cleanup' = NoCleanup
    /\ UNCHANGED <<live, cleanupUnchanged>>

CleanupStep == CleanupCancel \/ CleanupShutdownWriter \/ CleanupJoin \/ CleanupDispose

-----------------------------------------------------------------------------
LifecycleNext ==
    \/ \E s \in Sessions : Connect(s)
    \/ Cancel
    \/ ReturnToConnection
    \/ Close
    \/ ShutdownTimeout
    \/ HandlePosted
    \/ HandleRedraw
    \/ PresentationFails
    \/ LaunchStep
    \/ LaunchCreate
    \/ CleanupStep
    \/ \E s \in Sessions :
         \/ WorkerStep(s)
         \/ \E e \in {"TransportReady", "Disconnecting"} : ProtocolReports(s, e)
         \/ \E e \in {"Closed", "Failed"} : ProtocolExits(s, e)
         \/ AudioFails(s)
         \/ VideoExits(s, "panicked")

(***************************************************************************)
(* The event loop handles what is posted and its timers, the threads of    *)
(* the application run, and a protocol that was told to disconnect ends.   *)
(* Nothing is assumed of the user, of a protocol that was not, and of      *)
(* ProtocolFactory::create, which may never return.                        *)
(***************************************************************************)
LifecycleSpec ==
    /\ LifecycleInit /\ [][LifecycleNext]_allVars
    /\ WF_allVars(HandlePosted)
    /\ WF_allVars(ShutdownTimeout)
    /\ WF_allVars(LaunchStep)
    /\ WF_allVars(CleanupStep)
    /\ \A s \in Sessions : WF_allVars(WorkerStep(s))

-----------------------------------------------------------------------------
(***************************************************************************)
(* Between two callbacks the controller's slot is occupied exactly when    *)
(* the host works on that session: it launches it, holds its cleanup       *)
(* handle, cleans it up, or its lost cleanup is still to be reported.      *)
(* Neither part of the program reads the other's state (controller.rs,     *)
(* ActiveSessionSlot; application.rs, SessionHost::is_active).  So no      *)
(* event finds the application in a state it reports as InvalidState, and  *)
(* the coordinator is at home whenever a launch or a cleanup takes it      *)
(* ("idle session host owns its coordinator", application.rs:909, 1288).   *)
(***************************************************************************)
CleanupLost == \E i \in 1..Len(posted) :
    posted[i].kind = "CleanupFinished" /\ ~ posted[i].complete

SlotTracksHost ==
    /\ fault = "None"
    /\ UiRuns =>
      /\ controller.slot # Vacant <=> IsActive(host) \/ CleanupLost
      /\ controller.session = controller.slot.session
      /\ host.handle \in {0, controller.session}
      /\ host.active = host.handle
      /\ host.launching => controller.slot.phase = "Connecting" /\ controller.page = "Connecting"
      /\ host.cleaning => controller.slot.phase \in {"Disconnecting", "CleanupPending"}
      /\ returnToForm => host.launching

(***************************************************************************)
(* A launch that was cancelled while it was pending never runs its         *)
(* protocol, however late the cancellation came (accept_launch_outcome).   *)
(***************************************************************************)
CancelWins == \A s \in cancelled : live[s].protocol # "running"

(***************************************************************************)
(* A session's workers are gone before the next session is launched: two   *)
(* protocols never run against one window or audio device.  The decoder of *)
(* a launch that was rolled back is not counted: the launch thread waits   *)
(* for it only for a second (join_workers_and_audio, launch_live_session). *)
(* And the event loop ends without a fatal report only when nothing is     *)
(* left running (maybe_finish_exit, begin_shutdown).                       *)
(***************************************************************************)
Works(s) ==
    \/ live[s].protocol \in {"waiting", "running"}
    \/ live[s].audio \in {"waiting", "running"}
    \/ live[s].protocol # "none" /\ live[s].video = "running"

WorkersGoneInTime ==
    /\ UiRuns => \A s, t \in Sessions : Works(s) /\ Works(t) => s = t
    /\ exit.done /\ ~ exit.fatal => CleanupLost \/ \A s \in Sessions : ~ Works(s)

(***************************************************************************)
(* Closing the window ends the application, even if the launch hangs or    *)
(* the workers do not stop.                                                *)
(***************************************************************************)
CloseLeadsToExit == closing ~> exit.done

(***************************************************************************)
(* A session that ended, or was told to, gives its slot back: the user can *)
(* connect again.                                                          *)
(***************************************************************************)
SessionEnds ==
    \A s \in Sessions :
        live[s].disconnect \/ live[s].protocol = "exited"
            ~> controller.slot.session # s \/ exit.done

(***************************************************************************)
(* Once the factory has returned the launch thread comes to an end: it     *)
(* waits for no worker that waits for it.                                  *)
(***************************************************************************)
LaunchAnswers ==
    launch.step \notin {"none", "begin", "create"} ~> launch.step = "none" \/ exit.done

=============================================================================
