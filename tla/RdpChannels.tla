---------------------------- MODULE RdpChannels ----------------------------
(***************************************************************************)
(* The active loop of an RDP session and the channels it serves            *)
(* (crates/frd-protocol-rdp/src/active_session.rs and runtime.rs): display *)
(* control, clipboard and audio beside the graphics, the commands of the   *)
(* user interface, and the reactivation that replaces the desktop.  One    *)
(* thread runs it all; what it meets, and when, is up to the user and the  *)
(* server.                                                                 *)
(*                                                                         *)
(* The server says what it has to say when the loop reads.  What the       *)
(* client sent waits in `wire' (RdpClipboard) and `requests'.              *)
(***************************************************************************)
EXTENDS RdpClipboard, RdpDisplay, RdpAudio

CONSTANTS
    Sizes,        \* desktop sizes, positive numbers
    FirstSize,    \* the desktop the connection was made with
    AreaLimits,   \* what display control may allow
    MaxUser,      \* bound: what the user does
    MaxServer     \* bound: what the server does unasked

ASSUME SizesAssumption ==
    Sizes \subseteq Nat \ {0} /\ FirstSize \in Sizes /\ AreaLimits \subseteq Nat

VARIABLES
    display,    \* DisplayControlAdapter
    caps,       \* RecordedDisplayCapability: max_monitor_area
    requests,   \* resize requests sent and not yet answered
    audio,      \* AudioStateInner
    announced,  \* published_capabilities.remote_audio
    told,       \* history: the last AudioState published
    screen,     \* generation, the size of its surface, the size of the image
    loop,       \* where run_active_loop stands, and DisplayRetryState.pending
    commands,   \* ProtocolRuntime.commands
    user,       \* the user: the generation in view, its size, the window's size
    spent       \* how much of the bounds is used up

audioVars == <<audio, announced, told>>
displayVars == <<display, caps, requests>>
outside == <<commands, user>>
vars == <<clipboardVars, displayVars, audioVars, screen, loop, outside, spent>>

Command(kind, generation, n) == [kind |-> kind, generation |-> generation, n |-> n]

Init ==
    /\ ClipboardInit
    /\ display = NewDisplay(FirstSize) /\ caps = 0 /\ requests = <<>>
    /\ audio = NewAudio /\ announced = FALSE /\ told = NoState
    /\ screen = [generation |-> 1, surface |-> FirstSize, image |-> FirstSize]
    /\ loop = [pc |-> "refresh", serving |-> FALSE, retry |-> FALSE, asked |-> NoSize]
    /\ commands = <<>>
    /\ user = [sees |-> 0, desktop |-> NoSize, window |-> FirstSize, texts |-> 0]
    /\ spent = [user |-> 0, server |-> 0]

At(pc) == loop.pc = pc
Goto(pc) == loop' = [loop EXCEPT !.pc = pc]

-----------------------------------------------------------------------------
(***************************************************************************)
(* The user.  Commands carry the generation that was interactive when they *)
(* were made; send_viewport_changed also runs when the first frame of a    *)
(* generation has been presented.                                          *)
(***************************************************************************)
Spend == spent.user < MaxUser /\ spent' = [spent EXCEPT !.user = @ + 1]
Send(c) == commands' = Append(commands, c)
UserActs ==
    ~ At("ended") /\ UNCHANGED <<clipboardVars, displayVars, audioVars, screen, loop>>

SeeGeneration ==
    /\ user.sees < screen.generation
    /\ user' = [user EXCEPT !.sees = screen.generation, !.desktop = screen.surface]
    /\ Send(Command("viewport", screen.generation, user.window))
    /\ UserActs /\ UNCHANGED spent

ResizeWindow(size) ==
    /\ user.sees # 0 /\ size # user.window
    /\ user' = [user EXCEPT !.window = size]
    /\ Send(Command("viewport", user.sees, size))
    /\ UserActs /\ Spend

\* An input is made for the desktop in view.
PressKey ==
    /\ user.sees # 0
    /\ Send(Command("input", user.sees, user.desktop))
    /\ UserActs /\ Spend /\ UNCHANGED user

CopyText ==
    /\ user.sees # 0
    /\ user' = [user EXCEPT !.texts = @ + 1]
    /\ Send(Command("text", user.sees, user.texts + 1))
    /\ UserActs /\ Spend

-----------------------------------------------------------------------------
(***************************************************************************)
(* The pass: refresh_optional_capabilities, the commands, the channels,    *)
(* the capabilities again, then the read.                                  *)
(***************************************************************************)
Refresh ==
    /\ At("refresh")
    /\ loop' = [loop EXCEPT !.pc = IF loop.serving THEN "read" ELSE "commands",
                            !.serving = FALSE]
    /\ display' = SetNegotiated(display, caps)
    /\ audio' = OfferJudged(audio)
    /\ announced' = RemoteAudio(audio')
    /\ told' = IF announced' /\ ~ announced THEN "Starting" ELSE told
    /\ UNCHANGED <<clipboardVars, caps, requests, screen, outside, spent>>

\* MUTANT: commands of an earlier generation are not filtered.
CurrentAny(c) == TRUE

\* ProtocolRuntime::try_next_command drops what was made for another generation.
Current(c) == c.kind = "text" \/ c.generation = screen.generation

\* route_input_events sends an input to the server.
Routes(c) == At("commands") /\ ~ loop.retry /\ c.kind = "input" /\ Current(c)

(***************************************************************************)
(* drain_active_commands; drain_reactivation_commands while a desktop is   *)
(* quarantined or replaced, which keeps viewports only.                    *)
(***************************************************************************)
TakeCommand ==
    /\ At("commands") \/ At("react")
    /\ commands # <<>>
    /\ commands' = Tail(commands)
    /\ LET c == Head(commands) IN
       /\ display' = IF c.kind = "viewport" /\ Current(c) THEN Observe(display, c.n) ELSE display
       /\ IF c.kind = "text" /\ At("commands") /\ ~ loop.retry
          THEN WriteText(c.n) ELSE UNCHANGED clipboardVars
    /\ UNCHANGED <<caps, requests, audioVars, screen, loop, user, spent>>

\* A quarantined desktop reads before it serves a channel.
CommandsTaken ==
    /\ At("commands") /\ commands = <<>>
    /\ loop' = IF loop.retry THEN [loop EXCEPT !.pc = "read"]
               ELSE [loop EXCEPT !.pc = "service", !.serving = TRUE]
    /\ UNCHANGED <<clipboardVars, displayVars, audioVars, screen, outside, spent>>

\* service_optional_channels: an action that comes to nothing ends the pass
\* over the clipboard, what is left waits for the next.
ServeClipboard ==
    /\ At("service")
    /\ ServiceAction
    /\ loop' = IF IsVoid(Head(actions)) THEN [loop EXCEPT !.pc = "send"] ELSE loop
    /\ UNCHANGED <<displayVars, audioVars, screen, outside, spent>>

\* send_pending_resize, then drain_to_runtime, which the media port may refuse.
SendAndDrain(refused) ==
    /\ At("send") \/ (At("service") /\ actions = <<>>)
    /\ refused => audio.frames > 0
    /\ display' = RequestTaken(display)
    /\ requests' = IF TakesRequest(display) THEN Append(requests, display.queued)
                   ELSE requests
    /\ audio' = IF refused THEN DrainedRefused(audio) ELSE DrainedAll(audio)
    /\ told' = IF refused THEN "Failed" ELSE ToldAll(audio, told)
    /\ Goto("refresh")
    /\ UNCHANGED <<clipboardVars, caps, announced, screen, outside, spent>>

-----------------------------------------------------------------------------
(***************************************************************************)
(* The read: what the server sent.  Answers are free, the rest is bounded. *)
(***************************************************************************)
Unasked == spent.server < MaxServer /\ spent' = [spent EXCEPT !.server = @ + 1]
Reads == At("read") /\ Goto("service") /\ UNCHANGED <<screen, outside>>

ReadNothing ==
    /\ At("read") /\ Goto("refresh")
    /\ UNCHANGED <<clipboardVars, displayVars, audioVars, screen, outside, spent>>

ReadGraphics == Reads /\ UNCHANGED <<clipboardVars, displayVars, audioVars, spent>>

ReadClipboard ==
    /\ Reads
    /\ \/ (\E ok \in BOOLEAN : ReadListReply(ok) \/ ReadData(ok)) /\ UNCHANGED spent
       \/ (ReadMonitorReady \/ \E unicode \in BOOLEAN : ReadFormatList(unicode)) /\ Unasked
       \/ ReadDataRequest /\ Unasked
    /\ UNCHANGED <<displayVars, audioVars>>

\* The display control channel tells its limits, again or for the first time.
ReadCaps(limit) ==
    /\ Reads /\ Unasked /\ limit # caps
    /\ caps' = limit
    /\ UNCHANGED <<clipboardVars, display, requests, audioVars>>

ReadAudio ==
    /\ Reads
    /\ \/ (\E exact \in BOOLEAN : audio' = OfferBegun(audio, exact)) /\ Unasked
       \/ (\E ok \in BOOLEAN : audio' = WaveAccepted(audio, ok))
              /\ audio.current /\ UNCHANGED spent
       \/ audio' = Stopped(audio) /\ audio' # audio /\ Unasked
    /\ UNCHANGED <<clipboardVars, displayVars, announced, told>>

(***************************************************************************)
(* DeactivateAll: the sound stops, input is released, the capabilities go. *)
(* The server answers a request, or resizes its desktop on its own.        *)
(***************************************************************************)
ReadDeactivate(asked) ==
    /\ At("read") /\ loop' = [loop EXCEPT !.pc = "react", !.asked = asked]
    /\ audio' = DrainedAll(Stopped(audio))
    /\ told' = ToldAll(Stopped(audio), told)
    /\ announced' = FALSE
    /\ UNCHANGED <<clipboardVars, display, caps, screen, outside>>

AnswerResize ==
    /\ requests # <<>> /\ requests' = Tail(requests)
    /\ ReadDeactivate(Head(requests)) /\ UNCHANGED spent
ResizeDesktop == ReadDeactivate(NoSize) /\ Unasked /\ UNCHANGED requests

\* A request that is still allowed is granted.
Desktops == IF loop.asked # NoSize /\ loop.asked <= caps THEN {loop.asked} ELSE Sizes

-----------------------------------------------------------------------------
\* MUTANT: what is in flight under a capability that is gone stays in flight.
AdoptedInFlight(target) ==
    IF Confirmation(display, target, caps) = "StaleCapability"
    THEN SetNegotiated(display, caps) ELSE Reactivated(display, target, caps)

Adopted(target) == Reactivated(display, target, caps)

(***************************************************************************)
(* drive_reactivation reaches Finalized: finalize_reactivated_surface and  *)
(* apply_reactivation_outcome, or the error that ends the session and      *)
(* resets the clipboard.                                                   *)
(***************************************************************************)
Continues(retry) ==
    /\ loop' = [loop EXCEPT !.pc = "service", !.retry = retry, !.asked = NoSize]
    /\ UNCHANGED clipboardVars

Finalize(target) ==
    LET outcome == Confirmation(display, target, caps) IN
    /\ At("react")
    /\ display' = Adopted(target)
    /\ CASE outcome = "Mismatch" ->
                /\ Goto("ended")
                /\ clip' = NewClip /\ actions' = <<>>
                /\ UNCHANGED <<wire, peer, screen>>
         [] outcome = "StaleCapability" ->
                /\ Continues(TRUE)
                /\ screen' = [screen EXCEPT !.image = target]
         [] outcome \in {"NoRequest", "Confirmed"} ->
                /\ Continues(FALSE)
                /\ screen' = [generation |-> screen.generation + 1, surface |-> target,
                              image |-> target]
    /\ UNCHANGED <<caps, requests, audioVars, outside, spent>>

-----------------------------------------------------------------------------
LoopStep ==
    \/ Refresh \/ TakeCommand \/ CommandsTaken \/ ServeClipboard
    \/ \E refused \in BOOLEAN : SendAndDrain(refused)
    \/ ReadNothing
    \/ \E target \in Desktops : Finalize(target)

Next ==
    \/ SeeGeneration \/ PressKey \/ CopyText
    \/ \E size \in Sizes : ResizeWindow(size)
    \/ LoopStep
    \/ ReadGraphics \/ ReadClipboard \/ ReadAudio
    \/ \E limit \in AreaLimits : ReadCaps(limit)
    \/ AnswerResize \/ ResizeDesktop

(***************************************************************************)
(* The loop runs.  The server goes on drawing and answers the requests it  *)
(* reads: without the first the loop meets its read timeout for ever, and  *)
(* a quarantined desktop serves no channel then (active_session.rs:188).   *)
(***************************************************************************)
Fairness ==
    WF_vars(LoopStep) /\ SF_vars(ReadGraphics) /\ SF_vars(AnswerResize)
Spec == Init /\ [][Next]_vars /\ Fairness

-----------------------------------------------------------------------------
(***************************************************************************)
(* An input reaches the server only for the desktop it was made for:       *)
(* neither one made before a reactivation, nor one made for the surface a  *)
(* quarantined desktop has replaced on the server (lib.rs:854).            *)
(***************************************************************************)
InputOnItsDesktop ==
    commands # <<>> /\ Routes(Head(commands)) => Head(commands).n = screen.image

(***************************************************************************)
(* Sound that waits to be played was announced and has not been called     *)
(* stopped or failed since: nothing of an old offer, of a stream that      *)
(* failed or of a desktop that was replaced stays queued (audio.rs:233).   *)
(***************************************************************************)
SoundAnnounced ==
    audio.frames > 0 => announced /\ told \in {"Starting", "Playing"}

\* A quarantine ends once a resize that the server allows is under way
\* (display.rs:99), by its confirmation or with the session.
ResizeWanted == display.queued # NoSize \/ display.inFlight # NoSize
QuarantineEnds ==
    loop.retry /\ ResizeWanted ~> ~ loop.retry \/ At("ended") \/ ~ ResizeWanted
=============================================================================
