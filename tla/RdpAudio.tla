------------------------------ MODULE RdpAudio ------------------------------
(***************************************************************************)
(* RdpAudioAdapter (crates/frd-protocol-rdp/src/audio.rs): the server      *)
(* offers formats, the loop judges the offer when it refreshes the         *)
(* capabilities, and waves queue until the loop drains them to the media   *)
(* port.  The lock is never contended: every call is made by the active    *)
(* loop, so an operator here is one call.                                  *)
(***************************************************************************)
EXTENDS Naturals

CONSTANT FrameLimit  \* MAX_QUEUED_PCM_FRAMES

NoState == "none"

\* AudioStateInner; `offer' is the offer that waits to be judged.
NewAudio == [offer |-> "none", current |-> FALSE, degraded |-> FALSE, playing |-> FALSE,
             state |-> NoState, frames |-> 0]

\* begin_server_offer: the server's list holds the exact format, or not.
OfferBegun(a, exact) == [NewAudio EXCEPT !.offer = IF exact THEN "exact" ELSE "other"]

\* observe_negotiation
OfferJudged(a) ==
    IF a.offer = "none" THEN a
    ELSE [a EXCEPT !.offer = "none", !.current = a.offer = "exact"]

RemoteAudio(a) == a.current /\ ~ a.degraded

\* MUTANT: what was queued when the stream fails stays.
DegradedFull(a) == [a EXCEPT !.offer = "none", !.current = FALSE, !.degraded = TRUE,
                             !.playing = FALSE, !.state = "Failed"]

Degraded(a) == [a EXCEPT !.offer = "none", !.current = FALSE, !.degraded = TRUE,
                         !.playing = FALSE, !.frames = 0, !.state = "Failed"]

\* accept_wave
WaveAccepted(a, wellFormed) ==
    IF ~ a.current \/ a.degraded THEN a
    ELSE IF ~ wellFormed \/ a.frames >= FrameLimit THEN Degraded(a)
    ELSE [a EXCEPT !.frames = @ + 1]

Stopped(a) ==
    [a EXCEPT !.state = IF (a.current \/ a.playing) /\ ~ a.degraded THEN "Stopped" ELSE @,
              !.offer = "none", !.current = FALSE, !.playing = FALSE, !.frames = 0]

(***************************************************************************)
(* drain_to_runtime: the state that waits is published, then the frames,   *)
(* until the media port refuses one.  `told' is the last AudioState the    *)
(* user interface was told.                                                *)
(***************************************************************************)
Told(a, told) == IF a.state # NoState THEN a.state ELSE told
DrainedAll(a) == [a EXCEPT !.state = NoState, !.frames = 0, !.playing = @ \/ a.frames > 0]
ToldAll(a, told) == IF a.frames > 0 /\ ~ a.playing THEN "Playing" ELSE Told(a, told)
DrainedRefused(a) == [Degraded(a) EXCEPT !.state = NoState]
=============================================================================
