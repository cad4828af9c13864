----------------------------- MODULE RdpDisplay -----------------------------
(***************************************************************************)
(* DisplayControlAdapter (crates/frd-protocol-rdp/src/display.rs): which   *)
(* size the client asks the server's desktop to have.  One request is in   *)
(* flight until the server reactivates, the newest other target waits.     *)
(* A size is a number that grows with its area; 0 is none, and so is a     *)
(* max_monitor_area of 0: the channel is not negotiated.                   *)
(***************************************************************************)
EXTENDS Naturals

NoSize == 0

NewDisplay(size) ==
    [max |-> 0, confirmed |-> size, queued |-> NoSize, inFlight |-> NoSize]

WithinServerArea(d, target) == d.max # 0 /\ target <= d.max

SetNegotiated(d, max) ==
    LET n == [d EXCEPT !.max = max] IN
    IF WithinServerArea(n, n.queued) THEN n ELSE [n EXCEPT !.queued = NoSize]

\* observe_viewport
Observe(d, target) ==
    IF d.max = 0 /\ d.inFlight = NoSize THEN d
    ELSE [d EXCEPT !.queued =
              IF \/ d.max # 0 /\ ~ WithinServerArea(d, target)
                 \/ d.inFlight # NoSize /\ target = d.inFlight
                 \/ d.inFlight = NoSize /\ target = d.confirmed
              THEN NoSize ELSE target]

\* take_resize_request
TakesRequest(d) ==
    d.max # 0 /\ d.inFlight = NoSize /\ WithinServerArea(d, d.queued) /\ d.queued # NoSize
RequestTaken(d) ==
    IF TakesRequest(d) THEN [d EXCEPT !.inFlight = d.queued, !.queued = NoSize] ELSE d

(***************************************************************************)
(* confirm_reactivation: only the size that was asked for confirms, unless *)
(* the capability it was asked under has shrunk or is gone.                *)
(***************************************************************************)
Confirmation(d, observed, max) ==
    IF d.inFlight = NoSize THEN "NoRequest"
    ELSE IF ~ WithinServerArea([d EXCEPT !.max = max], d.inFlight) THEN "StaleCapability"
    ELSE IF d.inFlight # observed THEN "Mismatch" ELSE "Confirmed"

Reactivated(d, observed, max) ==
    LET n == SetNegotiated(d, max) IN
    CASE Confirmation(d, observed, max) = "NoRequest" -> [n EXCEPT !.confirmed = observed]
      [] Confirmation(d, observed, max) = "StaleCapability" -> [n EXCEPT !.inFlight = NoSize]
      [] Confirmation(d, observed, max) = "Mismatch" -> n
      [] Confirmation(d, observed, max) = "Confirmed" ->
             [n EXCEPT !.confirmed = observed, !.inFlight = NoSize]
=============================================================================
