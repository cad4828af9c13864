---------------------------- MODULE VideoReceive ----------------------------
(***************************************************************************)
(* A video stream of an Apple High Performance session, from the server's  *)
(* packets to what the decoder is given: SRTP (srtp.rs), reassembly        *)
(* (HevcAssembly), the receive state (VideoReceiveState, media_runtime.rs) *)
(* and the adapter that publishes (high_performance_video.rs), all of      *)
(* crates/frd-protocol-apple/src.  The network loses, repeats and reorders.*)
(*                                                                         *)
(* The server may start its stream anew under another SSRC; every stream   *)
(* has its own numbers and begins with a complete random-access picture.   *)
(***************************************************************************)
EXTENDS HevcAssembly

CONSTANTS
    FirstNumber,   \* the sequence number a stream begins with
    ReplayWindow,  \* SRTP_REPLAY_WINDOW_BITS
    MaxRetired,    \* MAX_RETIRED_VIDEO_SSRCS
    MaxPackets,    \* bound: the packets the server sends
    MaxStreams     \* bound: how often it starts a stream, at first included

ASSUME ReceiveAssumption ==
    /\ FirstNumber \in 0..(SequenceSpace - 1) /\ ReplayWindow \in 1..Half
    /\ MaxRetired \in Nat /\ MaxPackets \in Nat /\ MaxStreams \in Nat \ {0}

VARIABLES
    sent,       \* every packet sent, in order
    opened,     \* SrtpReceiver: for each SSRC the numbers accepted
    assembler,  \* HevcAccessUnitAssembler
    receive,    \* the rest of VideoReceiveState, and the adapter
    published,  \* what the last publication gave the decoder, and the picture before
    asked       \* history: a picture-loss report was sent since then

vars == <<sent, opened, assembler, receive, published, asked>>

Init ==
    /\ sent = <<>>
    /\ opened = [s \in 1..MaxStreams |-> {}]
    /\ assembler = NewAssembler
    /\ receive = [ssrc |-> 0, retired |-> {}, replacing |-> FALSE, backpressured |-> FALSE,
                  request |-> FALSE, configured |-> FALSE, failed |-> "no"]
    /\ published = [units |-> <<>>, before |-> [ssrc |-> 0, picture |-> 0]]
    /\ asked = FALSE

-----------------------------------------------------------------------------
(* The server and the network *)

\* How a picture is cut into packets.
KeyParts == {<<"sets", "slice">>, <<"slice">>}
DeltaParts == {<<"slice">>, <<"start", "end">>, <<"slice", "slice">>}

LastSent == sent[Len(sent)]
Packets(ssrc, number, key, parts) ==
    [i \in DOMAIN parts |->
        [ssrc |-> ssrc, number |-> number + i - 1, kind |-> parts[i], key |-> key,
         picture |-> IF sent = <<>> THEN 1 ELSE LastSent.picture + 1,
         marker |-> i = Len(parts)]]

SendPicture(key, parts) ==
    /\ sent # <<>> /\ Len(sent) + Len(parts) <= MaxPackets
    /\ sent' = sent \o Packets(LastSent.ssrc, LastSent.number + 1, key, parts)
    /\ UNCHANGED <<opened, assembler, receive, published, asked>>

StartStream(parts) ==
    /\ parts[1] = "sets" /\ Len(sent) + Len(parts) <= MaxPackets
    /\ sent # <<>> => LastSent.ssrc < MaxStreams
    /\ sent' = sent \o Packets(IF sent = <<>> THEN 1 ELSE LastSent.ssrc + 1,
                               FirstNumber, TRUE, parts)
    /\ UNCHANGED <<opened, assembler, receive, published, asked>>

\* A packet may come late, but not as late as half of the sequence space.
InTheAir == {i \in DOMAIN sent : i > Len(sent) - Half}

-----------------------------------------------------------------------------
(***************************************************************************)
(* SrtpReceiver::open: the rollover counter is a guess from the sequence   *)
(* number, and a wrong one fails the authentication.                       *)
(***************************************************************************)
Highest(ssrc) == CHOOSE n \in opened[ssrc] : \A m \in opened[ssrc] : m <= n

\* MUTANT: a step of half the space backwards counts as one forwards.
EstimatedCoarse(p) ==
    IF opened[p.ssrc] = {} THEN 0 ELSE Highest(p.ssrc) \div SequenceSpace

\* estimate_rollover_counter
Estimated(p) ==
    IF opened[p.ssrc] = {} THEN 0
    ELSE LET highest == Highest(p.ssrc) % SequenceSpace
             rollover == Highest(p.ssrc) \div SequenceSpace
         IN  IF highest < Half /\ Sequence(p) > highest + Half
             THEN IF rollover = 0 THEN 0 ELSE rollover - 1
             ELSE IF highest >= Half /\ Sequence(p) < highest - Half
             THEN rollover + 1
             ELSE rollover

Authentic(p) == Estimated(p) = p.number \div SequenceSpace

\* is_replay_or_too_old
Replayed(p) ==
    /\ opened[p.ssrc] # {}
    /\ p.number \in opened[p.ssrc] \/ Highest(p.ssrc) - p.number >= ReplayWindow

-----------------------------------------------------------------------------
(***************************************************************************)
(* publish_access_unit, for the units one packet completed: the media port *)
(* takes `room' publications of them.  The configuration goes first, once. *)
(***************************************************************************)
\* MUTANT: the adapter waits for a random-access picture nobody asks for.
LostInSilence(v) == [v EXCEPT !.full = TRUE, !.receive.backpressured = TRUE]

Lost(v) == [v EXCEPT !.full = TRUE, !.receive.request = TRUE, !.receive.backpressured = TRUE]

Publish(v, unit) ==
    LET w == IF v.receive.configured THEN v
             ELSE [v EXCEPT !.room = @ - 1, !.receive.configured = TRUE]
    IN  IF ~ v.receive.configured /\ ~ unit.sets
        THEN [v EXCEPT !.receive.backpressured = FALSE]
        ELSE IF ~ v.receive.configured /\ v.room = 0 THEN Lost(v)
        ELSE IF w.room = 0 THEN Lost(w)
        ELSE [w EXCEPT !.room = @ - 1, !.units = Append(@, unit),
                       !.receive.backpressured = FALSE]

AcceptUnit(v, unit) ==
    IF \/ v.full
       \/ (v.receive.replacing \/ v.receive.backpressured) /\ ~ unit.keyframe
    THEN v
    ELSE Publish([v EXCEPT !.receive.replacing = FALSE], unit)

Accepted(r, units, room) ==
    LET given[i \in 0..Len(units)] ==
          IF i = 0 THEN [receive |-> r, units |-> <<>>, room |-> room, full |-> FALSE]
          ELSE AcceptUnit(given[i - 1], units[i])
    IN  given[Len(units)]

Tolerated(r, error) ==
    /\ error \in {"MissingInitialParameterSets", "FuContinuationWithoutStart"}
    /\ r.replacing \/ r.backpressured

Published(units) ==
    /\ published' =
        IF units = <<>> THEN published
        ELSE [units |-> units,
              before |-> IF published.units = <<>> THEN published.before
                         ELSE LET last == published.units[Len(published.units)].parts[1]
                              IN  [ssrc |-> last.ssrc, picture |-> last.picture]]
    /\ asked' = (asked /\ units = <<>>)

(***************************************************************************)
(* accept_rtp.  Another SSRC replaces the active one, for good.            *)
(***************************************************************************)
Switched(ssrc) ==
    [receive EXCEPT !.ssrc = ssrc, !.retired = @ \cup {receive.ssrc}, !.request = FALSE,
                    !.replacing = TRUE, !.backpressured = FALSE, !.configured = FALSE]

Ignores(p) ==
    /\ receive.ssrc \notin {0, p.ssrc}
    /\ p.ssrc \in receive.retired \/ Cardinality(receive.retired) = MaxRetired

AcceptRtp(p, room) ==
    LET switches == receive.ssrc \notin {0, p.ssrc}
        r == IF switches THEN Switched(p.ssrc) ELSE [receive EXCEPT !.ssrc = p.ssrc]
        push == Push(IF switches THEN NewAssembler ELSE assembler, p)
        v == Accepted(r, push.units, room)
    IN  CASE push.error = "no" ->
                /\ receive' = v.receive
                /\ assembler' = IF v.full THEN NewAssembler ELSE push.a
                /\ Published(v.units)
          [] push.error = "ReorderWindowExceeded" ->
                /\ receive' = [r EXCEPT !.request = TRUE]
                /\ assembler' = push.a
                /\ UNCHANGED <<published, asked>>
          [] Tolerated(r, push.error) ->
                /\ receive' = r /\ assembler' = NewAssembler
                /\ UNCHANGED <<published, asked>>
          [] OTHER ->
                /\ receive' = [r EXCEPT !.failed = push.error]
                /\ assembler' = push.a
                /\ UNCHANGED <<published, asked>>

-----------------------------------------------------------------------------
Running == receive.failed = "no"

\* try_recv_decrypted
Deliver(p, room) ==
    /\ Running
    /\ Authentic(p) /\ ~ Replayed(p)
    /\ opened' = [opened EXCEPT ![p.ssrc] = @ \cup {p.number}]
    /\ IF Ignores(p) THEN UNCHANGED <<assembler, receive, published, asked>>
       ELSE AcceptRtp(p, room)
    /\ UNCHANGED sent

\* The end of the round takes the request, the next tick reports it.
Report ==
    /\ Running /\ receive.request
    /\ receive' = [receive EXCEPT !.request = FALSE]
    /\ asked' = TRUE
    /\ UNCHANGED <<sent, opened, assembler, published>>

Rooms == 0..(ReorderWindow + 1)

Next ==
    \/ \E parts \in KeyParts : StartStream(parts) \/ SendPicture(TRUE, parts)
    \/ \E parts \in DeltaParts : SendPicture(FALSE, parts)
    \/ \E i \in InTheAir, room \in Rooms : Deliver(sent[i], room)
    \/ Report

Spec == Init /\ [][Next]_vars

-----------------------------------------------------------------------------
(***************************************************************************)
(* What the decoder is given as a picture is one picture the server sent,  *)
(* whole and in order: never two halves of two, never one with a hole.     *)
(***************************************************************************)
PictureOf(p) == {i \in DOMAIN sent : sent[i].ssrc = p.ssrc /\ sent[i].picture = p.picture}
WholePictures ==
    \A k \in DOMAIN published.units :
        LET parts == published.units[k].parts IN
        \E first \in DOMAIN sent :
            /\ PictureOf(parts[1]) = first..(first + Len(parts) - 1)
            /\ parts = [i \in 1..Len(parts) |-> sent[first + i - 1]]

(***************************************************************************)
(* A picture that refers to the one before it is given right after that    *)
(* one, whatever was lost, refused or replaced in between; and pictures of *)
(* one stream are given in the order they were sent, as long as the channel*)
(* has room.  When it was full the assembler begins anew, and then a late  *)
(* random-access picture may be older than the one before; so may the first*)
(* of an older stream, if the newer one was seen first and is replaced.    *)
(***************************************************************************)
Before(k) ==
    IF k = 1 THEN published.before
    ELSE LET last == published.units[k - 1].parts[1]
         IN  [ssrc |-> last.ssrc, picture |-> last.picture]
ReferencesKept ==
    [][\A k \in DOMAIN published'.units :
        LET p == published'.units[k].parts[1] IN
        /\ p.key \/ Before(k)' = [ssrc |-> p.ssrc, picture |-> p.picture - 1]
        /\ (k = 1 => ~ receive.backpressured) /\ Before(k)'.ssrc = p.ssrc
           => Before(k)'.picture < p.picture]_published

(***************************************************************************)
(* Once pictures are shown, none is left out in silence: either what is    *)
(* assembled follows the last picture without a hole, or the server was    *)
(* asked for a new one.  A stream that replaces another is not asked for.  *)
(***************************************************************************)
LastPart ==
    LET parts == published.units[Len(published.units)].parts IN parts[Len(parts)]
Assembling == assembler.nals \o assembler.fu
Follows ==
    LET taken == Len(Assembling) IN
    /\ ~ assembler.dropping /\ assembler.configuration = "Configured"
    /\ \A i \in 1..taken : Assembling[i].number = LastPart.number + i
    /\ assembler.expected = (LastPart.number + taken + 1) % SequenceSpace
NoSilentGap ==
    published.units # <<>> /\ Running
    => Follows \/ receive.request \/ asked \/ receive.replacing

(***************************************************************************)
(* A packet that is less than half the sequence space away from the newest *)
(* is never taken for a forgery, on either side of a rollover.             *)
(***************************************************************************)
Authenticates ==
    \A i \in DOMAIN sent :
        LET p == sent[i] IN
        /\ opened[p.ssrc] # {}
        /\ p.number - Highest(p.ssrc) \in (1 - Half)..(Half - 1)
        => Authentic(p)
=============================================================================
