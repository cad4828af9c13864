---------------------------- MODULE HevcAssembly ----------------------------
(***************************************************************************)
(* Access units from the packets of one video stream: HevcAccessUnit-      *)
(* Assembler (crates/frd-protocol-apple/src/hevc_access_unit.rs) and its   *)
(* depacketizer (hevc_rtp.rs), as operators on a record.  Packets may be   *)
(* missing and out of order; each came from the server, so that a malformed*)
(* one does not occur.  The limits in bytes are not modelled, and that of  *)
(* the number of buffered packets cannot be met: a buffered packet is      *)
(* nearer to the one expected than the window, and is not that one.        *)
(***************************************************************************)
EXTENDS Integers, Sequences, FiniteSets

CONSTANTS
    SequenceSpace,   \* 2^16 in the code: RTP sequence numbers are modulo this
    ReorderWindow    \* max_reorder_packets

ASSUME SequenceAssumption ==
    /\ SequenceSpace \in Nat \ {0} /\ SequenceSpace % 2 = 0
    /\ ReorderWindow \in 1..(SequenceSpace \div 2)

(***************************************************************************)
(* A packet: its stream and its number in it (of which it carries the      *)
(* sequence number only), the picture it is a part of (the RTP timestamp), *)
(* whether it is its last (the marker), whether the picture is random      *)
(* access, and what it holds: the parameter sets ("sets", an aggregation   *)
(* packet), a whole slice, or the first or last half of one.               *)
(***************************************************************************)
Half == SequenceSpace \div 2
Sequence(p) == p.number % SequenceSpace
Distance(to, from) == (to - from) % SequenceSpace
After(sequence) == (sequence + 1) % SequenceSpace
HoldsIrap(p) == p.key /\ p.kind # "sets"

None == -1
NewAssembler ==
    [expected |-> None, buffered |-> {}, picture |-> None, nals |-> <<>>, fu |-> <<>>,
     initialSets |-> FALSE, sets |-> FALSE, configuration |-> "AwaitingConfigurationAu",
     dropping |-> FALSE, recovery |-> None]

\* discard_access_unit
Discarded(a) ==
    [a EXCEPT !.picture = None, !.nals = <<>>, !.fu = <<>>, !.initialSets = FALSE]

\* Where dropping_until_marker begins, unless p is itself the end of a picture.
DroppingFrom(a, p) ==
    [a EXCEPT !.dropping = ~ p.marker, !.recovery = IF p.marker THEN None ELSE Sequence(p)]

\* MUTANT: what is left of the picture in which the window ends is taken up.
DroppedNothing(a, p) ==
    [Discarded(a) EXCEPT !.buffered = {}, !.expected = After(Sequence(p))]

\* drop_at_packet_boundary
DroppedAt(a, p) ==
    [DroppingFrom(Discarded(a), p) EXCEPT !.buffered = {},
                                          !.expected = After(Sequence(p))]

(***************************************************************************)
(* require_recovery_irap: what follows a loss refers to what was lost.     *)
(***************************************************************************)
\* MUTANT: a configured stream goes on with whatever picture comes next.
RequireNothing(a) == a

RequireIrap(a) ==
    IF a.configuration = "AwaitingConfigurationAu" /\ a.initialSets
    THEN [a EXCEPT !.sets = TRUE, !.initialSets = FALSE,
                   !.configuration = "AwaitingRecoveryIrap"]
    ELSE IF a.configuration = "Configured"
    THEN [a EXCEPT !.configuration = "AwaitingRecoveryIrap"]
    ELSE a

-----------------------------------------------------------------------------
(***************************************************************************)
(* Results: the assembler, the access units completed, and the error.      *)
(***************************************************************************)
Result(a, units, error) == [a |-> a, units |-> units, error |-> error]

\* HevcRtpDepacketizer::push refuses what its state does not expect.
DepacketizeError(a, p) ==
    CASE p.kind = "end" /\ a.fu = <<>> -> "FuContinuationWithoutStart"
      [] p.kind # "end" /\ a.fu # <<>> -> "InterleavedPayload"
      [] OTHER -> "no"

Depacketized(a, p) ==
    CASE p.kind = "start" -> [a EXCEPT !.fu = <<p>>]
      [] p.kind = "end" -> [a EXCEPT !.nals = @ \o a.fu \o <<p>>, !.fu = <<>>]
      [] p.kind = "slice" -> [a EXCEPT !.nals = Append(@, p)]
      [] p.kind = "sets" ->
            [a EXCEPT !.nals = Append(@, p),
                      !.initialSets = @ \/ a.configuration = "AwaitingConfigurationAu"]

\* finish_access_unit: random access, or the first unit, brings the sets along.
Finished(a) ==
    LET own  == \E i \in DOMAIN a.nals : a.nals[i].kind = "sets"
        irap == \E i \in DOMAIN a.nals : HoldsIrap(a.nals[i])
        unit == [parts |-> a.nals, keyframe |-> irap, sets |-> own \/ (irap /\ a.sets)]
    IN  IF a.configuration # "Configured" /\ ~ a.sets /\ ~ own
        THEN Result(Discarded(a), <<>>, "MissingInitialParameterSets")
        ELSE Result([Discarded(a) EXCEPT !.sets = a.sets \/ own, !.configuration = "Configured"],
                    <<unit>>, "no")

\* process_ordered
ProcessOrdered(a, p) ==
    LET b == [a EXCEPT !.picture = p.picture]
        error == DepacketizeError(b, p)
        c == Depacketized(b, p)
    IN  IF a.picture \notin {None, p.picture}
        THEN Result(DroppingFrom(Discarded(a), p), <<>>, "TimestampChangedBeforeMarker")
        ELSE IF error # "no" THEN Result(DroppingFrom(Discarded(b), p), <<>>, error)
        ELSE IF ~ p.marker THEN Result(c, <<>>, "no")
        ELSE IF /\ c.configuration = "AwaitingRecoveryIrap"
                /\ \A i \in DOMAIN c.nals : ~ HoldsIrap(c.nals[i])
        THEN Result(Discarded(c), <<>>, "no")
        ELSE Finished(c)

(***************************************************************************)
(* The loop of push takes what is buffered and next in order.  An error    *)
(* ends it and forgets what is buffered, and the units completed with it.  *)
(***************************************************************************)
TakeNext(r) ==
    LET ready == {p \in r.a.buffered : Sequence(p) = r.a.expected} IN
    IF r.error # "no" \/ ready = {} THEN r
    ELSE LET p == CHOOSE q \in ready : TRUE
             s == ProcessOrdered([r.a EXCEPT !.buffered = @ \ {p},
                                             !.expected = After(@)], p)
         IN  IF s.error = "no" THEN [s EXCEPT !.units = r.units \o @]
             ELSE [s EXCEPT !.a.buffered = {}]

Drained(a) ==
    LET taken[i \in 0..ReorderWindow] ==
          IF i = 0 THEN Result(a, <<>>, "no") ELSE TakeNext(taken[i - 1])
    IN  taken[ReorderWindow]

\* While it drops, a marker ends the dropping unless it is older than what was seen.
Resynchronised(a, p) ==
    LET ahead == IF a.recovery = None THEN 1 ELSE Distance(Sequence(p), a.recovery)
        cursor == IF ahead \in 1..(Half - 1) THEN Sequence(p) ELSE a.recovery
    IN  IF p.marker /\ ahead < Half
        THEN [a EXCEPT !.dropping = FALSE, !.expected = After(Sequence(p)),
                       !.recovery = None, !.buffered = {}]
        ELSE [a EXCEPT !.recovery = cursor]

\* MUTANT: a packet that is late counts as one that comes early.
NeverLate(distance) == FALSE

Late(distance) == distance >= Half

\* push_received_at
Push(a, p) ==
    LET first == [a EXCEPT !.expected = IF @ = None THEN Sequence(p) ELSE @]
        distance == Distance(Sequence(p), first.expected)
    IN  IF a.dropping THEN Result(Resynchronised(a, p), <<>>, "no")
        ELSE IF Late(distance) THEN Result(first, <<>>, "no")
        ELSE IF distance >= ReorderWindow
        THEN Result(DroppedAt(RequireIrap(first), p), <<>>, "ReorderWindowExceeded")
        ELSE IF \E q \in first.buffered : Sequence(q) = Sequence(p)
        THEN Result(first, <<>>, "no")
        ELSE Drained([first EXCEPT !.buffered = @ \cup {p}])
=============================================================================
