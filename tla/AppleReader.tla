---------------------------- MODULE AppleReader ----------------------------
(***************************************************************************)
(* The reader of an Apple session after its confirmation (NetworkReader-   *)
(* Runtime of crates/frd-protocol-apple/src/network_reader.rs): who asks   *)
(* the server for the next picture, and how a desktop of a new size        *)
(* replaces the old one.  Pixels and the codec are in ApplePipeline; here  *)
(* a complete record is only what the reader's control sees of it.  One    *)
(* thread runs all of it: an action is a frame read from the connection, a *)
(* tick of the loop, or a command.  An interval the code measures is a     *)
(* flag, whether it has passed when a tick looks; a write never fails (a   *)
(* failing one ends the session).  Without the media startup gate, under   *)
(* which the code ignores a later ServerState.                             *)
(***************************************************************************)
EXTENDS Naturals

CONSTANTS
    Sizes,           \* the desktop sizes of the instance
    FirstSize,       \* the size the confirmation named
    MaxGeneration,   \* bound: the server changes the size below this generation only
    MaxViewports     \* bound: how often the window's viewport changes

ASSUME ReaderAssumption ==
    /\ Sizes \subseteq Nat \ {0} /\ FirstSize \in Sizes
    /\ MaxGeneration \in Nat \ {0} /\ MaxViewports \in Nat

VARIABLES
    reader,     \* NetworkReaderRuntime, with what the server still owes it
    optIn,      \* --dynamic-resolution
    viewports   \* how often the viewport has changed

readerVars == <<reader, optIn, viewports>>

NoSize == 0
NoAdmission == [target |-> NoSize, generation |-> 0]

\* DynamicResolutionController: `size' and `generation' are its stable display.
NewController(state) ==
    [state |-> state, generation |-> 0, size |-> FirstSize, target |-> NoSize]

(***************************************************************************)
(* A framebuffer request is written, full or incremental.  The server owes *)
(* one answer more; one answer may serve several requests, so that two     *)
(* owed stand for any number.  `lapsed': a resize timed out when nothing   *)
(* else was asked for, and nothing has been since.                         *)
(***************************************************************************)
Asked(r) ==
    [r EXCEPT !.inFlight = TRUE, !.lapsed = FALSE, !.owed = IF @ = 0 THEN 1 ELSE 2]

\* receiver.request_full and request_full_update: what was assembled is dropped.
Recovered(r) == Asked([r EXCEPT !.assembling = FALSE])

\* confirm_high_performance_at_with: the reader as it is once activated.
Confirmed(single) ==
    Asked([generation |-> 1, size |-> FirstSize,
           inFlight |-> FALSE, followup |-> "None", assembling |-> FALSE,
           queue |-> NoSize, controller |-> NewController("Unavailable"),
           waiting |-> FALSE, admission |-> NoAdmission,
           single |-> single, applied |-> FALSE, armedAt |-> 0,
           owed |-> 0, lapsed |-> FALSE, end |-> "no"])

ReaderInit ==
    /\ \E single \in BOOLEAN : reader = Confirmed(single)
    /\ optIn \in BOOLEAN
    /\ viewports = 0

-----------------------------------------------------------------------------
(* DynamicResolutionRuntime *)

Armed(r) == r.armedAt # 0

\* maybe_arm: the evidence is one display, and a complete picture of the first surface.
MaybeArmed(r) ==
    IF ~ Armed(r) /\ r.single /\ r.applied
    THEN [r EXCEPT !.armedAt = r.generation,
                   !.controller = NewController(IF optIn THEN "Stable" ELSE "Disabled")]
    ELSE r

\* observe_initial_server_state
DisplaysObserved(r, size, single) ==
    MaybeArmed(IF ~ Armed(r) /\ r.size = FirstSize /\ size = r.size
               THEN [r EXCEPT !.single = single] ELSE r)

\* observe_full_applied
FullApplied(r) ==
    IF ~ Armed(r) /\ r.generation = 1 /\ r.size = FirstSize
    THEN MaybeArmed([r EXCEPT !.applied = TRUE])
    ELSE IF r.controller.state = "Switching" /\ r.controller.generation + 1 = r.generation
         THEN [r EXCEPT !.controller.state = "Stable"]
         ELSE r

\* timeout_pending and what the tick does about it
TimedOut(r) ==
    [r EXCEPT !.controller.state = "Stable", !.controller.target = NoSize,
              !.waiting = FALSE, !.admission = NoAdmission, !.queue = NoSize,
              !.lapsed = ~ r.inFlight /\ r.followup # "Scheduled"]

(***************************************************************************)
(* send_target_with: a generation is admitted for the new size, the query  *)
(* is written, the controller is Pending, and the two have to agree        *)
(* (reconcile_dynamic_generation_admission).                               *)
(***************************************************************************)
Targeted(r) ==
    LET n == r.controller.generation + 1 IN
    IF n = r.generation /\ r.admission = NoAdmission
    THEN [r EXCEPT !.controller.state = "Pending", !.controller.target = r.queue,
                   !.waiting = TRUE, !.queue = NoSize,
                   !.admission = [target |-> r.queue, generation |-> r.generation + 1]]
    ELSE [r EXCEPT !.end = "incoherent"]

\* ViewportRequestQueue::service
ViewportServed(r) ==
    IF r.queue = NoSize \/ ~ optIn \/ ~ Armed(r) \/ r.controller.state # "Stable" THEN r
    ELSE IF r.queue = r.controller.size THEN [r EXCEPT !.queue = NoSize]
    ELSE Targeted(r)

-----------------------------------------------------------------------------
(* service_reader_tick_at.  `due' is the set of intervals that have passed. *)

Intervals == {"incomplete", "pending", "followup", "viewport"}

Ticked(r, due) ==
    LET recovered == r.assembling /\ "incomplete" \in due
        a == IF recovered THEN Recovered(r) ELSE r
        b == IF a.waiting /\ "pending" \in due THEN TimedOut(a) ELSE a
    IN  IF recovered \/ b.assembling \/ b.inFlight THEN b
        ELSE IF ~ b.waiting /\ b.followup = "Scheduled" /\ "followup" \in due
             THEN Asked([b EXCEPT !.followup = "Sent"])
        ELSE IF b.followup = "None" /\ "viewport" \in due THEN ViewportServed(b)
        ELSE b

\* finish_full_boundary_at: an incremental request, unless a resize is asked for instead.
FullBoundary(r, due) ==
    LET t == Ticked([r EXCEPT !.followup = "None"], due) IN
    IF t.end # "no" \/ t.inFlight \/ (t.waiting /\ ~ r.waiting) THEN t ELSE Asked(t)

(***************************************************************************)
(* handle_complete_mvs_record.  "tables" are quantiser tables alone; "full"*)
(* and "part" a type-0 picture, of the whole surface or less; "partial" a  *)
(* type-1; "black" a whole picture that is applied but not published;      *)
(* "refused" is what codec or publisher answer with a full request.        *)
(***************************************************************************)
Records == {"tables", "full", "part", "partial", "black", "refused"}

\* MUTANT: the request that the record answers still counts as in flight.
BegunInFlight(r) == [r EXCEPT !.assembling = FALSE]

\* begin_complete_mvs_response
Begun(r) == [r EXCEPT !.assembling = FALSE, !.inFlight = FALSE]

Completed(r, record, due) ==
    LET b == Begun(r) IN
    CASE record = "tables" ->
            IF b.followup = "Sent" THEN [b EXCEPT !.end = "tables"]
            ELSE [b EXCEPT !.followup = "Scheduled"]
      [] record = "full" -> FullBoundary(FullApplied(b), due)
      [] record = "part" -> FullBoundary(b, due)
      [] record = "partial" -> IF b.inFlight THEN b ELSE Asked(b)
      [] record = "black" -> Recovered(FullApplied(b))
      [] record = "refused" -> Recovered(b)

-----------------------------------------------------------------------------
(***************************************************************************)
(* plan_server_geometry and commit_server_geometry: only the size that was *)
(* asked for is the answer to a request, any other is the server's own.    *)
(***************************************************************************)
Coherent(r) ==
    r.controller.state = "Pending" =>
        r.controller.generation + 1 = r.generation /\ r.controller.size = r.size
IsAck(r, size) == r.controller.state = "Pending" /\ r.controller.target = size

\* apply_server_initiated_geometry
OwnGeometry(r, size) ==
    [state |-> IF r.controller.state \in {"Unavailable", "Disabled"} THEN r.controller.state
               ELSE IF optIn /\ Armed(r) THEN "Switching" ELSE "Stable",
     generation |-> r.generation, size |-> size, target |-> NoSize]

\* MUTANT: the admission of the request that the server has overtaken is not dropped.
ServerInitiatedKeeps(r, size) ==
    [r EXCEPT !.waiting = FALSE, !.queue = NoSize, !.controller = OwnGeometry(r, size)]

ServerInitiated(r, size) ==
    [r EXCEPT !.waiting = FALSE, !.queue = NoSize, !.controller = OwnGeometry(r, size),
              !.admission = NoAdmission]

Acknowledged(r, size) ==
    IF r.admission = [target |-> size, generation |-> r.generation + 1]
    THEN [r EXCEPT !.waiting = FALSE, !.admission = NoAdmission,
                   !.controller = [state |-> "Switching", generation |-> r.generation,
                                   size |-> size, target |-> NoSize]]
    ELSE [r EXCEPT !.end = "incoherent"]

\* reset of receiver, surface, publisher and requests, and the first full request
Regenerated(r, size) ==
    IF r.end # "no" THEN r
    ELSE Recovered([r EXCEPT !.generation = @ + 1, !.size = size,
                             !.inFlight = FALSE, !.followup = "None"])

StateObserved(r, size, single) ==
    LET d == DisplaysObserved(r, size, single) IN
    IF ~ Coherent(d) THEN [d EXCEPT !.end = "incoherent"]
    ELSE IF IsAck(d, size) THEN Regenerated(Acknowledged(d, size), size)
    ELSE IF size = d.size THEN d
    ELSE Regenerated(ServerInitiated(d, size), size)

-----------------------------------------------------------------------------
(* The frames of the connection, the commands and the loop *)

ReaderRuns == reader.end = "no"

\* The server answers a request, or several at once.
Answers(r) == {[r EXCEPT !.owed = left] : left \in {0, r.owed - 1}}

\* begin_at: the first chunk of a longer record
BeginRecord ==
    /\ ReaderRuns /\ ~ reader.assembling /\ reader.owed > 0
    /\ \E r \in Answers(reader) : reader' = [r EXCEPT !.assembling = TRUE]
    /\ UNCHANGED <<optIn, viewports>>

\* A record in one frame, or a malformed first chunk or envelope ("refused").
WholeRecord(record, due) ==
    /\ ReaderRuns /\ ~ reader.assembling /\ reader.owed > 0
    /\ \E r \in Answers(reader) : reader' = Completed(r, record, due)
    /\ UNCHANGED <<optIn, viewports>>

\* push_continuation: the chunk that completes the record, or a malformed one.
LastChunk(record, due) ==
    /\ ReaderRuns /\ reader.assembling
    /\ reader' = Completed(reader, record, due)
    /\ UNCHANGED <<optIn, viewports>>

\* While a record is assembled every other frame is taken for a chunk of it.
ServerState(size, single) ==
    /\ ReaderRuns /\ ~ reader.assembling
    /\ size # reader.size => reader.generation < MaxGeneration
    /\ reader' = StateObserved(reader, size, single)
    /\ UNCHANGED <<optIn, viewports>>

\* observe_viewport; a viewport too small for a desktop is NoSize.
ObserveViewport(target) ==
    /\ ReaderRuns /\ viewports < MaxViewports
    /\ reader' = [reader EXCEPT !.queue = target]
    /\ viewports' = viewports + 1
    /\ UNCHANGED optIn

\* service_tick
Tick(due) ==
    /\ ReaderRuns
    /\ reader' = Ticked(reader, due)
    /\ UNCHANGED <<optIn, viewports>>

ReaderNext ==
    \/ BeginRecord
    \/ \E record \in Records, due \in SUBSET Intervals :
           WholeRecord(record, due) \/ LastChunk(record, due)
    \/ \E size \in Sizes, single \in BOOLEAN : ServerState(size, single)
    \/ \E target \in Sizes \cup {NoSize} : ObserveViewport(target)
    \/ \E due \in SUBSET Intervals : Tick(due)

\* The loop goes round for ever, and every interval passes.
ReaderSpec == ReaderInit /\ [][ReaderNext]_readerVars /\ WF_readerVars(Tick(Intervals))

-----------------------------------------------------------------------------
(***************************************************************************)
(* Three parts count the generations of the display, each by itself:       *)
(* controller, surface, and the admission taken before a resize is asked   *)
(* for.  They agree at every point, however answers, time-outs and the     *)
(* server's own changes follow each other, so that the checks which end    *)
(* the session never strike.  A controller armed after the first           *)
(* generation counts from 0 anew and is excepted.                          *)
(***************************************************************************)
ArmedLate(r) == r.armedAt > 1
Agrees(r) ==
    /\ r.end # "incoherent"
    /\ r.controller.generation + 1 = r.generation
    /\ r.controller.size = r.size
    /\ r.waiting <=> r.controller.state = "Pending"
    /\ r.admission = IF r.waiting
                     THEN [target |-> r.controller.target, generation |-> r.generation + 1]
                     ELSE NoAdmission
GeometryAgrees == ~ ArmedLate(reader) => Agrees(reader)

(***************************************************************************)
(* The picture never stands still for want of a request: when the server   *)
(* owes nothing more, the reader asks again, after tables, half a record,  *)
(* a refused picture or a change of size.  Not so after a resize the       *)
(* server has not answered in time (`lapsed'): the code waits for the next *)
(* change of the viewport.                                                 *)
(***************************************************************************)
RequestedAgain ==
    reader.owed = 0 ~> reader.owed > 0 \/ reader.lapsed \/ ~ ReaderRuns

=============================================================================
