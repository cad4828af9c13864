---------------------------- MODULE RdpClipboard ----------------------------
(***************************************************************************)
(* The RDP clipboard: text offers that cross on the wire                   *)
(* (crates/frd-protocol-rdp/src/clipboard.rs).  Each side announces what   *)
(* it holds by a format list, the other answers the list and may ask for   *)
(* the text.  Callbacks of the channel change the adapter and queue        *)
(* actions; the active loop takes the actions one by one.                  *)
(*                                                                         *)
(* Local texts are numbered as the user copies them, 0 is no text; the     *)
(* server's copies are numbered as it announces them.  The server answers  *)
(* what it was sent in order, but may take the text of an answer from any  *)
(* copy it made since it was asked.                                        *)
(***************************************************************************)
EXTENDS Naturals, Sequences

VARIABLES
    clip,     \* ClipboardAdapter
    actions,  \* RdpClipboardBackend.actions
    wire,     \* lists and requests sent and not yet answered by the server
    peer      \* the server's clipboard

clipboardVars == <<clip, actions, wire, peer>>

NoText == 0
NoLocal == [generation |-> 0, text |-> NoText]
NoRemote == [generation |-> 0, unicode |-> FALSE]

Action(kind, n) == [kind |-> kind, n |-> n]
AdvertiseInitial == Action("AdvertiseInitial", 0)
AdvertiseQueuedLocal == Action("AdvertiseQueuedLocal", 0)
RequestUnicode(generation) == Action("RequestUnicode", generation)
RespondUnicode(generation) == Action("RespondUnicode", generation)
RespondError == Action("RespondError", 0)
Publish(copy) == Action("Publish", copy)
Sent(kind, n) == [kind |-> kind, n |-> n]

NewClip ==
    [ready |-> FALSE, remoteUnicode |-> FALSE, writeReady |-> FALSE, next |-> 1,
     pendingRemote |-> NoRemote, outstanding |-> NoRemote,
     pendingLocal |-> NoLocal, accepted |-> NoLocal, queued |-> NoText]

ClipboardInit ==
    /\ clip = NewClip
    /\ actions = <<>>
    /\ wire = <<>>
    /\ peer = [greeted |-> FALSE, copies |-> 0, holds |-> NoText, asks |-> <<>>]

-----------------------------------------------------------------------------
(***************************************************************************)
(* What the server sends, and the callback it is met with.                 *)
(***************************************************************************)
\* on_request_format_list, begin_initial_offer
ReadMonitorReady ==
    /\ ~ peer.greeted
    /\ peer' = [peer EXCEPT !.greeted = TRUE]
    /\ clip' = [clip EXCEPT !.next = @ + 1, !.accepted = NoLocal, !.queued = NoText,
                            !.pendingLocal = [generation |-> clip.next, text |-> NoText]]
    /\ actions' = Append(actions, AdvertiseInitial)
    /\ UNCHANGED wire

\* remote_request_generation: the offer to ask for, if any.
RemoteRequest(c) ==
    IF c.ready /\ c.outstanding = NoRemote /\ c.pendingRemote.unicode
    THEN {c.pendingRemote.generation} ELSE {}

AppendIf(condition, s, x) == IF condition THEN Append(s, x) ELSE s

\* on_ready, at the first list that is accepted, then on_format_list_response.
ReadListReply(accepted) ==
    /\ wire # <<>> /\ Head(wire).kind = "list"
    /\ wire' = Tail(wire)
    /\ peer' = IF accepted THEN [peer EXCEPT !.holds = Head(wire).n] ELSE peer
    /\ LET becomesReady == accepted /\ ~ clip.ready
           opened == IF becomesReady THEN [clip EXCEPT !.ready = TRUE] ELSE clip
           asking == becomesReady /\ RemoteRequest(opened) # {}
           answered == clip.pendingLocal # NoLocal
       IN  /\ clip' =
                IF ~ answered THEN opened
                ELSE IF accepted /\ opened.ready
                THEN [opened EXCEPT !.pendingLocal = NoLocal, !.writeReady = TRUE,
                                    !.accepted = IF clip.pendingLocal.text # NoText
                                                 THEN clip.pendingLocal ELSE NoLocal]
                ELSE [opened EXCEPT !.pendingLocal = NoLocal, !.accepted = NoLocal]
           /\ actions' = AppendIf(answered /\ clip.queued # NoText,
                             AppendIf(asking, actions,
                                 RequestUnicode(clip.pendingRemote.generation)),
                             AdvertiseQueuedLocal)

\* on_remote_copy, observe_remote_formats
ReadFormatList(unicode) ==
    /\ peer.greeted
    /\ peer' = [peer EXCEPT !.copies = @ + 1]
    /\ clip' = [clip EXCEPT !.next = @ + 1, !.remoteUnicode = unicode,
                            !.pendingRemote = [generation |-> clip.next, unicode |-> unicode]]
    /\ actions' = AppendIf(unicode /\ clip.outstanding = NoRemote /\ clip.ready,
                           actions, RequestUnicode(clip.next))
    /\ UNCHANGED wire

\* on_format_data_request: the server wants the text of the list it accepted last.
ReadDataRequest ==
    /\ peer.holds # NoText
    /\ peer' = [peer EXCEPT !.asks = Append(@, peer.holds)]
    /\ actions' = Append(actions, IF clip.accepted = NoLocal THEN RespondError
                                  ELSE RespondUnicode(clip.accepted.generation))
    /\ UNCHANGED <<clip, wire>>

\* MUTANT: a response is taken although a newer list has arrived meanwhile.
AcceptedAnyway(c, ok, copy) ==
    [clip |-> [c EXCEPT !.outstanding = NoRemote],
     actions |-> IF ok THEN <<Publish(copy)>> ELSE <<>>]

\* MUTANT: a response that is dropped does not ask for the newer offer.
AcceptedForgets(c, ok, copy) ==
    LET free == [c EXCEPT !.outstanding = NoRemote] IN
    IF c.outstanding = NoRemote THEN [clip |-> c, actions |-> <<>>]
    ELSE IF c.pendingRemote # NoRemote THEN [clip |-> free, actions |-> <<>>]
    ELSE [clip |-> free,
          actions |-> IF c.outstanding.unicode /\ ok THEN <<Publish(copy)>> ELSE <<>>]

\* accept_remote_response: a response to an offer that a newer one has
\* replaced is dropped, and the newer one is asked for.
Accepted(c, ok, copy) ==
    LET free == [c EXCEPT !.outstanding = NoRemote] IN
    IF c.outstanding = NoRemote THEN [clip |-> c, actions |-> <<>>]
    ELSE IF c.pendingRemote # NoRemote
    THEN IF c.ready /\ c.pendingRemote.unicode
         THEN [clip |-> free, actions |-> <<RequestUnicode(c.pendingRemote.generation)>>]
         ELSE [clip |-> [free EXCEPT !.pendingRemote = NoRemote], actions |-> <<>>]
    ELSE [clip |-> free,
          actions |-> IF c.outstanding.unicode /\ ok THEN <<Publish(copy)>> ELSE <<>>]

\* on_format_data_response
ReadData(ok) ==
    /\ wire # <<>> /\ Head(wire).kind = "request"
    /\ wire' = Tail(wire)
    /\ \E copy \in Head(wire).n..peer.copies :
           /\ clip' = Accepted(clip, ok, copy).clip
           /\ actions' = actions \o Accepted(clip, ok, copy).actions
    /\ UNCHANGED peer

-----------------------------------------------------------------------------
(***************************************************************************)
(* What the loop does: next_service_action for the first action, and       *)
(* write_text for a text the user copied.                                  *)
(***************************************************************************)
\* MUTANT: an offer counts as accepted when it is sent.
OfferedAtOnce(c, text) ==
    [c EXCEPT !.next = @ + 1, !.accepted = [generation |-> c.next, text |-> text],
              !.pendingLocal = [generation |-> c.next, text |-> text]]

Offered(c, text) ==  \* begin_local_text_offer
    [c EXCEPT !.next = @ + 1, !.accepted = NoLocal,
              !.pendingLocal = [generation |-> c.next, text |-> text]]

\* local_unicode_response: the text, or NoText for an error.
Response(c, generation) ==
    IF c.accepted.generation = generation THEN c.accepted.text ELSE NoText

\* The action sends or publishes nothing, which ends the pass of the loop.
IsVoid(a) ==
    \/ a.kind = "AdvertiseQueuedLocal" /\ (clip.pendingLocal # NoLocal \/ clip.queued = NoText)
    \/ a.kind = "RequestUnicode" /\ a.n \notin RemoteRequest(clip)

ServiceAction ==
    /\ actions # <<>>
    /\ actions' = Tail(actions)
    /\ LET a == Head(actions) IN
       \/ /\ IsVoid(a) \/ a.kind = "Publish"
          /\ UNCHANGED <<clip, wire, peer>>
       \/ /\ a.kind = "AdvertiseInitial"
          /\ wire' = Append(wire, Sent("list", NoText))
          /\ UNCHANGED <<clip, peer>>
       \/ /\ a.kind = "AdvertiseQueuedLocal" /\ ~ IsVoid(a)
          /\ wire' = Append(wire, Sent("list", clip.queued))
          /\ clip' = [Offered(clip, clip.queued) EXCEPT !.queued = NoText]
          /\ UNCHANGED peer
       \/ /\ a.kind = "RequestUnicode" /\ ~ IsVoid(a)
          /\ wire' = Append(wire, Sent("request", peer.copies))
          /\ clip' = [clip EXCEPT !.outstanding = clip.pendingRemote,
                                  !.pendingRemote = NoRemote]
          /\ UNCHANGED peer
       \/ /\ a.kind \in {"RespondUnicode", "RespondError"}
          /\ peer' = [peer EXCEPT !.asks = Tail(@)]
          /\ UNCHANGED <<clip, wire>>

\* accept_local_payload: a text waits while an offer is unanswered, and a
\* newer one takes its place.
WriteText(text) ==
    /\ IF ~ (clip.ready /\ clip.writeReady)
       THEN UNCHANGED <<clip, wire>>
       ELSE IF clip.pendingLocal # NoLocal \/ clip.queued # NoText
       THEN clip' = [clip EXCEPT !.queued = text] /\ UNCHANGED wire
       ELSE clip' = Offered(clip, text) /\ wire' = Append(wire, Sent("list", text))
    /\ UNCHANGED <<actions, peer>>

-----------------------------------------------------------------------------
Among(x, s) == \E i \in DOMAIN s : s[i] = x
HasKind(kind, s) == \E i \in DOMAIN s : s[i].kind = kind

(***************************************************************************)
(* Nothing is forgotten when offers cross: a text that waits is taken up   *)
(* by an answer still to come or an action still to run, an offer of the   *)
(* server that was not asked for is asked for by the answer outstanding or *)
(* by an action, and what the adapter waits for is owed by the server.     *)
(***************************************************************************)
LocalTextTakenUp ==
    clip.queued # NoText =>
        clip.pendingLocal # NoLocal \/ Among(AdvertiseQueuedLocal, actions)

RemoteOfferTakenUp ==
    clip.ready /\ clip.pendingRemote.unicode =>
        \/ clip.outstanding # NoRemote
        \/ Among(RequestUnicode(clip.pendingRemote.generation), actions)

AnswersOwed ==
    /\ clip.pendingLocal # NoLocal =>
           Among(AdvertiseInitial, actions) \/ HasKind("list", wire)
    /\ clip.outstanding # NoRemote => HasKind("request", wire)

NothingStuck == LocalTextTakenUp /\ RemoteOfferTakenUp /\ AnswersOwed

(***************************************************************************)
(* A text published to the local clipboard is the newest the server has    *)
(* announced, though its answer was asked for before (clipboard.rs:435).   *)
(***************************************************************************)
NewestTextPublished ==
    [][ \A i \in DOMAIN actions' :
            i > Len(actions) /\ actions'[i].kind = "Publish"
            => actions'[i].n = peer.copies ]_clipboardVars

(***************************************************************************)
(* A request of the server is answered with the text it was made for or    *)
(* with an error, never with a text copied after the server asked.         *)
(***************************************************************************)
AnswersFit ==
    actions # <<>> /\ Head(actions).kind = "RespondUnicode"
    => Response(clip, Head(actions).n) \in {NoText, Head(peer.asks)}
=============================================================================
