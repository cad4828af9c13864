------------------------- MODULE RdpChannelsProofs -------------------------
(***************************************************************************)
(* Proofs about the RDP active loop and its channels, for every set of     *)
(* desktop sizes, every area limit and every bound on the environment.     *)
(***************************************************************************)
EXTENDS RdpChannels, SequenceTheorems, TLAPS

(***************************************************************************)
(* The types the other proofs need.  The fields nothing is proved about    *)
(* are left open: {r.f} is the set that holds what the field holds.        *)
(***************************************************************************)
RemoteOffers == [generation : Nat, unicode : BOOLEAN]
LocalOffers == [generation : Nat, text : Nat]
Kinds == {"AdvertiseInitial", "AdvertiseQueuedLocal", "RequestUnicode", "RespondUnicode",
          "RespondError", "Publish", "list", "request"}
Marks == [kind : Kinds, n : Nat]

ClipRecord ==
    [ready : BOOLEAN, remoteUnicode : BOOLEAN, writeReady : BOOLEAN, next : Nat \ {0},
     pendingRemote : RemoteOffers, outstanding : RemoteOffers,
     pendingLocal : LocalOffers, accepted : LocalOffers, queued : Nat]
ClipboardTypes ==
    /\ clip \in ClipRecord
    /\ actions \in Seq(Marks)
    /\ wire \in Seq(Marks)
    /\ peer \in [greeted : BOOLEAN, copies : Nat, holds : Nat, asks : {peer.asks}]

DisplayRecord == [max : Nat, confirmed : Nat, queued : Nat, inFlight : Nat]
DisplayTypes ==
    /\ display \in DisplayRecord
    /\ caps \in Nat
    /\ requests \in Seq(Nat)

AudioRecord ==
    [offer : {"none", "exact", "other"}, current : BOOLEAN, degraded : BOOLEAN,
     playing : BOOLEAN, state : {"none", "Stopped", "Failed"}, frames : Nat]
AudioTypes == audio \in AudioRecord

Places == {"refresh", "commands", "service", "send", "read", "react", "ended"}
Commands == [kind : {"viewport", "input", "text"}, generation : Nat, n : Nat]
LoopRecord == [pc : Places, serving : BOOLEAN, retry : BOOLEAN, asked : Nat]
LoopTypes ==
    /\ screen \in [generation : Nat, surface : Nat, image : Nat]
    /\ loop \in LoopRecord
    /\ commands \in Seq(Commands)
    /\ user \in [sees : Nat, desktop : Nat, window : Nat, texts : Nat]

Types == ClipboardTypes /\ DisplayTypes /\ AudioTypes /\ LoopTypes

(***************************************************************************)
(* The input that waits in the command queue, and what the user sees, are  *)
(* of the surface of their generation.                                     *)
(***************************************************************************)
InputInvariant ==
    /\ ~ loop.retry => screen.image = screen.surface
    /\ user.sees <= screen.generation
    /\ user.sees = screen.generation => user.desktop = screen.surface
    /\ \A i \in DOMAIN commands :
           /\ commands[i].generation <= screen.generation
           /\ commands[i].kind = "input" /\ commands[i].generation = screen.generation
              => commands[i].n = screen.surface

(***************************************************************************)
(* A stream that is current was announced; an offer that waits for its     *)
(* judgement may find an announcement that is still true, and it has been  *)
(* judged before the loop reads again.                                     *)
(***************************************************************************)
Announced == told \in {"Starting", "Playing"}
SoundInvariant ==
    /\ audio.frames > 0 => audio.current
    /\ audio.current => /\ ~ audio.degraded /\ announced /\ Announced
                        /\ audio.state = NoState /\ audio.offer = "none"
    /\ audio.offer # "none" =>
           /\ ~ audio.degraded /\ audio.state = NoState
           /\ announced => Announced
    /\ At("commands") \/ At("read") =>
           audio.offer = "none" /\ (announced => audio.current)

(***************************************************************************)
(* At most one request for the server's text is out, exactly while the     *)
(* adapter waits for it, and it was made for the server's latest copy if   *)
(* no list has arrived since.                                              *)
(***************************************************************************)
RequestsFit ==
    \A i \in DOMAIN wire : wire[i].kind = "request" =>
        /\ clip.outstanding # NoRemote
        /\ clip.pendingRemote = NoRemote => wire[i].n = peer.copies
        /\ \A j \in DOMAIN wire : wire[j].kind = "request" => j = i
RequestInvariant == ~ At("ended") => RequestsFit

-----------------------------------------------------------------------------
(***************************************************************************)
(* Sequences: what appending and removing the head do to membership.       *)
(***************************************************************************)
LEMMA AppendMembers ==
    ASSUME NEW S, NEW s \in Seq(S), NEW x \in S
    PROVE  /\ Append(s, x) \in Seq(S)
           /\ \A y : Among(y, Append(s, x)) <=> Among(y, s) \/ y = x
           /\ \A k : HasKind(k, Append(s, x)) <=> HasKind(k, s) \/ x.kind = k
<1>1. DOMAIN s = 1..Len(s) /\ DOMAIN Append(s, x) = 1..(Len(s) + 1) /\ Len(s) \in Nat
  OBVIOUS
<1>2. \A i \in 1..Len(s) : Append(s, x)[i] = s[i]
  OBVIOUS
<1>3. Append(s, x)[Len(s) + 1] = x
  OBVIOUS
<1>4. \A i \in 1..(Len(s) + 1) : i \in 1..Len(s) \/ i = Len(s) + 1
  BY <1>1
<1>5. Len(s) + 1 \in 1..(Len(s) + 1) /\ 1..Len(s) \subseteq 1..(Len(s) + 1)
  BY <1>1
<1> QED
  BY <1>1, <1>2, <1>3, <1>4, <1>5 DEF Among, HasKind

LEMMA TailMembers ==
    ASSUME NEW S, NEW s \in Seq(S), s # <<>>
    PROVE  /\ Head(s) \in S /\ Tail(s) \in Seq(S)
           /\ \A y : Among(y, s) <=> Among(y, Tail(s)) \/ y = Head(s)
           /\ \A k : HasKind(k, s) <=> HasKind(k, Tail(s)) \/ Head(s).kind = k
<1>1. /\ DOMAIN s = 1..Len(s) /\ Len(s) \in Nat \ {0}
      /\ Tail(s) \in Seq(S) /\ DOMAIN Tail(s) = 1..(Len(s) - 1)
  OBVIOUS
<1>2. \A i \in 1..(Len(s) - 1) : Tail(s)[i] = s[i + 1]
  OBVIOUS
<1>3. Head(s) = s[1] /\ Head(s) \in S
  OBVIOUS
<1>4. \A i \in 1..Len(s) : i = 1 \/ (i - 1 \in 1..(Len(s) - 1) /\ (i - 1) + 1 = i)
  BY <1>1
<1>5. \A i \in 1..(Len(s) - 1) : i + 1 \in 1..Len(s)
  BY <1>1
<1>6. 1 \in 1..Len(s)
  BY <1>1
<1>7. \A i \in DOMAIN s : s[i] = Head(s) \/ \E j \in DOMAIN Tail(s) : Tail(s)[j] = s[i]
  BY <1>1, <1>2, <1>3, <1>4
<1>8. \A j \in DOMAIN Tail(s) : \E i \in DOMAIN s : s[i] = Tail(s)[j]
  BY <1>1, <1>2, <1>5
<1>9. \E i \in DOMAIN s : s[i] = Head(s)
  BY <1>1, <1>3, <1>6
<1>10. ASSUME NEW y PROVE Among(y, s) <=> Among(y, Tail(s)) \/ y = Head(s)
  BY <1>7, <1>8, <1>9 DEF Among
<1>11. ASSUME NEW k PROVE HasKind(k, s) <=> HasKind(k, Tail(s)) \/ Head(s).kind = k
  BY <1>7, <1>8, <1>9 DEF HasKind
<1> QED
  BY <1>1, <1>3, <1>10, <1>11

\* What holds of every element still holds after a change at either end.
LEMMA AppendEach ==
    ASSUME NEW S, NEW s \in Seq(S), NEW x \in S, NEW T,
           \A i \in DOMAIN s : s[i] \in T, x \in T
    PROVE  \A i \in DOMAIN Append(s, x) : Append(s, x)[i] \in T
<1>1. Append(s, x) \in Seq(S)
  OBVIOUS
<1>2. \A i \in DOMAIN Append(s, x) : i \in DOMAIN s \/ i = Len(s) + 1
  OBVIOUS
<1>3. \A i \in DOMAIN s : Append(s, x)[i] = s[i]
  OBVIOUS
<1> QED
  BY <1>1, <1>2, <1>3

LEMMA TailEach ==
    ASSUME NEW S, NEW s \in Seq(S), s # <<>>, NEW T,
           \A i \in DOMAIN s : s[i] \in T
    PROVE  \A i \in DOMAIN Tail(s) : Tail(s)[i] \in T
<1>1. /\ DOMAIN s = 1..Len(s) /\ Len(s) \in Nat \ {0}
      /\ DOMAIN Tail(s) = 1..(Len(s) - 1)
  OBVIOUS
<1>2. \A i \in 1..(Len(s) - 1) : Tail(s)[i] = s[i + 1] /\ i + 1 \in 1..Len(s)
  OBVIOUS
<1> QED
  BY <1>1, <1>2

LEMMA ConcatShort ==
    ASSUME NEW S, NEW s \in Seq(S), NEW x \in S
    PROVE  s \o <<>> = s /\ s \o <<x>> = Append(s, x)
OBVIOUS

-----------------------------------------------------------------------------
(***************************************************************************)
(* Sound.                                                                  *)
(***************************************************************************)
\* The calls after which nothing is queued and no stream is current.
Silent(a) ==
    a \in AudioRecord /\ ~ a.current /\ a.frames = 0

LEMMA SilentCalls ==
    ASSUME NEW a \in AudioRecord
    PROVE  /\ \A exact \in BOOLEAN :
                  /\ Silent(OfferBegun(a, exact)) /\ ~ OfferBegun(a, exact).degraded
                  /\ OfferBegun(a, exact).state = NoState
           /\ Silent(Degraded(a)) /\ Degraded(a).offer = "none"
           /\ Silent(DrainedRefused(a)) /\ DrainedRefused(a).offer = "none"
           /\ Silent(Stopped(a)) /\ Stopped(a).offer = "none"
<1>1. ASSUME NEW exact \in BOOLEAN
      PROVE  /\ Silent(OfferBegun(a, exact)) /\ ~ OfferBegun(a, exact).degraded
             /\ OfferBegun(a, exact).state = NoState
  BY DEF OfferBegun, NewAudio, Silent, AudioRecord, NoState
<1>2. Silent(Degraded(a)) /\ Degraded(a).offer = "none"
  BY DEF Degraded, Silent, AudioRecord
<1>3. Silent(DrainedRefused(a)) /\ DrainedRefused(a).offer = "none"
  BY <1>2 DEF DrainedRefused, Silent, AudioRecord, NoState
<1>4. Silent(Stopped(a)) /\ Stopped(a).offer = "none"
  BY DEF Stopped, Silent, AudioRecord
<1> QED
  BY <1>1, <1>2, <1>3, <1>4

\* A drain publishes the state and the frames, and touches nothing else.
LEMMA Drained ==
    ASSUME NEW a \in AudioRecord
    PROVE  /\ DrainedAll(a) \in AudioRecord
           /\ DrainedAll(a).offer = a.offer /\ DrainedAll(a).current = a.current
           /\ DrainedAll(a).degraded = a.degraded
           /\ DrainedAll(a).state = NoState /\ DrainedAll(a).frames = 0
<1>1. (a.playing \/ a.frames > 0) \in BOOLEAN
  OBVIOUS
<1> QED
  BY <1>1 DEF DrainedAll, AudioRecord, NoState

LEMMA SoundStep ==
    ASSUME AudioTypes, LoopTypes, SoundInvariant, [Next]_vars
    PROVE  AudioTypes' /\ SoundInvariant'
<1> USE DEF AudioTypes, SoundInvariant, Announced, At, Goto
<1>0. loop \in [pc : Places, serving : BOOLEAN, retry : BOOLEAN, asked : Nat]
  BY DEF LoopTypes, LoopRecord
<1>1. CASE UNCHANGED vars
  BY <1>1 DEF vars, audioVars
<1>2. ASSUME UserActs PROVE AudioTypes' /\ SoundInvariant'
  BY <1>2 DEF UserActs, audioVars
<1>3. CASE Refresh
  BY <1>0, <1>3 DEF Refresh, OfferJudged, RemoteAudio, AudioRecord
<1>4. CASE TakeCommand \/ CommandsTaken \/ ServeClipboard
  BY <1>0, <1>4 DEF TakeCommand, CommandsTaken, ServeClipboard, audioVars
<1>5. ASSUME NEW refused \in BOOLEAN, SendAndDrain(refused)
      PROVE  AudioTypes' /\ SoundInvariant'
  <2>1. loop'.pc = "refresh" /\ announced' = announced
    BY <1>0, <1>5 DEF SendAndDrain
  <2>2. CASE refused
    <3>1. audio' = DrainedRefused(audio)
      BY <1>5, <2>2 DEF SendAndDrain
    <3> QED
      BY <2>1, <3>1, SilentCalls DEF Silent
  <2>3. CASE ~ refused
    <3>1. audio' = DrainedAll(audio) /\ told' = ToldAll(audio, told)
      BY <1>5, <2>3 DEF SendAndDrain
    <3>2. Announced => Announced' \/ audio.state # NoState
      BY <3>1 DEF ToldAll, Told
    <3> QED
      BY <2>1, <3>1, <3>2, Drained
  <2> QED
    BY <2>2, <2>3
<1>6. CASE \/ ReadNothing \/ ReadGraphics \/ ReadClipboard
           \/ \E limit \in AreaLimits : ReadCaps(limit)
  BY <1>0, <1>6 DEF ReadNothing, ReadGraphics, ReadClipboard, ReadCaps, Reads, audioVars
<1>7. CASE ReadAudio
  <2>1. loop'.pc = "service" /\ announced' = announced /\ told' = told
    BY <1>0, <1>7 DEF ReadAudio, Reads
  <2>2. audio.offer = "none" /\ (announced => audio.current)
    BY <1>7 DEF ReadAudio, Reads
  <2>3. CASE \E exact \in BOOLEAN : audio' = OfferBegun(audio, exact)
    BY <2>1, <2>2, <2>3, SilentCalls DEF Silent
  <2>4. CASE (\E ok \in BOOLEAN : audio' = WaveAccepted(audio, ok)) /\ audio.current
    <3>1. CASE audio' = Degraded(audio)
      BY <2>1, <3>1, SilentCalls DEF Silent
    <3>2. CASE audio' = [audio EXCEPT !.frames = @ + 1]
      <4>1. /\ audio' \in AudioRecord /\ audio'.current = audio.current
            /\ audio'.degraded = audio.degraded /\ audio'.state = audio.state
            /\ audio'.offer = audio.offer
        BY <3>2 DEF AudioRecord
      <4> QED
        BY <2>1, <2>4, <4>1
    <3> QED
      BY <2>4, <3>1, <3>2 DEF WaveAccepted
  <2>5. CASE audio' = Stopped(audio)
    BY <2>1, <2>5, SilentCalls DEF Silent
  <2> QED
    BY <1>7, <2>3, <2>4, <2>5 DEF ReadAudio
<1>8. ASSUME NEW asked, ReadDeactivate(asked) PROVE AudioTypes' /\ SoundInvariant'
  <2>1. loop'.pc = "react" /\ announced' = FALSE /\ audio' = DrainedAll(Stopped(audio))
    BY <1>0, <1>8 DEF ReadDeactivate
  <2>2. Silent(Stopped(audio)) /\ Stopped(audio).offer = "none"
    BY SilentCalls
  <2>3. audio' \in AudioRecord /\ ~ audio'.current /\ audio'.offer = "none" /\ audio'.frames = 0
    BY <2>1, <2>2, Drained DEF Silent
  <2> QED
    BY <2>1, <2>3
<1>9. ASSUME NEW target \in Desktops, Finalize(target) PROVE AudioTypes' /\ SoundInvariant'
  <2>1. UNCHANGED audioVars
    BY <1>9 DEF Finalize
  <2>2. loop'.pc \in {"service", "ended"}
    BY <1>0, <1>9 DEF Finalize, Continues, Confirmation
  <2> QED
    BY <2>1, <2>2 DEF audioVars
<1> QED
  BY <1>1, <1>2, <1>3, <1>4, <1>5, <1>6, <1>7, <1>8, <1>9
  DEF Next, LoopStep, SeeGeneration, PressKey, CopyText, ResizeWindow, AnswerResize, ResizeDesktop

-----------------------------------------------------------------------------
(***************************************************************************)
(* Types: the clipboard.                                                   *)
(***************************************************************************)
LEMMA NewClipTyped == NewClip \in ClipRecord
BY DEF NewClip, ClipRecord, NoRemote, NoLocal, NoText, RemoteOffers, LocalOffers

LEMMA OfferedTyped ==
    ASSUME NEW c \in ClipRecord, NEW text \in Nat
    PROVE  Offered(c, text) \in ClipRecord
<1> DEFINE offer == [generation |-> c.next, text |-> text]
<1>1. /\ c.next + 1 \in Nat \ {0} /\ offer \in LocalOffers
      /\ NoLocal \in LocalOffers
  BY DEF ClipRecord, LocalOffers, NoLocal, NoText
<1>2. Offered(c, text) = [c EXCEPT !.next = @ + 1, !.accepted = NoLocal,
                                   !.pendingLocal = offer]
  BY DEF Offered
<1> HIDE DEF offer
<1> QED
  BY <1>1, <1>2 DEF ClipRecord

LEMMA ServiceTyped == ClipboardTypes /\ ServiceAction => ClipboardTypes'
<1> SUFFICES ASSUME ClipboardTypes, ServiceAction PROVE ClipboardTypes'
  OBVIOUS
<1> DEFINE a == Head(actions)
<1>1. actions \in Seq(Marks) /\ actions # <<>> /\ actions' = Tail(actions)
  BY DEF ClipboardTypes, ServiceAction
<1>2. a \in Marks /\ actions' \in Seq(Marks)
  BY <1>1, TailMembers
<1>3. CASE UNCHANGED <<clip, wire, peer>>
  BY <1>2, <1>3 DEF ClipboardTypes
<1>4. CASE wire' = Append(wire, Sent("list", NoText)) /\ UNCHANGED <<clip, peer>>
  <2>1. Sent("list", NoText) \in Marks
    BY DEF Sent, NoText, Marks, Kinds
  <2> QED
    BY <1>2, <1>4, <2>1, AppendMembers DEF ClipboardTypes
<1>5. CASE /\ wire' = Append(wire, Sent("list", clip.queued))
           /\ clip' = [Offered(clip, clip.queued) EXCEPT !.queued = NoText]
           /\ UNCHANGED peer
  <2>1. Sent("list", clip.queued) \in Marks
    BY DEF Sent, ClipboardTypes, ClipRecord, Marks, Kinds
  <2>2. clip' \in ClipRecord
    <3>1. Offered(clip, clip.queued) \in ClipRecord
      BY OfferedTyped DEF ClipboardTypes, ClipRecord
    <3> QED
      BY <1>5, <3>1 DEF ClipRecord, NoText
  <2> QED
    BY <1>2, <1>5, <2>1, <2>2, AppendMembers DEF ClipboardTypes
<1>6. CASE /\ wire' = Append(wire, Sent("request", peer.copies))
           /\ clip' = [clip EXCEPT !.outstanding = clip.pendingRemote,
                                   !.pendingRemote = NoRemote]
           /\ UNCHANGED peer
  <2>1. Sent("request", peer.copies) \in Marks
    BY DEF Sent, ClipboardTypes, ClipRecord, Marks, Kinds
  <2>2. clip' \in ClipRecord
    BY <1>6 DEF ClipboardTypes, ClipRecord, NoRemote, RemoteOffers
  <2> QED
    BY <1>2, <1>6, <2>1, <2>2, AppendMembers DEF ClipboardTypes
<1>7. CASE peer' = [peer EXCEPT !.asks = Tail(@)] /\ UNCHANGED <<clip, wire>>
  BY <1>2, <1>7 DEF ClipboardTypes
<1> QED
  BY <1>3, <1>4, <1>5, <1>6, <1>7 DEF ServiceAction

LEMMA WriteTyped ==
    ASSUME ClipboardTypes, NEW text \in Nat, WriteText(text)
    PROVE  ClipboardTypes'
<1>1. UNCHANGED <<actions, peer>>
  BY DEF WriteText
<1>2. CASE UNCHANGED <<clip, wire>>
  BY <1>1, <1>2 DEF ClipboardTypes
<1>3. CASE clip' = [clip EXCEPT !.queued = text] /\ UNCHANGED wire
  BY <1>1, <1>3 DEF ClipboardTypes, ClipRecord
<1>4. CASE clip' = Offered(clip, text) /\ wire' = Append(wire, Sent("list", text))
  <2>1. Sent("list", text) \in Marks
    BY DEF Sent, Marks, Kinds
  <2>2. clip' \in ClipRecord
    BY <1>4, OfferedTyped DEF ClipboardTypes
  <2> QED
    BY <1>1, <1>4, <2>1, <2>2, AppendMembers DEF ClipboardTypes
<1> QED
  BY <1>2, <1>3, <1>4 DEF WriteText

LEMMA OffersTyped ==
    ASSUME NEW c \in ClipRecord
    PROVE  /\ NoRemote \in RemoteOffers /\ NoLocal \in LocalOffers
           /\ \A flag \in BOOLEAN : [generation |-> c.next, unicode |-> flag] \in RemoteOffers
           /\ [generation |-> c.next, text |-> NoText] \in LocalOffers
           /\ c.next + 1 \in Nat \ {0}
BY DEF ClipRecord, LocalOffers, RemoteOffers, NoRemote, NoLocal, NoText

LEMMA MarksTyped ==
    ASSUME NEW n \in Nat
    PROVE  /\ AdvertiseInitial \in Marks /\ AdvertiseQueuedLocal \in Marks
           /\ RequestUnicode(n) \in Marks /\ RespondUnicode(n) \in Marks
           /\ RespondError \in Marks /\ Publish(n) \in Marks
BY DEF AdvertiseInitial, AdvertiseQueuedLocal, RequestUnicode, RespondUnicode,
       RespondError, Publish, Action, Marks, Kinds

LEMMA AcceptedTyped ==
    ASSUME NEW c \in ClipRecord, NEW ok \in BOOLEAN, NEW copy \in Nat
    PROVE  /\ Accepted(c, ok, copy).clip \in ClipRecord
           /\ \/ Accepted(c, ok, copy).actions = <<>>
              \/ \E x \in Marks : Accepted(c, ok, copy).actions = <<x>>
<1> DEFINE free == [c EXCEPT !.outstanding = NoRemote]
<1>1. free \in ClipRecord /\ [free EXCEPT !.pendingRemote = NoRemote] \in ClipRecord
  BY OffersTyped DEF ClipRecord
<1>2. RequestUnicode(c.pendingRemote.generation) \in Marks /\ Publish(copy) \in Marks
  BY MarksTyped DEF ClipRecord, RemoteOffers
<1> HIDE DEF free
<1> QED
  BY <1>1, <1>2 DEF Accepted, free

LEMMA ReadTyped ==
    ASSUME ClipboardTypes,
           \/ ReadMonitorReady \/ ReadDataRequest
           \/ \E flag \in BOOLEAN : ReadFormatList(flag) \/ ReadListReply(flag) \/ ReadData(flag)
    PROVE  ClipboardTypes'
<1>0. /\ clip \in ClipRecord /\ actions \in Seq(Marks) /\ wire \in Seq(Marks)
      /\ peer.copies \in Nat /\ peer.holds \in Nat
  BY DEF ClipboardTypes
<1>1. CASE ReadMonitorReady
  <2>1. actions' \in Seq(Marks) /\ wire' \in Seq(Marks)
    BY <1>0, <1>1, MarksTyped, AppendMembers DEF ReadMonitorReady
  <2>2. clip' \in ClipRecord
    <3> DEFINE offer == [generation |-> clip.next, text |-> NoText]
    <3>1. /\ offer \in LocalOffers /\ NoLocal \in LocalOffers /\ clip.next + 1 \in Nat \ {0}
      BY <1>0, OffersTyped
    <3>2. clip' = [clip EXCEPT !.next = @ + 1, !.accepted = NoLocal, !.queued = NoText,
                               !.pendingLocal = offer]
      BY <1>1 DEF ReadMonitorReady
    <3> HIDE DEF offer
    <3> QED
      BY <1>0, <3>1, <3>2 DEF ClipRecord, NoText
  <2> QED
    BY <1>1, <2>1, <2>2 DEF ClipboardTypes, ReadMonitorReady
<1>2. CASE ReadDataRequest
  <2>1. clip.accepted.generation \in Nat
    BY <1>0 DEF ClipRecord, LocalOffers
  <2>2. actions' \in Seq(Marks)
    BY <1>0, <1>2, <2>1, MarksTyped, AppendMembers DEF ReadDataRequest
  <2> QED
    BY <1>2, <2>2 DEF ClipboardTypes, ReadDataRequest
<1>3. ASSUME NEW unicode \in BOOLEAN, ReadFormatList(unicode) PROVE ClipboardTypes'
  <2>1. RequestUnicode(clip.next) \in Marks
    BY <1>0, MarksTyped DEF ClipRecord
  <2>2. actions' \in Seq(Marks)
    BY <1>0, <1>3, <2>1, AppendMembers DEF ReadFormatList, AppendIf
  <2>3. clip' \in ClipRecord
    <3> DEFINE offer == [generation |-> clip.next, unicode |-> unicode]
    <3>1. offer \in RemoteOffers /\ clip.next + 1 \in Nat \ {0}
      BY <1>0, OffersTyped
    <3>2. clip' = [clip EXCEPT !.next = @ + 1, !.remoteUnicode = unicode,
                               !.pendingRemote = offer]
      BY <1>3 DEF ReadFormatList
    <3> HIDE DEF offer
    <3> QED
      BY <1>0, <3>1, <3>2 DEF ClipRecord
  <2>4. peer' \in [greeted : BOOLEAN, copies : Nat, holds : Nat, asks : {peer'.asks}]
    <3>1. peer.copies + 1 \in Nat
      BY <1>0
    <3> QED
      BY <1>3, <3>1 DEF ReadFormatList, ClipboardTypes
  <2> QED
    BY <1>0, <1>3, <2>2, <2>3, <2>4 DEF ClipboardTypes, ReadFormatList
<1>4. ASSUME NEW accepted \in BOOLEAN, ReadListReply(accepted) PROVE ClipboardTypes'
  <2>1. wire' \in Seq(Marks) /\ Head(wire) \in Marks
    BY <1>0, <1>4, TailMembers DEF ReadListReply
  <2>2. peer' \in [greeted : BOOLEAN, copies : Nat, holds : Nat, asks : {peer'.asks}]
    BY <1>4, <2>1 DEF ReadListReply, ClipboardTypes, Marks
  <2>3. RequestUnicode(clip.pendingRemote.generation) \in Marks /\ AdvertiseQueuedLocal \in Marks
    BY <1>0, MarksTyped DEF ClipRecord, RemoteOffers
  <2>4. actions' \in Seq(Marks)
    <3>1. \A c, s, x : s \in Seq(Marks) /\ x \in Marks => AppendIf(c, s, x) \in Seq(Marks)
      BY AppendMembers DEF AppendIf
    <3> QED
      BY <1>0, <1>4, <2>3, <3>1 DEF ReadListReply
  <2>5. clip' \in ClipRecord
    <3> DEFINE opened == [clip EXCEPT !.ready = TRUE]
    <3>1. opened \in ClipRecord /\ clip.pendingLocal \in LocalOffers /\ NoLocal \in LocalOffers
      BY <1>0, OffersTyped DEF ClipRecord
    <3>2. ASSUME NEW c \in ClipRecord, NEW local \in LocalOffers
          PROVE  /\ [c EXCEPT !.pendingLocal = NoLocal, !.writeReady = TRUE,
                              !.accepted = local] \in ClipRecord
                 /\ [c EXCEPT !.pendingLocal = NoLocal, !.accepted = NoLocal] \in ClipRecord
      BY <3>1 DEF ClipRecord
    <3>3. PICK c \in {clip, opened} :
              \/ clip' = c
              \/ \E local \in {clip.pendingLocal, NoLocal} :
                     clip' = [c EXCEPT !.pendingLocal = NoLocal, !.writeReady = TRUE,
                                       !.accepted = local]
              \/ clip' = [c EXCEPT !.pendingLocal = NoLocal, !.accepted = NoLocal]
      BY <1>4, Zenon DEF ReadListReply
    <3> HIDE DEF opened
    <3>4. c \in ClipRecord
      BY <1>0, <3>1, <3>3
    <3>5. CASE \E local \in {clip.pendingLocal, NoLocal} :
                 clip' = [c EXCEPT !.pendingLocal = NoLocal, !.writeReady = TRUE,
                                   !.accepted = local]
      BY <3>1, <3>2, <3>4, <3>5, Zenon
    <3>6. CASE clip' = [c EXCEPT !.pendingLocal = NoLocal, !.accepted = NoLocal]
      BY <3>1, <3>2, <3>4, <3>6
    <3> QED
      BY <3>3, <3>4, <3>5, <3>6, Zenon
  <2> QED
    BY <2>1, <2>2, <2>4, <2>5 DEF ClipboardTypes
<1>5. ASSUME NEW ok \in BOOLEAN, ReadData(ok) PROVE ClipboardTypes'
  <2>1. wire' \in Seq(Marks) /\ Head(wire) \in Marks /\ peer' = peer
    BY <1>0, <1>5, TailMembers DEF ReadData
  <2>2. PICK copy \in Head(wire).n..peer.copies :
            /\ clip' = Accepted(clip, ok, copy).clip
            /\ actions' = actions \o Accepted(clip, ok, copy).actions
    BY <1>5 DEF ReadData
  <2>3. copy \in Nat
    BY <1>0, <2>1 DEF Marks
  <2>4. clip' \in ClipRecord /\ actions' \in Seq(Marks)
    <3>1. clip' \in ClipRecord
      BY <1>0, <2>2, <2>3, AcceptedTyped
    <3>2. CASE Accepted(clip, ok, copy).actions = <<>>
      BY <1>0, <2>2, <3>1, <3>2
    <3>3. CASE \E x \in Marks : Accepted(clip, ok, copy).actions = <<x>>
      BY <1>0, <2>2, <3>1, <3>3
    <3> QED
      BY <1>0, <2>3, <3>2, <3>3, AcceptedTyped
  <2> QED
    BY <2>1, <2>4 DEF ClipboardTypes
<1> QED
  BY <1>1, <1>2, <1>3, <1>4, <1>5

-----------------------------------------------------------------------------
(***************************************************************************)
(* Types: the display, the loop and what is outside it.                    *)
(***************************************************************************)
LEMMA DisplayCalls ==
    ASSUME NEW d \in DisplayRecord, NEW n \in Nat, NEW max \in Nat
    PROVE  /\ SetNegotiated(d, max) \in DisplayRecord
           /\ Observe(d, n) \in DisplayRecord
           /\ RequestTaken(d) \in DisplayRecord
           /\ Reactivated(d, n, max) \in DisplayRecord
           /\ d.queued \in Nat
<1>1. SetNegotiated(d, max) \in DisplayRecord
  BY DEF SetNegotiated, DisplayRecord, NoSize
<1>2. Observe(d, n) \in DisplayRecord
  BY DEF Observe, DisplayRecord, NoSize
<1>3. RequestTaken(d) \in DisplayRecord /\ d.queued \in Nat
  BY DEF RequestTaken, DisplayRecord, NoSize
<1>4. Reactivated(d, n, max) \in DisplayRecord
  <2>1. Confirmation(d, n, max) \in {"NoRequest", "StaleCapability", "Mismatch", "Confirmed"}
    BY DEF Confirmation
  <2>2. ASSUME NEW e \in DisplayRecord
        PROVE  /\ [e EXCEPT !.confirmed = n] \in DisplayRecord
               /\ [e EXCEPT !.inFlight = NoSize] \in DisplayRecord
               /\ [e EXCEPT !.confirmed = n, !.inFlight = NoSize] \in DisplayRecord
    BY DEF DisplayRecord, NoSize
  <2> QED
    BY <1>1, <2>1, <2>2 DEF Reactivated
<1> QED
  BY <1>1, <1>2, <1>3, <1>4

LEMMA CommandTyped ==
    ASSUME NEW kind \in {"viewport", "input", "text"}, NEW generation \in Nat, NEW n \in Nat
    PROVE  Command(kind, generation, n) \in Commands
BY DEF Command, Commands

LEMMA TailTyped ==
    ASSUME requests \in Seq(Nat), requests # <<>>
    PROVE  Tail(requests) \in Seq(Nat)
OBVIOUS

LEMMA LoopTypesStep ==
    ASSUME DisplayTypes, LoopTypes, [Next]_vars
    PROVE  DisplayTypes' /\ LoopTypes'
<1>0. /\ display \in DisplayRecord /\ caps \in Nat /\ requests \in Seq(Nat)
      /\ screen \in [generation : Nat, surface : Nat, image : Nat]
      /\ loop \in LoopRecord /\ commands \in Seq(Commands)
      /\ user \in [sees : Nat, desktop : Nat, window : Nat, texts : Nat]
      /\ Sizes \subseteq Nat /\ FirstSize \in Nat /\ AreaLimits \subseteq Nat
  BY SizesAssumption DEF DisplayTypes, LoopTypes
<1> DEFINE DisplayKept == UNCHANGED <<display, caps, requests>>
           LoopKept == UNCHANGED <<screen, commands, user>>
<1>1. ASSUME DisplayKept PROVE DisplayTypes'
  BY <1>1 DEF DisplayTypes
<1>2. ASSUME LoopKept, loop' \in LoopRecord PROVE LoopTypes'
  BY <1>2 DEF LoopTypes
<1>3. ASSUME UserActs, SeeGeneration \/ PressKey \/ CopyText \/ \E size \in Sizes : ResizeWindow(size)
      PROVE  DisplayTypes' /\ LoopTypes'
  <2>1. DisplayKept /\ UNCHANGED <<screen, loop>>
    BY <1>3 DEF UserActs, displayVars
  <2>2. user' \in [sees : Nat, desktop : Nat, window : Nat, texts : Nat]
    <3>1. user.texts + 1 \in Nat
      BY <1>0
    <3>2. CASE SeeGeneration \/ PressKey
      BY <1>0, <3>2 DEF SeeGeneration, PressKey
    <3>3. CASE CopyText
      BY <1>0, <3>1, <3>3 DEF CopyText
    <3>4. CASE \E size \in Sizes : ResizeWindow(size)
      BY <1>0, <3>4 DEF ResizeWindow
    <3> QED
      BY <1>3, <3>2, <3>3, <3>4
  <2>3. \E kind \in {"viewport", "input", "text"} : \E generation \in Nat : \E n \in Nat :
            commands' = Append(commands, Command(kind, generation, n))
    <3>1. CASE SeeGeneration
      BY <1>0, <3>1 DEF SeeGeneration, Send
    <3>2. CASE PressKey
      BY <1>0, <3>2 DEF PressKey, Send
    <3>3. CASE CopyText
      <4>1. user.texts + 1 \in Nat
        BY <1>0
      <4> QED
        BY <1>0, <3>3, <4>1 DEF CopyText, Send
    <3>4. CASE \E size \in Sizes : ResizeWindow(size)
      BY <1>0, <3>4 DEF ResizeWindow, Send
    <3> QED
      BY <1>3, <3>1, <3>2, <3>3, <3>4
  <2>4. commands' \in Seq(Commands)
    BY <1>0, <2>3, CommandTyped
  <2> QED
    BY <1>0, <1>1, <2>1, <2>2, <2>4 DEF LoopTypes
<1>4. CASE Refresh
  <2>1. display' \in DisplayRecord /\ UNCHANGED <<caps, requests>> /\ LoopKept
    BY <1>0, <1>4, DisplayCalls DEF Refresh, outside
  <2>2. loop' \in LoopRecord
    BY <1>0, <1>4 DEF Refresh, LoopRecord, Places
  <2> QED
    BY <1>0, <1>2, <2>1, <2>2 DEF DisplayTypes
<1>5. CASE TakeCommand
  <2>1. Head(commands) \in Commands /\ commands' \in Seq(Commands)
    BY <1>0, <1>5, TailMembers DEF TakeCommand
  <2>2. display' \in DisplayRecord
    BY <1>0, <1>5, <2>1, DisplayCalls DEF TakeCommand, Commands
  <2> QED
    BY <1>0, <1>5, <2>1, <2>2 DEF TakeCommand, DisplayTypes, LoopTypes
<1>6. CASE CommandsTaken \/ ServeClipboard
  <2>1. CASE CommandsTaken
    <3>1. loop' \in LoopRecord
      BY <1>0, <2>1 DEF CommandsTaken, LoopRecord, Places
    <3> QED
      BY <1>1, <1>2, <2>1, <3>1 DEF CommandsTaken, displayVars, outside
  <2>2. CASE ServeClipboard
    <3>1. loop' \in LoopRecord
      BY <1>0, <2>2 DEF ServeClipboard, LoopRecord, Places
    <3> QED
      BY <1>1, <1>2, <2>2, <3>1 DEF ServeClipboard, displayVars, outside
  <2> QED
    BY <1>6, <2>1, <2>2
<1>7. ASSUME NEW refused \in BOOLEAN, SendAndDrain(refused) PROVE DisplayTypes' /\ LoopTypes'
  <2>1. loop' \in LoopRecord /\ LoopKept
    BY <1>0, <1>7 DEF SendAndDrain, Goto, LoopRecord, Places, outside
  <2>2. display' \in DisplayRecord /\ caps' \in Nat /\ display.queued \in Nat
    BY <1>0, <1>7, DisplayCalls DEF SendAndDrain
  <2>3. requests' \in Seq(Nat)
    BY <1>0, <1>7, <2>2 DEF SendAndDrain
  <2> QED
    BY <1>2, <2>1, <2>2, <2>3 DEF DisplayTypes
<1>8. CASE \/ ReadNothing \/ ReadGraphics \/ ReadClipboard \/ ReadAudio
           \/ \E limit \in AreaLimits : ReadCaps(limit)
  <2>1. loop' \in LoopRecord /\ LoopKept
    BY <1>0, <1>8
    DEF ReadNothing, ReadGraphics, ReadClipboard, ReadAudio, ReadCaps, Reads, Goto, LoopRecord,
        Places, outside
  <2>2. display' = display /\ requests' = requests /\ caps' \in Nat
    BY <1>0, <1>8 DEF ReadNothing, ReadGraphics, ReadClipboard, ReadAudio, ReadCaps, displayVars
  <2> QED
    BY <1>0, <1>2, <2>1, <2>2 DEF DisplayTypes
<1>9. CASE AnswerResize \/ ResizeDesktop
  <2>1. requests' \in Seq(Nat)
    <3>0. requests \in Seq(Nat)
      BY <1>0
    <3>1. CASE requests # <<>> /\ requests' = Tail(requests)
      <4>1. Tail(requests) \in Seq(Nat)
        BY <3>0, <3>1, TailTyped
      <4> QED
        BY <3>1, <4>1, Zenon
    <3>2. requests' = requests \/ (requests # <<>> /\ requests' = Tail(requests))
      BY <1>9 DEF AnswerResize, ResizeDesktop
    <3> QED
      BY <3>0, <3>1, <3>2, Zenon
  <2>2. \E asked \in Nat : ReadDeactivate(asked)
    BY <1>0, <1>9 DEF AnswerResize, ResizeDesktop, NoSize
  <2>3. loop' \in LoopRecord /\ LoopKept /\ UNCHANGED <<display, caps>>
    BY <1>0, <2>2 DEF ReadDeactivate, outside, LoopRecord, Places
  <2> QED
    BY <1>0, <1>2, <2>1, <2>3 DEF DisplayTypes
<1>10. ASSUME NEW target \in Desktops, Finalize(target) PROVE DisplayTypes' /\ LoopTypes'
  <2>1. target \in Nat
    BY <1>0 DEF Desktops, LoopRecord
  <2>2. display' \in DisplayRecord /\ UNCHANGED <<caps, requests, commands, user>>
    BY <1>0, <1>10, <2>1, DisplayCalls DEF Finalize, Adopted, outside
  <2>3. /\ loop' \in LoopRecord
        /\ screen' \in [generation : Nat, surface : Nat, image : Nat]
    <3>1. Confirmation(display, target, caps) \in {"NoRequest", "StaleCapability", "Mismatch", "Confirmed"}
      BY DEF Confirmation
    <3>2. screen.generation + 1 \in Nat
      BY <1>0
    <3>3. /\ loop \in LoopRecord
          /\ screen \in [generation : Nat, surface : Nat, image : Nat]
      BY <1>0
    <3>4. CASE Confirmation(display, target, caps) = "Mismatch"
      <4>1. loop' = [loop EXCEPT !.pc = "ended"] /\ screen' = screen
        BY <1>10, <3>4 DEF Finalize, Goto
      <4> QED
        BY <3>3, <4>1 DEF LoopRecord, Places
    <3>5. CASE Confirmation(display, target, caps) = "StaleCapability"
      <4>1. /\ loop' = [loop EXCEPT !.pc = "service", !.retry = TRUE, !.asked = NoSize]
            /\ screen' = [screen EXCEPT !.image = target]
        BY <1>10, <3>5 DEF Finalize, Continues
      <4> QED
        BY <2>1, <3>3, <4>1 DEF LoopRecord, Places, NoSize
    <3>6. CASE Confirmation(display, target, caps) \in {"NoRequest", "Confirmed"}
      <4>1. /\ loop' = [loop EXCEPT !.pc = "service", !.retry = FALSE, !.asked = NoSize]
            /\ screen' = [generation |-> screen.generation + 1, surface |-> target,
                          image |-> target]
        BY <1>10, <3>6 DEF Finalize, Continues
      <4>2. loop' \in LoopRecord
        BY <3>3, <4>1 DEF LoopRecord, Places, NoSize
      <4>3. screen' \in [generation : Nat, surface : Nat, image : Nat]
        BY <2>1, <3>2, <4>1
      <4> QED
        BY <4>2, <4>3
    <3> QED
      BY <3>1, <3>4, <3>5, <3>6
  <2> QED
    BY <1>0, <2>2, <2>3 DEF DisplayTypes, LoopTypes
<1>11. CASE UNCHANGED vars
  BY <1>0, <1>1, <1>2, <1>11 DEF vars, displayVars, outside
<1> QED
  BY <1>3, <1>4, <1>5, <1>6, <1>7, <1>8, <1>9, <1>10, <1>11
  DEF Next, LoopStep, SeeGeneration, PressKey, CopyText, ResizeWindow

-----------------------------------------------------------------------------
(***************************************************************************)
(* Input.  A reactivation makes a new generation, so what was queued for   *)
(* the old one is behind it; a quarantine lets no input pass.              *)
(***************************************************************************)
LEMMA InputStep ==
    ASSUME DisplayTypes, LoopTypes, InputInvariant, [Next]_vars
    PROVE  InputInvariant'
<1>0. /\ screen \in [generation : Nat, surface : Nat, image : Nat]
      /\ loop \in LoopRecord /\ commands \in Seq(Commands)
      /\ user \in [sees : Nat, desktop : Nat, window : Nat, texts : Nat]
  BY DEF LoopTypes
<1> DEFINE Fits(c, generation, surface) ==
               /\ c.generation <= generation
               /\ c.kind = "input" /\ c.generation = generation => c.n = surface
           Good == {c \in Commands : Fits(c, screen.generation, screen.surface)}
           LoopKept == UNCHANGED <<screen, commands, user>>
<1>1. \A i \in DOMAIN commands : commands[i] \in Good
  BY <1>0 DEF InputInvariant
<1>2. ASSUME screen' = screen, commands' = commands \/ \E c \in Good : commands' = Append(commands, c)
      PROVE  \A i \in DOMAIN commands' : Fits(commands'[i], screen'.generation, screen'.surface)
  <2>1. CASE commands' = commands
    BY <1>1, <1>2, <2>1
  <2>2. ASSUME NEW c \in Good, commands' = Append(commands, c)
        PROVE  \A i \in DOMAIN commands' : commands'[i] \in Good
    <3>1. c \in Commands
      OBVIOUS
    <3> HIDE DEF Good
    <3> QED
      BY <1>0, <1>1, <2>2, <3>1, AppendEach
  <2> QED
    BY <1>2, <2>1, <2>2
<1>3. ASSUME UserActs, SeeGeneration \/ PressKey \/ CopyText \/ \E size \in Sizes : ResizeWindow(size)
      PROVE  InputInvariant'
  <2>1. screen' = screen /\ loop' = loop
    BY <1>3 DEF UserActs
  <2>2. /\ user'.sees <= screen.generation
        /\ user'.sees = screen.generation => user'.desktop = screen.surface
    <3>1. CASE SeeGeneration
      BY <1>0, <3>1 DEF SeeGeneration
    <3>2. CASE \/ PressKey \/ CopyText \/ \E size \in Sizes : ResizeWindow(size)
      <4>1. user'.sees = user.sees /\ user'.desktop = user.desktop
        BY <1>0, <3>2 DEF PressKey, CopyText, ResizeWindow
      <4> QED
        BY <4>1 DEF InputInvariant
    <3> QED
      BY <1>3, <3>1, <3>2
  <2>3. \E c \in Good : commands' = Append(commands, c)
    <3>1. CASE SeeGeneration
      <4>1. Command("viewport", screen.generation, user.window) \in Good
        BY <1>0 DEF Command, Commands
      <4> QED
        BY <3>1, <4>1 DEF SeeGeneration, Send
    <3>2. CASE PressKey
      <4>1. Command("input", user.sees, user.desktop) \in Good
        BY <1>0 DEF Command, Commands, InputInvariant
      <4> QED
        BY <3>2, <4>1 DEF PressKey, Send
    <3>3. CASE CopyText
      <4>1. Command("text", user.sees, user.texts + 1) \in Good
        BY <1>0 DEF Command, Commands, InputInvariant
      <4> QED
        BY <3>3, <4>1 DEF CopyText, Send
    <3>4. ASSUME NEW size \in Sizes, ResizeWindow(size)
          PROVE  \E c \in Good : commands' = Append(commands, c)
      <4>1. Command("viewport", user.sees, size) \in Good
        BY <1>0, SizesAssumption DEF Command, Commands, InputInvariant
      <4> QED
        BY <3>4, <4>1 DEF ResizeWindow, Send
    <3> QED
      BY <1>3, <3>1, <3>2, <3>3, <3>4
  <2>4. \A i \in DOMAIN commands' : Fits(commands'[i], screen'.generation, screen'.surface)
    BY <1>2, <2>1, <2>3
  <2> QED
    BY <2>1, <2>2, <2>4 DEF InputInvariant
<1>4. ASSUME LoopKept, loop'.retry = loop.retry PROVE InputInvariant'
  BY <1>4 DEF InputInvariant
<1>5. CASE Refresh \/ CommandsTaken \/ ServeClipboard \/ \E refused \in BOOLEAN : SendAndDrain(refused)
  <2>1. LoopKept /\ loop'.retry = loop.retry
    BY <1>0, <1>5 DEF Refresh, CommandsTaken, ServeClipboard, SendAndDrain, Goto, LoopRecord, outside
  <2> QED
    BY <1>4, <2>1
<1>6. CASE TakeCommand
  <2>1. /\ commands # <<>> /\ commands' = Tail(commands)
        /\ UNCHANGED <<screen, loop, user>>
    BY <1>6 DEF TakeCommand
  <2>2. \A i \in DOMAIN Tail(commands) : Tail(commands)[i] \in Good
    <3> HIDE DEF Good
    <3> QED
      BY <1>0, <1>1, <2>1, TailEach
  <2>3. \A i \in DOMAIN commands' : Fits(commands'[i], screen.generation, screen.surface)
    BY <1>1, <2>1, <2>2
  <2> QED
    BY <2>1, <2>3 DEF InputInvariant
<1>7. CASE \/ ReadNothing \/ ReadGraphics \/ ReadClipboard \/ ReadAudio
           \/ \E limit \in AreaLimits : ReadCaps(limit)
  <2>1. LoopKept /\ loop'.retry = loop.retry
    BY <1>0, <1>7
    DEF ReadNothing, ReadGraphics, ReadClipboard, ReadAudio, ReadCaps, Reads, Goto, LoopRecord, outside
  <2> QED
    BY <1>4, <2>1
<1>8. CASE AnswerResize \/ ResizeDesktop
  <2>1. LoopKept /\ loop'.retry = loop.retry
    BY <1>0, <1>8 DEF AnswerResize, ResizeDesktop, ReadDeactivate, LoopRecord, outside
  <2> QED
    BY <1>4, <2>1
<1>9. ASSUME NEW target \in Desktops, Finalize(target) PROVE InputInvariant'
  <2>0. UNCHANGED <<commands, user>>
    BY <1>9 DEF Finalize, outside
  <2>1. Confirmation(display, target, caps) \in {"NoRequest", "StaleCapability", "Mismatch", "Confirmed"}
    BY DEF Confirmation
  <2>2. CASE Confirmation(display, target, caps) = "Mismatch"
    <3>1. LoopKept /\ loop'.retry = loop.retry
      BY <1>0, <1>9, <2>0, <2>2 DEF Finalize, Goto, LoopRecord
    <3> QED
      BY <1>4, <3>1
  <2>3. CASE Confirmation(display, target, caps) = "StaleCapability"
    <3>1. /\ loop'.retry /\ screen'.surface = screen.surface
          /\ screen'.generation = screen.generation
      BY <1>0, <1>9, <2>3 DEF Finalize, Continues, LoopRecord
    <3> QED
      BY <2>0, <3>1 DEF InputInvariant
  <2>4. CASE Confirmation(display, target, caps) \in {"NoRequest", "Confirmed"}
    <3>1. screen' = [generation |-> screen.generation + 1, surface |-> target,
                     image |-> target]
      BY <1>9, <2>4 DEF Finalize, Continues
    <3>2. user.sees < screen'.generation
      BY <1>0, <3>1 DEF InputInvariant
    <3>3. \A i \in DOMAIN commands : commands[i].generation < screen'.generation
      BY <1>0, <1>1, <3>1 DEF Commands
    <3>4. /\ user'.sees <= screen'.generation /\ user'.sees # screen'.generation
          /\ \A i \in DOMAIN commands' :
                 /\ commands'[i].generation <= screen'.generation
                 /\ commands'[i].generation # screen'.generation
      <4>1. screen'.generation \in Nat /\ user.sees \in Nat
        BY <1>0, <3>1
      <4>2. \A i \in DOMAIN commands : commands[i].generation \in Nat
        BY <1>1 DEF Commands
      <4> QED
        BY <2>0, <3>2, <3>3, <4>1, <4>2
    <3> QED
      BY <2>0, <3>1, <3>4 DEF InputInvariant
  <2> QED
    BY <2>1, <2>2, <2>3, <2>4
<1>10. CASE UNCHANGED vars
  BY <1>4, <1>10 DEF vars, outside
<1> QED
  BY <1>3, <1>5, <1>6, <1>7, <1>8, <1>9, <1>10
  DEF Next, LoopStep, SeeGeneration, PressKey, CopyText, ResizeWindow

-----------------------------------------------------------------------------
(***************************************************************************)
(* The clipboard: nothing is forgotten.                                    *)
(***************************************************************************)
\* The actions differ in their kinds.
LEMMA MarksDiffer ==
    /\ AdvertiseInitial.kind = "AdvertiseInitial"
    /\ AdvertiseQueuedLocal.kind = "AdvertiseQueuedLocal"
    /\ \A n : /\ RequestUnicode(n).kind = "RequestUnicode" /\ RequestUnicode(n).n = n
              /\ Sent("list", n).kind = "list" /\ Sent("request", n).kind = "request"
BY DEF AdvertiseInitial, AdvertiseQueuedLocal, RequestUnicode, Action, Sent

\* A new generation is an offer.
LEMMA NewOffers ==
    ASSUME NEW c \in ClipRecord, NEW x
    PROVE  /\ [generation |-> c.next, text |-> x] # NoLocal
           /\ [generation |-> c.next, unicode |-> x] # NoRemote
BY DEF ClipRecord, NoLocal, NoRemote

LEMMA StuckService == ClipboardTypes /\ NothingStuck /\ ServiceAction => NothingStuck'
<1> SUFFICES ASSUME ClipboardTypes, NothingStuck, ServiceAction PROVE NothingStuck'
  OBVIOUS
<1> DEFINE a == Head(actions)
<1>0. /\ clip \in ClipRecord /\ actions \in Seq(Marks) /\ wire \in Seq(Marks)
      /\ actions # <<>> /\ actions' = Tail(actions)
      /\ peer.copies \in Nat
  BY DEF ClipboardTypes, ServiceAction
<1>1. \A y : Among(y, actions) <=> Among(y, actions') \/ y = a
  BY <1>0, TailMembers
<1>2. \A y : a.kind # y.kind /\ Among(y, actions) => Among(y, actions')
  BY <1>1
<1> HIDE DEF a
<1>3. CASE a.kind = "Publish" /\ UNCHANGED <<clip, wire, peer>>
  BY <1>2, <1>3, MarksDiffer
  DEF NothingStuck, LocalTextTakenUp, RemoteOfferTakenUp, AnswersOwed
<1>4. CASE IsVoid(a) /\ UNCHANGED <<clip, wire, peer>>
  <2>1. CASE /\ a.kind = "AdvertiseQueuedLocal"
             /\ clip.pendingLocal # NoLocal \/ clip.queued = NoText
    BY <1>2, <1>4, <2>1, MarksDiffer
    DEF NothingStuck, LocalTextTakenUp, RemoteOfferTakenUp, AnswersOwed
  <2>2. CASE a.kind = "RequestUnicode" /\ a.n \notin RemoteRequest(clip)
    <3>1. LocalTextTakenUp' /\ AnswersOwed'
      BY <1>2, <1>4, <2>2, MarksDiffer DEF NothingStuck, LocalTextTakenUp, AnswersOwed
    <3>2. RemoteOfferTakenUp'
      <4>1. SUFFICES ASSUME clip.ready, clip.pendingRemote.unicode, clip.outstanding = NoRemote
                     PROVE  Among(RequestUnicode(clip.pendingRemote.generation), actions')
        BY <1>4 DEF RemoteOfferTakenUp
      <4>2. a.n # clip.pendingRemote.generation
        BY <2>2, <4>1 DEF RemoteRequest
      <4>3. Among(RequestUnicode(clip.pendingRemote.generation), actions)
        BY <4>1 DEF NothingStuck, RemoteOfferTakenUp
      <4> QED
        BY <1>1, <4>2, <4>3, MarksDiffer
    <3> QED
      BY <3>1, <3>2 DEF NothingStuck
  <2> QED
    BY <1>4, <2>1, <2>2 DEF IsVoid
<1>5. CASE /\ a.kind = "AdvertiseInitial"
           /\ wire' = Append(wire, Sent("list", NoText)) /\ UNCHANGED <<clip, peer>>
  <2>1. Sent("list", NoText) \in Marks
    BY DEF Sent, NoText, Marks, Kinds
  <2>2. HasKind("list", wire') /\ (HasKind("request", wire) => HasKind("request", wire'))
    BY <1>0, <1>5, <2>1, AppendMembers, MarksDiffer
  <2> QED
    BY <1>2, <1>5, <2>2, MarksDiffer
    DEF NothingStuck, LocalTextTakenUp, RemoteOfferTakenUp, AnswersOwed
<1>6. CASE /\ a.kind = "AdvertiseQueuedLocal"
           /\ wire' = Append(wire, Sent("list", clip.queued))
           /\ clip' = [Offered(clip, clip.queued) EXCEPT !.queued = NoText]
  <2>1. Sent("list", clip.queued) \in Marks
    BY <1>0 DEF Sent, ClipRecord, Marks, Kinds
  <2>2. HasKind("list", wire') /\ (HasKind("request", wire) => HasKind("request", wire'))
    BY <1>0, <1>6, <2>1, AppendMembers, MarksDiffer
  <2>3. /\ clip'.queued = NoText /\ clip'.ready = clip.ready
        /\ clip'.pendingRemote = clip.pendingRemote /\ clip'.outstanding = clip.outstanding
    BY <1>0, <1>6 DEF Offered, ClipRecord
  <2> QED
    BY <1>2, <1>6, <2>2, <2>3, MarksDiffer
    DEF NothingStuck, LocalTextTakenUp, RemoteOfferTakenUp, AnswersOwed
<1>7. CASE /\ a.kind = "RequestUnicode"
           /\ wire' = Append(wire, Sent("request", peer.copies))
           /\ clip' = [clip EXCEPT !.outstanding = clip.pendingRemote,
                                   !.pendingRemote = NoRemote]
  <2>1. Sent("request", peer.copies) \in Marks
    BY <1>0 DEF Sent, Marks, Kinds
  <2>2. HasKind("request", wire') /\ (HasKind("list", wire) => HasKind("list", wire'))
    BY <1>0, <1>7, <2>1, AppendMembers, MarksDiffer
  <2>3. /\ clip'.queued = clip.queued /\ clip'.pendingLocal = clip.pendingLocal
        /\ clip'.pendingRemote = NoRemote
    BY <1>0, <1>7 DEF ClipRecord
  <2>4. ~ NoRemote.unicode
    BY DEF NoRemote
  <2> QED
    BY <1>2, <1>7, <2>2, <2>3, <2>4, MarksDiffer
    DEF NothingStuck, LocalTextTakenUp, RemoteOfferTakenUp, AnswersOwed
<1>8. CASE a.kind \in {"RespondUnicode", "RespondError"} /\ UNCHANGED <<clip, wire>>
  BY <1>2, <1>8, MarksDiffer
  DEF NothingStuck, LocalTextTakenUp, RemoteOfferTakenUp, AnswersOwed
<1> QED
  BY <1>3, <1>4, <1>5, <1>6, <1>7, <1>8 DEF ServiceAction, a

LEMMA StuckWrite ==
    ASSUME ClipboardTypes, NothingStuck, NEW text \in Nat, WriteText(text)
    PROVE  NothingStuck'
<1>0. clip \in ClipRecord /\ wire \in Seq(Marks) /\ actions' = actions
  BY DEF ClipboardTypes, WriteText
<1>1. CASE UNCHANGED <<clip, wire>>
  BY <1>0, <1>1 DEF NothingStuck, LocalTextTakenUp, RemoteOfferTakenUp, AnswersOwed
<1>2. CASE /\ clip.pendingLocal # NoLocal \/ clip.queued # NoText
           /\ clip' = [clip EXCEPT !.queued = text] /\ UNCHANGED wire
  <2>1. /\ clip'.pendingLocal = clip.pendingLocal /\ clip'.ready = clip.ready
        /\ clip'.pendingRemote = clip.pendingRemote /\ clip'.outstanding = clip.outstanding
    BY <1>0, <1>2 DEF ClipRecord
  <2> QED
    BY <1>0, <1>2, <2>1 DEF NothingStuck, LocalTextTakenUp, RemoteOfferTakenUp, AnswersOwed
<1>3. CASE clip' = Offered(clip, text) /\ wire' = Append(wire, Sent("list", text))
  <2>1. Sent("list", text) \in Marks
    BY DEF Sent, Marks, Kinds
  <2>2. HasKind("list", wire') /\ (HasKind("request", wire) => HasKind("request", wire'))
    BY <1>0, <1>3, <2>1, AppendMembers, MarksDiffer
  <2>3. /\ clip'.pendingLocal = [generation |-> clip.next, text |-> text]
        /\ clip'.ready = clip.ready
        /\ clip'.pendingRemote = clip.pendingRemote /\ clip'.outstanding = clip.outstanding
    BY <1>0, <1>3 DEF Offered, ClipRecord
  <2>4. clip'.pendingLocal # NoLocal
    BY <1>0, <2>3, NewOffers
  <2> QED
    BY <1>0, <2>2, <2>3, <2>4 DEF NothingStuck, LocalTextTakenUp, RemoteOfferTakenUp, AnswersOwed
<1> QED
  BY <1>1, <1>2, <1>3 DEF WriteText

LEMMA AppendIfMembers ==
    ASSUME NEW s \in Seq(Marks), NEW x \in Marks, NEW condition
    PROVE  /\ AppendIf(condition, s, x) \in Seq(Marks)
           /\ \A y : Among(y, s) => Among(y, AppendIf(condition, s, x))
           /\ condition => Among(x, AppendIf(condition, s, x))
BY AppendMembers DEF AppendIf

LEMMA StuckListReply ==
    ASSUME ClipboardTypes, NothingStuck, NEW accepted \in BOOLEAN, ReadListReply(accepted)
    PROVE  NothingStuck'
<1> DEFINE opened == IF accepted /\ ~ clip.ready THEN [clip EXCEPT !.ready = TRUE] ELSE clip
           asking == accepted /\ ~ clip.ready /\ RemoteRequest(opened) # {}
           request == RequestUnicode(clip.pendingRemote.generation)
           answered == clip.pendingLocal # NoLocal
           before == AppendIf(asking, actions, request)
<1>0. /\ clip \in ClipRecord /\ actions \in Seq(Marks) /\ wire \in Seq(Marks)
      /\ wire # <<>> /\ Head(wire).kind = "list" /\ wire' = Tail(wire)
  BY DEF ClipboardTypes, ReadListReply
<1>1. HasKind("request", wire) => HasKind("request", wire')
  BY <1>0, TailMembers
<1>2. actions' = AppendIf(answered /\ clip.queued # NoText, before, AdvertiseQueuedLocal)
  BY DEF ReadListReply
<1>3. request \in Marks /\ AdvertiseQueuedLocal \in Marks
  BY <1>0, MarksTyped DEF ClipRecord, RemoteOffers
<1>4. /\ before \in Seq(Marks) /\ \A y : Among(y, actions) => Among(y, before)
      /\ asking => Among(request, before)
  <2> HIDE DEF request, asking
  <2> QED
    BY <1>0, <1>3, AppendIfMembers DEF before
<1>5. /\ \A y : Among(y, before) => Among(y, actions')
      /\ answered /\ clip.queued # NoText => Among(AdvertiseQueuedLocal, actions')
  <2> HIDE DEF before, answered
  <2> QED
    BY <1>2, <1>3, <1>4, AppendIfMembers
<1>6. /\ clip'.queued = clip.queued /\ clip'.pendingRemote = clip.pendingRemote
      /\ clip'.outstanding = clip.outstanding
      /\ clip'.ready <=> clip.ready \/ accepted
      /\ clip'.pendingLocal = NoLocal
  <2>1. /\ opened.queued = clip.queued /\ opened.pendingRemote = clip.pendingRemote
        /\ opened.outstanding = clip.outstanding
        /\ opened.ready <=> clip.ready \/ accepted
        /\ opened.pendingLocal = clip.pendingLocal
        /\ opened \in ClipRecord
    BY <1>0 DEF ClipRecord
  <2>2. \/ clip' = opened /\ clip.pendingLocal = NoLocal
        \/ \E local : clip' = [opened EXCEPT !.pendingLocal = NoLocal, !.writeReady = TRUE,
                                             !.accepted = local]
        \/ clip' = [opened EXCEPT !.pendingLocal = NoLocal, !.accepted = NoLocal]
    BY Zenon DEF ReadListReply
  <2> HIDE DEF opened
  <2> QED
    BY <2>1, <2>2 DEF ClipRecord
<1>7. LocalTextTakenUp'
  BY <1>4, <1>5, <1>6 DEF NothingStuck, LocalTextTakenUp
<1>8. AnswersOwed'
  BY <1>1, <1>6 DEF NothingStuck, AnswersOwed
<1>9. RemoteOfferTakenUp'
  <2>1. SUFFICES ASSUME clip'.ready, clip.pendingRemote.unicode, clip.outstanding = NoRemote
                 PROVE  Among(request, actions')
    BY <1>6 DEF RemoteOfferTakenUp
  <2>2. CASE clip.ready
    BY <1>4, <1>5, <2>1, <2>2 DEF NothingStuck, RemoteOfferTakenUp
  <2>3. CASE ~ clip.ready
    <3>1. asking
      BY <1>0, <1>6, <2>1, <2>3 DEF RemoteRequest, ClipRecord
    <3> QED
      BY <1>4, <1>5, <3>1
  <2> QED
    BY <2>2, <2>3
<1> QED
  BY <1>7, <1>8, <1>9 DEF NothingStuck

LEMMA ConcatMembers ==
    ASSUME NEW s \in Seq(Marks), NEW x \in Marks
    PROVE  \A y : Among(y, s \o <<x>>) <=> Among(y, s) \/ y = x
<1>1. s \o <<x>> = Append(s, x)
  BY ConcatShort
<1>2. \A y : Among(y, Append(s, x)) <=> Among(y, s) \/ y = x
  BY AppendMembers
<1> QED
  BY <1>1, <1>2, Zenon

LEMMA StuckData ==
    ASSUME ClipboardTypes, NothingStuck, NEW ok \in BOOLEAN, ReadData(ok)
    PROVE  NothingStuck'
<1>0. /\ clip \in ClipRecord /\ actions \in Seq(Marks) /\ wire \in Seq(Marks)
      /\ wire # <<>> /\ Head(wire).kind = "request" /\ wire' = Tail(wire)
      /\ Head(wire) \in Marks /\ peer.copies \in Nat
  <2>1. actions \in Seq(Marks) /\ wire \in Seq(Marks) /\ wire # <<>>
    BY DEF ClipboardTypes, ReadData
  <2> QED
    BY <2>1, TailMembers DEF ClipboardTypes, ReadData
<1>1. HasKind("list", wire) => HasKind("list", wire')
  BY <1>0, TailMembers
<1>2. PICK copy \in Head(wire).n..peer.copies :
          /\ clip' = Accepted(clip, ok, copy).clip
          /\ actions' = actions \o Accepted(clip, ok, copy).actions
  BY DEF ReadData
<1>3. copy \in Nat
  BY <1>0 DEF Marks
<1>4. CASE clip.outstanding = NoRemote
  <2>1. clip' = clip /\ actions' = actions
    BY <1>0, <1>2, <1>4, ConcatShort DEF Accepted
  <2> QED
    BY <1>1, <1>4, <2>1 DEF NothingStuck, LocalTextTakenUp, RemoteOfferTakenUp, AnswersOwed
<1>5. CASE clip.outstanding # NoRemote
  <2> DEFINE free == [clip EXCEPT !.outstanding = NoRemote]
             request == RequestUnicode(clip.pendingRemote.generation)
  <2>1. /\ free.queued = clip.queued /\ free.pendingLocal = clip.pendingLocal
        /\ free.outstanding = NoRemote /\ free.pendingRemote = clip.pendingRemote
        /\ free.ready = clip.ready /\ free \in ClipRecord
    BY <1>0, OffersTyped DEF ClipRecord
  <2>2. request \in Marks /\ Publish(copy) \in Marks
    BY <1>0, <1>3, MarksTyped DEF ClipRecord, RemoteOffers
  <2>3. \/ /\ clip' = free /\ clip.ready /\ clip.pendingRemote.unicode
           /\ actions' = actions \o <<request>>
        \/ /\ clip' = [free EXCEPT !.pendingRemote = NoRemote] /\ actions' = actions
        \/ /\ clip' = free /\ clip.pendingRemote = NoRemote
           /\ actions' = actions \/ actions' = actions \o <<Publish(copy)>>
    <3>1. actions \o <<>> = actions
      BY <1>0
    <3> QED
      BY <1>2, <1>5, <3>1, Zenon DEF Accepted
  <2> HIDE DEF free, request
  <2>4. \A y : Among(y, actions) => Among(y, actions')
    <3>1. \A x \in Marks : \A y : Among(y, actions) => Among(y, actions \o <<x>>)
      BY <1>0, ConcatMembers, Zenon
    <3> QED
      BY <2>2, <2>3, <3>1, Zenon
  <2>5. /\ clip'.queued = clip.queued /\ clip'.pendingLocal = clip.pendingLocal
        /\ clip'.outstanding = NoRemote /\ clip'.ready = clip.ready
        /\ \/ /\ clip'.pendingRemote = clip.pendingRemote
              /\ actions' = actions \o <<request>>
           \/ clip'.pendingRemote = NoRemote
    BY <2>1, <2>3 DEF ClipRecord
  <2>6. RemoteOfferTakenUp'
    <3>1. CASE clip'.pendingRemote = clip.pendingRemote /\ actions' = actions \o <<request>>
      <4>1. Among(request, actions')
        BY <1>0, <2>2, <3>1, ConcatMembers, Zenon
      <4> QED
        BY <3>1, <4>1 DEF RemoteOfferTakenUp, request
    <3>2. CASE clip'.pendingRemote = NoRemote
      BY <3>2 DEF RemoteOfferTakenUp, NoRemote
    <3> QED
      BY <2>5, <3>1, <3>2
  <2>7. LocalTextTakenUp' /\ AnswersOwed'
    BY <1>1, <2>4, <2>5 DEF NothingStuck, LocalTextTakenUp, AnswersOwed
  <2> QED
    BY <2>6, <2>7 DEF NothingStuck
<1> QED
  BY <1>4, <1>5

LEMMA StuckRead ==
    ASSUME ClipboardTypes, NothingStuck,
           ReadMonitorReady \/ ReadDataRequest \/ \E unicode \in BOOLEAN : ReadFormatList(unicode)
    PROVE  NothingStuck'
<1>0. clip \in ClipRecord /\ actions \in Seq(Marks)
  BY DEF ClipboardTypes
<1>1. CASE ReadMonitorReady
  <2>1. /\ actions' = Append(actions, AdvertiseInitial) /\ wire' = wire
        /\ clip'.queued = NoText /\ clip'.ready = clip.ready
        /\ clip'.pendingRemote = clip.pendingRemote /\ clip'.outstanding = clip.outstanding
    BY <1>0, <1>1 DEF ReadMonitorReady, ClipRecord
  <2>2. Among(AdvertiseInitial, actions') /\ \A y : Among(y, actions) => Among(y, actions')
    BY <1>0, <2>1, AppendMembers, MarksTyped
  <2> QED
    BY <2>1, <2>2 DEF NothingStuck, LocalTextTakenUp, RemoteOfferTakenUp, AnswersOwed
<1>2. CASE ReadDataRequest
  <2>1. clip.accepted.generation \in Nat
    BY <1>0 DEF ClipRecord, LocalOffers
  <2>2. \A y : Among(y, actions) => Among(y, actions')
    BY <1>0, <1>2, <2>1, AppendMembers, MarksTyped DEF ReadDataRequest
  <2>3. UNCHANGED <<clip, wire>>
    BY <1>2 DEF ReadDataRequest
  <2> QED
    BY <2>2, <2>3 DEF NothingStuck, LocalTextTakenUp, RemoteOfferTakenUp, AnswersOwed
<1>3. ASSUME NEW unicode \in BOOLEAN, ReadFormatList(unicode) PROVE NothingStuck'
  <2> DEFINE asks == unicode /\ clip.outstanding = NoRemote /\ clip.ready
  <2>1. /\ clip'.queued = clip.queued /\ clip'.pendingLocal = clip.pendingLocal
        /\ clip'.outstanding = clip.outstanding /\ clip'.ready = clip.ready
        /\ clip'.pendingRemote = [generation |-> clip.next, unicode |-> unicode]
        /\ wire' = wire /\ actions' = AppendIf(asks, actions, RequestUnicode(clip.next))
    BY <1>0, <1>3 DEF ReadFormatList, ClipRecord
  <2>2. RequestUnicode(clip.next) \in Marks
    BY <1>0, MarksTyped DEF ClipRecord
  <2>3. /\ \A y : Among(y, actions) => Among(y, actions')
        /\ asks => Among(RequestUnicode(clip.next), actions')
    <3> HIDE DEF asks
    <3> QED
      BY <1>0, <2>1, <2>2, AppendIfMembers
  <2>4. RemoteOfferTakenUp'
    BY <2>1, <2>3 DEF RemoteOfferTakenUp
  <2> QED
    BY <2>1, <2>3, <2>4 DEF NothingStuck, LocalTextTakenUp, AnswersOwed
<1> QED
  BY <1>1, <1>2, <1>3

-----------------------------------------------------------------------------
(***************************************************************************)
(* The clipboard: the request that is out.                                 *)
(***************************************************************************)
LEMMA RequestKept ==
    ASSUME RequestsFit, clip'.outstanding = clip.outstanding,
           clip'.pendingRemote = clip.pendingRemote, peer'.copies = peer.copies,
           wire \in Seq(Marks),
           \/ wire' = wire
           \/ wire # <<>> /\ wire' = Tail(wire)
           \/ \E x \in Marks : x.kind = "list" /\ wire' = Append(wire, x)
    PROVE  RequestsFit'
<1>1. CASE wire' = wire
  BY <1>1 DEF RequestsFit
<1>2. CASE wire # <<>> /\ wire' = Tail(wire)
  <2>1. \A i \in DOMAIN wire' : i + 1 \in DOMAIN wire /\ wire'[i] = wire[i + 1] /\ i \in Nat
    BY <1>2
  <2> QED
    BY <2>1 DEF RequestsFit
<1>3. ASSUME NEW x \in Marks, x.kind = "list", wire' = Append(wire, x)
      PROVE  RequestsFit'
  <2>1. \A i \in DOMAIN wire' :
            \/ i \in DOMAIN wire /\ wire'[i] = wire[i]
            \/ wire'[i] = x
    BY <1>3
  <2> QED
    BY <1>3, <2>1 DEF RequestsFit
<1> QED
  BY <1>1, <1>2, <1>3

LEMMA RequestService == ClipboardTypes /\ RequestsFit /\ ServiceAction => RequestsFit'
<1> SUFFICES ASSUME ClipboardTypes, RequestsFit, ServiceAction PROVE RequestsFit'
  OBVIOUS
<1> DEFINE a == Head(actions)
<1>0. clip \in ClipRecord /\ wire \in Seq(Marks) /\ peer.copies \in Nat
  BY DEF ClipboardTypes
<1> HIDE DEF a
<1>1. CASE UNCHANGED <<clip, wire, peer>>
  BY <1>0, <1>1, RequestKept
<1>2. CASE wire' = Append(wire, Sent("list", NoText)) /\ UNCHANGED <<clip, peer>>
  <2>1. Sent("list", NoText) \in Marks
    BY DEF Sent, NoText, Marks, Kinds
  <2> QED
    BY <1>0, <1>2, <2>1, MarksDiffer, RequestKept
<1>3. CASE /\ wire' = Append(wire, Sent("list", clip.queued))
           /\ clip' = [Offered(clip, clip.queued) EXCEPT !.queued = NoText]
           /\ UNCHANGED peer
  <2>1. Sent("list", clip.queued) \in Marks
    BY <1>0 DEF Sent, ClipRecord, Marks, Kinds
  <2>2. clip'.pendingRemote = clip.pendingRemote /\ clip'.outstanding = clip.outstanding
    BY <1>0, <1>3 DEF Offered, ClipRecord
  <2> QED
    BY <1>0, <1>3, <2>1, <2>2, MarksDiffer, RequestKept
<1>4. CASE /\ a.kind = "RequestUnicode" /\ ~ IsVoid(a)
           /\ wire' = Append(wire, Sent("request", peer.copies))
           /\ clip' = [clip EXCEPT !.outstanding = clip.pendingRemote,
                                   !.pendingRemote = NoRemote]
           /\ UNCHANGED peer
  <2>1. clip.outstanding = NoRemote /\ clip.pendingRemote.unicode
    BY <1>4 DEF IsVoid, RemoteRequest
  <2>2. \A i \in DOMAIN wire : wire[i].kind # "request"
    BY <2>1 DEF RequestsFit
  <2>3. clip'.outstanding # NoRemote
    BY <1>0, <1>4, <2>1 DEF ClipRecord, NoRemote
  <2>4. DOMAIN wire = 1..Len(wire) /\ Len(wire) \in Nat /\ DOMAIN wire' = 1..(Len(wire) + 1)
    BY <1>0, <1>4
  <2>5. \A i \in DOMAIN wire' :
            \/ i \in DOMAIN wire /\ wire'[i] = wire[i]
            \/ i = Len(wire) + 1 /\ wire'[i] = Sent("request", peer.copies)
    BY <1>0, <1>4, <2>4
  <2>6. Sent("request", peer.copies).n = peer.copies
    BY DEF Sent
  <2> QED
    BY <1>4, <2>2, <2>3, <2>4, <2>5, <2>6 DEF RequestsFit
<1>5. CASE peer' = [peer EXCEPT !.asks = Tail(@)] /\ UNCHANGED <<clip, wire>>
  <2>1. peer'.copies = peer.copies
    BY <1>5 DEF ClipboardTypes
  <2> QED
    BY <1>0, <1>5, <2>1, RequestKept
<1> QED
  BY <1>1, <1>2, <1>3, <1>4, <1>5 DEF ServiceAction, a

LEMMA RequestWrite ==
    ASSUME ClipboardTypes, RequestsFit, NEW text \in Nat, WriteText(text)
    PROVE  RequestsFit'
<1>0. clip \in ClipRecord /\ wire \in Seq(Marks) /\ peer' = peer
  BY DEF ClipboardTypes, WriteText
<1>1. Sent("list", text) \in Marks
  BY DEF Sent, Marks, Kinds
<1>2. clip'.pendingRemote = clip.pendingRemote /\ clip'.outstanding = clip.outstanding
  BY <1>0 DEF WriteText, Offered, ClipRecord
<1>3. wire' = wire \/ wire' = Append(wire, Sent("list", text))
  BY DEF WriteText
<1> QED
  BY <1>0, <1>1, <1>2, <1>3, MarksDiffer, RequestKept

LEMMA RequestRead ==
    ASSUME ClipboardTypes, RequestsFit,
           \/ ReadMonitorReady \/ ReadDataRequest
           \/ \E flag \in BOOLEAN : ReadFormatList(flag) \/ ReadListReply(flag) \/ ReadData(flag)
    PROVE  RequestsFit'
<1>0. clip \in ClipRecord /\ wire \in Seq(Marks) /\ peer.copies \in Nat
  BY DEF ClipboardTypes
<1>1. CASE ReadMonitorReady
  <2>1. /\ clip'.pendingRemote = clip.pendingRemote /\ clip'.outstanding = clip.outstanding
        /\ peer'.copies = peer.copies /\ wire' = wire
    BY <1>0, <1>1 DEF ReadMonitorReady, ClipRecord, ClipboardTypes
  <2> QED
    BY <1>0, <2>1, RequestKept
<1>2. CASE ReadDataRequest
  <2>1. UNCHANGED <<clip, wire>> /\ peer'.copies = peer.copies
    BY <1>2 DEF ReadDataRequest, ClipboardTypes
  <2> QED
    BY <1>0, <2>1, RequestKept
<1>3. ASSUME NEW unicode \in BOOLEAN, ReadFormatList(unicode) PROVE RequestsFit'
  <2>1. /\ clip'.pendingRemote = [generation |-> clip.next, unicode |-> unicode]
        /\ clip'.outstanding = clip.outstanding /\ wire' = wire
    BY <1>0, <1>3 DEF ReadFormatList, ClipRecord
  <2>2. clip'.pendingRemote # NoRemote
    BY <1>0, <2>1, NewOffers
  <2> QED
    BY <2>1, <2>2 DEF RequestsFit
<1>4. ASSUME NEW accepted \in BOOLEAN, ReadListReply(accepted) PROVE RequestsFit'
  <2>1. wire # <<>> /\ wire' = Tail(wire)
    BY <1>4 DEF ReadListReply
  <2>2. peer'.copies = peer.copies
    BY <1>4 DEF ReadListReply, ClipboardTypes
  <2>3. clip'.pendingRemote = clip.pendingRemote /\ clip'.outstanding = clip.outstanding
    <3> DEFINE opened == IF accepted /\ ~ clip.ready THEN [clip EXCEPT !.ready = TRUE] ELSE clip
    <3>1. /\ opened.pendingRemote = clip.pendingRemote
          /\ opened.outstanding = clip.outstanding /\ opened \in ClipRecord
      BY <1>0 DEF ClipRecord
    <3>2. \/ clip' = opened
          \/ \E local : clip' = [opened EXCEPT !.pendingLocal = NoLocal, !.writeReady = TRUE,
                                               !.accepted = local]
          \/ clip' = [opened EXCEPT !.pendingLocal = NoLocal, !.accepted = NoLocal]
      BY <1>4, Zenon DEF ReadListReply
    <3> HIDE DEF opened
    <3> QED
      BY <3>1, <3>2 DEF ClipRecord
  <2> QED
    BY <1>0, <2>1, <2>2, <2>3, RequestKept
<1>5. ASSUME NEW ok \in BOOLEAN, ReadData(ok) PROVE RequestsFit'
  <2>1. wire # <<>> /\ Head(wire).kind = "request" /\ wire' = Tail(wire)
    BY <1>5 DEF ReadData
  <2>2. 1 \in DOMAIN wire /\ wire[1].kind = "request"
    BY <1>0, <2>1
  <2>3. \A i \in DOMAIN wire' : i + 1 \in DOMAIN wire /\ wire'[i] = wire[i + 1] /\ i + 1 # 1
    BY <1>0, <2>1
  <2>4. \A j \in DOMAIN wire : wire[j].kind = "request" => j = 1
    BY <2>2 DEF RequestsFit
  <2>5. \A i \in DOMAIN wire' : wire'[i].kind # "request"
    BY <2>3, <2>4
  <2> QED
    BY <2>5 DEF RequestsFit
<1> QED
  BY <1>1, <1>2, <1>3, <1>4, <1>5

-----------------------------------------------------------------------------
(***************************************************************************)
(* Every step of the session is one of these for the clipboard.            *)
(***************************************************************************)
ReadCallback ==
    \/ ReadMonitorReady \/ ReadDataRequest
    \/ \E flag \in BOOLEAN : ReadFormatList(flag) \/ ReadListReply(flag) \/ ReadData(flag)

LEMMA ClipboardSteps ==
    ASSUME LoopTypes, [Next]_vars
    PROVE  \/ UNCHANGED clipboardVars /\ (At("ended") => At("ended")')
           \/ ServiceAction /\ ~ At("ended")
           \/ ReadCallback /\ ~ At("ended")
           \/ ~ At("ended") /\ \E text \in Nat : WriteText(text)
           \/ clip' = NewClip /\ actions' = <<>> /\ wire' = wire /\ peer' = peer /\ At("ended")'
<1> DEFINE Quiet == UNCHANGED clipboardVars /\ (At("ended") => At("ended")')
<1>1. CASE UNCHANGED vars
  BY <1>1 DEF vars, At
<1>2. ASSUME UserActs PROVE Quiet
  BY <1>2 DEF UserActs, At
<1>3. CASE TakeCommand
  <2>1. loop' = loop /\ ~ At("ended")
    BY <1>3 DEF TakeCommand, At
  <2>2. commands # <<>> /\ commands \in Seq(Commands)
    BY <1>3 DEF TakeCommand, LoopTypes
  <2>3. Head(commands).n \in Nat
    <3>1. Head(commands) \in Commands
      BY <2>2, TailMembers
    <3> QED
      BY <3>1 DEF Commands
  <2>4. UNCHANGED clipboardVars \/ WriteText(Head(commands).n)
    BY <1>3, Zenon DEF TakeCommand
  <2> QED
    BY <2>1, <2>3, <2>4 DEF At
<1>4. CASE ServeClipboard
  BY <1>4 DEF ServeClipboard, At
<1>5. CASE ReadClipboard
  BY <1>5 DEF ReadClipboard, Reads, ReadCallback, At
<1>6. CASE \/ Refresh \/ CommandsTaken \/ \E refused \in BOOLEAN : SendAndDrain(refused)
           \/ ReadNothing \/ ReadGraphics \/ ReadAudio
           \/ \E limit \in AreaLimits : ReadCaps(limit)
  BY <1>6
  DEF Refresh, CommandsTaken, SendAndDrain, ReadNothing, ReadGraphics, ReadAudio, ReadCaps, Reads, At
<1>7. CASE AnswerResize \/ ResizeDesktop
  BY <1>7 DEF AnswerResize, ResizeDesktop, ReadDeactivate, At
<1>8. ASSUME NEW target \in Desktops, Finalize(target)
      PROVE  \/ Quiet
             \/ clip' = NewClip /\ actions' = <<>> /\ wire' = wire /\ peer' = peer /\ At("ended")'
  <2>0. ~ At("ended") /\ loop \in LoopRecord
    BY <1>8 DEF Finalize, At, LoopTypes
  <2>1. Confirmation(display, target, caps) \in {"NoRequest", "StaleCapability", "Mismatch", "Confirmed"}
    BY DEF Confirmation
  <2>2. CASE Confirmation(display, target, caps) = "Mismatch"
    BY <1>8, <2>0, <2>2 DEF Finalize, Goto, At, LoopRecord
  <2>3. CASE Confirmation(display, target, caps) \in {"NoRequest", "StaleCapability", "Confirmed"}
    BY <1>8, <2>0, <2>3 DEF Finalize, Continues
  <2> QED
    BY <2>1, <2>2, <2>3
<1> QED
  BY <1>1, <1>2, <1>3, <1>4, <1>5, <1>6, <1>7, <1>8
  DEF Next, LoopStep, SeeGeneration, PressKey, CopyText, ResizeWindow

LEMMA ClipboardStep ==
    ASSUME LoopTypes, ClipboardTypes, NothingStuck, RequestInvariant, [Next]_vars
    PROVE  ClipboardTypes' /\ NothingStuck' /\ RequestInvariant'
<1>1. CASE UNCHANGED clipboardVars /\ (At("ended") => At("ended")')
  BY <1>1 DEF clipboardVars, ClipboardTypes, NothingStuck, LocalTextTakenUp,
              RemoteOfferTakenUp, AnswersOwed, RequestInvariant, RequestsFit
<1>2. CASE ServiceAction /\ ~ At("ended")
  BY <1>2, ServiceTyped, StuckService, RequestService DEF RequestInvariant
<1>3. CASE ReadCallback /\ ~ At("ended")
  <2>1. ClipboardTypes' /\ RequestInvariant'
    BY <1>3, ReadTyped, RequestRead DEF ReadCallback, RequestInvariant
  <2>2. NothingStuck'
    BY <1>3, StuckRead, StuckListReply, StuckData DEF ReadCallback
  <2> QED
    BY <2>1, <2>2
<1>4. ASSUME NEW text \in Nat, WriteText(text), ~ At("ended")
      PROVE  ClipboardTypes' /\ NothingStuck' /\ RequestInvariant'
  BY <1>4, WriteTyped, StuckWrite, RequestWrite DEF RequestInvariant
<1>5. CASE clip' = NewClip /\ actions' = <<>> /\ wire' = wire /\ peer' = peer /\ At("ended")'
  <2>1. ClipboardTypes'
    BY <1>5, NewClipTyped DEF ClipboardTypes
  <2>2. NothingStuck'
    BY <1>5 DEF NothingStuck, LocalTextTakenUp, RemoteOfferTakenUp, AnswersOwed, NewClip
  <2> QED
    BY <1>5, <2>1, <2>2 DEF RequestInvariant
<1> QED
  BY <1>1, <1>2, <1>3, <1>4, <1>5, ClipboardSteps

-----------------------------------------------------------------------------
(***************************************************************************)
(* The inductive invariant of the session, and what follows from it.       *)
(***************************************************************************)
ChannelsInvariant ==
    Types /\ NothingStuck /\ RequestInvariant /\ SoundInvariant /\ InputInvariant

LEMMA InitInvariant == Init => ChannelsInvariant
<1> SUFFICES ASSUME Init PROVE ChannelsInvariant
  OBVIOUS
<1>1. ClipboardTypes
  BY NewClipTyped DEF Init, ClipboardInit, ClipboardTypes, NoText
<1>2. DisplayTypes /\ LoopTypes
  <2>1. FirstSize \in Nat
    BY SizesAssumption
  <2> QED
    BY <2>1 DEF Init, DisplayTypes, DisplayRecord, NewDisplay, LoopTypes, LoopRecord, Places, NoSize
<1>3. AudioTypes /\ SoundInvariant
  BY DEF Init, AudioTypes, AudioRecord, NewAudio, NoState, SoundInvariant, At
<1>4. NothingStuck /\ RequestInvariant
  BY DEF Init, ClipboardInit, NothingStuck, LocalTextTakenUp, RemoteOfferTakenUp, AnswersOwed,
         NewClip, RequestInvariant, RequestsFit
<1>5. InputInvariant
  BY DEF Init, InputInvariant, NoSize
<1> QED
  BY <1>1, <1>2, <1>3, <1>4, <1>5 DEF ChannelsInvariant, Types

LEMMA ChannelsInvariance == Spec => []ChannelsInvariant
<1>1. ChannelsInvariant /\ [Next]_vars => ChannelsInvariant'
  BY ClipboardStep, LoopTypesStep, SoundStep, InputStep DEF ChannelsInvariant, Types
<1> QED
  BY <1>1, InitInvariant, PTL DEF Spec

(***************************************************************************)
(* No text, no offer and no answer is forgotten while offers cross.        *)
(***************************************************************************)
THEOREM ClipboardProgress == Spec => []NothingStuck
<1>1. ChannelsInvariant => NothingStuck
  BY DEF ChannelsInvariant
<1> QED
  BY <1>1, ChannelsInvariance, PTL

(***************************************************************************)
(* Sound that waits was announced, and is of a stream that still stands.   *)
(***************************************************************************)
THEOREM SoundHolds == Spec => []SoundAnnounced
<1>1. ChannelsInvariant => SoundAnnounced
  BY DEF ChannelsInvariant, SoundInvariant, SoundAnnounced, Announced
<1> QED
  BY <1>1, ChannelsInvariance, PTL

(***************************************************************************)
(* An input is sent only to the desktop it was made for.                   *)
(***************************************************************************)
THEOREM InputHolds == Spec => []InputOnItsDesktop
<1>1. ChannelsInvariant => InputOnItsDesktop
  <2>1. SUFFICES ASSUME ChannelsInvariant, commands # <<>>, Routes(Head(commands))
                 PROVE  Head(commands).n = screen.image
    BY DEF InputOnItsDesktop
  <2>2. commands \in Seq(Commands)
    BY <2>1 DEF ChannelsInvariant, Types, LoopTypes
  <2>3. 1 \in DOMAIN commands /\ Head(commands) = commands[1]
    BY <2>1, <2>2
  <2> QED
    BY <2>1, <2>3 DEF ChannelsInvariant, InputInvariant, Routes, Current
<1> QED
  BY <1>1, ChannelsInvariance, PTL

(***************************************************************************)
(* A text of the server that is published is its newest.                   *)
(***************************************************************************)
LEMMA PublishedNewest ==
    ASSUME ClipboardTypes, RequestsFit, NEW ok \in BOOLEAN, ReadData(ok),
           NEW i \in DOMAIN actions', i > Len(actions), actions'[i].kind = "Publish"
    PROVE  actions'[i].n = peer.copies
<1>0. /\ clip \in ClipRecord /\ actions \in Seq(Marks) /\ wire \in Seq(Marks)
      /\ peer.copies \in Nat /\ wire # <<>> /\ Head(wire).kind = "request"
  BY DEF ClipboardTypes, ReadData
<1>1. PICK copy \in Head(wire).n..peer.copies :
          actions' = actions \o Accepted(clip, ok, copy).actions
  BY DEF ReadData
<1>2. Head(wire) = wire[1] /\ 1 \in DOMAIN wire /\ Head(wire) \in Marks
  BY <1>0
<1>3. copy \in Nat
  BY <1>0, <1>2 DEF Marks
<1>4. CASE Accepted(clip, ok, copy).actions = <<>>
  BY <1>0, <1>1, <1>4
<1>5. ASSUME NEW x \in Marks, Accepted(clip, ok, copy).actions = <<x>>
      PROVE  actions'[i] = x
  <2>1. actions' = Append(actions, x)
    BY <1>0, <1>1, <1>5, ConcatShort
  <2> QED
    BY <1>0, <2>1
<1>6. ASSUME NEW x \in Marks, Accepted(clip, ok, copy).actions = <<x>>
      PROVE  (x = Publish(copy) /\ clip.pendingRemote = NoRemote) \/ x.kind # "Publish"
  <2>1. CASE clip.pendingRemote = NoRemote
    BY <1>6, <2>1 DEF Accepted
  <2>2. CASE clip.pendingRemote # NoRemote
    BY <1>6, <2>2, MarksDiffer DEF Accepted
  <2> QED
    BY <2>1, <2>2
<1>7. clip.pendingRemote = NoRemote => copy = peer.copies
  BY <1>0, <1>2, <1>3 DEF RequestsFit, Marks
<1>8. Publish(copy).n = copy
  BY DEF Publish, Action
<1> QED
  BY <1>0, <1>3, <1>4, <1>5, <1>6, <1>7, <1>8, AcceptedTyped

THEOREM NewestTextHolds == Spec => NewestTextPublished
<1> DEFINE Newest == \A i \in DOMAIN actions' :
                         i > Len(actions) /\ actions'[i].kind = "Publish"
                         => actions'[i].n = peer.copies
<1>1. ChannelsInvariant /\ [Next]_vars => [Newest]_clipboardVars
  <2> SUFFICES ASSUME ChannelsInvariant, [Next]_vars PROVE [Newest]_clipboardVars
    OBVIOUS
  <2>0. ClipboardTypes /\ LoopTypes /\ actions \in Seq(Marks) /\ clip \in ClipRecord
    BY DEF ChannelsInvariant, Types, ClipboardTypes
  <2>1. ASSUME actions' = actions \/ actions' = <<>> PROVE Newest
    BY <2>0, <2>1
  <2> DEFINE Clean(t) == t \in Seq(Marks)
                         /\ \A i \in DOMAIN t : i > Len(actions) => t[i].kind # "Publish"
  <2>2. CASE \/ ReadMonitorReady \/ ReadDataRequest
             \/ \E flag \in BOOLEAN : ReadFormatList(flag) \/ ReadListReply(flag)
    <3>1. Clean(actions)
      BY <2>0
    <3>2. ASSUME NEW t, Clean(t), NEW x \in Marks, x.kind # "Publish"
          PROVE  Clean(Append(t, x))
      <4>1. Append(t, x) \in Seq(Marks)
        BY <3>2
      <4>2. \A i \in DOMAIN Append(t, x) : (i \in DOMAIN t /\ Append(t, x)[i] = t[i]) \/ Append(t, x)[i] = x
        BY <3>2
      <4> QED
        BY <3>2, <4>1, <4>2
    <3> HIDE DEF Clean
    <3>3. \A c, t : \A x \in Marks : Clean(t) /\ x.kind # "Publish" => Clean(AppendIf(c, t, x))
      BY <3>2, Zenon DEF AppendIf
    <3>4. \A n \in Nat :
              /\ AdvertiseInitial \in Marks /\ AdvertiseInitial.kind # "Publish"
              /\ AdvertiseQueuedLocal \in Marks /\ AdvertiseQueuedLocal.kind # "Publish"
              /\ RequestUnicode(n) \in Marks /\ RequestUnicode(n).kind # "Publish"
              /\ RespondUnicode(n) \in Marks /\ RespondUnicode(n).kind # "Publish"
              /\ RespondError \in Marks /\ RespondError.kind # "Publish"
      BY MarksTyped DEF AdvertiseInitial, AdvertiseQueuedLocal, RequestUnicode, RespondUnicode,
                        RespondError, Action
    <3>5. clip.next \in Nat /\ clip.pendingRemote.generation \in Nat /\ clip.accepted.generation \in Nat
      BY <2>0 DEF ClipRecord, RemoteOffers, LocalOffers
    <3>6. Clean(actions')
      <4>1. CASE ReadMonitorReady
        BY <3>1, <3>2, <3>4, <3>5, <4>1 DEF ReadMonitorReady
      <4>2. CASE ReadDataRequest
        BY <3>1, <3>2, <3>4, <3>5, <4>2 DEF ReadDataRequest
      <4>3. ASSUME NEW flag \in BOOLEAN, ReadFormatList(flag) PROVE Clean(actions')
        BY <3>1, <3>3, <3>4, <3>5, <4>3 DEF ReadFormatList
      <4>4. ASSUME NEW flag \in BOOLEAN, ReadListReply(flag) PROVE Clean(actions')
        BY <3>1, <3>3, <3>4, <3>5, <4>4 DEF ReadListReply
      <4> QED
        BY <2>2, <4>1, <4>2, <4>3, <4>4
    <3> QED
      BY <3>6 DEF Clean
  <2>3. CASE ServiceAction
    <3>1. actions # <<>> /\ actions' = Tail(actions)
      BY <2>3 DEF ServiceAction
    <3> QED
      BY <2>0, <3>1
  <2>4. CASE \E text \in Nat : WriteText(text)
    BY <2>1, <2>4 DEF WriteText
  <2>5. ASSUME NEW ok \in BOOLEAN, ReadData(ok), ~ At("ended") PROVE Newest
    BY <2>0, <2>5, PublishedNewest DEF ChannelsInvariant, RequestInvariant
  <2> QED
    BY <2>0, <2>1, <2>2, <2>3, <2>4, <2>5, ClipboardSteps DEF ReadCallback, clipboardVars
<1> QED
  BY <1>1, ChannelsInvariance, PTL DEF Spec, NewestTextPublished

-----------------------------------------------------------------------------
(***************************************************************************)
(* The clipboard: the local text and the answers about it.  At most one    *)
(* list is on its way or about to be, it is the one the adapter waits for, *)
(* nothing counts as accepted meanwhile, and what counts as accepted is    *)
(* what the server holds.  An answer that waits names an older offer than  *)
(* the one still to be accepted.                                           *)
(***************************************************************************)
Pending == clip.pendingLocal # NoLocal
OneAtMost(kind, s) ==
    \A i, j \in DOMAIN s : s[i].kind = kind /\ s[j].kind = kind => i = j

GreetingFits ==
    ~ peer.greeted => wire = <<>> /\ actions = <<>> /\ ~ clip.ready /\ peer.holds = NoText
ListsFit ==
    /\ OneAtMost("list", wire)
    /\ \A m : Among(m, wire) /\ m.kind = "list" => Pending /\ m.n = clip.pendingLocal.text
InitialFits ==
    /\ OneAtMost("AdvertiseInitial", actions)
    /\ HasKind("AdvertiseInitial", actions) =>
         Pending /\ clip.pendingLocal.text = NoText /\ ~ HasKind("list", wire)
TextsFit ==
    /\ Pending => clip.accepted = NoLocal /\ clip.pendingLocal.generation < clip.next
    /\ clip.accepted # NoLocal =>
         clip.accepted.text = peer.holds /\ clip.accepted.generation < clip.next
OlderOffer(n) == n < clip.next /\ (Pending => n < clip.pendingLocal.generation)
OlderOffers == \A m : Among(m, actions) /\ m.kind = "RespondUnicode" => OlderOffer(m.n)

(***************************************************************************)
(* The answers that wait are, in their order, to what the server asked:    *)
(* f says which of the actions s is for which of the requests q.           *)
(***************************************************************************)
Answers(a) == a.kind \in {"RespondUnicode", "RespondError"}
MatchedBy(f, q, s, c) ==
    /\ f \in [1..Len(q) -> 1..Len(s)]
    /\ \A i, j \in 1..Len(q) : i < j => f[i] < f[j]
    /\ \A k \in 1..Len(s) : Answers(s[k]) <=> \E i \in 1..Len(q) : f[i] = k
    /\ \A i \in 1..Len(q) : s[f[i]].kind = "RespondUnicode" =>
         Response(c, s[f[i]].n) \in {NoText, q[i]}
Matched(q, s, c) == \E f : MatchedBy(f, q, s, c)
AsksFit == peer.asks \in Seq(Nat) /\ Matched(peer.asks, actions, clip)

OffersFit ==
    GreetingFits /\ ListsFit /\ InitialFits /\ TextsFit /\ OlderOffers /\ AsksFit

\* A session that has ended answers nothing.
OffersInvariant == OffersFit \/ (At("ended") /\ actions = <<>>)

-----------------------------------------------------------------------------
(***************************************************************************)
(* The clipboard: which answer is for which request.                       *)
(***************************************************************************)
LEMMA OtherAppended ==
    ASSUME NEW q \in Seq(Nat), NEW s \in Seq(Marks), NEW c, NEW x \in Marks,
           ~ Answers(x), Matched(q, s, c)
    PROVE  Matched(q, Append(s, x), c)
<1>1. PICK f : MatchedBy(f, q, s, c)
  BY DEF Matched
<1> DEFINE t == Append(s, x)
<1>2. /\ Len(t) = Len(s) + 1 /\ Len(s) \in Nat /\ Len(q) \in Nat
      /\ \A i \in 1..Len(s) : t[i] = s[i]
      /\ t[Len(s) + 1] = x
  BY AppendProperties
<1> HIDE DEF t
<1>3. /\ f \in [1..Len(q) -> 1..Len(s)]
      /\ \A i, j \in 1..Len(q) : i < j => f[i] < f[j]
      /\ \A k \in 1..Len(s) : Answers(s[k]) <=> \E i \in 1..Len(q) : f[i] = k
      /\ \A i \in 1..Len(q) : s[f[i]].kind = "RespondUnicode" =>
           Response(c, s[f[i]].n) \in {NoText, q[i]}
  BY <1>1 DEF MatchedBy
<1>4. f \in [1..Len(q) -> 1..Len(t)] /\ \A i \in 1..Len(q) : f[i] \in 1..Len(s)
  <2>1. 1..Len(s) \subseteq 1..Len(t)
    BY <1>2
  <2> QED
    BY <1>3, <2>1
<1>5. ASSUME NEW k \in 1..Len(t)
      PROVE  Answers(t[k]) <=> \E i \in 1..Len(q) : f[i] = k
  <2>1. CASE k \in 1..Len(s)
    BY <1>2, <1>3, <2>1
  <2>2. CASE k = Len(s) + 1
    BY <1>2, <1>4, <2>2
  <2> QED
    BY <1>2, <2>1, <2>2
<1>6. \A i \in 1..Len(q) : t[f[i]].kind = "RespondUnicode" =>
        Response(c, t[f[i]].n) \in {NoText, q[i]}
  BY <1>2, <1>3, <1>4
<1>7. MatchedBy(f, q, t, c)
  BY <1>3, <1>4, <1>5, <1>6 DEF MatchedBy
<1> QED
  BY <1>7 DEF Matched, t

LEMMA AnswerAppended ==
    ASSUME NEW q \in Seq(Nat), NEW s \in Seq(Marks), NEW c, NEW x \in Marks, NEW u \in Nat,
           Answers(x), x.kind = "RespondUnicode" => Response(c, x.n) \in {NoText, u},
           Matched(q, s, c)
    PROVE  Matched(Append(q, u), Append(s, x), c)
<1>1. PICK f : MatchedBy(f, q, s, c)
  BY DEF Matched
<1> DEFINE t == Append(s, x)
           r == Append(q, u)
           g == [i \in 1..Len(r) |-> IF i <= Len(q) THEN f[i] ELSE Len(t)]
<1>2. /\ Len(t) = Len(s) + 1 /\ Len(s) \in Nat
      /\ \A i \in 1..Len(s) : t[i] = s[i]
      /\ t[Len(s) + 1] = x
  BY AppendProperties
<1>3. /\ Len(r) = Len(q) + 1 /\ Len(q) \in Nat
      /\ \A i \in 1..Len(q) : r[i] = q[i]
      /\ r[Len(q) + 1] = u
  BY AppendProperties
<1> HIDE DEF t, r
<1>4. /\ f \in [1..Len(q) -> 1..Len(s)]
      /\ \A i, j \in 1..Len(q) : i < j => f[i] < f[j]
      /\ \A k \in 1..Len(s) : Answers(s[k]) <=> \E i \in 1..Len(q) : f[i] = k
      /\ \A i \in 1..Len(q) : s[f[i]].kind = "RespondUnicode" =>
           Response(c, s[f[i]].n) \in {NoText, q[i]}
  BY <1>1 DEF MatchedBy
<1>5. /\ \A i \in 1..Len(q) : g[i] = f[i] /\ f[i] \in 1..Len(s) /\ i \in 1..Len(r)
      /\ g[Len(q) + 1] = Len(s) + 1 /\ Len(q) + 1 \in 1..Len(r)
      /\ \A i \in 1..Len(r) : i \in 1..Len(q) \/ i = Len(q) + 1
      /\ \A k \in 1..Len(t) : k \in 1..Len(s) \/ k = Len(s) + 1
  <2>1. /\ \A i \in 1..Len(q) : i \in 1..Len(r) /\ i <= Len(q)
        /\ Len(q) + 1 \in 1..Len(r) /\ ~ (Len(q) + 1 <= Len(q))
        /\ \A i \in 1..Len(r) : i \in 1..Len(q) \/ i = Len(q) + 1
        /\ \A k \in 1..Len(t) : k \in 1..Len(s) \/ k = Len(s) + 1
    BY <1>2, <1>3
  <2>2. \A i \in 1..Len(q) : f[i] \in 1..Len(s)
    BY <1>4
  <2>3. \A i \in 1..Len(r) : g[i] = IF i <= Len(q) THEN f[i] ELSE Len(t)
    OBVIOUS
  <2> HIDE DEF g
  <2> QED
    BY <1>2, <2>1, <2>2, <2>3
<1>6. g \in [1..Len(r) -> 1..Len(t)]
  <2>1. \A i \in 1..Len(r) : g[i] \in 1..Len(t)
    <3> HIDE DEF g
    <3>1. 1..Len(s) \subseteq 1..Len(t) /\ Len(s) + 1 \in 1..Len(t)
      BY <1>2
    <3> QED
      BY <1>5, <3>1
  <2>2. DOMAIN g = 1..Len(r) /\ g = [i \in 1..Len(r) |-> g[i]]
    OBVIOUS
  <2> HIDE DEF g
  <2> QED
    BY <2>1, <2>2
<1> HIDE DEF g
<1>7. ASSUME NEW i \in 1..Len(r), NEW j \in 1..Len(r), i < j
      PROVE  g[i] < g[j]
  <2>1. i \in 1..Len(q)
    BY <1>3, <1>5, <1>7
  <2>2. CASE j \in 1..Len(q)
    <3>1. f[i] < f[j]
      BY <1>4, <1>7, <2>1, <2>2
    <3> QED
      BY <1>5, <2>1, <2>2, <3>1
  <2>3. CASE j = Len(q) + 1
    <3>1. g[j] = Len(s) + 1 /\ g[i] \in 1..Len(s)
      BY <1>5, <2>1, <2>3
    <3> QED
      BY <1>2, <3>1
  <2> QED
    BY <1>5, <2>2, <2>3
<1>8. ASSUME NEW k \in 1..Len(t)
      PROVE  Answers(t[k]) <=> \E i \in 1..Len(r) : g[i] = k
  <2>1. CASE k \in 1..Len(s)
    <3>1. g[Len(q) + 1] # k
      BY <1>2, <1>5, <2>1
    <3>2. (\E i \in 1..Len(r) : g[i] = k) <=> \E i \in 1..Len(q) : f[i] = k
      BY <1>5, <3>1
    <3> QED
      BY <1>2, <1>4, <2>1, <3>2
  <2>2. CASE k = Len(s) + 1
    BY <1>2, <1>5, <2>2
  <2> QED
    BY <1>5, <2>1, <2>2
<1>9. ASSUME NEW i \in 1..Len(r), t[g[i]].kind = "RespondUnicode"
      PROVE  Response(c, t[g[i]].n) \in {NoText, r[i]}
  <2>1. CASE i \in 1..Len(q)
    <3>1. g[i] = f[i] /\ f[i] \in 1..Len(s) /\ r[i] = q[i]
      BY <1>3, <1>5, <2>1
    <3>2. t[g[i]] = s[f[i]]
      BY <1>2, <3>1
    <3> QED
      BY <1>4, <1>9, <2>1, <3>1, <3>2
  <2>2. CASE i = Len(q) + 1
    <3>1. t[g[i]] = x /\ r[i] = u
      BY <1>2, <1>3, <1>5, <2>2
    <3> QED
      BY <1>9, <3>1
  <2> QED
    BY <1>5, <2>1, <2>2
<1>10. MatchedBy(g, r, t, c)
  BY <1>6, <1>7, <1>8, <1>9 DEF MatchedBy
<1> QED
  BY <1>10 DEF Matched, t, r

LEMMA OtherTaken ==
    ASSUME NEW q \in Seq(Nat), NEW s \in Seq(Marks), s # <<>>, NEW c,
           ~ Answers(Head(s)), Matched(q, s, c)
    PROVE  Matched(q, Tail(s), c)
<1>1. PICK f : MatchedBy(f, q, s, c)
  BY DEF Matched
<1> DEFINE t == Tail(s)
           g == [i \in 1..Len(q) |-> f[i] - 1]
<1>2. /\ Len(t) = Len(s) - 1 /\ Len(s) \in Nat /\ Len(q) \in Nat /\ Len(s) # 0
      /\ \A i \in 1..Len(t) : t[i] = s[i + 1]
      /\ Head(s) = s[1]
  BY HeadTailProperties, EmptySeq
<1> HIDE DEF t
<1>3. /\ f \in [1..Len(q) -> 1..Len(s)]
      /\ \A i, j \in 1..Len(q) : i < j => f[i] < f[j]
      /\ \A k \in 1..Len(s) : Answers(s[k]) <=> \E i \in 1..Len(q) : f[i] = k
      /\ \A i \in 1..Len(q) : s[f[i]].kind = "RespondUnicode" =>
           Response(c, s[f[i]].n) \in {NoText, q[i]}
  BY <1>1 DEF MatchedBy
<1>4. \A i \in 1..Len(q) : f[i] # 1 /\ f[i] \in 1..Len(s)
  BY <1>2, <1>3
<1>5. \A i \in 1..Len(q) : g[i] = f[i] - 1 /\ g[i] \in 1..Len(t) /\ g[i] + 1 = f[i]
                           /\ t[g[i]] = s[f[i]]
  <2> SUFFICES ASSUME NEW i \in 1..Len(q)
               PROVE  g[i] = f[i] - 1 /\ g[i] \in 1..Len(t) /\ g[i] + 1 = f[i]
                      /\ t[g[i]] = s[f[i]]
    OBVIOUS
  <2>1. g[i] = f[i] - 1
    OBVIOUS
  <2>2. f[i] \in 1..Len(s) /\ f[i] # 1
    BY <1>4
  <2> HIDE DEF g
  <2>3. g[i] \in 1..Len(t) /\ g[i] + 1 = f[i]
    BY <1>2, <2>1, <2>2
  <2> QED
    BY <1>2, <2>1, <2>3
<1>6. g \in [1..Len(q) -> 1..Len(t)]
  BY <1>5
<1> HIDE DEF g
<1>7. \A i, j \in 1..Len(q) : i < j => g[i] < g[j]
  BY <1>3, <1>4, <1>5
<1>8. ASSUME NEW k \in 1..Len(t)
      PROVE  Answers(t[k]) <=> \E i \in 1..Len(q) : g[i] = k
  <2>1. PICK m \in 1..Len(s) : m = k + 1 /\ t[k] = s[m]
    BY <1>2
  <2>2. \A v \in 1..Len(s) : v - 1 = k <=> v = m
    BY <1>2, <2>1
  <2>3. ASSUME NEW i \in 1..Len(q)
        PROVE  g[i] = k <=> f[i] = m
    <3>1. g[i] = f[i] - 1 /\ f[i] \in 1..Len(s)
      BY <1>4, <1>5
    <3> QED
      BY <2>2, <3>1, Zenon
  <2> QED
    <3>1. Answers(s[m]) <=> \E i \in 1..Len(q) : f[i] = m
      BY <1>3
    <3>2. (\E i \in 1..Len(q) : g[i] = k) <=> \E i \in 1..Len(q) : f[i] = m
      BY <2>3, Zenon
    <3> QED
      BY <2>1, <3>1, <3>2, Zenon
<1>9. \A i \in 1..Len(q) : t[g[i]].kind = "RespondUnicode" =>
        Response(c, t[g[i]].n) \in {NoText, q[i]}
  BY <1>3, <1>5
<1>10. MatchedBy(g, q, t, c)
  BY <1>6, <1>7, <1>8, <1>9 DEF MatchedBy
<1> QED
  BY <1>10 DEF Matched, t

LEMMA Earlier ==
    \A n \in Nat : \A v, w \in 1..n : v < w => v - 1 < w - 1
OBVIOUS

LEMMA AnswerTaken ==
    ASSUME NEW q \in Seq(Nat), NEW s \in Seq(Marks), s # <<>>, NEW c,
           Answers(Head(s)), Matched(q, s, c)
    PROVE  /\ q # <<>> /\ Matched(Tail(q), Tail(s), c)
           /\ Head(s).kind = "RespondUnicode" => Response(c, Head(s).n) \in {NoText, Head(q)}
<1>1. PICK f : MatchedBy(f, q, s, c)
  BY DEF Matched
<1>2. /\ Len(s) \in Nat /\ Len(q) \in Nat /\ Len(s) # 0 /\ Head(s) = s[1] /\ 1 \in 1..Len(s)
  BY EmptySeq
<1>3. /\ f \in [1..Len(q) -> 1..Len(s)]
      /\ \A i, j \in 1..Len(q) : i < j => f[i] < f[j]
      /\ \A k \in 1..Len(s) : Answers(s[k]) <=> \E i \in 1..Len(q) : f[i] = k
      /\ \A i \in 1..Len(q) : s[f[i]].kind = "RespondUnicode" =>
           Response(c, s[f[i]].n) \in {NoText, q[i]}
  BY <1>1 DEF MatchedBy
<1>4. PICK first \in 1..Len(q) : f[first] = 1
  BY <1>2, <1>3
<1>5. 1 \in 1..Len(q) /\ f[1] = 1 /\ \A i \in 1..Len(q) : i # 1 => f[i] > 1
  <2>1. 1 \in 1..Len(q) /\ f[1] \in 1..Len(s)
    BY <1>2, <1>3, <1>4
  <2>2. first = 1
    BY <1>2, <1>3, <1>4, <2>1
  <2> QED
    BY <1>2, <1>3, <1>4, <2>1, <2>2
<1>6. q # <<>> /\ Head(q) = q[1]
  BY <1>5
<1> DEFINE t == Tail(s)
           r == Tail(q)
           g == [i \in 1..Len(r) |-> f[i + 1] - 1]
<1>7. /\ Len(t) = Len(s) - 1 /\ \A i \in 1..Len(t) : t[i] = s[i + 1]
      /\ Len(r) = Len(q) - 1 /\ \A i \in 1..Len(r) : r[i] = q[i + 1]
  BY <1>6, HeadTailProperties
<1> HIDE DEF t, r
<1>8. \A i \in 1..Len(r) : i + 1 \in 1..Len(q) /\ i + 1 # 1 /\ f[i + 1] \in 1..Len(s)
                           /\ f[i + 1] > 1
  <2>1. \A i \in 1..Len(r) : i + 1 \in 1..Len(q) /\ i + 1 # 1
    BY <1>2, <1>7
  <2>2. \A i \in 1..Len(q) : f[i] \in 1..Len(s)
    BY <1>3
  <2> QED
    BY <1>5, <2>1, <2>2
<1>9. \A i \in 1..Len(r) : g[i] = f[i + 1] - 1 /\ g[i] \in 1..Len(t) /\ g[i] + 1 = f[i + 1]
                           /\ t[g[i]] = s[f[i + 1]]
  <2> SUFFICES ASSUME NEW i \in 1..Len(r)
               PROVE  g[i] = f[i + 1] - 1 /\ g[i] \in 1..Len(t) /\ g[i] + 1 = f[i + 1]
                      /\ t[g[i]] = s[f[i + 1]]
    OBVIOUS
  <2>1. g[i] = f[i + 1] - 1
    OBVIOUS
  <2>2. f[i + 1] \in 1..Len(s) /\ f[i + 1] > 1
    BY <1>8
  <2> HIDE DEF g
  <2>3. PICK v \in 1..Len(s) : v = f[i + 1] /\ v > 1
    BY <2>2
  <2>4. g[i] = v - 1
    BY <2>1, <2>3
  <2>5. v - 1 \in 1..Len(t) /\ (v - 1) + 1 = v
    <3>1. v \in Nat /\ v > 1 /\ v <= Len(s)
      BY <1>2, <2>3
    <3>2. Len(t) = Len(s) - 1
      BY <1>7
    <3> QED
      BY <1>2, <3>1, <3>2
  <2>6. t[v - 1] = s[v]
    BY <1>7, <2>5
  <2> QED
    BY <2>1, <2>3, <2>4, <2>5, <2>6
<1>10. g \in [1..Len(r) -> 1..Len(t)]
  BY <1>9
<1> HIDE DEF g
<1>11. ASSUME NEW i \in 1..Len(r), NEW j \in 1..Len(r), i < j
       PROVE  g[i] < g[j]
  <2>1. PICK k \in 1..Len(q), l \in 1..Len(q) : k = i + 1 /\ l = j + 1
    BY <1>8
  <2>2. k < l
    BY <1>2, <1>7, <1>11, <2>1
  <2>3. f[k] < f[l] /\ f[k] \in 1..Len(s) /\ f[l] \in 1..Len(s)
    BY <1>3, <2>1, <2>2
  <2>4. f[k] - 1 < f[l] - 1
    BY <1>2, <2>3, Earlier, Zenon
  <2>5. g[i] = f[k] - 1 /\ g[j] = f[l] - 1
    BY <1>9, <2>1
  <2> QED
    BY <2>4, <2>5
<1>12. ASSUME NEW k \in 1..Len(t)
       PROVE  Answers(t[k]) <=> \E i \in 1..Len(r) : g[i] = k
  <2>1. k + 1 \in 1..Len(s) /\ t[k] = s[k + 1] /\ k + 1 # 1
    BY <1>2, <1>7
  <2>2. ASSUME NEW i \in 1..Len(q), f[i] = k + 1
        PROVE  \E j \in 1..Len(r) : g[j] = k
    <3>1. i # 1
      BY <1>5, <2>1, <2>2
    <3>2. i - 1 \in 1..Len(r) /\ (i - 1) + 1 = i
      BY <1>2, <1>7, <3>1
    <3>3. g[i - 1] = f[i] - 1
      BY <1>9, <3>2
    <3>4. g[i - 1] = k
      BY <1>2, <2>1, <2>2, <3>3
    <3> QED
      BY <3>2, <3>4
  <2>3. \A i \in 1..Len(r) : g[i] = k => f[i + 1] = k + 1
    BY <1>8, <1>9
  <2> QED
    BY <1>3, <1>8, <2>1, <2>2, <2>3
<1>13. ASSUME NEW i \in 1..Len(r), t[g[i]].kind = "RespondUnicode"
       PROVE  Response(c, t[g[i]].n) \in {NoText, r[i]}
  <2>1. i + 1 \in 1..Len(q) /\ t[g[i]] = s[f[i + 1]] /\ r[i] = q[i + 1]
    BY <1>7, <1>8, <1>9
  <2>2. PICK k \in 1..Len(q) : k = i + 1
    BY <2>1
  <2> QED
    BY <1>3, <1>13, <2>1, <2>2
<1>14. MatchedBy(g, r, t, c)
  BY <1>10, <1>11, <1>12, <1>13 DEF MatchedBy
<1>15. Head(s).kind = "RespondUnicode" => Response(c, Head(s).n) \in {NoText, Head(q)}
  BY <1>2, <1>3, <1>5, <1>6
<1> QED
  BY <1>6, <1>14, <1>15 DEF Matched, t, r

\* Another state of the adapter, that answers no more than the one before.
LEMMA OtherClip ==
    ASSUME NEW q \in Seq(Nat), NEW s \in Seq(Marks), NEW c, NEW d, Matched(q, s, c),
           \A i \in 1..Len(s) : s[i].kind = "RespondUnicode" =>
             Response(d, s[i].n) \in {NoText, Response(c, s[i].n)}
    PROVE  Matched(q, s, d)
<1>1. PICK f : MatchedBy(f, q, s, c)
  BY DEF Matched
<1>2. MatchedBy(f, q, s, d)
  BY <1>1 DEF MatchedBy
<1> QED
  BY <1>2 DEF Matched

-----------------------------------------------------------------------------
(***************************************************************************)
(* The clipboard: the lists and the actions that are alone of their kind.  *)
(***************************************************************************)
LEMMA OneAppended ==
    ASSUME NEW s \in Seq(Marks), NEW x \in Marks, NEW kind, OneAtMost(kind, s),
           x.kind = kind => ~ HasKind(kind, s)
    PROVE  OneAtMost(kind, Append(s, x))
<1>1. /\ DOMAIN s = 1..Len(s) /\ DOMAIN Append(s, x) = 1..(Len(s) + 1) /\ Len(s) \in Nat
      /\ \A i \in 1..Len(s) : Append(s, x)[i] = s[i]
      /\ Append(s, x)[Len(s) + 1] = x
      /\ \A i \in 1..(Len(s) + 1) : i \in 1..Len(s) \/ i = Len(s) + 1
  OBVIOUS
<1> QED
  BY <1>1 DEF OneAtMost, HasKind

LEMMA OneTaken ==
    ASSUME NEW s \in Seq(Marks), s # <<>>, NEW kind, OneAtMost(kind, s)
    PROVE  /\ OneAtMost(kind, Tail(s))
           /\ Head(s).kind = kind => ~ HasKind(kind, Tail(s))
<1>1. /\ DOMAIN s = 1..Len(s) /\ Len(s) \in Nat \ {0} /\ DOMAIN Tail(s) = 1..(Len(s) - 1)
      /\ Head(s) = s[1]
  OBVIOUS
<1>2. \A i \in 1..(Len(s) - 1) : Tail(s)[i] = s[i + 1]
  OBVIOUS
<1>3. 1 \in 1..Len(s) /\ \A i \in 1..(Len(s) - 1) : i + 1 \in 1..Len(s) /\ i + 1 # 1
  BY <1>1
<1>4. ASSUME NEW i \in DOMAIN Tail(s), NEW j \in DOMAIN Tail(s),
             Tail(s)[i].kind = kind, Tail(s)[j].kind = kind
      PROVE  i = j
  <2>1. i + 1 = j + 1
    BY <1>1, <1>2, <1>3, <1>4 DEF OneAtMost
  <2> QED
    BY <1>1, <2>1
<1>5. ASSUME NEW i \in DOMAIN Tail(s), Tail(s)[i].kind = kind, Head(s).kind = kind
      PROVE  FALSE
  BY <1>1, <1>2, <1>3, <1>5 DEF OneAtMost
<1> QED
  BY <1>4, <1>5 DEF OneAtMost, HasKind

\* What a member is tells what kinds there are.
LEMMA MemberKinds ==
    /\ \A m, s : Among(m, s) => HasKind(m.kind, s)
    /\ \A k, s : HasKind(k, s) => \E m : Among(m, s) /\ m.kind = k
BY DEF Among, HasKind

(***************************************************************************)
(* Steps that leave the local offers alone.                                *)
(***************************************************************************)
SameOffers ==
    /\ clip'.pendingLocal = clip.pendingLocal /\ clip'.accepted = clip.accepted
    /\ clip'.next \in {clip.next, clip.next + 1}
    /\ peer'.holds = peer.holds /\ peer'.greeted
FewerAnswers ==
    /\ OneAtMost("AdvertiseInitial", actions')
    /\ HasKind("AdvertiseInitial", actions') => HasKind("AdvertiseInitial", actions)
    /\ \A m : Among(m, actions') /\ m.kind = "RespondUnicode" => Among(m, actions)
FewerLists ==
    /\ OneAtMost("list", wire')
    /\ \A m : Among(m, wire') /\ m.kind = "list" => Among(m, wire)

LEMMA OffersKept ==
    ASSUME ClipboardTypes, OffersFit, SameOffers, FewerAnswers, FewerLists, AsksFit'
    PROVE  OffersFit'
<1>1. GreetingFits'
  BY DEF SameOffers, GreetingFits
<1>2. Pending' <=> Pending
  BY DEF SameOffers, Pending
<1>3. ListsFit'
  BY <1>2 DEF ListsFit, FewerLists, SameOffers, OffersFit
<1>4. HasKind("list", wire') => HasKind("list", wire)
  BY MemberKinds DEF FewerLists
<1>5. InitialFits'
  BY <1>2, <1>4 DEF InitialFits, FewerAnswers, SameOffers, OffersFit
<1>6. \A n \in Nat : n < clip.next => n < clip'.next
  BY DEF SameOffers, ClipboardTypes, ClipRecord
<1>7. clip.pendingLocal.generation \in Nat /\ clip.accepted.generation \in Nat
  BY DEF ClipboardTypes, ClipRecord, LocalOffers
<1>8. TextsFit'
  <2>1. /\ Pending => clip.accepted = NoLocal /\ clip.pendingLocal.generation < clip'.next
        /\ clip.accepted # NoLocal =>
             clip.accepted.text = peer.holds /\ clip.accepted.generation < clip'.next
    BY <1>6, <1>7 DEF TextsFit, OffersFit
  <2> QED
    BY <1>2, <2>1 DEF TextsFit, SameOffers
<1>9. \A m : Among(m, actions) => m.n \in Nat
  <2>1. actions \in Seq(Marks)
    BY DEF ClipboardTypes
  <2>2. \A i \in DOMAIN actions : actions[i] \in Marks
    BY <2>1
  <2> QED
    BY <2>2 DEF Among, Marks
<1>10. OlderOffers'
  <2> SUFFICES ASSUME NEW m, Among(m, actions'), m.kind = "RespondUnicode"
               PROVE  /\ m.n < clip'.next
                      /\ Pending' => m.n < clip'.pendingLocal.generation
    BY DEF OlderOffers, OlderOffer
  <2>1. Among(m, actions)
    BY DEF FewerAnswers
  <2>2. m.n < clip.next /\ (Pending => m.n < clip.pendingLocal.generation) /\ m.n \in Nat
    BY <1>9, <2>1 DEF OlderOffers, OlderOffer, OffersFit
  <2> QED
    BY <1>2, <1>6, <2>2 DEF SameOffers
<1> QED
  BY <1>1, <1>3, <1>5, <1>8, <1>10 DEF OffersFit

\* What the wire may lose or gain, and the actions.
LEMMA FewerOnWire ==
    ASSUME ClipboardTypes, OffersFit,
           \/ wire' = wire
           \/ wire # <<>> /\ wire' = Tail(wire)
           \/ \E x \in Marks : x.kind # "list" /\ wire' = Append(wire, x)
    PROVE  FewerLists
<1>0. wire \in Seq(Marks) /\ OneAtMost("list", wire)
  BY DEF ClipboardTypes, OffersFit, ListsFit
<1>1. CASE wire' = wire
  BY <1>0, <1>1 DEF FewerLists
<1>2. CASE wire # <<>> /\ wire' = Tail(wire)
  BY <1>0, <1>2, OneTaken, TailMembers DEF FewerLists
<1>3. ASSUME NEW x \in Marks, x.kind # "list", wire' = Append(wire, x)
      PROVE  FewerLists
  BY <1>0, <1>3, OneAppended, AppendMembers DEF FewerLists
<1> QED
  BY <1>1, <1>2, <1>3

LEMMA FewerInActions ==
    ASSUME ClipboardTypes, OffersFit,
           \/ actions' = actions
           \/ actions # <<>> /\ actions' = Tail(actions)
           \/ \E x \in Marks : /\ x.kind \notin {"AdvertiseInitial", "RespondUnicode"}
                               /\ actions' = Append(actions, x)
    PROVE  FewerAnswers
<1>0. actions \in Seq(Marks) /\ OneAtMost("AdvertiseInitial", actions)
  BY DEF ClipboardTypes, OffersFit, InitialFits
<1>1. CASE actions' = actions
  BY <1>0, <1>1 DEF FewerAnswers
<1>2. CASE actions # <<>> /\ actions' = Tail(actions)
  BY <1>0, <1>2, OneTaken, TailMembers DEF FewerAnswers
<1>3. ASSUME NEW x \in Marks, x.kind \notin {"AdvertiseInitial", "RespondUnicode"},
             actions' = Append(actions, x)
      PROVE  FewerAnswers
  BY <1>0, <1>3, OneAppended, AppendMembers DEF FewerAnswers
<1> QED
  BY <1>1, <1>2, <1>3

\* The answers that wait, when the adapter forgets what was accepted or keeps it.
LEMMA AsksKept ==
    ASSUME ClipboardTypes, OffersFit, peer'.asks = peer.asks,
           clip'.accepted \in {NoLocal, clip.accepted},
           \/ actions' = actions
           \/ actions # <<>> /\ ~ Answers(Head(actions)) /\ actions' = Tail(actions)
           \/ \E x \in Marks : ~ Answers(x) /\ actions' = Append(actions, x)
    PROVE  AsksFit'
<1>0. /\ actions \in Seq(Marks) /\ peer.asks \in Seq(Nat)
      /\ Matched(peer.asks, actions, clip)
  BY DEF ClipboardTypes, OffersFit, AsksFit
<1>1. actions' \in Seq(Marks) /\ Matched(peer.asks, actions', clip)
  <2>1. CASE actions' = actions
    BY <1>0, <2>1
  <2>2. CASE actions # <<>> /\ ~ Answers(Head(actions)) /\ actions' = Tail(actions)
    BY <1>0, <2>2, OtherTaken, TailMembers
  <2>3. ASSUME NEW x \in Marks, ~ Answers(x), actions' = Append(actions, x)
        PROVE  actions' \in Seq(Marks) /\ Matched(peer.asks, actions', clip)
    BY <1>0, <2>3, OtherAppended, AppendMembers
  <2> QED
    BY <2>1, <2>2, <2>3
<1>2. \A n : Response(clip', n) \in {NoText, Response(clip, n)}
  BY DEF Response, NoLocal
<1>3. Matched(peer.asks, actions', clip')
  BY <1>0, <1>1, <1>2, OtherClip
<1> QED
  BY <1>0, <1>3 DEF AsksFit

\* Who waits has greeted.
LEMMA Greeted ==
    ASSUME GreetingFits,
           wire # <<>> \/ actions # <<>> \/ clip.ready \/ peer.holds # NoText
    PROVE  peer.greeted
BY DEF GreetingFits

(***************************************************************************)
(* A new offer: nothing was pending, so no list is on its way.             *)
(***************************************************************************)
LEMMA OfferMade ==
    ASSUME ClipboardTypes, OffersFit, ~ Pending, NEW text \in Nat,
           clip'.next = clip.next + 1, clip'.accepted = NoLocal,
           clip'.pendingLocal = [generation |-> clip.next, text |-> text],
           wire' = Append(wire, Sent("list", text)), peer' = peer, peer.greeted,
           FewerAnswers, AsksFit'
    PROVE  OffersFit'
<1>0. /\ clip \in ClipRecord /\ wire \in Seq(Marks) /\ actions \in Seq(Marks)
      /\ Sent("list", text) \in Marks
  BY DEF ClipboardTypes, Sent, Marks, Kinds
<1>1. ~ HasKind("list", wire) /\ ~ HasKind("AdvertiseInitial", actions)
  BY MemberKinds DEF OffersFit, ListsFit, InitialFits
<1>2. Pending' /\ clip'.pendingLocal.text = text /\ clip'.pendingLocal.generation = clip.next
  BY <1>0, NewOffers DEF Pending
<1>3. GreetingFits'
  BY DEF GreetingFits
<1>4. ListsFit'
  <2>1. Sent("list", text).kind = "list" /\ Sent("list", text).n = text
    BY DEF Sent
  <2>2. OneAtMost("list", wire')
    BY <1>0, <1>1, <2>1, OneAppended DEF OffersFit, ListsFit
  <2>3. \A m : Among(m, wire') => Among(m, wire) \/ m = Sent("list", text)
    BY <1>0, AppendMembers
  <2> QED
    BY <1>1, <1>2, <2>1, <2>2, <2>3, MemberKinds DEF ListsFit
<1>5. InitialFits'
  BY <1>1 DEF InitialFits, FewerAnswers
<1>6. clip.next < clip'.next
  BY <1>0 DEF ClipRecord
<1>7. TextsFit'
  BY <1>2, <1>6 DEF TextsFit
<1>8. OlderOffers'
  <2>1. \A i \in DOMAIN actions : actions[i] \in Marks
    BY <1>0
  <2>2. \A m : Among(m, actions) => m.n \in Nat
    BY <2>1 DEF Among, Marks
  <2> SUFFICES ASSUME NEW m, Among(m, actions'), m.kind = "RespondUnicode"
               PROVE  m.n < clip'.next /\ (Pending' => m.n < clip'.pendingLocal.generation)
    BY DEF OlderOffers, OlderOffer
  <2>3. Among(m, actions)
    BY DEF FewerAnswers
  <2>4. m.n < clip.next /\ m.n \in Nat
    BY <2>2, <2>3 DEF OffersFit, OlderOffers, OlderOffer
  <2> QED
    BY <1>0, <1>2, <2>4 DEF ClipRecord
<1> QED
  BY <1>3, <1>4, <1>5, <1>7, <1>8 DEF OffersFit

LEMMA OffersWrite ==
    ASSUME ClipboardTypes, OffersFit, NEW text \in Nat, WriteText(text)
    PROVE  OffersFit'
<1>0. clip \in ClipRecord /\ UNCHANGED <<actions, peer>> /\ GreetingFits
  BY DEF ClipboardTypes, WriteText, OffersFit
<1>1. CASE UNCHANGED <<clip, wire>>
  BY <1>0, <1>1 DEF OffersFit, GreetingFits, ListsFit, InitialFits, TextsFit, OlderOffers,
                    OlderOffer, AsksFit, Pending
<1>2. CASE clip.ready /\ clip' = [clip EXCEPT !.queued = text] /\ UNCHANGED wire
  <2>1. clip'.pendingLocal = clip.pendingLocal /\ clip'.accepted = clip.accepted
        /\ clip'.next = clip.next
    BY <1>0, <1>2 DEF ClipRecord
  <2>2. SameOffers
    BY <1>0, <1>2, <2>1, Greeted DEF SameOffers
  <2>3. FewerAnswers /\ FewerLists
    BY <1>0, <1>2, FewerInActions, FewerOnWire
  <2>4. AsksFit'
    BY <1>0, <2>1, AsksKept
  <2> QED
    BY <2>2, <2>3, <2>4, OffersKept
<1>3. CASE /\ clip.ready /\ ~ Pending
           /\ clip' = Offered(clip, text) /\ wire' = Append(wire, Sent("list", text))
  <2>1. /\ clip'.pendingLocal = [generation |-> clip.next, text |-> text]
        /\ clip'.accepted = NoLocal /\ clip'.next = clip.next + 1
    BY <1>0, <1>3 DEF ClipRecord, Offered
  <2>2. peer.greeted
    BY <1>0, <1>3, Greeted
  <2>3. FewerAnswers
    BY <1>0, FewerInActions
  <2>4. AsksFit'
    BY <1>0, <2>1, AsksKept
  <2> QED
    BY <1>0, <1>3, <2>1, <2>2, <2>3, <2>4, OfferMade
<1> QED
  BY <1>1, <1>2, <1>3 DEF WriteText, Pending

LEMMA OffersService == ClipboardTypes /\ OffersFit /\ ServiceAction => OffersFit'
<1> SUFFICES ASSUME ClipboardTypes, OffersFit, ServiceAction PROVE OffersFit'
  OBVIOUS
<1>0. /\ clip \in ClipRecord /\ wire \in Seq(Marks) /\ actions \in Seq(Marks)
      /\ peer.copies \in Nat /\ peer.asks \in Seq(Nat) /\ GreetingFits
      /\ actions # <<>> /\ actions' = Tail(actions)
  BY DEF ClipboardTypes, ServiceAction, OffersFit, AsksFit
<1>1. PICK a : a = Head(actions)
  OBVIOUS
<1>2. FewerAnswers /\ peer.greeted
  BY <1>0, FewerInActions, Greeted
<1>3. CASE (IsVoid(a) \/ a.kind = "Publish") /\ UNCHANGED <<clip, wire, peer>>
  <2>1. ~ Answers(a)
    BY <1>3 DEF IsVoid, Answers
  <2>2. SameOffers /\ FewerLists
    BY <1>0, <1>2, <1>3, FewerOnWire DEF SameOffers
  <2>3. AsksFit'
    BY <1>0, <1>1, <1>3, <2>1, AsksKept
  <2> QED
    BY <1>2, <2>2, <2>3, OffersKept
<1>4. CASE /\ a.kind = "AdvertiseInitial" /\ wire' = Append(wire, Sent("list", NoText))
           /\ UNCHANGED <<clip, peer>>
  <2>1. /\ HasKind("AdvertiseInitial", actions)
        /\ ~ HasKind("AdvertiseInitial", actions')
    BY <1>0, <1>1, <1>4, TailMembers, OneTaken DEF OffersFit, InitialFits
  <2>2. Pending /\ clip.pendingLocal.text = NoText /\ ~ HasKind("list", wire)
    BY <2>1 DEF OffersFit, InitialFits
  <2>3. Sent("list", NoText) \in Marks /\ Sent("list", NoText).kind = "list"
        /\ Sent("list", NoText).n = NoText
    BY DEF Sent, Marks, Kinds, NoText
  <2>4. ListsFit'
    <3>1. OneAtMost("list", wire')
      BY <1>0, <1>4, <2>2, <2>3, OneAppended DEF OffersFit, ListsFit
    <3>2. \A m : Among(m, wire') => Among(m, wire) \/ m = Sent("list", NoText)
      BY <1>0, <1>4, <2>3, AppendMembers
    <3>3. Pending' /\ clip'.pendingLocal = clip.pendingLocal
      BY <1>4, <2>2 DEF Pending
    <3> QED
      BY <2>2, <2>3, <3>1, <3>2, <3>3, MemberKinds DEF ListsFit
  <2>5. InitialFits' /\ GreetingFits' /\ TextsFit'
    BY <1>2, <1>4, <2>1 DEF OffersFit, InitialFits, FewerAnswers, GreetingFits, TextsFit, Pending
  <2>6. OlderOffers'
    BY <1>2, <1>4 DEF OffersFit, FewerAnswers, OlderOffers, OlderOffer, Pending
  <2>7. AsksFit'
    <3>1. ~ Answers(a)
      BY <1>4 DEF Answers
    <3> QED
      BY <1>0, <1>1, <1>4, <3>1, AsksKept
  <2> QED
    BY <2>4, <2>5, <2>6, <2>7 DEF OffersFit
<1>5. CASE /\ a.kind = "AdvertiseQueuedLocal" /\ ~ IsVoid(a)
           /\ wire' = Append(wire, Sent("list", clip.queued))
           /\ clip' = [Offered(clip, clip.queued) EXCEPT !.queued = NoText]
           /\ UNCHANGED peer
  <2>1. ~ Pending /\ ~ Answers(a)
    BY <1>5 DEF IsVoid, Pending, Answers
  <2>2. /\ clip'.pendingLocal = [generation |-> clip.next, text |-> clip.queued]
        /\ clip'.accepted = NoLocal /\ clip'.next = clip.next + 1 /\ clip.queued \in Nat
    BY <1>0, <1>5 DEF ClipRecord, Offered
  <2>3. AsksFit'
    BY <1>0, <1>1, <1>5, <2>1, <2>2, AsksKept
  <2> QED
    BY <1>2, <1>5, <2>1, <2>2, <2>3, OfferMade
<1>6. CASE /\ a.kind = "RequestUnicode" /\ wire' = Append(wire, Sent("request", peer.copies))
           /\ clip' = [clip EXCEPT !.outstanding = clip.pendingRemote,
                                   !.pendingRemote = NoRemote]
           /\ UNCHANGED peer
  <2>1. /\ clip'.pendingLocal = clip.pendingLocal /\ clip'.accepted = clip.accepted
        /\ clip'.next = clip.next
    BY <1>0, <1>6 DEF ClipRecord
  <2>2. SameOffers /\ ~ Answers(a)
    BY <1>2, <1>6, <2>1 DEF SameOffers, Answers
  <2>3. FewerLists
    <3>1. /\ Sent("request", peer.copies) \in Marks
          /\ Sent("request", peer.copies).kind # "list"
      BY <1>0 DEF Sent, Marks, Kinds
    <3> QED
      BY <1>6, <3>1, FewerOnWire
  <2>4. AsksFit'
    BY <1>0, <1>1, <1>6, <2>1, <2>2, AsksKept
  <2> QED
    BY <1>2, <2>2, <2>3, <2>4, OffersKept
<1>7. CASE /\ Answers(a) /\ peer' = [peer EXCEPT !.asks = Tail(@)]
           /\ UNCHANGED <<clip, wire>>
  <2>1. /\ peer'.asks = Tail(peer.asks) /\ peer'.holds = peer.holds
        /\ peer'.greeted = peer.greeted
    BY <1>7 DEF ClipboardTypes
  <2>2. SameOffers /\ FewerLists
    BY <1>2, <1>7, <2>1, FewerOnWire DEF SameOffers
  <2>3. peer.asks # <<>> /\ Matched(Tail(peer.asks), Tail(actions), clip)
    BY <1>0, <1>1, <1>7, AnswerTaken DEF OffersFit, AsksFit
  <2>4. AsksFit'
    BY <1>0, <1>7, <2>1, <2>3 DEF AsksFit
  <2> QED
    BY <1>2, <2>2, <2>4, OffersKept
<1> QED
  BY <1>1, <1>3, <1>4, <1>5, <1>6, <1>7 DEF ServiceAction, Answers

LEMMA OffersGreeting ==
    ASSUME ClipboardTypes, OffersFit, ReadMonitorReady
    PROVE  OffersFit'
<1>0. /\ clip \in ClipRecord /\ ~ peer.greeted /\ wire = <<>> /\ actions = <<>> /\ wire' = wire
      /\ actions' = Append(<<>>, AdvertiseInitial)
  BY DEF ClipboardTypes, ReadMonitorReady, OffersFit, GreetingFits
<1>1. /\ AdvertiseInitial \in Marks /\ AdvertiseInitial.kind = "AdvertiseInitial"
      /\ ~ Answers(AdvertiseInitial)
  BY MarksTyped, MarksDiffer DEF Answers
<1>2. peer'.greeted /\ peer'.asks = peer.asks
  BY DEF ReadMonitorReady, ClipboardTypes
<1>3. /\ clip'.pendingLocal = [generation |-> clip.next, text |-> NoText]
      /\ clip'.accepted = NoLocal /\ clip'.next = clip.next + 1
  <2> DEFINE offer == [generation |-> clip.next, text |-> NoText]
  <2>1. offer \in LocalOffers /\ NoLocal \in LocalOffers
    BY <1>0, OffersTyped
  <2>2. clip' = [clip EXCEPT !.next = @ + 1, !.accepted = NoLocal, !.queued = NoText,
                             !.pendingLocal = offer]
    BY DEF ReadMonitorReady
  <2> HIDE DEF offer
  <2>3. clip'.pendingLocal = offer /\ clip'.accepted = NoLocal /\ clip'.next = clip.next + 1
    BY <1>0, <2>1, <2>2 DEF ClipRecord
  <2> QED
    BY <2>3 DEF offer
<1>4. Pending' /\ clip'.pendingLocal.text = NoText /\ clip'.pendingLocal.generation = clip.next
  BY <1>0, <1>3, NewOffers DEF Pending
<1>5. \A m : ~ Among(m, wire') /\ (Among(m, actions') => m = AdvertiseInitial)
  BY <1>0, <1>1 DEF Among
<1>6. GreetingFits' /\ ListsFit'
  BY <1>0, <1>2, <1>5 DEF GreetingFits, ListsFit, OneAtMost
<1>7. InitialFits'
  <2>1. OneAtMost("AdvertiseInitial", actions')
    BY <1>0, <1>1 DEF OneAtMost
  <2>2. ~ HasKind("list", wire')
    BY <1>5, MemberKinds
  <2> QED
    BY <1>4, <2>1, <2>2 DEF InitialFits
<1>8. TextsFit'
  BY <1>0, <1>3, <1>4 DEF TextsFit, ClipRecord
<1>9. OlderOffers'
  BY <1>1, <1>5 DEF OlderOffers
<1>10. AsksFit'
  BY <1>0, <1>1, <1>2, <1>3, AsksKept
<1> QED
  BY <1>6, <1>7, <1>8, <1>9, <1>10 DEF OffersFit

LEMMA OffersFormatList ==
    ASSUME ClipboardTypes, OffersFit, NEW unicode \in BOOLEAN, ReadFormatList(unicode)
    PROVE  OffersFit'
<1>0. clip \in ClipRecord /\ wire' = wire /\ peer.greeted /\ clip.next \in Nat
  BY DEF ClipboardTypes, ReadFormatList, ClipRecord
<1>1. /\ clip'.pendingLocal = clip.pendingLocal /\ clip'.accepted = clip.accepted
      /\ clip'.next = clip.next + 1
  <2> DEFINE offer == [generation |-> clip.next, unicode |-> unicode]
  <2>1. clip' = [clip EXCEPT !.next = @ + 1, !.remoteUnicode = unicode, !.pendingRemote = offer]
    BY DEF ReadFormatList
  <2> HIDE DEF offer
  <2> QED
    BY <1>0, <2>1 DEF ClipRecord
<1>2. peer'.holds = peer.holds /\ peer'.greeted /\ peer'.asks = peer.asks
  BY <1>0 DEF ReadFormatList, ClipboardTypes
<1>3. \/ actions' = actions
      \/ \E x \in Marks : /\ x.kind \notin {"AdvertiseInitial", "RespondUnicode"} /\ ~ Answers(x)
                          /\ actions' = Append(actions, x)
  <2>1. /\ RequestUnicode(clip.next) \in Marks
        /\ RequestUnicode(clip.next).kind = "RequestUnicode"
    BY <1>0, MarksTyped, MarksDiffer
  <2>2. actions' = actions \/ actions' = Append(actions, RequestUnicode(clip.next))
    BY DEF ReadFormatList, AppendIf
  <2> QED
    BY <2>1, <2>2 DEF Answers
<1>4. SameOffers /\ FewerAnswers /\ FewerLists
  BY <1>0, <1>1, <1>2, <1>3, FewerInActions, FewerOnWire DEF SameOffers
<1>5. AsksFit'
  BY <1>1, <1>2, <1>3, AsksKept
<1> QED
  BY <1>4, <1>5, OffersKept

LEMMA OffersData ==
    ASSUME ClipboardTypes, OffersFit, NEW ok \in BOOLEAN, ReadData(ok)
    PROVE  OffersFit'
<1>0. /\ clip \in ClipRecord /\ actions \in Seq(Marks) /\ wire \in Seq(Marks)
      /\ peer.copies \in Nat /\ wire # <<>> /\ wire' = Tail(wire) /\ peer' = peer /\ GreetingFits
  BY DEF ClipboardTypes, ReadData, OffersFit
<1>1. PICK copy \in Head(wire).n..peer.copies :
        /\ clip' = Accepted(clip, ok, copy).clip
        /\ actions' = actions \o Accepted(clip, ok, copy).actions
  BY DEF ReadData
<1>2. copy \in Nat
  <2>1. Head(wire).n \in Nat
    <3>1. Head(wire) \in Marks
      BY <1>0, TailMembers
    <3> QED
      BY <3>1 DEF Marks
  <2> QED
    BY <1>0, <2>1
<1>3. /\ clip'.pendingLocal = clip.pendingLocal /\ clip'.accepted = clip.accepted
      /\ clip'.next = clip.next
  <2> DEFINE free == [clip EXCEPT !.outstanding = NoRemote]
  <2>1. free \in ClipRecord /\ free.pendingLocal = clip.pendingLocal
        /\ free.accepted = clip.accepted /\ free.next = clip.next
    BY <1>0, OffersTyped DEF ClipRecord
  <2>2. clip' = clip \/ clip' = free \/ clip' = [free EXCEPT !.pendingRemote = NoRemote]
    BY <1>1 DEF Accepted
  <2> HIDE DEF free
  <2> QED
    BY <2>1, <2>2 DEF ClipRecord
<1>4. \/ actions' = actions
      \/ \E x \in Marks : /\ x.kind \notin {"AdvertiseInitial", "RespondUnicode"} /\ ~ Answers(x)
                          /\ actions' = Append(actions, x)
  <2>1. /\ RequestUnicode(clip.pendingRemote.generation) \in Marks /\ Publish(copy) \in Marks
        /\ RequestUnicode(clip.pendingRemote.generation).kind = "RequestUnicode"
        /\ Publish(copy).kind = "Publish"
    BY <1>0, <1>2, MarksTyped, MarksDiffer DEF ClipRecord, RemoteOffers, Publish, Action
  <2>2. Accepted(clip, ok, copy).actions
          \in {<<>>, <<RequestUnicode(clip.pendingRemote.generation)>>, <<Publish(copy)>>}
    BY DEF Accepted
  <2>3. actions' \in {actions, Append(actions, RequestUnicode(clip.pendingRemote.generation)),
                      Append(actions, Publish(copy))}
    BY <1>0, <1>1, <2>1, <2>2, ConcatShort
  <2> QED
    BY <2>1, <2>3 DEF Answers
<1>5. SameOffers /\ FewerAnswers /\ FewerLists
  BY <1>0, <1>3, <1>4, FewerInActions, FewerOnWire, Greeted DEF SameOffers
<1>6. AsksFit'
  BY <1>0, <1>3, <1>4, AsksKept
<1> QED
  BY <1>5, <1>6, OffersKept

(***************************************************************************)
(* The server asks for what it holds, which is what counts as accepted.    *)
(***************************************************************************)
LEMMA OffersDataRequest ==
    ASSUME ClipboardTypes, OffersFit, ReadDataRequest
    PROVE  OffersFit'
<1>0. /\ clip \in ClipRecord /\ actions \in Seq(Marks) /\ wire' = wire /\ clip' = clip
      /\ peer.holds \in Nat /\ peer.holds # NoText /\ clip.accepted.generation \in Nat
  BY DEF ClipboardTypes, ReadDataRequest, ClipRecord, LocalOffers
<1>1. PICK x : x = IF clip.accepted = NoLocal THEN RespondError
                   ELSE RespondUnicode(clip.accepted.generation)
  OBVIOUS
<1>2. /\ x \in Marks /\ Answers(x) /\ x.kind # "AdvertiseInitial"
      /\ x.kind = "RespondUnicode" => /\ clip.accepted # NoLocal
                                      /\ x.n = clip.accepted.generation
  <2>1. /\ RespondError.kind = "RespondError"
        /\ RespondUnicode(clip.accepted.generation).kind = "RespondUnicode"
        /\ RespondUnicode(clip.accepted.generation).n = clip.accepted.generation
    BY DEF RespondError, RespondUnicode, Action
  <2> QED
    BY <1>0, <1>1, <2>1, MarksTyped DEF Answers
<1>3. actions' = Append(actions, x)
  BY <1>1 DEF ReadDataRequest
<1>4. /\ peer'.asks = Append(peer.asks, peer.holds) /\ peer'.holds = peer.holds
      /\ peer'.greeted = peer.greeted
  BY DEF ReadDataRequest, ClipboardTypes
<1>5. peer.greeted /\ ListsFit' /\ TextsFit' /\ GreetingFits'
  <2>1. peer.greeted
    BY <1>0, Greeted DEF OffersFit
  <2> QED
    BY <1>0, <1>4, <2>1 DEF OffersFit, ListsFit, TextsFit, GreetingFits, Pending
<1>6. InitialFits'
  <2>1. /\ OneAtMost("AdvertiseInitial", actions')
        /\ HasKind("AdvertiseInitial", actions') <=> HasKind("AdvertiseInitial", actions)
    BY <1>0, <1>2, <1>3, OneAppended, AppendMembers DEF OffersFit, InitialFits
  <2> QED
    BY <1>0, <2>1 DEF OffersFit, InitialFits, Pending
<1>7. OlderOffers'
  <2>1. \A m : Among(m, actions') => Among(m, actions) \/ m = x
    BY <1>0, <1>2, <1>3, AppendMembers
  <2>2. x.kind = "RespondUnicode" => OlderOffer(x.n)
    BY <1>2 DEF OffersFit, TextsFit, OlderOffer
  <2> QED
    BY <1>0, <2>1, <2>2 DEF OffersFit, OlderOffers, OlderOffer, Pending
<1>8. AsksFit'
  <2>1. x.kind = "RespondUnicode" => Response(clip, x.n) \in {NoText, peer.holds}
    BY <1>2 DEF OffersFit, TextsFit, Response
  <2>2. Matched(Append(peer.asks, peer.holds), Append(actions, x), clip)
    BY <1>0, <1>2, <2>1, AnswerAppended DEF OffersFit, AsksFit
  <2>3. Append(peer.asks, peer.holds) \in Seq(Nat)
    BY <1>0 DEF OffersFit, AsksFit
  <2> QED
    BY <1>0, <1>3, <1>4, <2>2, <2>3 DEF AsksFit
<1> QED
  BY <1>5, <1>6, <1>7, <1>8 DEF OffersFit

(***************************************************************************)
(* The answer to a list: the list was of the offer that is pending, and    *)
(* the answers that wait are for older ones.                               *)
(***************************************************************************)
LEMMA OffersListReply ==
    ASSUME ClipboardTypes, OffersFit, NEW accepted \in BOOLEAN, ReadListReply(accepted)
    PROVE  OffersFit'
<1>0. /\ clip \in ClipRecord /\ actions \in Seq(Marks) /\ wire \in Seq(Marks)
      /\ peer.asks \in Seq(Nat) /\ Matched(peer.asks, actions, clip)
      /\ wire # <<>> /\ Head(wire).kind = "list" /\ wire' = Tail(wire)
      /\ clip.pendingLocal \in LocalOffers /\ NoLocal \in LocalOffers
  BY OffersTyped DEF ClipboardTypes, ReadListReply, ClipRecord, OffersFit, AsksFit
<1>1. Among(Head(wire), wire) /\ HasKind("list", wire)
  BY <1>0, TailMembers
<1>2. /\ Pending /\ Head(wire).n = clip.pendingLocal.text
      /\ ~ HasKind("AdvertiseInitial", actions)
      /\ clip.pendingLocal.generation < clip.next
  BY <1>0, <1>1 DEF OffersFit, ListsFit, InitialFits, TextsFit
<1>3. /\ peer'.greeted /\ peer'.asks = peer.asks
      /\ peer'.holds = IF accepted THEN clip.pendingLocal.text ELSE peer.holds
  <2>1. peer.greeted
    BY <1>0, Greeted DEF OffersFit
  <2>2. peer' = IF accepted THEN [peer EXCEPT !.holds = clip.pendingLocal.text] ELSE peer
    BY <1>2 DEF ReadListReply
  <2> QED
    BY <2>1, <2>2 DEF ClipboardTypes
<1>4. /\ clip'.next = clip.next /\ clip'.pendingLocal = NoLocal
      /\ \/ clip'.accepted = NoLocal
         \/ accepted /\ clip'.accepted = clip.pendingLocal
  <2> DEFINE opened == IF accepted /\ ~ clip.ready THEN [clip EXCEPT !.ready = TRUE] ELSE clip
             local == IF clip.pendingLocal.text # NoText THEN clip.pendingLocal ELSE NoLocal
  <2>1. opened \in ClipRecord /\ opened.next = clip.next
    BY <1>0 DEF ClipRecord
  <2>2. \/ /\ clip' = [opened EXCEPT !.pendingLocal = NoLocal, !.writeReady = TRUE,
                                     !.accepted = local]
           /\ accepted
        \/ clip' = [opened EXCEPT !.pendingLocal = NoLocal, !.accepted = NoLocal]
    BY <1>2, Zenon DEF ReadListReply, Pending
  <2>3. local \in {NoLocal, clip.pendingLocal}
    OBVIOUS
  <2> HIDE DEF opened, local
  <2> QED
    BY <1>0, <2>1, <2>2, <2>3 DEF ClipRecord
<1>5. ~ Pending'
  BY <1>4 DEF Pending
<1>6. \A m : ~ (Among(m, wire') /\ m.kind = "list")
  BY <1>0, OneTaken, MemberKinds DEF OffersFit, ListsFit
<1>7. GreetingFits' /\ ListsFit'
  BY <1>0, <1>3, <1>6, OneTaken DEF GreetingFits, OffersFit, ListsFit
<1>8. TextsFit'
  BY <1>2, <1>3, <1>4, <1>5 DEF TextsFit
<1>9. /\ actions' \in Seq(Marks) /\ Matched(peer.asks, actions', clip)
      /\ ~ HasKind("AdvertiseInitial", actions')
      /\ \A m : (Among(m, actions') /\ m.kind = "RespondUnicode") => Among(m, actions)
  <2>1. PICK x : x = RequestUnicode(clip.pendingRemote.generation)
    OBVIOUS
  <2>2. PICK before : before = AppendIf(accepted /\ ~ clip.ready
              /\ RemoteRequest(IF accepted /\ ~ clip.ready
                               THEN [clip EXCEPT !.ready = TRUE] ELSE clip) # {}, actions, x)
    OBVIOUS
  <2>3. \/ actions' = before
        \/ actions' = Append(before, AdvertiseQueuedLocal)
    BY <2>1, <2>2 DEF ReadListReply, AppendIf
  <2>4. before = actions \/ before = Append(actions, x)
    BY <2>2 DEF AppendIf
  <2>5. /\ x \in Marks /\ ~ Answers(x) /\ x.kind # "AdvertiseInitial"
        /\ AdvertiseQueuedLocal \in Marks /\ ~ Answers(AdvertiseQueuedLocal)
        /\ AdvertiseQueuedLocal.kind # "AdvertiseInitial"
        /\ x.kind # "RespondUnicode" /\ AdvertiseQueuedLocal.kind # "RespondUnicode"
    BY <1>0, <2>1, MarksTyped, MarksDiffer DEF ClipRecord, RemoteOffers, Answers
  <2>6. /\ before \in Seq(Marks) /\ Matched(peer.asks, before, clip)
        /\ ~ HasKind("AdvertiseInitial", before)
        /\ \A m : (Among(m, before) /\ m.kind = "RespondUnicode") => Among(m, actions)
    <3>1. CASE before = actions
      BY <1>0, <1>2, <3>1
    <3>2. CASE before = Append(actions, x)
      BY <1>0, <1>2, <2>5, <3>2, AppendMembers, OtherAppended
    <3> QED
      BY <2>4, <3>1, <3>2
  <2>7. CASE actions' = before
    BY <2>6, <2>7
  <2>8. CASE actions' = Append(before, AdvertiseQueuedLocal)
    BY <1>0, <2>5, <2>6, <2>8, AppendMembers, OtherAppended
  <2> QED
    BY <2>3, <2>7, <2>8
<1>10. InitialFits'
  <2>1. OneAtMost("AdvertiseInitial", actions')
    BY <1>9 DEF OneAtMost, HasKind
  <2> QED
    BY <1>9, <2>1 DEF InitialFits
<1>11. \A m : (Among(m, actions') /\ m.kind = "RespondUnicode") =>
                m.n < clip.next /\ m.n < clip.pendingLocal.generation
  BY <1>2, <1>9 DEF OffersFit, OlderOffers, OlderOffer
<1>12. OlderOffers'
  BY <1>4, <1>5, <1>11 DEF OlderOffers, OlderOffer
<1>13. AsksFit'
  <2>1. \A i \in 1..Len(actions') : Among(actions'[i], actions') /\ actions'[i].n \in Nat
    <3>1. \A i \in 1..Len(actions') : i \in DOMAIN actions' /\ actions'[i] \in Marks
      BY <1>9
    <3> QED
      BY <3>1 DEF Among, Marks
  <2>2. ASSUME NEW i \in 1..Len(actions'), actions'[i].kind = "RespondUnicode"
        PROVE  Response(clip', actions'[i].n) = NoText
    <3>1. actions'[i].n < clip.pendingLocal.generation /\ actions'[i].n \in Nat
      BY <1>11, <2>1, <2>2
    <3>2. clip.pendingLocal.generation # actions'[i].n
      BY <1>0, <3>1 DEF LocalOffers
    <3>3. clip'.accepted = NoLocal \/ clip'.accepted.generation # actions'[i].n
      BY <1>4, <3>2
    <3> QED
      BY <3>3 DEF Response, NoLocal
  <2>3. Matched(peer.asks, actions', clip')
    BY <1>0, <1>9, <2>2, OtherClip
  <2> QED
    BY <1>0, <1>3, <2>3 DEF AsksFit
<1> QED
  BY <1>7, <1>8, <1>10, <1>12, <1>13 DEF OffersFit

LEMMA InitOffers == Init => OffersInvariant
<1> SUFFICES ASSUME Init PROVE OffersFit
  BY DEF OffersInvariant
<1>1. /\ clip = NewClip /\ actions = <<>> /\ wire = <<>> /\ peer.asks = <<>>
      /\ ~ peer.greeted /\ peer.holds = NoText
  BY DEF Init, ClipboardInit
<1>2. GreetingFits /\ ListsFit /\ InitialFits /\ OlderOffers
  BY <1>1 DEF GreetingFits, ListsFit, InitialFits, OlderOffers, OneAtMost, Among, HasKind, NewClip
<1>3. TextsFit
  BY <1>1 DEF TextsFit, NewClip, Pending
<1>4. AsksFit
  <2>1. MatchedBy(<<>>, <<>>, <<>>, clip)
    BY DEF MatchedBy
  <2> QED
    BY <1>1, <2>1 DEF AsksFit, Matched
<1> QED
  BY <1>2, <1>3, <1>4 DEF OffersFit

LEMMA OffersStep ==
    ASSUME LoopTypes, ClipboardTypes, OffersInvariant, [Next]_vars
    PROVE  OffersInvariant'
<1>1. CASE UNCHANGED clipboardVars /\ (At("ended") => At("ended")')
  BY <1>1 DEF clipboardVars, OffersInvariant, OffersFit, GreetingFits, ListsFit, InitialFits,
              TextsFit, OlderOffers, OlderOffer, AsksFit, Pending
<1>2. CASE ServiceAction /\ ~ At("ended")
  BY <1>2, OffersService DEF OffersInvariant
<1>3. CASE ReadCallback /\ ~ At("ended")
  BY <1>3, OffersGreeting, OffersFormatList, OffersData, OffersDataRequest, OffersListReply
  DEF OffersInvariant, ReadCallback
<1>4. ASSUME NEW text \in Nat, WriteText(text), ~ At("ended")
      PROVE  OffersInvariant'
  BY <1>4, OffersWrite DEF OffersInvariant
<1>5. CASE clip' = NewClip /\ actions' = <<>> /\ wire' = wire /\ peer' = peer /\ At("ended")'
  BY <1>5 DEF OffersInvariant
<1> QED
  BY <1>1, <1>2, <1>3, <1>4, <1>5, ClipboardSteps

LEMMA OffersInvariance == Spec => []OffersInvariant
<1>1. ChannelsInvariant => LoopTypes /\ ClipboardTypes
  BY DEF ChannelsInvariant, Types
<1>2. LoopTypes /\ ClipboardTypes /\ OffersInvariant /\ [Next]_vars => OffersInvariant'
  BY OffersStep
<1> QED
  BY <1>1, <1>2, InitOffers, ChannelsInvariance, PTL DEF Spec

(***************************************************************************)
(* A request of the server is answered with the text it was made for or    *)
(* with an error, however offers and requests cross.                       *)
(***************************************************************************)
THEOREM AnswersHold == Spec => []AnswersFit
<1>1. ClipboardTypes /\ OffersInvariant => AnswersFit
  <2> SUFFICES ASSUME ClipboardTypes, OffersInvariant, actions # <<>>,
                      Head(actions).kind = "RespondUnicode"
               PROVE  Response(clip, Head(actions).n) \in {NoText, Head(peer.asks)}
    BY DEF AnswersFit
  <2>1. /\ actions \in Seq(Marks) /\ peer.asks \in Seq(Nat)
        /\ Matched(peer.asks, actions, clip) /\ Answers(Head(actions))
    BY DEF ClipboardTypes, OffersInvariant, OffersFit, AsksFit, Answers
  <2> QED
    BY <2>1, AnswerTaken
<1>2. ChannelsInvariant => ClipboardTypes
  BY DEF ChannelsInvariant, Types
<1> QED
  BY <1>1, <1>2, OffersInvariance, ChannelsInvariance, PTL
=============================================================================
