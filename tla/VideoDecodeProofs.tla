--------------------------- MODULE VideoDecodeProofs ---------------------------
(***************************************************************************)
(* Proofs about the video of a session, for every number of epochs and     *)
(* access units and every size of queue and delay of the decoder: frames   *)
(* are published and shown under the epoch they were sent in, a decoder is *)
(* never given a broken reference, and nothing follows a failure.          *)
(***************************************************************************)
EXTENDS VideoDecode, WellFoundedInduction, SequenceTheorems, FiniteSetTheorems, TLAPS

-----------------------------------------------------------------------------
(***************************************************************************)
(* The state, typed.                                                       *)
(***************************************************************************)
SomeSerial == 0..MaxEpochs

Routes == [queue : SomeSerial, started : BOOLEAN, terminal : BOOLEAN, joined : BOOLEAN,
           restart : BOOLEAN]
InputQueues == [config : SomeSerial, units : Seq(Nat), popped : SomeSerial, closed : BOOLEAN]
Streams == [serial : SomeSerial, latest : Nat, delivered : Nat, ready : BOOLEAN,
            terminal : BOOLEAN]
Publications == [kind : {"selected", "frame", "failed", "stopped"}, serial : SomeSerial,
                 unit : Nat]
Decoders == [serial : SomeSerial, last : Nat, held : Seq(Nat)]
WorkerPlaces == {"none", "pop", "config", "reopen", "unit", "emit", "drain", "leave", "exit",
                 "done"}
Workers == [pc : WorkerPlaces, queue : SomeSerial, epoch : SomeSerial, unit : Nat,
            frames : Seq(Nat), decoder : Decoders, panicked : BOOLEAN]
Supervisors == [pc : {"loop", "spawn", "report", "abort", "ended"}, queue : SomeSerial,
                epoch : SomeSerial]
Windows == [pc : {"idle", "events", "ready"}, owner : Nat, configured : Nat, pending : Nat,
            failed : BOOLEAN]

VideoTypes ==
    /\ epochs \in Seq(Nat) /\ Current <= MaxEpochs
    /\ units \in Seq([serial : SomeSerial, key : BOOLEAN])
    /\ source \in {"sending", "awaiting", "ended"}
    /\ router \in [closed : BOOLEAN, route : Routes]
    /\ queues \in [Serials -> InputQueues]
    /\ stream \in Streams
    /\ outbox \in Seq(Publications)
    /\ admission \in Nat
    /\ worker \in Workers
    /\ supervisor \in Supervisors
    /\ window \in Windows

-----------------------------------------------------------------------------
(***************************************************************************)
(* Every serial is one of an epoch accepted so far, and every unit one of  *)
(* those sent so far.                                                      *)
(***************************************************************************)
Sent == 1..Len(units)
AllSent(q) == \A i \in 1..Len(q) : q[i] \in Sent
AllSentIn(s, q) == \A i \in 1..Len(q) : q[i] \in Sent /\ units[q[i]].serial = s

OnlyThePast ==
    /\ \A i \in Sent : units[i].serial <= Current
    /\ router.route.queue <= Current
    /\ \A q \in Serials : /\ queues[q].config <= Current /\ queues[q].popped <= Current
                          /\ AllSent(queues[q].units)
    /\ \A i \in 1..Len(outbox) : outbox[i].kind # "stopped" => outbox[i].serial \in 1..Current
    /\ worker.epoch <= Current /\ worker.decoder.serial <= Current
    /\ supervisor.epoch <= Current

(***************************************************************************)
(* The frames: a decoder, a publication and the window have only units of  *)
(* their epoch.                                                            *)
(***************************************************************************)
DecoderHolds ==
    /\ AllSentIn(worker.decoder.serial, worker.decoder.held)
    /\ AllSentIn(worker.decoder.serial, worker.frames)
    /\ worker.frames # <<>> => worker.pc \in {"emit", "reopen", "leave"}
    /\ worker.pc = "unit" => worker.unit \in Sent /\ units[worker.unit].serial = worker.epoch

PublishedHolds ==
    \A i \in 1..Len(outbox) : outbox[i].kind = "frame" =>
        outbox[i].unit \in Sent /\ units[outbox[i].unit].serial = outbox[i].serial

ShownHolds ==
    /\ stream.latest # 0 =>
         stream.latest \in Sent /\ units[stream.latest].serial = stream.serial
    /\ window.pc = "ready" /\ stream.ready =>
         window.pending \in Sent /\ units[window.pending].serial = stream.serial

(***************************************************************************)
(* The input queue of the current route, and where the others end: what is *)
(* in a queue that was replaced, or with its worker, is of an epoch that   *)
(* is over.                                                                *)
(***************************************************************************)
Routed == router.route.queue # 0
Input == queues[router.route.queue]

RoutesHold ==
    /\ stream.serial \in {0, Current}
    /\ stream.serial = 0 => stream = NoStream
    /\ ~ Routed => router.route = NoRoute /\ stream = NoStream
    /\ Routed /\ stream = NoStream => router.closed
    /\ worker.pc = "none" => worker = NoWorker
    /\ worker.pc # "none" => worker.queue # 0
    /\ supervisor.pc \in {"spawn", "report", "abort"} =>
         supervisor.queue # 0 /\ worker.pc = "none"

OthersAreOver ==
    /\ \A q \in Serials : q # router.route.queue =>
         /\ ~ IsCurrent(queues[q].config)
         /\ \A i \in 1..Len(queues[q].units) : ~ IsCurrent(units[queues[q].units[i]].serial)
    /\ worker.queue # router.route.queue =>
         ~ IsCurrent(worker.epoch) /\ ~ IsCurrent(worker.decoder.serial)
    /\ supervisor.pc = "report" /\ supervisor.queue # router.route.queue =>
         ~ IsCurrent(supervisor.epoch)

(***************************************************************************)
(* What is still to be decoded follows what was: u, the unit decoded last, *)
(* then those of q, then those the source sends.                           *)
(***************************************************************************)
Linked(u, q) ==
    \A i \in 1..Len(q) : units[q[i]].key \/ q[i] = (IF i = 1 THEN u ELSE q[i - 1]) + 1
Follows(u, q) ==
    /\ Linked(u, q)
    /\ source = "sending" /\ ~ Input.closed =>
         Len(units) = IF q = <<>> THEN u ELSE q[Len(q)]

DecodedLast == IF worker.pc = "unit" THEN worker.unit ELSE worker.decoder.last

ConfigHolds ==
    Routed /\ Input.config # 0 =>
      /\ Input.config = Current
      /\ Follows(0, Input.units)
      /\ ~ IsCurrent(worker.epoch)
      /\ ~ IsCurrent(worker.decoder.serial)
      /\ ~ IsCurrent(Input.popped)

UnitsHold ==
    Routed =>
      /\ \A i \in 1..Len(Input.units) : units[Input.units[i]].serial = Current
      /\ worker.pc \in {"config", "reopen"} /\ IsCurrent(worker.epoch) => Follows(0, Input.units)
      /\ IsCurrent(worker.decoder.serial) => Follows(DecodedLast, Input.units)

ReferenceHolds ==
    /\ worker.pc \in {"config", "reopen"} => ~ IsCurrent(worker.decoder.serial)
    /\ worker.pc = "unit" /\ IsCurrent(worker.decoder.serial) =>
         /\ worker.epoch = worker.decoder.serial
         /\ units[worker.unit].key \/ worker.decoder.last = worker.unit - 1

(***************************************************************************)
(* A failed stream is not decoded any more: its worker is at its end, its  *)
(* route is over or about to be, and none is started for it.               *)
(***************************************************************************)
RouteIsOver ==
    Routed /\ router.route.terminal =>
      /\ Input.config = 0
      /\ ~ router.route.restart
      /\ worker.queue = router.route.queue => worker.pc = "done"
      /\ supervisor.pc \in {"spawn", "report"} => supervisor.queue # router.route.queue

FailureHolds ==
    stream.terminal =>
      \/ router.route.terminal
      \/ /\ worker.queue = router.route.queue /\ worker.pc = "exit"
         /\ Input.config = 0
      \/ supervisor.pc = "abort" /\ supervisor.queue = router.route.queue

StopHolds ==
    /\ \A i \in 1..Len(outbox) : outbox[i].kind = "stopped" =>
         outbox[i] = Stopped /\ i = Len(outbox) /\ supervisor.pc = "ended"
    /\ supervisor.pc = "ended" => router.closed /\ worker.pc = "none"

VideoInvariant ==
    /\ VideoTypes /\ OnlyThePast
    /\ DecoderHolds /\ PublishedHolds /\ ShownHolds
    /\ RoutesHold /\ OthersAreOver
    /\ ConfigHolds /\ UnitsHold /\ ReferenceHolds
    /\ RouteIsOver /\ FailureHolds /\ StopHolds

-----------------------------------------------------------------------------
(***************************************************************************)
(* The publications: what replaces, drops and takes one.                   *)
(***************************************************************************)
LEMMA NatMinimum ==
    ASSUME NEW T \in SUBSET Nat, T # {}
    PROVE  \E m \in T : \A k \in T : m <= k
<1> DEFINE Below == OpToRel(<, Nat)
<1>1. IsWellFoundedOn(Below, Nat)
  BY NatLessThanWellFounded
<1>2. \A k, m \in Nat : <<k, m>> \notin Below => m <= k
  BY DEF OpToRel
<1> HIDE DEF Below
<1>3. PICK m \in T : \A k \in T : ~ (<<k, m>> \in Below)
  BY <1>1, WFMin, Zenon
<1> QED
  BY <1>2, <1>3

\* A sequence without one of its elements.
LEMMA Removed ==
    ASSUME NEW S, NEW q \in Seq(S), NEW n \in 1..Len(q)
    PROVE  /\ RemoveAt(q, n) \in Seq(S)
           /\ \A i \in 1..Len(RemoveAt(q, n)) : \E j \in 1..Len(q) : RemoveAt(q, n)[i] = q[j]
<1> DEFINE a == SubSeq(q, 1, n - 1)
           b == SubSeq(q, n + 1, Len(q))
<1>1. a \in Seq(S) /\ Len(a) = n - 1 /\ \A i \in 1..(n - 1) : a[i] = q[i]
  OBVIOUS
<1>2. b \in Seq(S) /\ Len(b) = Len(q) - n /\ \A i \in 1..(Len(q) - n) : b[i] = q[n + i]
  OBVIOUS
<1>3. RemoveAt(q, n) = a \o b
  BY DEF RemoveAt
<1> HIDE DEF a, b
<1>4. /\ a \o b \in Seq(S) /\ Len(a \o b) = Len(a) + Len(b)
      /\ \A i \in 1..(Len(a) + Len(b)) :
           (a \o b)[i] = IF i <= Len(a) THEN a[i] ELSE b[i - Len(a)]
  BY <1>1, <1>2, ConcatProperties
<1>5. ASSUME NEW i \in 1..Len(a \o b)
      PROVE  \E j \in 1..Len(q) : (a \o b)[i] = q[j]
  <2>1. CASE i <= n - 1
    <3>1. (a \o b)[i] = q[i] /\ i \in 1..Len(q)
      BY <1>1, <1>2, <1>4, <2>1
    <3> QED
      BY <3>1
  <2>2. CASE ~ (i <= n - 1)
    <3>1. (a \o b)[i] = q[n + (i - (n - 1))] /\ n + (i - (n - 1)) \in 1..Len(q)
      BY <1>1, <1>2, <1>4, <2>2
    <3> QED
      BY <3>1
  <2> QED
    BY <2>1, <2>2
<1> QED
  BY <1>3, <1>4, <1>5

LEMMA FrameRemoved ==
    ASSUME NEW q \in Seq(Publications)
    PROVE  /\ WithoutFrame(q) \in Seq(Publications)
           /\ \A i \in 1..Len(WithoutFrame(q)) : \E j \in 1..Len(q) : WithoutFrame(q)[i] = q[j]
           /\ q = <<>> => WithoutFrame(q) = <<>>
<1> DEFINE I == {i \in 1..Len(q) : q[i].kind = "frame"}
<1>1. CASE I = {}
  <2>1. WithoutFrame(q) = q
    BY <1>1 DEF WithoutFrame, RemoveFirstMatch
  <2> QED
    BY <2>1
<1>2. CASE I # {}
  <2>1. WithoutFrame(q) = RemoveAt(q, Min(I))
    BY <1>2 DEF WithoutFrame, RemoveFirstMatch, SelectInSeq
  <2>2. Min(I) \in I
    <3>1. I \in SUBSET Nat
      OBVIOUS
    <3> HIDE DEF I
    <3>2. \E m \in I : \A k \in I : m <= k
      BY <1>2, <3>1, NatMinimum
    <3> QED
      BY <3>2 DEF Min
  <2>3. Min(I) \in 1..Len(q) /\ q # <<>>
    BY <1>2, <2>2
  <2> HIDE DEF I
  <2> QED
    BY <2>1, <2>3, Removed
<1> QED
  BY <1>1, <1>2

LEMMA StoppedKept ==
    ASSUME NEW q \in Seq(Publications)
    PROVE  /\ OnlyStopped(q) \in Seq(Publications)
           /\ \A i \in 1..Len(OnlyStopped(q)) : OnlyStopped(q)[i] = Stopped
           /\ (\A i \in 1..Len(q) : q[i] # Stopped) => OnlyStopped(q) = <<>>
<1>1. Stopped \in Publications
  BY VideoAssumption DEF Stopped, Publication, Publications, SomeSerial
<1>2. <<Stopped>> \in Seq(Publications) /\ <<>> \in Seq(Publications)
  BY <1>1
<1> QED
  BY <1>2 DEF OnlyStopped

-----------------------------------------------------------------------------
(***************************************************************************)
(* What a publication of the worker side leaves true: nothing has been     *)
(* said to be stopped, and the stream is the same one.                     *)
(***************************************************************************)
PublicationHolds(p) ==
    /\ p.kind # "stopped" /\ p.serial \in 1..Current
    /\ p.kind = "frame" => p.unit \in Sent /\ units[p.unit].serial = p.serial

StreamKept ==
    /\ stream' \in Streams /\ stream'.serial = stream.serial
    /\ stream.serial = 0 => stream' = stream
    /\ stream'.ready => stream.ready
    /\ stream'.latest # 0 =>
         stream'.latest \in Sent /\ units[stream'.latest].serial = stream.serial

PublishedWell ==
    /\ outbox' \in Seq(Publications)
    /\ \A i \in 1..Len(outbox') : PublicationHolds(outbox'[i])
    /\ StreamKept

LEMMA AllPublicationsHold ==
    ASSUME VideoInvariant, supervisor.pc # "ended"
    PROVE  /\ outbox \in Seq(Publications) /\ \A i \in 1..Len(outbox) : PublicationHolds(outbox[i])
           /\ stream \in Streams /\ stream.serial \in 0..Current /\ Current \in Nat
           /\ stream.latest # 0 =>
                stream.latest \in Sent /\ units[stream.latest].serial = stream.serial
<1>1. outbox \in Seq(Publications) /\ stream \in Streams /\ Current \in Nat
  BY DEF VideoInvariant, VideoTypes, Current
<1>2. \A i \in 1..Len(outbox) : PublicationHolds(outbox[i])
  BY DEF VideoInvariant, OnlyThePast, PublishedHolds, StopHolds, PublicationHolds
<1>3. stream.serial \in 0..Current
  BY <1>1 DEF VideoInvariant, RoutesHold
<1>4. stream.latest # 0 => stream.latest \in Sent /\ units[stream.latest].serial = stream.serial
  BY DEF VideoInvariant, ShownHolds
<1> QED
  BY <1>1, <1>2, <1>3, <1>4

LEMMA NothingPublished ==
    ASSUME VideoInvariant, supervisor.pc # "ended", UNCHANGED <<outbox, stream>>
    PROVE  PublishedWell
BY AllPublicationsHold DEF PublishedWell, StreamKept

LEMMA OnePublished ==
    ASSUME NEW q \in Seq(Publications), NEW p \in Publications,
           \A i \in 1..Len(q) : PublicationHolds(q[i]), PublicationHolds(p)
    PROVE  /\ Append(q, p) \in Seq(Publications)
           /\ \A i \in 1..Len(Append(q, p)) : PublicationHolds(Append(q, p)[i])
<1>1. /\ Append(q, p) \in Seq(Publications) /\ Len(Append(q, p)) = Len(q) + 1 /\ Len(q) \in Nat
      /\ \A i \in 1..Len(q) : Append(q, p)[i] = q[i]
      /\ Append(q, p)[Len(q) + 1] = p
  BY AppendProperties
<1>2. \A i \in 1..(Len(q) + 1) : i \in 1..Len(q) \/ i = Len(q) + 1
  BY <1>1
<1> QED
  BY <1>1, <1>2

LEMMA ControlPublished ==
    ASSUME VideoInvariant, supervisor.pc # "ended",
           NEW kind \in {"selected", "failed"}, NEW s \in SomeSerial, PublishControl(kind, s)
    PROVE  /\ PublishedWell
           /\ stream'.terminal => stream.terminal \/ (kind = "failed" /\ IsCurrent(s))
<1>1. CASE ~ IsCurrent(s)
  <2>1. UNCHANGED <<outbox, stream>>
    BY <1>1 DEF PublishControl
  <2> QED
    BY <2>1, NothingPublished
<1>2. CASE IsCurrent(s)
  <2> DEFINE p == Publication(kind, s, 0)
  <2>1. p \in Publications /\ PublicationHolds(p)
    BY <1>2, AllPublicationsHold DEF Publication, Publications, PublicationHolds, IsCurrent
  <2>2. outbox' = Append(outbox, p)
    BY <1>2 DEF PublishControl
  <2> HIDE DEF p
  <2>3. outbox' \in Seq(Publications) /\ \A i \in 1..Len(outbox') : PublicationHolds(outbox'[i])
    BY <2>1, <2>2, AllPublicationsHold, OnePublished
  <2>4. /\ stream' \in Streams /\ stream'.serial = stream.serial /\ stream.serial # 0
        /\ stream'.ready => stream.ready
        /\ stream'.latest # 0 => stream'.latest = stream.latest
        /\ stream'.terminal => stream.terminal \/ kind = "failed"
    <3> DEFINE token == IF HasFrame THEN stream.latest ELSE 0
               given == IF HasFrame THEN stream.delivered ELSE 0
    <3>1. stream' = IF kind # "failed" THEN stream
                    ELSE [stream EXCEPT !.terminal = TRUE, !.ready = FALSE,
                                        !.latest = token, !.delivered = given]
      BY <1>2 DEF PublishControl
    <3>2. stream \in Streams /\ stream.serial # 0
      BY <1>2, AllPublicationsHold DEF IsCurrent
    <3>3. token \in {0, stream.latest} /\ given \in {0, stream.delivered}
      OBVIOUS
    <3>4. token \in Nat /\ given \in Nat
      BY <3>2, <3>3 DEF Streams
    <3> HIDE DEF token, given
    <3>5. CASE kind # "failed"
      BY <3>1, <3>2, <3>5
    <3>6. CASE kind = "failed"
      <4>1. stream' = [serial |-> stream.serial, latest |-> token, delivered |-> given,
                       ready |-> FALSE, terminal |-> TRUE]
        BY <3>1, <3>2, <3>6 DEF Streams
      <4>2. stream' \in Streams
        BY <3>2, <3>4, <4>1 DEF Streams
      <4> QED
        BY <3>2, <3>3, <3>6, <4>1, <4>2
    <3> QED
      BY <3>5, <3>6
  <2>5. StreamKept
    BY <2>4, AllPublicationsHold DEF StreamKept
  <2> QED
    BY <1>2, <2>3, <2>4, <2>5 DEF PublishedWell
<1> QED
  BY <1>1, <1>2

LEMMA FramePublished ==
    ASSUME VideoInvariant, supervisor.pc # "ended",
           NEW s \in SomeSerial, NEW u \in Sent, units[u].serial = s, PublishFrame(s, u)
    PROVE  PublishedWell /\ stream'.terminal = stream.terminal
<1>1. CASE ~ IsCurrent(s)
  BY <1>1, NothingPublished DEF PublishFrame
<1>2. CASE IsCurrent(s)
  <2> DEFINE p == Publication("frame", s, u)
             q == WithoutFrame(outbox)
  <2>1. u \in Nat /\ p \in Publications /\ PublicationHolds(p)
    BY <1>2, AllPublicationsHold
       DEF Publication, Publications, PublicationHolds, IsCurrent, Sent
  <2>2. q \in Seq(Publications) /\ \A i \in 1..Len(q) : PublicationHolds(q[i])
    BY AllPublicationsHold, FrameRemoved
  <2>3. outbox' = Append(q, p)
    BY <1>2 DEF PublishFrame
  <2> HIDE DEF p, q
  <2>4. outbox' \in Seq(Publications) /\ \A i \in 1..Len(outbox') : PublicationHolds(outbox'[i])
    BY <2>1, <2>2, <2>3, OnePublished
  <2>5. stream' = [stream EXCEPT !.latest = u, !.delivered = 0]
    BY <1>2 DEF PublishFrame
  <2>6. /\ stream' \in Streams /\ stream'.serial = stream.serial /\ stream.serial # 0
        /\ stream'.ready = stream.ready /\ stream'.latest = u
        /\ stream'.terminal = stream.terminal
    BY <1>2, <2>1, <2>5, AllPublicationsHold DEF IsCurrent, Streams
  <2>7. StreamKept
    BY <1>2, <2>6 DEF StreamKept, IsCurrent
  <2> QED
    BY <2>4, <2>6, <2>7 DEF PublishedWell
<1> QED
  BY <1>1, <1>2

\* What the window knows of the stream stays true.
LEMMA PublicationsKept ==
    ASSUME VideoInvariant, PublishedWell, supervisor'.pc # "ended",
           UNCHANGED <<epochs, units, window>>
    PROVE  /\ PublishedHolds' /\ ShownHolds' /\ StopHolds'
           /\ \A i \in 1..Len(outbox') :
                outbox'[i].kind # "stopped" => outbox'[i].serial \in 1..Current'
<1>1. \A i \in 1..Len(outbox') :
        /\ outbox'[i].kind # "stopped" /\ outbox'[i].serial \in 1..Current
        /\ outbox'[i].kind = "frame" =>
             outbox'[i].unit \in Sent /\ units[outbox'[i].unit].serial = outbox'[i].serial
  BY DEF PublishedWell, PublicationHolds
<1>2. PublishedHolds' /\ StopHolds'
  BY <1>1 DEF PublishedHolds, StopHolds, Sent
<1>3. ShownHolds'
  BY DEF PublishedWell, StreamKept, VideoInvariant, ShownHolds, Sent
<1>4. Current' = Current
  BY DEF Current
<1> QED
  BY <1>1, <1>2, <1>3, <1>4

-----------------------------------------------------------------------------
(***************************************************************************)
(* A step of the worker that leaves the queues and the route as they are.  *)
(***************************************************************************)
LEMMA WorkerRuns ==
    ASSUME VideoInvariant, worker.pc # "none"
    PROVE  /\ worker \in Workers /\ worker.decoder \in Decoders /\ worker.queue \in Serials
           /\ supervisor.pc \in {"loop"}
           /\ router.route.queue \in SomeSerial
           /\ worker.pc # "done" => ~ (worker.queue = router.route.queue /\ router.route.terminal)
BY DEF VideoInvariant, VideoTypes, Workers, RoutesHold, StopHolds, RouteIsOver, Supervisors,
       Routes, Serials, SomeSerial, Routed

LEMMA WorkerMoves ==
    ASSUME VideoInvariant, PublishedWell, DecoderHolds',
           worker.pc \notin {"none", "exit", "done"},
           worker' \in Workers, worker'.queue = worker.queue, worker'.epoch = worker.epoch,
           worker'.pc \notin {"none", "unit", "done"},
           worker'.pc \in {"config", "reopen"} =>
             worker.pc \in {"config", "reopen"} /\ ~ IsCurrent(worker'.decoder.serial),
           \/ worker'.decoder.serial = 0
           \/ /\ worker'.decoder.serial = worker.decoder.serial
              /\ IsCurrent(worker.decoder.serial) => worker'.decoder.last = DecodedLast
           \/ /\ worker.pc \in {"config", "reopen"}
              /\ worker'.decoder.serial = worker.epoch /\ worker'.decoder.last = 0,
           stream'.terminal =>
             \/ stream.terminal
             \/ /\ worker'.pc = "exit"
                /\ IsCurrent(worker.epoch) \/ IsCurrent(worker.decoder.serial),
           UNCHANGED <<epochs, units, source, router, queues, admission, supervisor, window>>
    PROVE  VideoInvariant'
<1>1. /\ VideoTypes /\ OnlyThePast /\ RoutesHold /\ OthersAreOver /\ ConfigHolds /\ UnitsHold
      /\ ReferenceHolds /\ RouteIsOver /\ FailureHolds
  BY DEF VideoInvariant
<1>2. /\ worker \in Workers /\ worker.queue \in Serials /\ supervisor.pc = "loop"
      /\ worker.queue = router.route.queue => ~ router.route.terminal
  BY WorkerRuns
<1>3. /\ stream' \in Streams /\ outbox' \in Seq(Publications)
      /\ stream'.serial = stream.serial
      /\ stream.serial = 0 => stream' = stream
  BY DEF PublishedWell, StreamKept
<1>4. \A s : IsCurrent(s)' <=> IsCurrent(s)
  BY <1>3 DEF IsCurrent
<1>5. Input' = Input /\ (Routed' <=> Routed) /\ Current' = Current
  BY DEF Input, Routed, Current
<1>6. \A u, q : Follows(u, q)' <=> Follows(u, q)
  BY <1>5 DEF Follows, Linked
<1>7. worker'.decoder.serial \in {0, worker.decoder.serial, worker.epoch} /\ ~ IsCurrent(0)
  <2>1. ~ IsCurrent(0)
    BY DEF IsCurrent
  <2> QED
    BY <2>1
<1>8. VideoTypes'
  BY <1>1, <1>3, <1>5 DEF VideoTypes
<1>9. OnlyThePast'
  <2>1. /\ \A i \in 1..Len(outbox') : outbox'[i].kind # "stopped" => outbox'[i].serial \in 1..Current'
    BY <1>2, PublicationsKept
  <2>2. worker'.decoder.serial <= Current /\ 0 <= Current
    BY <1>1, <1>7 DEF OnlyThePast, VideoTypes, Current
  <2> QED
    BY <1>1, <1>5, <2>1, <2>2 DEF OnlyThePast, AllSent, Sent
<1>10. PublishedHolds' /\ ShownHolds' /\ StopHolds'
  BY <1>2, PublicationsKept
<1>11. RoutesHold'
  <2>1. worker.queue # 0 /\ worker'.queue # 0
    BY <1>2 DEF Serials
  <2>2. stream' = NoStream <=> stream = NoStream
    BY <1>1, <1>3 DEF RoutesHold, NoStream
  <2> QED
    BY <1>1, <1>2, <1>3, <1>5, <2>1, <2>2 DEF RoutesHold
<1>12. OthersAreOver'
  BY <1>1, <1>2, <1>4, <1>7 DEF OthersAreOver
<1>13. ConfigHolds'
  BY <1>1, <1>4, <1>5, <1>6, <1>7 DEF ConfigHolds
<1>14. UnitsHold'
  <2>1. ASSUME Routed
        PROVE  \A i \in 1..Len(Input'.units) : units'[Input'.units[i]].serial = Current'
    BY <1>1, <1>5, <2>1 DEF UnitsHold
  <2>2. ASSUME Routed, worker'.pc \in {"config", "reopen"}, IsCurrent(worker.epoch)
        PROVE  Follows(0, Input.units)
    BY <1>1, <2>2 DEF UnitsHold
  <2>3. ASSUME Routed, IsCurrent(worker'.decoder.serial)
        PROVE  Follows(worker'.decoder.last, Input.units)
    BY <1>1, <1>7, <2>3 DEF UnitsHold
  <2>4. DecodedLast' = worker'.decoder.last
    BY DEF DecodedLast
  <2> QED
    BY <1>4, <1>5, <1>6, <2>1, <2>2, <2>3, <2>4 DEF UnitsHold
<1>15. ReferenceHolds'
  BY <1>4 DEF ReferenceHolds
<1>16. RouteIsOver'
  BY <1>1, <1>2, <1>5 DEF RouteIsOver
<1>17. FailureHolds'
  <2>1. CASE stream.terminal
    BY <1>1, <1>2, <1>5, <2>1 DEF FailureHolds
  <2>2. CASE stream'.terminal /\ ~ stream.terminal
    <3>1. worker.queue = router.route.queue /\ worker'.pc = "exit"
      BY <1>1, <2>2 DEF OthersAreOver
    <3>2. Routed /\ Input.config = 0
      BY <1>1, <1>2, <2>2, <3>1 DEF ConfigHolds, Routed, Serials
    <3> QED
      BY <1>5, <3>1, <3>2 DEF FailureHolds
  <2> QED
    BY <2>1, <2>2 DEF FailureHolds
<1> QED
  BY <1>8, <1>9, <1>10, <1>11, <1>12, <1>13, <1>14, <1>15, <1>16, <1>17 DEF VideoInvariant

LEMMA WorkerKnows ==
    ASSUME VideoInvariant, worker.pc # "none"
    PROVE  /\ worker = [pc |-> worker.pc, queue |-> worker.queue, epoch |-> worker.epoch,
                        unit |-> worker.unit, frames |-> worker.frames,
                        decoder |-> worker.decoder, panicked |-> worker.panicked]
           /\ worker.decoder = [serial |-> worker.decoder.serial, last |-> worker.decoder.last,
                                held |-> worker.decoder.held]
           /\ worker.pc \in WorkerPlaces /\ worker.queue \in Serials
           /\ worker.epoch \in SomeSerial /\ worker.unit \in Nat /\ worker.frames \in Seq(Nat)
           /\ worker.panicked \in BOOLEAN /\ worker.decoder \in Decoders
           /\ worker.decoder.serial \in SomeSerial /\ worker.decoder.last \in Nat
           /\ worker.decoder.held \in Seq(Nat)
           /\ supervisor.pc # "ended"
           /\ DecoderHolds /\ ReferenceHolds
<1>1. worker \in Workers /\ worker.decoder \in Decoders /\ worker.queue \in Serials
      /\ supervisor.pc # "ended"
  BY WorkerRuns
<1>2. DecoderHolds /\ ReferenceHolds
  BY DEF VideoInvariant
<1> QED
  BY <1>1, <1>2 DEF Workers, Decoders

LEMMA NoDecoderTyped == NoDecoder \in Decoders /\ NoDecoder.serial = 0 /\ NoDecoder.held = <<>>
                        /\ ~ IsCurrent(0)
<1>1. NoDecoder \in Decoders
  BY VideoAssumption DEF NoDecoder, Decoders, SomeSerial
<1>2. NoDecoder.serial = 0 /\ NoDecoder.held = <<>>
  BY DEF NoDecoder
<1>3. ~ IsCurrent(0)
  BY DEF IsCurrent
<1> QED
  BY <1>1, <1>2, <1>3

LEMMA AfterHolds ==
    ASSUME NEW pc \in {"emit", "leave", "reopen"}, NEW frames
    PROVE  After(pc, frames) = IF frames # <<>> THEN pc
                               ELSE IF pc = "emit" THEN "pop"
                               ELSE IF pc = "leave" THEN "exit" ELSE "reopen"
<1>1. CASE frames # <<>>
  BY <1>1 DEF After
<1>2. CASE frames = <<>>
  BY <1>2 DEF After
<1> QED
  BY <1>1, <1>2

LEMMA FlushKeeps == ASSUME VideoInvariant, Flush PROVE VideoInvariant'
<1> DEFINE place == IF worker.pc = "config" THEN "reopen"
                    ELSE After("leave", worker.decoder.held)
           held == worker.decoder.held
<1>1. worker.pc \in {"config", "drain"}
  BY DEF Flush
<1>2. worker' = [pc |-> place, queue |-> worker.queue, epoch |-> worker.epoch,
                 unit |-> worker.unit, frames |-> held,
                 decoder |-> [serial |-> worker.decoder.serial, last |-> worker.decoder.last,
                              held |-> <<>>],
                 panicked |-> worker.panicked]
  BY <1>1, WorkerKnows DEF Flush
<1>3. /\ place \in {"reopen", "leave", "exit"}
      /\ held # <<>> => place \in {"reopen", "leave"}
      /\ place = "reopen" => worker.pc = "config"
  BY AfterHolds
<1> HIDE DEF place
<1>4. worker' \in Workers
  BY <1>1, <1>2, <1>3, WorkerKnows DEF Workers, Decoders, WorkerPlaces, Serials, SomeSerial
<1>5. UNCHANGED <<epochs, units, source, router, queues, admission, supervisor, window,
                  outbox, stream>>
  BY DEF Flush, sharedVars
<1>6. DecoderHolds'
  BY <1>1, <1>2, <1>3, <1>5, WorkerKnows DEF DecoderHolds, AllSentIn, Sent
<1>7. PublishedWell
  BY <1>1, <1>5, WorkerKnows, NothingPublished
<1>8. /\ place = "reopen" => ~ IsCurrent(worker.decoder.serial)
      /\ DecodedLast = worker.decoder.last
  BY <1>1, <1>3, WorkerKnows DEF ReferenceHolds, DecodedLast
<1> QED
  BY <1>1, <1>2, <1>3, <1>4, <1>5, <1>6, <1>7, <1>8, WorkerMoves

\* The worker fails, or its thread does: it is left without a decoder.
LEMMA WorkerLeaves ==
    ASSUME VideoInvariant, PublishedWell,
           worker.pc \notin {"none", "exit", "done"},
           worker' \in Workers, worker'.queue = worker.queue, worker'.epoch = worker.epoch,
           worker'.pc = "exit", worker'.frames = <<>>, worker'.decoder = NoDecoder,
           stream'.terminal =>
             \/ stream.terminal
             \/ IsCurrent(worker.epoch)
             \/ IsCurrent(worker.decoder.serial),
           UNCHANGED <<epochs, units, source, router, queues, admission, supervisor, window>>
    PROVE  VideoInvariant'
<1>1. DecoderHolds'
  BY NoDecoderTyped DEF DecoderHolds, AllSentIn
<1>2. worker'.decoder.serial = 0
  BY NoDecoderTyped
<1> QED
  BY <1>1, <1>2, WorkerMoves

LEMMA FlushFailsKeeps == ASSUME VideoInvariant, FlushFails PROVE VideoInvariant'
<1>1. worker.pc \in {"config", "drain"}
  BY DEF FlushFails
<1>2. worker' = [pc |-> "exit", queue |-> worker.queue, epoch |-> worker.epoch,
                 unit |-> worker.unit, frames |-> worker.frames, decoder |-> NoDecoder,
                 panicked |-> worker.panicked]
  BY <1>1, WorkerKnows DEF FlushFails
<1>3. worker' \in Workers /\ worker'.frames = <<>>
  BY <1>1, <1>2, WorkerKnows, NoDecoderTyped
     DEF Workers, DecoderHolds, WorkerPlaces, Serials, SomeSerial
<1>4. UNCHANGED <<epochs, units, source, router, queues, admission, supervisor, window>>
  BY DEF FlushFails
<1> DEFINE s == IF worker.pc = "config" THEN worker.epoch ELSE worker.decoder.serial
<1>5. PublishControl("failed", s) /\ s \in {worker.epoch, worker.decoder.serial}
  BY DEF FlushFails
<1> HIDE DEF s
<1>6. PublishedWell /\ (stream'.terminal => stream.terminal \/ IsCurrent(s))
  BY <1>1, <1>5, WorkerKnows, ControlPublished
<1>7. IsCurrent(s) => IsCurrent(worker.epoch) \/ IsCurrent(worker.decoder.serial)
  BY <1>5
<1> QED
  BY <1>1, <1>2, <1>3, <1>4, <1>6, <1>7, WorkerLeaves

LEMMA OpenFailsKeeps == ASSUME VideoInvariant, OpenFails PROVE VideoInvariant'
<1>1. worker.pc \in {"config", "reopen"} /\ (worker.pc = "reopen" => worker.frames = <<>>)
  BY DEF OpenFails, Opens
<1>2. worker' = [pc |-> "exit", queue |-> worker.queue, epoch |-> worker.epoch,
                 unit |-> worker.unit, frames |-> worker.frames, decoder |-> NoDecoder,
                 panicked |-> worker.panicked]
  BY <1>1, WorkerKnows DEF OpenFails
<1>3. worker' \in Workers /\ worker'.frames = <<>>
  BY <1>1, <1>2, WorkerKnows, NoDecoderTyped
     DEF Workers, DecoderHolds, WorkerPlaces, Serials, SomeSerial
<1>4. UNCHANGED <<epochs, units, source, router, queues, admission, supervisor, window>>
      /\ PublishControl("failed", worker.epoch)
  BY DEF OpenFails
<1>5. PublishedWell /\ (stream'.terminal => stream.terminal \/ IsCurrent(worker.epoch))
  BY <1>1, <1>4, WorkerKnows, ControlPublished
<1> QED
  BY <1>1, <1>2, <1>3, <1>4, <1>5, WorkerLeaves

LEMMA SubmitFailsKeeps == ASSUME VideoInvariant, SubmitFails PROVE VideoInvariant'
<1>1. worker.pc = "unit"
  BY DEF SubmitFails
<1>2. worker' = [pc |-> "exit", queue |-> worker.queue, epoch |-> worker.epoch,
                 unit |-> 0, frames |-> worker.frames, decoder |-> NoDecoder,
                 panicked |-> worker.panicked]
  BY <1>1, WorkerKnows DEF SubmitFails
<1>3. worker' \in Workers /\ worker'.frames = <<>>
  BY <1>1, <1>2, WorkerKnows, NoDecoderTyped
     DEF Workers, DecoderHolds, WorkerPlaces, Serials, SomeSerial
<1>4. UNCHANGED <<epochs, units, source, router, queues, admission, supervisor, window>>
      /\ PublishControl("failed", worker.epoch)
  BY DEF SubmitFails
<1>5. PublishedWell /\ (stream'.terminal => stream.terminal \/ IsCurrent(worker.epoch))
  BY <1>1, <1>4, WorkerKnows, ControlPublished
<1> QED
  BY <1>1, <1>2, <1>3, <1>4, <1>5, WorkerLeaves

LEMMA PanicKeeps == ASSUME VideoInvariant, Panic PROVE VideoInvariant'
<1>1. worker.pc \in {"config", "unit", "emit"}
  BY DEF Panic
<1>2. worker' = [pc |-> "exit", queue |-> worker.queue, epoch |-> worker.epoch,
                 unit |-> worker.unit, frames |-> <<>>, decoder |-> NoDecoder,
                 panicked |-> TRUE]
  BY <1>1, WorkerKnows DEF Panic
<1>3. worker' \in Workers /\ worker'.frames = <<>>
  BY <1>1, <1>2, WorkerKnows, NoDecoderTyped
     DEF Workers, DecoderHolds, WorkerPlaces, Serials, SomeSerial
<1>4. UNCHANGED <<epochs, units, source, router, queues, admission, supervisor, window,
                  outbox, stream>>
  BY DEF Panic, sharedVars
<1>5. PublishedWell
  BY <1>1, <1>4, WorkerKnows, NothingPublished
<1> QED
  BY <1>1, <1>2, <1>3, <1>4, <1>5, WorkerLeaves

LEMMA OpenDecoderKeeps == ASSUME VideoInvariant, OpenDecoder PROVE VideoInvariant'
<1>1. worker.pc \in {"config", "reopen"} /\ (worker.pc = "reopen" => worker.frames = <<>>)
  BY DEF OpenDecoder, Opens
<1>2. worker' = [pc |-> "pop", queue |-> worker.queue, epoch |-> worker.epoch,
                 unit |-> worker.unit, frames |-> worker.frames,
                 decoder |-> [serial |-> worker.epoch, last |-> 0, held |-> <<>>],
                 panicked |-> worker.panicked]
  BY <1>1, WorkerKnows DEF OpenDecoder, NoDecoder
<1>3. worker' \in Workers /\ worker'.frames = <<>>
  BY <1>1, <1>2, WorkerKnows
     DEF Workers, Decoders, DecoderHolds, WorkerPlaces, Serials, SomeSerial
<1>4. UNCHANGED <<epochs, units, source, router, queues, admission, supervisor, window>>
      /\ PublishControl("selected", worker.epoch)
  BY DEF OpenDecoder
<1>5. PublishedWell /\ (stream'.terminal => stream.terminal)
  BY <1>1, <1>4, WorkerKnows, ControlPublished
<1>6. DecoderHolds'
  BY <1>2, <1>3 DEF DecoderHolds, AllSentIn
<1> QED
  BY <1>1, <1>2, <1>3, <1>4, <1>5, <1>6, WorkerMoves

LEMMA SkipUnitKeeps == ASSUME VideoInvariant, SkipUnit PROVE VideoInvariant'
<1>1. worker.pc = "unit" /\ ~ Decodes
  BY DEF SkipUnit
<1>2. worker' = [pc |-> "pop", queue |-> worker.queue, epoch |-> worker.epoch,
                 unit |-> 0, frames |-> worker.frames, decoder |-> worker.decoder,
                 panicked |-> worker.panicked]
  BY <1>1, WorkerKnows DEF SkipUnit
<1>3. worker' \in Workers
  BY <1>1, <1>2, WorkerKnows DEF Workers, WorkerPlaces, Serials, SomeSerial
<1>4. UNCHANGED <<epochs, units, source, router, queues, admission, supervisor, window,
                  outbox, stream>>
  BY DEF SkipUnit, sharedVars
<1>5. PublishedWell
  BY <1>1, <1>4, WorkerKnows, NothingPublished
<1>6. DecoderHolds'
  BY <1>1, <1>2, <1>4, WorkerKnows DEF DecoderHolds, AllSentIn, Sent
<1>7. ~ IsCurrent(worker.decoder.serial)
  BY <1>1, WorkerKnows DEF ReferenceHolds, Decodes
<1> QED
  BY <1>1, <1>2, <1>3, <1>4, <1>5, <1>6, <1>7, WorkerMoves

LEMMA SubmitKeeps == ASSUME VideoInvariant, Submit PROVE VideoInvariant'
<1> DEFINE all == Append(worker.decoder.held, worker.unit)
<1>1. worker.pc = "unit" /\ Decodes
  BY DEF Submit
<1>2. all \in Seq(Nat) /\ AllSentIn(worker.decoder.serial, all)
  <2>1. /\ all \in Seq(Nat) /\ Len(all) = Len(worker.decoder.held) + 1
        /\ \A i \in 1..Len(worker.decoder.held) : all[i] = worker.decoder.held[i]
        /\ all[Len(worker.decoder.held) + 1] = worker.unit
    BY <1>1, WorkerKnows, AppendProperties
  <2>2. \A i \in 1..Len(all) : i \in 1..Len(worker.decoder.held) \/ i = Len(worker.decoder.held) + 1
    BY <2>1
  <2>3. /\ AllSentIn(worker.decoder.serial, worker.decoder.held)
        /\ worker.unit \in Sent /\ units[worker.unit].serial = worker.decoder.serial
    BY <1>1, WorkerKnows DEF DecoderHolds, Decodes
  <2> HIDE DEF all
  <2> QED
    BY <2>1, <2>2, <2>3 DEF AllSentIn
<1>3. PICK n \in 0..Len(all) :
        worker' = [worker EXCEPT !.unit = 0, !.pc = After("emit", SubSeq(all, 1, n)),
                                 !.frames = SubSeq(all, 1, n),
                                 !.decoder.held = SubSeq(all, n + 1, Len(all)),
                                 !.decoder.last = worker.unit]
  BY DEF Submit
<1> DEFINE out == SubSeq(all, 1, n)
           in == SubSeq(all, n + 1, Len(all))
           place == After("emit", out)
<1> HIDE DEF all
<1>4. /\ out \in Seq(Nat) /\ AllSentIn(worker.decoder.serial, out)
      /\ in \in Seq(Nat) /\ AllSentIn(worker.decoder.serial, in)
  <2>1. Len(all) \in Nat /\ n \in Nat /\ n <= Len(all)
    BY <1>2
  <2>2. out \in Seq(Nat) /\ Len(out) = n /\ \A i \in 1..n : out[i] = all[i]
    BY <1>2, <2>1
  <2>3. /\ in \in Seq(Nat) /\ Len(in) = Len(all) - n
        /\ \A i \in 1..(Len(all) - n) : in[i] = all[n + i]
    BY <1>2, <2>1
  <2>4. /\ \A i \in 1..n : i \in 1..Len(all)
        /\ \A i \in 1..(Len(all) - n) : n + i \in 1..Len(all)
    BY <2>1
  <2> HIDE DEF in, out
  <2> QED
    <3>1. AllSentIn(worker.decoder.serial, out)
      BY <1>2, <2>2, <2>4 DEF AllSentIn
    <3>2. ASSUME NEW i \in 1..Len(in)
          PROVE  in[i] \in Sent /\ units[in[i]].serial = worker.decoder.serial
      <4>1. in[i] = all[n + i] /\ n + i \in 1..Len(all)
        BY <2>3, <2>4
      <4> QED
        BY <1>2, <4>1 DEF AllSentIn
    <3> QED
      BY <2>2, <2>3, <3>1, <3>2 DEF AllSentIn
<1>5. place \in {"emit", "pop"} /\ (out # <<>> => place = "emit")
  BY AfterHolds
<1>6. worker' = [pc |-> place, queue |-> worker.queue, epoch |-> worker.epoch,
                 unit |-> 0, frames |-> out,
                 decoder |-> [serial |-> worker.decoder.serial, last |-> worker.unit,
                              held |-> in],
                 panicked |-> worker.panicked]
  <2> HIDE DEF in, out
  <2>1. worker' = [worker EXCEPT !.unit = 0, !.pc = place, !.frames = out,
                                 !.decoder.held = in, !.decoder.last = worker.unit]
    BY <1>3 DEF in, out
  <2> HIDE DEF place
  <2> QED
    BY <1>1, <2>1, WorkerKnows
<1> HIDE DEF place, in, out
<1>7. worker' \in Workers
  BY <1>1, <1>4, <1>5, <1>6, WorkerKnows DEF Workers, Decoders, WorkerPlaces, Serials, SomeSerial
<1>8. UNCHANGED <<epochs, units, source, router, queues, admission, supervisor, window,
                  outbox, stream>>
  BY DEF Submit, sharedVars
<1>9. PublishedWell
  BY <1>1, <1>8, WorkerKnows, NothingPublished
<1>10. DecoderHolds'
  BY <1>4, <1>5, <1>6, <1>8 DEF DecoderHolds, AllSentIn, Sent
<1>11. DecodedLast = worker.unit
  BY <1>1 DEF DecodedLast
<1> QED
  BY <1>1, <1>5, <1>6, <1>7, <1>8, <1>9, <1>10, <1>11, WorkerMoves

LEMMA EmitKeeps == ASSUME VideoInvariant, Emit PROVE VideoInvariant'
<1> DEFINE frame == Head(worker.frames)
           rest == Tail(worker.frames)
           place == After(worker.pc, rest)
<1>1. worker.pc \in {"emit", "reopen", "leave"} /\ worker.frames # <<>>
  BY DEF Emit
<1>2. /\ frame \in Sent /\ units[frame].serial = worker.decoder.serial
      /\ rest \in Seq(Nat) /\ AllSentIn(worker.decoder.serial, rest)
  <2>1. /\ frame = worker.frames[1] /\ rest \in Seq(Nat) /\ Len(rest) = Len(worker.frames) - 1
        /\ \A i \in 1..Len(rest) : rest[i] = worker.frames[i + 1]
        /\ 1 \in 1..Len(worker.frames)
        /\ \A i \in 1..Len(rest) : i + 1 \in 1..Len(worker.frames)
    BY <1>1, WorkerKnows
  <2>2. AllSentIn(worker.decoder.serial, worker.frames)
    BY <1>1, WorkerKnows DEF DecoderHolds
  <2> HIDE DEF rest, frame
  <2> QED
    BY <2>1, <2>2 DEF AllSentIn
<1>3. /\ place \in {"emit", "reopen", "leave", "pop", "exit"}
      /\ rest # <<>> => place = worker.pc
      /\ place = "reopen" => worker.pc = "reopen"
  BY <1>1, AfterHolds
<1>4. /\ worker' = [worker EXCEPT !.frames = rest, !.pc = place]
      /\ PublishFrame(worker.decoder.serial, frame)
      /\ UNCHANGED <<epochs, units, source, router, queues, admission, supervisor, window>>
  BY DEF Emit
<1> HIDE DEF place, rest, frame
<1>5. worker' = [pc |-> place, queue |-> worker.queue, epoch |-> worker.epoch,
                 unit |-> worker.unit, frames |-> rest, decoder |-> worker.decoder,
                 panicked |-> worker.panicked]
  BY <1>1, <1>4, WorkerKnows
<1>6. worker' \in Workers
  BY <1>1, <1>2, <1>3, <1>5, WorkerKnows DEF Workers, WorkerPlaces, Serials, SomeSerial
<1>7. PublishedWell /\ stream'.terminal = stream.terminal
  BY <1>1, <1>2, <1>4, WorkerKnows, FramePublished
<1>8. DecoderHolds'
  BY <1>1, <1>2, <1>3, <1>4, <1>5, WorkerKnows DEF DecoderHolds, AllSentIn, Sent
<1>9. /\ place = "reopen" => ~ IsCurrent(worker.decoder.serial)
      /\ DecodedLast = worker.decoder.last
  BY <1>1, <1>3, WorkerKnows DEF ReferenceHolds, DecodedLast
<1> QED
  BY <1>1, <1>3, <1>4, <1>5, <1>6, <1>7, <1>8, <1>9, WorkerMoves

-----------------------------------------------------------------------------
(***************************************************************************)
(* The worker takes from its queue, and ends.                              *)
(***************************************************************************)
LEMMA QueueKnows ==
    ASSUME VideoInvariant, NEW q \in Serials
    PROVE  /\ queues \in [Serials -> InputQueues] /\ queues[q] \in InputQueues
           /\ queues[q] = [config |-> queues[q].config, units |-> queues[q].units,
                           popped |-> queues[q].popped, closed |-> queues[q].closed]
           /\ queues[q].config \in SomeSerial /\ queues[q].popped \in SomeSerial
           /\ queues[q].units \in Seq(Nat) /\ queues[q].closed \in BOOLEAN
           /\ queues[q].config <= Current /\ queues[q].popped <= Current
           /\ AllSent(queues[q].units)
<1>1. queues \in [Serials -> InputQueues] /\ queues[q] \in InputQueues
  BY DEF VideoInvariant, VideoTypes
<1>2. /\ queues[q].config <= Current /\ queues[q].popped <= Current
      /\ AllSent(queues[q].units)
  BY DEF VideoInvariant, OnlyThePast
<1> QED
  BY <1>1, <1>2 DEF InputQueues

LEMMA QueueChanged ==
    ASSUME VideoInvariant, NEW q \in Serials, NEW in \in InputQueues,
           queues' = [queues EXCEPT ![q] = in]
    PROVE  /\ queues' \in [Serials -> InputQueues] /\ queues'[q] = in
           /\ \A r \in Serials : r # q => queues'[r] = queues[r]
BY QueueKnows

LEMMA ConfigTaken ==
    ASSUME NEW r \in InputQueues, NEW c \in SomeSerial
    PROVE  [r EXCEPT !.config = 0, !.popped = c] =
             [config |-> 0, units |-> r.units, popped |-> c, closed |-> r.closed]
<1> DEFINE s == [r EXCEPT !.config = 0]
<1>1. r = [config |-> r.config, units |-> r.units, popped |-> r.popped, closed |-> r.closed]
  BY DEF InputQueues
<1>2. s = [config |-> 0, units |-> r.units, popped |-> r.popped, closed |-> r.closed]
  BY <1>1
<1> HIDE DEF s
<1>3. [s EXCEPT !.popped = c] =
        [config |-> 0, units |-> r.units, popped |-> c, closed |-> r.closed]
  BY <1>2
<1> QED
  BY <1>3 DEF s

LEMMA ConfigPut ==
    ASSUME NEW r \in InputQueues, NEW c \in SomeSerial
    PROVE  /\ [r EXCEPT !.config = c, !.units = <<>>] =
                [config |-> c, units |-> <<>>, popped |-> r.popped, closed |-> r.closed]
           /\ [config |-> c, units |-> <<>>, popped |-> r.popped, closed |-> r.closed]
                \in InputQueues
<1> DEFINE s == [r EXCEPT !.config = c]
<1>1. r = [config |-> r.config, units |-> r.units, popped |-> r.popped, closed |-> r.closed]
  BY DEF InputQueues
<1>2. s = [config |-> c, units |-> r.units, popped |-> r.popped, closed |-> r.closed]
  BY <1>1
<1> HIDE DEF s
<1>3. [s EXCEPT !.units = <<>>] =
        [config |-> c, units |-> <<>>, popped |-> r.popped, closed |-> r.closed]
  BY <1>2
<1>4. [config |-> c, units |-> <<>>, popped |-> r.popped, closed |-> r.closed] \in InputQueues
  BY DEF InputQueues
<1> QED
  BY <1>3, <1>4 DEF s

LEMMA UnitsChanged ==
    ASSUME NEW r \in InputQueues, NEW q
    PROVE  [r EXCEPT !.units = q] =
             [config |-> r.config, units |-> q, popped |-> r.popped, closed |-> r.closed]
<1>1. r = [config |-> r.config, units |-> r.units, popped |-> r.popped, closed |-> r.closed]
  BY DEF InputQueues
<1> QED
  BY <1>1

LEMMA WorkerPops ==
    ASSUME VideoInvariant, worker.pc = "pop", NEW in \in InputQueues,
           queues' = [queues EXCEPT ![worker.queue] = in],
           in.config \in {0, queues[worker.queue].config},
           in.popped \in {queues[worker.queue].popped, queues[worker.queue].config},
           in.closed = queues[worker.queue].closed,
           \A i \in 1..Len(in.units) :
             \E j \in 1..Len(queues[worker.queue].units) :
               in.units[i] = queues[worker.queue].units[j],
           worker' \in Workers, worker'.queue = worker.queue, worker'.frames = worker.frames,
           worker'.decoder = worker.decoder,
           worker'.pc \in {"config", "unit", "drain", "exit"},
           worker'.epoch <= Current,
           worker.queue # router.route.queue => ~ IsCurrent(worker'.epoch),
           worker'.pc = "unit" =>
             worker'.unit \in Sent /\ units[worker'.unit].serial = worker'.epoch,
           ConfigHolds', UnitsHold', ReferenceHolds',
           UNCHANGED <<epochs, units, source, router, stream, outbox, admission, supervisor,
                       window>>
    PROVE  VideoInvariant'
<1>1. /\ VideoTypes /\ OnlyThePast /\ PublishedHolds /\ ShownHolds /\ RoutesHold
      /\ OthersAreOver /\ RouteIsOver /\ FailureHolds /\ StopHolds
  BY DEF VideoInvariant
<1>2. /\ worker.queue \in Serials /\ supervisor.pc = "loop" /\ DecoderHolds
      /\ worker.queue = router.route.queue => ~ router.route.terminal
  BY WorkerRuns, WorkerKnows
<1>3. /\ queues' \in [Serials -> InputQueues] /\ queues'[worker.queue] = in
      /\ \A r \in Serials : r # worker.queue => queues'[r] = queues[r]
  BY <1>2, QueueChanged
<1>4. (\A s : IsCurrent(s)' <=> IsCurrent(s)) /\ (Routed' <=> Routed) /\ Current' = Current
  BY DEF IsCurrent, Routed, Current
<1>5. ~ IsCurrent(0)
  BY NoDecoderTyped
<1>6. VideoTypes'
  BY <1>1, <1>3, <1>4 DEF VideoTypes
<1>7. OnlyThePast'
  <2>1. /\ in.config <= Current /\ in.popped <= Current /\ AllSent(in.units)
    <3>1. Current \in Nat
      BY <1>1 DEF VideoTypes, Current
    <3>2. /\ queues[worker.queue].config <= Current /\ queues[worker.queue].popped <= Current
          /\ AllSent(queues[worker.queue].units)
      BY <1>2, QueueKnows
    <3>3. in.config <= Current /\ in.popped <= Current
      BY <3>1, <3>2
    <3>4. AllSent(in.units)
      BY <3>2 DEF AllSent
    <3> QED
      BY <3>3, <3>4
  <2>2. \A q \in Serials : /\ queues'[q].config <= Current /\ queues'[q].popped <= Current
                           /\ AllSent(queues'[q].units)
    BY <1>1, <1>2, <1>3, <2>1 DEF OnlyThePast
  <2> QED
    BY <1>1, <1>4, <2>2 DEF OnlyThePast, AllSent, Sent
<1>8. DecoderHolds'
  BY <1>2 DEF DecoderHolds, AllSentIn, Sent
<1>9. PublishedHolds' /\ ShownHolds' /\ StopHolds'
  BY <1>1, <1>2 DEF PublishedHolds, ShownHolds, StopHolds, Sent
<1>10. RoutesHold'
  <2>1. worker.queue # 0
    BY <1>2 DEF Serials
  <2> QED
    BY <1>1, <1>2, <1>4, <2>1 DEF RoutesHold
<1>11. OthersAreOver'
  <2>1. ASSUME NEW q \in Serials, q # router.route.queue
        PROVE  /\ ~ IsCurrent(queues'[q].config)
               /\ \A i \in 1..Len(queues'[q].units) : ~ IsCurrent(units[queues'[q].units[i]].serial)
    <3>1. /\ ~ IsCurrent(queues[q].config)
          /\ \A i \in 1..Len(queues[q].units) : ~ IsCurrent(units[queues[q].units[i]].serial)
      BY <1>1, <2>1 DEF OthersAreOver
    <3>2. CASE q # worker.queue
      BY <1>3, <3>1, <3>2
    <3>3. CASE q = worker.queue
      BY <1>3, <1>5, <3>1, <3>3
    <3> QED
      BY <3>2, <3>3
  <2> QED
    BY <1>1, <1>2, <1>4, <2>1 DEF OthersAreOver
<1>12. RouteIsOver'
  <2>1. CASE ~ (Routed /\ router.route.terminal)
    BY <1>4, <2>1 DEF RouteIsOver
  <2>2. CASE Routed /\ router.route.terminal
    <3>1. /\ Input.config = 0 /\ ~ router.route.restart
          /\ router.route.queue # worker.queue
      BY <1>1, <1>2, <2>2 DEF RouteIsOver
    <3>2. router.route.queue \in Serials
      BY <1>1, <2>2 DEF VideoTypes, Routes, Routed, Serials, SomeSerial
    <3>3. Input'.config = 0
      BY <1>3, <3>1, <3>2 DEF Input
    <3> QED
      BY <1>2, <1>4, <3>1, <3>3 DEF RouteIsOver
  <2> QED
    BY <2>1, <2>2
<1>13. FailureHolds'
  BY <1>1, <1>2 DEF FailureHolds
<1> QED
  BY <1>6, <1>7, <1>8, <1>9, <1>10, <1>11, <1>12, <1>13 DEF VideoInvariant

\* What is in a queue that is not the route's is of an epoch that is over.
LEMMA QueueIsOver ==
    ASSUME VideoInvariant, NEW q \in Serials, q # router.route.queue
    PROVE  /\ ~ IsCurrent(queues[q].config)
           /\ \A i \in 1..Len(queues[q].units) : ~ IsCurrent(units[queues[q].units[i]].serial)
BY DEF VideoInvariant, OthersAreOver

LEMMA WorkerIsOver ==
    ASSUME VideoInvariant, worker.queue # router.route.queue
    PROVE  ~ IsCurrent(worker.epoch) /\ ~ IsCurrent(worker.decoder.serial)
BY DEF VideoInvariant, OthersAreOver

LEMMA InputKnows ==
    ASSUME VideoInvariant, Routed
    PROVE  router.route.queue \in Serials
BY DEF VideoInvariant, VideoTypes, Routes, Routed, Serials, SomeSerial

LEMMA PopConfigKeeps ==
    ASSUME VideoInvariant, Pop, queues[worker.queue].config # 0
    PROVE  VideoInvariant'
<1> DEFINE q == worker.queue
           c == queues[worker.queue].config
           in == [config |-> 0, units |-> queues[q].units, popped |-> c,
                  closed |-> queues[q].closed]
<1>1. worker.pc = "pop" /\ q \in Serials
  BY WorkerKnows DEF Pop
<1>2. /\ worker' = [worker EXCEPT !.pc = "config", !.epoch = c]
      /\ queues' = [queues EXCEPT ![q].config = 0, ![q].popped = c]
      /\ UNCHANGED <<epochs, units, source, router, stream, outbox, admission, supervisor,
                     window>>
  BY DEF Pop
<1>3. worker' = [pc |-> "config", queue |-> q, epoch |-> c, unit |-> worker.unit,
                 frames |-> worker.frames, decoder |-> worker.decoder,
                 panicked |-> worker.panicked]
  BY <1>1, <1>2, WorkerKnows
<1>0. c \in SomeSerial /\ c <= Current /\ 0 \in SomeSerial /\ c # 0
  <2>1. 0 \in SomeSerial
    BY VideoAssumption DEF SomeSerial
  <2> QED
    BY <1>1, <2>1, QueueKnows
<1>4. worker' \in Workers
  <2> HIDE DEF c
  <2> QED
    BY <1>0, <1>1, <1>3, WorkerKnows DEF Workers, WorkerPlaces, Serials, SomeSerial
<1>5. in \in InputQueues
  <2> HIDE DEF c
  <2> QED
    BY <1>0, <1>1, QueueKnows DEF InputQueues
<1>6. queues' = [queues EXCEPT ![q] = in]
  <2> HIDE DEF c
  <2>1. [queues[q] EXCEPT !.config = 0, !.popped = c] = in
    BY <1>0, <1>1, QueueKnows, ConfigTaken
  <2> HIDE DEF in, q
  <2> QED
    BY <1>1, <1>2, <2>1 DEF q
<1>7. /\ queues'[q] = in /\ \A r \in Serials : r # q => queues'[r] = queues[r]
  BY <1>1, <1>5, <1>6, QueueChanged
<1>8. /\ ConfigHolds /\ UnitsHold /\ ReferenceHolds
  BY DEF VideoInvariant
<1>9. (\A s : IsCurrent(s)' <=> IsCurrent(s)) /\ (Routed' <=> Routed) /\ Current' = Current
  BY <1>2 DEF IsCurrent, Routed, Current
<1>10. ASSUME Routed
       PROVE  /\ Input'.units = Input.units
              /\ \A u, s : Follows(u, s)' <=> Follows(u, s)
  <2>1. Input'.units = Input.units /\ Input'.closed = Input.closed
    <3>1. CASE q = router.route.queue
      BY <1>2, <1>7, <3>1 DEF Input
    <3>2. CASE q # router.route.queue
      BY <1>2, <1>7, <1>10, <3>2, InputKnows DEF Input
    <3> QED
      BY <3>1, <3>2
  <2> QED
    BY <1>2, <2>1 DEF Follows, Linked
<1>11. /\ q # router.route.queue => ~ IsCurrent(c) /\ ~ IsCurrent(worker.decoder.serial)
       /\ q = router.route.queue => /\ Routed /\ Follows(0, Input.units)
                                    /\ ~ IsCurrent(worker.decoder.serial)
  <2>1. CASE q # router.route.queue
    BY <1>1, <2>1, QueueIsOver, WorkerIsOver
  <2>2. CASE q = router.route.queue
    <3>1. Routed /\ Input.config = c
      BY <1>1, <2>2 DEF Routed, Input, Serials
    <3> QED
      BY <1>8, <2>2, <3>1 DEF ConfigHolds
  <2> QED
    BY <2>1, <2>2
<1>12. ConfigHolds'
  <2>1. CASE q = router.route.queue
    <3>1. Input'.config = 0
      BY <1>2, <1>7, <2>1 DEF Input
    <3> QED
      BY <3>1 DEF ConfigHolds
  <2>2. CASE q # router.route.queue /\ Routed
    <3>1. Input' = Input
      BY <1>2, <1>7, <2>2, InputKnows DEF Input
    <3> QED
      BY <1>3, <1>8, <1>9, <1>10, <1>11, <2>2, <3>1 DEF ConfigHolds
  <2>3. CASE ~ Routed
    BY <1>9, <2>3 DEF ConfigHolds
  <2> QED
    BY <2>1, <2>2, <2>3
<1>13. UnitsHold'
  <2>1. CASE Routed
    <3>1. DecodedLast' = worker.decoder.last /\ DecodedLast = worker.decoder.last
      BY <1>1, <1>3 DEF DecodedLast
    <3>2. \A i \in 1..Len(Input'.units) : units'[Input'.units[i]].serial = Current'
      BY <1>2, <1>8, <1>9, <1>10, <2>1 DEF UnitsHold
    <3> QED
      BY <1>3, <1>8, <1>9, <1>10, <1>11, <2>1, <3>1, <3>2 DEF UnitsHold
  <2> QED
    BY <1>9, <2>1 DEF UnitsHold
<1>14. ReferenceHolds'
  BY <1>3, <1>9, <1>11 DEF ReferenceHolds
<1>15. q # router.route.queue => ~ IsCurrent(c)
  BY <1>11
<1>16. \A i \in 1..Len(in.units) : \E j \in 1..Len(queues[q].units) : in.units[i] = queues[q].units[j]
  OBVIOUS
<1>17. in.config = 0 /\ in.popped = c /\ in.closed = queues[q].closed
  OBVIOUS
<1> HIDE DEF in
<1> QED
  BY <1>0, <1>1, <1>2, <1>3, <1>4, <1>5, <1>6, <1>12, <1>13, <1>14, <1>15, <1>16, <1>17,
     WorkerPops

LEMMA PopUnitKeeps ==
    ASSUME VideoInvariant, Pop, queues[worker.queue].config = 0,
           queues[worker.queue].units # <<>>
    PROVE  VideoInvariant'
<1> DEFINE q == worker.queue
           all == queues[worker.queue].units
           rest == Tail(all)
           u == Head(all)
           e == units[u].serial
           in == [config |-> 0, units |-> rest, popped |-> queues[q].popped,
                  closed |-> queues[q].closed]
<1>1. worker.pc = "pop" /\ q \in Serials
  BY WorkerKnows DEF Pop
<1>2. /\ worker' = [worker EXCEPT !.pc = "unit", !.unit = u, !.epoch = e]
      /\ queues' = [queues EXCEPT ![q].units = Tail(@)]
      /\ UNCHANGED <<epochs, units, source, router, stream, outbox, admission, supervisor,
                     window>>
  BY DEF Pop
<1>0. all \in Seq(Nat) /\ all # <<>> /\ AllSent(all)
  BY <1>1, QueueKnows
<1> HIDE DEF all
<1>3. /\ all \in Seq(Nat) /\ all # <<>> /\ u = all[1] /\ rest \in Seq(Nat)
      /\ Len(rest) = Len(all) - 1
      /\ \A i \in 1..Len(rest) : rest[i] = all[i + 1] /\ i + 1 \in 1..Len(all)
      /\ Len(all) \in Nat \ {0} /\ 1 \in 1..Len(all)
  BY <1>0
<1>4. u \in Sent /\ u \in Nat /\ e <= Current /\ e \in SomeSerial
  <2>1. u \in Sent
    BY <1>0, <1>3 DEF AllSent
  <2>2. units \in Seq([serial : SomeSerial, key : BOOLEAN]) /\ \A i \in Sent : units[i].serial <= Current
    BY DEF VideoInvariant, VideoTypes, OnlyThePast
  <2> HIDE DEF u
  <2>3. u \in 1..Len(units) /\ Len(units) \in Nat /\ u \in Nat
    BY <2>1, <2>2 DEF Sent
  <2>4. units[u] \in [serial : SomeSerial, key : BOOLEAN]
    <3> DEFINE Units == [serial : SomeSerial, key : BOOLEAN]
    <3>1. units \in Seq(Units)
      BY <2>2
    <3> HIDE DEF Units
    <3>2. units[u] \in Units
      BY <2>3, <3>1, ElementOfSeq
    <3> QED
      BY <3>2 DEF Units
  <2> QED
    BY <2>1, <2>2, <2>3, <2>4
<1> HIDE DEF rest, u, e
<1>5. worker' = [pc |-> "unit", queue |-> q, epoch |-> e, unit |-> u,
                 frames |-> worker.frames, decoder |-> worker.decoder,
                 panicked |-> worker.panicked]
  BY <1>1, <1>2, WorkerKnows
<1>6. worker' \in Workers
  BY <1>1, <1>4, <1>5, WorkerKnows DEF Workers, WorkerPlaces, Serials, SomeSerial
<1>7. in \in InputQueues
  <2>1. 0 \in SomeSerial
    BY VideoAssumption DEF SomeSerial
  <2> QED
    BY <1>1, <1>3, <2>1, QueueKnows DEF InputQueues
<1>8. queues' = [queues EXCEPT ![q] = in]
  <2>1. [queues[q] EXCEPT !.units = rest] = in
    BY <1>1, QueueKnows, UnitsChanged
  <2>2. queues' = [queues EXCEPT ![q] = [queues[q] EXCEPT !.units = rest]]
    BY <1>2 DEF rest, all
  <2> QED
    BY <2>1, <2>2
<1>9. /\ queues'[q] = in /\ \A r \in Serials : r # q => queues'[r] = queues[r]
  BY <1>1, <1>7, <1>8, QueueChanged
<1>10. ConfigHolds /\ UnitsHold /\ ReferenceHolds
  BY DEF VideoInvariant
<1>11. (\A s : IsCurrent(s)' <=> IsCurrent(s)) /\ (Routed' <=> Routed) /\ Current' = Current
  BY <1>2 DEF IsCurrent, Routed, Current
<1>12. ASSUME Routed
       PROVE  \A v, s : Follows(v, s)' <=> Follows(v, s)
  <2>1. Input'.closed = Input.closed
    BY <1>2, <1>9, <1>12, InputKnows DEF Input
  <2> QED
    BY <1>2, <2>1 DEF Follows, Linked
<1>13. q # router.route.queue => ~ IsCurrent(e) /\ ~ IsCurrent(worker.decoder.serial)
  <2> SUFFICES ASSUME q # router.route.queue
               PROVE  ~ IsCurrent(e) /\ ~ IsCurrent(worker.decoder.serial)
    OBVIOUS
  <2>1. ~ IsCurrent(units[all[1]].serial)
    BY <1>1, <1>3, QueueIsOver DEF all
  <2> QED
    BY <1>3, <2>1, WorkerIsOver DEF e
<1>14. ASSUME q = router.route.queue
       PROVE  /\ Routed /\ Input.units = all /\ Input'.units = rest /\ Input'.config = 0
              /\ e = Current
              /\ IsCurrent(worker.decoder.serial) =>
                   /\ worker.decoder.serial = Current
                   /\ units[u].key \/ worker.decoder.last = u - 1
                   /\ Follows(u, rest)
  <2>1. Routed /\ Input.units = all /\ Input'.units = rest /\ Input'.config = 0
    BY <1>1, <1>2, <1>9, <1>14 DEF Routed, Input, Serials, all
  <2>2. units[all[1]].serial = Current
    BY <1>3, <1>10, <2>1 DEF UnitsHold
  <2>3. ASSUME IsCurrent(worker.decoder.serial)
        PROVE  /\ worker.decoder.serial = Current
               /\ units[u].key \/ worker.decoder.last = u - 1
               /\ Follows(u, rest)
    <3>1. Follows(worker.decoder.last, all)
      BY <1>1, <1>10, <2>1, <2>3 DEF UnitsHold, DecodedLast
    <3>2. Linked(worker.decoder.last, all)
      BY <3>1 DEF Follows
    <3>3. units[u].key \/ u = worker.decoder.last + 1
      <4>1. units[all[1]].key \/ all[1] = worker.decoder.last + 1
        BY <1>3, <3>2 DEF Linked
      <4> QED
        BY <1>3, <4>1
    <3>4. Linked(u, rest)
      <4> SUFFICES ASSUME NEW i \in 1..Len(rest)
                   PROVE  units[rest[i]].key \/ rest[i] = (IF i = 1 THEN u ELSE rest[i - 1]) + 1
        BY DEF Linked
      <4>0. i \in Nat \ {0}
        BY <1>3
      <4>1. i + 1 \in 1..Len(all) /\ i + 1 # 1 /\ rest[i] = all[i + 1] /\ (i + 1) - 1 = i
        BY <1>3, <4>0
      <4>2. units[all[i + 1]].key \/ all[i + 1] = all[(i + 1) - 1] + 1
        BY <3>2, <4>1 DEF Linked
      <4>3. all[i] = (IF i = 1 THEN u ELSE rest[i - 1])
        <5>1. CASE i = 1
          BY <1>3, <5>1
        <5>2. CASE i # 1
          <6>1. i - 1 \in 1..Len(rest) /\ (i - 1) + 1 = i
            BY <1>3, <5>2
          <6>2. rest[i - 1] = all[(i - 1) + 1]
            BY <1>3, <6>1
          <6> QED
            BY <5>2, <6>1, <6>2
        <5> QED
          BY <5>1, <5>2
      <4> QED
        BY <4>1, <4>2, <4>3
    <3>5. all[Len(all)] = IF rest = <<>> THEN u ELSE rest[Len(rest)]
      <4>1. CASE rest = <<>>
        <5>1. Len(all) = 1
          BY <1>3, <4>1
        <5> QED
          BY <1>3, <4>1, <5>1
      <4>2. CASE rest # <<>>
        <5>1. Len(rest) \in 1..Len(rest) /\ Len(rest) + 1 = Len(all)
          BY <1>3, <4>2
        <5> QED
          BY <1>3, <4>2, <5>1
      <4> QED
        BY <4>1, <4>2
    <3>6. worker.decoder.serial = Current
      BY <2>3 DEF IsCurrent, VideoInvariant, RoutesHold
    <3>7. worker.decoder.last \in Nat /\ (u = worker.decoder.last + 1 => worker.decoder.last = u - 1)
      BY <1>1, <1>4, WorkerKnows
    <3> QED
      BY <1>3, <3>1, <3>3, <3>4, <3>5, <3>6, <3>7 DEF Follows
  <2> QED
    BY <1>3, <2>1, <2>2, <2>3 DEF e
<1>15. ConfigHolds'
  <2>1. CASE q = router.route.queue
    BY <1>14, <2>1 DEF ConfigHolds
  <2>2. CASE q # router.route.queue /\ Routed
    <3>1. Input' = Input
      BY <1>2, <1>9, <2>2, InputKnows DEF Input
    <3> QED
      BY <1>5, <1>10, <1>11, <1>12, <1>13, <2>2, <3>1 DEF ConfigHolds
  <2>3. CASE ~ Routed
    BY <1>11, <2>3 DEF ConfigHolds
  <2> QED
    BY <2>1, <2>2, <2>3
<1>16. UnitsHold'
  <2>1. CASE q = router.route.queue
    <3>1. DecodedLast' = u
      BY <1>5 DEF DecodedLast
    <3>2. \A i \in 1..Len(rest) : units[rest[i]].serial = Current
      <4> SUFFICES ASSUME NEW i \in 1..Len(rest) PROVE units[rest[i]].serial = Current
        OBVIOUS
      <4>1. rest[i] = all[i + 1] /\ i + 1 \in 1..Len(all)
        BY <1>3
      <4> QED
        BY <1>10, <1>14, <2>1, <4>1 DEF UnitsHold
    <3> QED
      BY <1>2, <1>5, <1>11, <1>12, <1>14, <2>1, <3>1, <3>2 DEF UnitsHold
  <2>2. CASE q # router.route.queue /\ Routed
    <3>1. Input' = Input
      BY <1>2, <1>9, <2>2, InputKnows DEF Input
    <3> QED
      BY <1>2, <1>5, <1>10, <1>11, <1>12, <1>13, <2>2, <3>1 DEF UnitsHold
  <2>3. CASE ~ Routed
    BY <1>11, <2>3 DEF UnitsHold
  <2> QED
    BY <2>1, <2>2, <2>3
<1>17. ReferenceHolds'
  BY <1>2, <1>5, <1>11, <1>13, <1>14 DEF ReferenceHolds
<1>18. \A i \in 1..Len(in.units) : \E j \in 1..Len(queues[q].units) : in.units[i] = queues[q].units[j]
  <2> SUFFICES ASSUME NEW i \in 1..Len(rest) PROVE \E j \in 1..Len(all) : rest[i] = all[j]
    BY DEF all
  <2>1. rest[i] = all[i + 1] /\ i + 1 \in 1..Len(all)
    BY <1>3
  <2> QED
    BY <2>1
<1>19. units[u].serial = e
  BY DEF e
<1>20. in.config = 0 /\ in.popped = queues[q].popped /\ in.closed = queues[q].closed
  OBVIOUS
<1> HIDE DEF in
<1>21. /\ worker.pc = "pop" /\ in.config \in {0, queues[worker.queue].config}
       /\ in.popped \in {queues[worker.queue].popped, queues[worker.queue].config}
       /\ in.closed = queues[worker.queue].closed
       /\ queues' = [queues EXCEPT ![worker.queue] = in]
       /\ \A i \in 1..Len(in.units) :
            \E j \in 1..Len(queues[worker.queue].units) :
              in.units[i] = queues[worker.queue].units[j]
  BY <1>1, <1>8, <1>18, <1>20, Zenon
<1>22. /\ worker'.queue = worker.queue /\ worker'.frames = worker.frames
       /\ worker'.decoder = worker.decoder /\ worker'.epoch = e /\ worker'.unit = u
       /\ worker'.pc \in {"config", "unit", "drain", "exit"}
  BY <1>5
<1>23. /\ worker'.epoch <= Current
       /\ worker.queue # router.route.queue => ~ IsCurrent(worker'.epoch)
       /\ worker'.pc = "unit" =>
            worker'.unit \in Sent /\ units[worker'.unit].serial = worker'.epoch
  BY <1>4, <1>13, <1>19, <1>22
<1> QED
  BY <1>2, <1>6, <1>7, <1>15, <1>16, <1>17, <1>21, <1>22, <1>23, WorkerPops

LEMMA PopNothingKeeps ==
    ASSUME VideoInvariant, Pop, queues[worker.queue].config = 0,
           queues[worker.queue].units = <<>>
    PROVE  VideoInvariant'
<1> DEFINE place == IF worker.decoder = NoDecoder THEN "exit" ELSE "drain"
<1>1. worker.pc = "pop" /\ worker.queue \in Serials
  BY WorkerKnows DEF Pop
<1>2. /\ worker' = [worker EXCEPT !.pc = place]
      /\ UNCHANGED <<epochs, units, source, router, queues, stream, outbox, admission,
                     supervisor, window>>
  BY DEF Pop
<1>3. place \in {"exit", "drain"}
  OBVIOUS
<1> HIDE DEF place
<1>4. worker' = [pc |-> place, queue |-> worker.queue, epoch |-> worker.epoch,
                 unit |-> worker.unit, frames |-> worker.frames, decoder |-> worker.decoder,
                 panicked |-> worker.panicked]
  BY <1>1, <1>2, WorkerKnows
<1>5. worker' \in Workers
  BY <1>1, <1>3, <1>4, WorkerKnows DEF Workers, WorkerPlaces, Serials, SomeSerial
<1>6. DecoderHolds'
  BY <1>1, <1>2, <1>3, <1>4, WorkerKnows DEF DecoderHolds, AllSentIn, Sent
<1>7. PublishedWell /\ DecodedLast = worker.decoder.last
  BY <1>1, <1>2, WorkerKnows, NothingPublished DEF DecodedLast
<1> QED
  BY <1>1, <1>2, <1>3, <1>4, <1>5, <1>6, <1>7, WorkerMoves

LEMMA PopKeeps == ASSUME VideoInvariant, Pop PROVE VideoInvariant'
BY PopConfigKeeps, PopUnitKeeps, PopNothingKeeps

LEMMA RouterKnows ==
    ASSUME VideoInvariant
    PROVE  /\ router = [closed |-> router.closed, route |-> router.route]
           /\ router.closed \in BOOLEAN /\ router.route \in Routes
           /\ router \in [closed : BOOLEAN, route : Routes]
           /\ router.route.queue \in SomeSerial /\ stream \in Streams
           /\ queues \in [Serials -> InputQueues] /\ Current \in Nat
<1>1. /\ router \in [closed : BOOLEAN, route : Routes] /\ stream \in Streams
      /\ queues \in [Serials -> InputQueues] /\ epochs \in Seq(Nat)
  BY DEF VideoInvariant, VideoTypes
<1>2. Current \in Nat
  BY <1>1 DEF Current
<1>3. router.route \in Routes
  BY <1>1
<1>4. router.route.queue \in SomeSerial
  BY <1>3 DEF Routes
<1> QED
  BY <1>1, <1>2, <1>3, <1>4

LEMMA RouteSettled ==
    ASSUME NEW route \in Routes, NEW q
    PROVE  /\ Settled(route, q) \in Routes /\ Settled(route, q).queue = route.queue
           /\ queues[q].config # 0 => ~ Settled(route, q).terminal /\ Settled(route, q).restart
           /\ queues[q].config = 0 => Settled(route, q).terminal /\ ~ Settled(route, q).restart
<1>1. CASE queues[q].config # 0
  <2>1. Settled(route, q) = [route EXCEPT !.restart = TRUE, !.terminal = FALSE]
    BY <1>1 DEF Settled
  <2> QED
    BY <1>1, <2>1 DEF Routes
<1>2. CASE queues[q].config = 0
  <2>1. Settled(route, q) = [route EXCEPT !.restart = FALSE, !.terminal = TRUE]
    BY <1>2 DEF Settled
  <2> QED
    BY <1>2, <2>1 DEF Routes
<1> QED
  BY <1>1, <1>2

LEMMA RouteJoined ==
    ASSUME NEW route \in Routes
    PROVE  /\ Joined(route) \in Routes /\ Joined(route).queue = route.queue
           /\ ~ Joined(route).restart
           /\ Joined(route).terminal <=> route.terminal /\ ~ route.restart
<1> DEFINE over == route.terminal /\ ~ route.restart
<1>1. over \in BOOLEAN
  BY DEF Routes
<1>2. Joined(route) = [route EXCEPT !.started = FALSE, !.joined = TRUE, !.restart = FALSE,
                                    !.terminal = over]
  BY DEF Joined
<1> HIDE DEF over
<1>3. /\ Joined(route) \in Routes /\ Joined(route).queue = route.queue
      /\ ~ Joined(route).restart
      /\ Joined(route).terminal = over
  BY <1>1, <1>2 DEF Routes
<1> QED
  BY <1>3 DEF over

LEMMA QueueEmptied ==
    ASSUME NEW r \in InputQueues
    PROVE  Emptied(r) = [config |-> 0, units |-> <<>>, popped |-> r.popped, closed |-> TRUE]
<1> DEFINE a == [r EXCEPT !.config = 0]
           b == [a EXCEPT !.units = <<>>]
<1>1. r = [config |-> r.config, units |-> r.units, popped |-> r.popped, closed |-> r.closed]
  BY DEF InputQueues
<1>2. a = [config |-> 0, units |-> r.units, popped |-> r.popped, closed |-> r.closed]
  BY <1>1
<1>3. Emptied(r) = [b EXCEPT !.closed = TRUE]
  BY DEF Emptied
<1> HIDE DEF a
<1>4. b = [config |-> 0, units |-> <<>>, popped |-> r.popped, closed |-> r.closed]
  BY <1>2
<1> HIDE DEF b
<1> QED
  BY <1>3, <1>4

LEMMA QueueCloses ==
    ASSUME VideoInvariant, NEW q \in Serials, queues' = [queues EXCEPT ![q] = Emptied(@)]
    PROVE  /\ queues' \in [Serials -> InputQueues]
           /\ queues'[q].config = 0 /\ queues'[q].units = <<>>
           /\ queues'[q].popped = queues[q].popped /\ queues'[q].closed
           /\ \A r \in Serials : r # q => queues'[r] = queues[r]
<1> DEFINE in == [config |-> 0, units |-> <<>>, popped |-> queues[q].popped, closed |-> TRUE]
<1>1. in = Emptied(queues[q])
  BY QueueKnows, QueueEmptied
<1>2. in \in InputQueues
  <2>1. 0 \in SomeSerial /\ <<>> \in Seq(Nat)
    BY VideoAssumption DEF SomeSerial
  <2> QED
    BY <2>1, QueueKnows DEF InputQueues
<1>3. in.config = 0 /\ in.units = <<>> /\ in.popped = queues[q].popped /\ in.closed
  OBVIOUS
<1> HIDE DEF in
<1>4. queues' = [queues EXCEPT ![q] = in]
  BY <1>1
<1> QED
  BY <1>2, <1>3, <1>4, QueueChanged

LEMMA WorkerEnds ==
    ASSUME VideoInvariant, worker.pc \in {"exit", "done"}, PublishedWell,
           worker' \in Workers, worker'.decoder = NoDecoder, worker'.frames = <<>>,
           \/ worker' = NoWorker
           \/ /\ worker'.pc = "done" /\ worker'.queue = worker.queue
              /\ worker'.epoch = worker.epoch,
           router' \in [closed : BOOLEAN, route : Routes], router'.closed = router.closed,
           router'.route.queue = router.route.queue,
           \/ /\ router.route.queue # worker.queue
              /\ UNCHANGED <<router, queues, stream>>
           \/ /\ router.route.queue = worker.queue
              /\ queues[worker.queue].config # 0 /\ ~ router'.route.terminal
              /\ UNCHANGED <<queues, stream>>
           \/ /\ router.route.queue = worker.queue
              /\ queues' = [queues EXCEPT ![worker.queue] = Emptied(@)]
              /\ router'.route.terminal /\ ~ router'.route.restart
           \/ /\ router.route.queue = worker.queue /\ worker.pc = "done"
              /\ router'.route.terminal = router.route.terminal /\ ~ router'.route.restart
              /\ UNCHANGED <<queues, stream>>,
           UNCHANGED <<epochs, units, source, admission, supervisor, window>>
    PROVE  VideoInvariant'
<1> DEFINE Same == UNCHANGED queues
           Closes == /\ router.route.queue = worker.queue
                     /\ queues' = [queues EXCEPT ![worker.queue] = Emptied(@)]
                     /\ router'.route.terminal /\ ~ router'.route.restart
<1>1. /\ VideoTypes /\ OnlyThePast /\ RoutesHold /\ OthersAreOver /\ ConfigHolds /\ UnitsHold
      /\ RouteIsOver /\ FailureHolds
  BY DEF VideoInvariant
<1>2. /\ worker.queue \in Serials /\ supervisor.pc = "loop" /\ worker.queue # 0
  BY WorkerRuns DEF Serials
<1>3. /\ stream' \in Streams /\ outbox' \in Seq(Publications)
      /\ stream'.serial = stream.serial
      /\ stream.serial = 0 => stream' = stream
  BY DEF PublishedWell, StreamKept
<1>4. (\A s : IsCurrent(s)' <=> IsCurrent(s)) /\ (Routed' <=> Routed) /\ Current' = Current
  BY <1>3 DEF IsCurrent, Routed, Current
<1>5. /\ worker'.pc \in {"none", "done"} /\ worker'.decoder.serial = 0 /\ ~ IsCurrent(0)
      /\ worker'.queue \in {0, worker.queue} /\ worker'.epoch \in {0, worker.epoch}
      /\ worker'.queue # 0 => worker'.pc = "done"
      /\ worker'.queue = worker.queue => worker'.epoch = worker.epoch
  <2>1. worker'.decoder.serial = 0 /\ ~ IsCurrent(0)
    BY NoDecoderTyped
  <2>2. CASE worker' = NoWorker
    BY <1>2, <2>1, <2>2 DEF NoWorker
  <2>3. CASE worker' # NoWorker
    BY <2>1, <2>3
  <2> QED
    BY <2>2, <2>3
<1>6. Closes => /\ queues' \in [Serials -> InputQueues]
                /\ queues'[worker.queue].config = 0 /\ queues'[worker.queue].units = <<>>
                /\ queues'[worker.queue].popped = queues[worker.queue].popped
                /\ \A r \in Serials : r # worker.queue => queues'[r] = queues[r]
  BY <1>2, QueueCloses
<1>7. /\ Same \/ Closes
      /\ Closes \/ UNCHANGED stream
  OBVIOUS
<1> HIDE DEF Closes, Same
<1>8. /\ queues' \in [Serials -> InputQueues]
      /\ Same => queues' = queues
      /\ Closes => router.route.queue = worker.queue /\ router'.route.terminal
                   /\ ~ router'.route.restart
  BY <1>1, <1>6, <1>7 DEF VideoTypes, Same, Closes
<1>9. /\ Closes => Routed /\ Input'.config = 0 /\ Input'.units = <<>>
      /\ Same => Input' = Input
  BY <1>2, <1>6, <1>8 DEF Input, Routed
<1>10. VideoTypes'
  BY <1>1, <1>3, <1>4, <1>8 DEF VideoTypes
<1>11. OnlyThePast'
  <2>1. \A i \in 1..Len(outbox') : outbox'[i].kind # "stopped" => outbox'[i].serial \in 1..Current'
    BY <1>2, PublicationsKept
  <2>2. Current \in Nat /\ worker'.epoch <= Current /\ worker'.decoder.serial <= Current
    BY <1>1, <1>5 DEF OnlyThePast, VideoTypes, Current
  <2>3. \A q \in Serials : /\ queues'[q].config <= Current /\ queues'[q].popped <= Current
                           /\ AllSent(queues'[q].units)
    <3>1. CASE Same
      BY <1>1, <1>8, <3>1 DEF OnlyThePast
    <3>2. CASE Closes
      <4> SUFFICES ASSUME NEW q \in Serials
                   PROVE  /\ queues'[q].config <= Current /\ queues'[q].popped <= Current
                          /\ AllSent(queues'[q].units)
        OBVIOUS
      <4>1. CASE q # worker.queue
        BY <1>1, <1>6, <3>2, <4>1 DEF OnlyThePast
      <4>2. CASE q = worker.queue
        <5>1. queues[q].popped <= Current
          BY <1>1 DEF OnlyThePast
        <5> QED
          BY <1>6, <2>2, <3>2, <4>2, <5>1 DEF AllSent
      <4> QED
        BY <4>1, <4>2
    <3> QED
      BY <1>7, <3>1, <3>2
  <2>4. \A s : AllSent(s)' <=> AllSent(s)
    BY DEF AllSent, Sent
  <2> QED
    BY <1>1, <1>4, <2>1, <2>2, <2>3, <2>4 DEF OnlyThePast, Sent
<1>12. DecoderHolds'
  BY <1>5, NoDecoderTyped DEF DecoderHolds, AllSentIn
<1>13. PublishedHolds' /\ ShownHolds' /\ StopHolds'
  BY <1>2, PublicationsKept
<1>14. RoutesHold'
  <2>1. stream' = NoStream <=> stream = NoStream
    BY <1>1, <1>3 DEF RoutesHold, NoStream
  <2>2. Routed \/ router' = router
    BY <1>2 DEF Routed
  <2>3. worker'.pc = "none" => worker' = NoWorker
    OBVIOUS
  <2>4. worker'.pc # "none" => worker'.queue # 0
    BY <1>2 DEF NoWorker
  <2> QED
    BY <1>1, <1>2, <1>3, <1>4, <2>1, <2>2, <2>3, <2>4 DEF RoutesHold
<1>15. OthersAreOver'
  <2>1. \A q \in Serials : q # router.route.queue => queues'[q] = queues[q]
    BY <1>6, <1>7, <1>8
  <2>2. worker'.queue # router.route.queue => ~ IsCurrent(worker'.epoch)
    BY <1>1, <1>2, <1>5 DEF OthersAreOver, NoWorker
  <2>3. /\ \A q \in Serials : q # router'.route.queue =>
             /\ ~ IsCurrent(queues'[q].config)
             /\ \A i \in 1..Len(queues'[q].units) : ~ IsCurrent(units[queues'[q].units[i]].serial)
    BY <1>1, <2>1 DEF OthersAreOver
  <2> QED
    BY <1>2, <1>4, <1>5, <2>2, <2>3 DEF OthersAreOver
<1>16. ConfigHolds'
  <2>1. CASE Closes
    BY <1>9, <2>1 DEF ConfigHolds
  <2>2. CASE Same
    <3>1. \A u, q : Follows(u, q)' <=> Follows(u, q)
      BY <1>9, <2>2 DEF Follows, Linked
    <3> QED
      BY <1>1, <1>4, <1>5, <1>9, <2>2, <3>1 DEF ConfigHolds
  <2> QED
    BY <1>7, <2>1, <2>2
<1>17. UnitsHold'
  <2>1. \A i \in 1..Len(Input'.units) : Routed => units'[Input'.units[i]].serial = Current'
    <3>1. CASE Closes
      BY <1>9, <3>1
    <3>2. CASE Same
      BY <1>1, <1>4, <1>9, <3>2 DEF UnitsHold
    <3> QED
      BY <1>7, <3>1, <3>2
  <2> QED
    BY <1>4, <1>5, <2>1 DEF UnitsHold
<1>18. ReferenceHolds'
  BY <1>4, <1>5 DEF ReferenceHolds
<1>19. RouteIsOver'
  <2>1. CASE router.route.queue # worker.queue
    <3>1. router' = router /\ queues' = queues
      BY <2>1
    <3> QED
      BY <1>1, <1>2, <1>4, <1>5, <2>1, <3>1 DEF RouteIsOver, Input, Routed
  <2>2. CASE router.route.queue = worker.queue
    <3>1. router'.route.terminal => ~ router'.route.restart /\ Input'.config = 0
      <4>1. CASE Closes
        BY <1>8, <1>9, <4>1
      <4>2. CASE ~ Closes
        <5>1. router'.route.terminal =>
                router.route.terminal /\ ~ router'.route.restart /\ Same
          BY <2>2, <4>2 DEF Closes, Same
        <5> QED
          BY <1>1, <1>2, <1>9, <2>2, <5>1 DEF RouteIsOver, Routed
      <4> QED
        BY <4>1, <4>2
    <3> QED
      BY <1>2, <1>4, <1>5, <2>2, <3>1 DEF RouteIsOver
  <2> QED
    BY <2>1, <2>2
<1>20. FailureHolds'
  <2>1. CASE router'.route.terminal
    BY <2>1 DEF FailureHolds
  <2>2. CASE ~ router'.route.terminal
    <3>1. ~ Closes /\ stream' = stream
      BY <1>7, <1>8, <2>2
    <3>2. CASE router.route.queue # worker.queue
      BY <1>1, <1>2, <2>2, <3>1, <3>2 DEF FailureHolds
    <3>3. CASE router.route.queue = worker.queue
      <4>1. queues[worker.queue].config = 0 => worker.pc = "done" /\ ~ router.route.terminal
        BY <2>2, <3>1, <3>3 DEF Closes
      <4>2. Routed /\ Input.config = queues[worker.queue].config
        BY <1>2, <3>3 DEF Routed, Input
      <4>3. ~ stream.terminal
        BY <1>1, <1>2, <3>3, <4>1, <4>2 DEF FailureHolds, RouteIsOver
      <4> QED
        BY <3>1, <4>3 DEF FailureHolds
    <3> QED
      BY <3>2, <3>3
  <2> QED
    BY <2>1, <2>2
<1> QED
  BY <1>10, <1>11, <1>12, <1>13, <1>14, <1>15, <1>16, <1>17, <1>18, <1>19, <1>20
     DEF VideoInvariant

\* The publication of a panic is one under the configuration the thread took.
LEMMA PanicPublished ==
    ASSUME VideoInvariant, supervisor.pc # "ended", NEW q \in Serials, PublishPanic(q)
    PROVE  /\ PublishedWell
           /\ q = router.route.queue /\ queues[q].config # 0 => stream' = stream
<1>1. PublishedWell
  <2>1. CASE UNCHANGED <<outbox, stream>>
    BY <2>1, NothingPublished
  <2>2. CASE PublishControl("failed", queues[q].popped)
    <3>1. queues[q].popped \in SomeSerial
      BY QueueKnows
    <3> QED
      BY <2>2, <3>1, ControlPublished
  <2> QED
    BY <2>1, <2>2 DEF PublishPanic
<1>2. ASSUME q = router.route.queue, queues[q].config # 0
      PROVE  stream' = stream
  <2>1. Routed /\ Input = queues[q]
    BY <1>2 DEF Routed, Input, Serials
  <2>2. ~ IsCurrent(queues[q].popped)
    BY <1>2, <2>1 DEF VideoInvariant, ConfigHolds
  <2> QED
    BY <2>2 DEF PublishPanic
<1> QED
  BY <1>1, <1>2

LEMMA FinishStreamKeeps == ASSUME VideoInvariant, FinishStream PROVE VideoInvariant'
<1> DEFINE q == worker.queue
<1>1. worker.pc = "exit" /\ q \in Serials /\ supervisor.pc # "ended"
  BY WorkerKnows DEF FinishStream
<1>2. /\ worker' = [worker EXCEPT !.pc = "done", !.decoder = NoDecoder]
      /\ UNCHANGED <<epochs, admission, units, source, supervisor, window>>
  BY DEF FinishStream
<1>3. worker' = [pc |-> "done", queue |-> q, epoch |-> worker.epoch, unit |-> worker.unit,
                 frames |-> worker.frames, decoder |-> NoDecoder,
                 panicked |-> worker.panicked]
  BY <1>1, <1>2, WorkerKnows
<1>4. worker' \in Workers /\ worker'.frames = <<>>
  BY <1>1, <1>3, WorkerKnows, NoDecoderTyped
     DEF Workers, DecoderHolds, WorkerPlaces, Serials, SomeSerial
<1>5. CASE router.route.queue # q
  <2>1. UNCHANGED <<router, queues, outbox, stream>>
    BY <1>5 DEF FinishStream
  <2>2. PublishedWell
    BY <1>1, <2>1, NothingPublished
  <2> QED
    BY <1>1, <1>2, <1>3, <1>4, <1>5, <2>1, <2>2, RouterKnows, WorkerEnds
<1>6. CASE router.route.queue = q
  <2>1. /\ router' = [router EXCEPT !.route = Settled(router.route, q)]
        /\ queues' = CloseUnlessRestart(q)
        /\ PublishPanic(q) \/ UNCHANGED <<outbox, stream>>
    BY <1>6 DEF FinishStream
  <2>2. PublishedWell /\ (queues[q].config # 0 => stream' = stream)
    BY <1>1, <1>6, <2>1, NothingPublished, PanicPublished
  <2>3. /\ router' \in [closed : BOOLEAN, route : Routes] /\ router'.closed = router.closed
        /\ router'.route = Settled(router.route, q)
    BY <2>1, RouterKnows, RouteSettled
  <2>4. CASE queues[q].config # 0
    <3>1. queues' = queues /\ ~ router'.route.terminal /\ router'.route.queue = q
      BY <1>6, <2>1, <2>3, <2>4, RouterKnows, RouteSettled DEF CloseUnlessRestart
    <3> QED
      BY <1>1, <1>2, <1>3, <1>4, <1>6, <2>2, <2>3, <2>4, <3>1, WorkerEnds
  <2>5. CASE queues[q].config = 0
    <3>1. /\ queues' = [queues EXCEPT ![q] = Emptied(@)] /\ router'.route.terminal
          /\ ~ router'.route.restart /\ router'.route.queue = q
      BY <1>6, <2>1, <2>3, <2>5, RouterKnows, RouteSettled DEF CloseUnlessRestart
    <3> QED
      BY <1>1, <1>2, <1>3, <1>4, <1>6, <2>2, <2>3, <2>5, <3>1, WorkerEnds
  <2> QED
    BY <2>4, <2>5
<1> QED
  BY <1>5, <1>6

LEMMA NoWorkerTyped ==
    NoWorker \in Workers /\ NoWorker.frames = <<>> /\ NoWorker.decoder = NoDecoder
<1>1. 0 \in SomeSerial /\ 0 \in Nat /\ <<>> \in Seq(Nat) /\ "none" \in WorkerPlaces
      /\ FALSE \in BOOLEAN
  BY VideoAssumption DEF SomeSerial, WorkerPlaces
<1> QED
  BY <1>1, NoDecoderTyped DEF NoWorker, Workers

LEMMA ReapKeeps == ASSUME VideoInvariant, Reap PROVE VideoInvariant'
<1> DEFINE q == worker.queue
<1>1. worker.pc = "done" /\ q \in Serials /\ supervisor.pc # "ended"
  BY WorkerKnows DEF Reap
<1>2. /\ worker' = NoWorker
      /\ UNCHANGED <<epochs, admission, units, source, supervisor, window>>
  BY DEF Reap
<1>3. worker' \in Workers /\ worker'.frames = <<>> /\ worker'.decoder = NoDecoder
  BY <1>2, NoWorkerTyped
<1>4. CASE router.route.queue # q
  <2>1. UNCHANGED <<router, queues, outbox, stream>>
    BY <1>4 DEF Reap
  <2>2. PublishedWell
    BY <1>1, <2>1, NothingPublished
  <2> QED
    BY <1>1, <1>2, <1>3, <1>4, <2>1, <2>2, RouterKnows, WorkerEnds
<1>5. CASE router.route.queue = q /\ worker.panicked
  <2> DEFINE settled == Settled(router.route, q)
  <2>1. /\ router' = [router EXCEPT !.route = Joined(settled)]
        /\ queues' = CloseUnlessRestart(q)
        /\ PublishPanic(q)
    BY <1>5 DEF Reap
  <2>2. PublishedWell /\ (queues[q].config # 0 => stream' = stream)
    BY <1>1, <1>5, <2>1, PanicPublished
  <2>3. /\ settled \in Routes /\ settled.queue = q
        /\ queues[q].config # 0 => ~ settled.terminal
        /\ queues[q].config = 0 => settled.terminal /\ ~ settled.restart
    BY <1>5, RouterKnows, RouteSettled
  <2> HIDE DEF settled
  <2>4. /\ router' \in [closed : BOOLEAN, route : Routes] /\ router'.closed = router.closed
        /\ router'.route = Joined(settled)
    BY <2>1, <2>3, RouterKnows, RouteJoined
  <2>5. CASE queues[q].config # 0
    <3>1. queues' = queues /\ ~ router'.route.terminal /\ router'.route.queue = q
      BY <2>1, <2>3, <2>4, <2>5, RouteJoined DEF CloseUnlessRestart
    <3> QED
      BY <1>1, <1>2, <1>3, <1>5, <2>2, <2>4, <2>5, <3>1, WorkerEnds
  <2>6. CASE queues[q].config = 0
    <3>1. /\ queues' = [queues EXCEPT ![q] = Emptied(@)] /\ router'.route.terminal
          /\ ~ router'.route.restart /\ router'.route.queue = q
      BY <2>1, <2>3, <2>4, <2>6, RouteJoined DEF CloseUnlessRestart
    <3> QED
      BY <1>1, <1>2, <1>3, <1>5, <2>2, <2>4, <2>6, <3>1, WorkerEnds
  <2> QED
    BY <2>5, <2>6
<1>6. CASE router.route.queue = q /\ ~ worker.panicked
  <2>1. /\ router' = [router EXCEPT !.route = Joined(router.route)]
        /\ UNCHANGED <<queues, outbox, stream>>
    BY <1>6 DEF Reap
  <2>2. PublishedWell
    BY <1>1, <2>1, NothingPublished
  <2>3. /\ router' \in [closed : BOOLEAN, route : Routes] /\ router'.closed = router.closed
        /\ router'.route = Joined(router.route)
    BY <2>1, RouterKnows, RouteJoined
  <2>4. router'.route.queue = q /\ ~ router'.route.restart
    BY <1>6, <2>3, RouterKnows, RouteJoined
  <2>5. router'.route.terminal = router.route.terminal
    <3>1. Routed /\ RouteIsOver
      BY <1>1, <1>6 DEF Routed, Serials, VideoInvariant
    <3>2. router.route.terminal => ~ router.route.restart
      BY <3>1 DEF RouteIsOver
    <3>3. router'.route.terminal <=> router.route.terminal
      BY <2>3, <3>2, RouterKnows, RouteJoined
    <3>4. router'.route.terminal \in BOOLEAN /\ router.route.terminal \in BOOLEAN
      BY <2>3, RouterKnows DEF Routes
    <3> QED
      BY <3>3, <3>4
  <2> QED
    BY <1>1, <1>2, <1>3, <1>6, <2>1, <2>2, <2>3, <2>4, <2>5, WorkerEnds
<1> QED
  BY <1>4, <1>5, <1>6

-----------------------------------------------------------------------------
(***************************************************************************)
(* The supervisor, and the end of the session.                             *)
(***************************************************************************)
LEMMA Parts ==
    ASSUME VideoInvariant
    PROVE  /\ VideoTypes /\ OnlyThePast /\ DecoderHolds /\ PublishedHolds /\ ShownHolds
           /\ RoutesHold /\ OthersAreOver /\ ConfigHolds /\ UnitsHold /\ ReferenceHolds
           /\ RouteIsOver /\ FailureHolds /\ StopHolds
BY DEF VideoInvariant

LEMMA UnitTyped ==
    ASSUME VideoInvariant, NEW u \in Sent
    PROVE  units[u].serial \in SomeSerial /\ units[u].serial <= Current /\ u \in Nat
<1> DEFINE Units == [serial : SomeSerial, key : BOOLEAN]
<1>1. units \in Seq(Units) /\ units[u].serial <= Current
  BY Parts DEF VideoTypes, OnlyThePast
<1> HIDE DEF Units
<1>2. units[u] \in Units /\ u \in Nat
  BY <1>1, ElementOfSeq DEF Sent
<1> QED
  BY <1>1, <1>2 DEF Units

LEMMA FramesKept ==
    ASSUME VideoInvariant, UNCHANGED <<units, stream, outbox, window, worker>>
    PROVE  DecoderHolds' /\ PublishedHolds' /\ ShownHolds' /\ ReferenceHolds'
<1>1. DecoderHolds'
  BY Parts DEF DecoderHolds, AllSentIn, Sent
<1>2. PublishedHolds' /\ ShownHolds'
  BY Parts DEF PublishedHolds, ShownHolds, Sent
<1>3. ReferenceHolds'
  BY Parts DEF ReferenceHolds, IsCurrent
<1> QED
  BY <1>1, <1>2, <1>3

LEMMA NamesKept ==
    ASSUME UNCHANGED <<epochs, stream>>, router'.route.queue = router.route.queue
    PROVE  /\ \A s : IsCurrent(s)' <=> IsCurrent(s)
           /\ Routed' <=> Routed
           /\ Current' = Current
           /\ ~ IsCurrent(0)
<1>1. ~ IsCurrent(0)
  BY NoDecoderTyped
<1>2. \A s : IsCurrent(s)' <=> IsCurrent(s)
  BY DEF IsCurrent
<1>3. (Routed' <=> Routed) /\ Current' = Current
  BY DEF Routed, Current
<1> QED
  BY <1>1, <1>2, <1>3

LEMMA QueuesKept ==
    ASSUME VideoInvariant, UNCHANGED <<epochs, units, source, queues, stream, worker>>,
           router'.route.queue = router.route.queue
    PROVE  ConfigHolds' /\ UnitsHold' /\ Input' = Input
<1>1. Input' = Input /\ DecodedLast' = DecodedLast
  BY DEF Input, DecodedLast
<1>2. \A u, q : Follows(u, q)' <=> Follows(u, q)
  BY <1>1 DEF Follows, Linked
<1>3. ConfigHolds'
  BY <1>1, <1>2, NamesKept, Parts DEF ConfigHolds
<1>4. UnitsHold'
  <2>1. \A i \in 1..Len(Input'.units) : Routed' => units'[Input'.units[i]].serial = Current'
    BY <1>1, NamesKept, Parts DEF UnitsHold
  <2>2. Routed' /\ worker'.pc \in {"config", "reopen"} /\ IsCurrent(worker.epoch)' =>
          Follows(0, Input.units)'
    BY <1>1, <1>2, NamesKept, Parts DEF UnitsHold
  <2>3. Routed' /\ IsCurrent(worker.decoder.serial)' => Follows(DecodedLast, Input.units)'
    BY <1>1, <1>2, NamesKept, Parts DEF UnitsHold
  <2> QED
    BY <2>1, <2>2, <2>3 DEF UnitsHold
<1> QED
  BY <1>1, <1>3, <1>4

LEMMA PastKept ==
    ASSUME VideoInvariant, UNCHANGED <<epochs, units, queues, outbox, worker>>,
           router'.route.queue = router.route.queue, supervisor'.epoch <= Current
    PROVE  OnlyThePast'
<1>1. Current' = Current /\ \A q : AllSent(q)' <=> AllSent(q)
  BY DEF Current, AllSent, Sent
<1> QED
  BY <1>1, Parts DEF OnlyThePast, Sent

\* Nothing is stopped while the supervisor runs.
LEMMA NothingStopped ==
    ASSUME VideoInvariant, supervisor.pc # "ended", UNCHANGED outbox,
           supervisor'.pc # "ended"
    PROVE  StopHolds'
BY Parts DEF StopHolds

LEMMA SupervisorKnows ==
    ASSUME VideoInvariant
    PROVE  /\ supervisor \in Supervisors
           /\ supervisor = [pc |-> supervisor.pc, queue |-> supervisor.queue,
                            epoch |-> supervisor.epoch]
           /\ supervisor.queue \in SomeSerial /\ supervisor.epoch \in SomeSerial
           /\ supervisor.epoch <= Current
           /\ 0 \in SomeSerial
           /\ supervisor.pc \in {"spawn", "report", "abort"} =>
                supervisor.queue \in Serials /\ worker = NoWorker /\ worker.pc = "none"
<1>1. supervisor \in Supervisors /\ supervisor.epoch <= Current
  BY Parts DEF VideoTypes, OnlyThePast
<1>2. 0 \in SomeSerial
  BY VideoAssumption DEF SomeSerial
<1>3. /\ supervisor = [pc |-> supervisor.pc, queue |-> supervisor.queue,
                       epoch |-> supervisor.epoch]
      /\ supervisor.queue \in SomeSerial /\ supervisor.epoch \in SomeSerial
  BY <1>1 DEF Supervisors
<1>4. supervisor.pc \in {"spawn", "report", "abort"} =>
        supervisor.queue # 0 /\ worker = NoWorker /\ worker.pc = "none"
  BY Parts DEF RoutesHold
<1>5. supervisor.queue # 0 => supervisor.queue \in Serials
  BY <1>3 DEF SomeSerial, Serials
<1> QED
  BY <1>1, <1>2, <1>3, <1>4, <1>5

LEMMA CleanUpKeeps == ASSUME VideoInvariant, CleanUp PROVE VideoInvariant'
<1>1. /\ router' = [router EXCEPT !.route = NoRoute] /\ stream' = NoStream
      /\ supervisor.pc = "loop" /\ router.route.terminal
      /\ UNCHANGED <<epochs, queues, outbox, admission, units, source, worker, supervisor,
                     window>>
  BY DEF CleanUp, CleansUp
<1>2. /\ NoRoute \in Routes /\ NoRoute.queue = 0 /\ ~ NoRoute.terminal
      /\ NoStream \in Streams /\ NoStream.serial = 0 /\ NoStream.latest = 0
      /\ ~ NoStream.ready /\ ~ NoStream.terminal
  <2>1. 0 \in SomeSerial /\ 0 \in Nat /\ FALSE \in BOOLEAN
    BY VideoAssumption DEF SomeSerial
  <2> QED
    BY <2>1 DEF NoRoute, NoStream, Routes, Streams
<1>3. router' \in [closed : BOOLEAN, route : Routes] /\ router'.route = NoRoute
      /\ router'.closed = router.closed
  BY <1>1, <1>2, RouterKnows
<1>4. ~ Routed' /\ Current' = Current /\ \A s : ~ IsCurrent(s)'
  BY <1>1, <1>2, <1>3 DEF Routed, Current, IsCurrent
<1>5. VideoTypes'
  BY <1>1, <1>2, <1>3, <1>4, Parts DEF VideoTypes
<1>6. OnlyThePast'
  <2>1. (\A q : AllSent(q)' <=> AllSent(q)) /\ 0 <= Current
    BY <1>1, RouterKnows DEF AllSent, Sent
  <2> QED
    BY <1>1, <1>2, <1>3, <1>4, <2>1, Parts DEF OnlyThePast, Sent
<1>7. DecoderHolds' /\ PublishedHolds'
  BY <1>1, Parts DEF DecoderHolds, PublishedHolds, AllSentIn, Sent
<1>8. ShownHolds'
  BY <1>1, <1>2 DEF ShownHolds
<1>9. RoutesHold'
  BY <1>1, <1>2, <1>3, <1>4, Parts DEF RoutesHold
<1>10. OthersAreOver' /\ ConfigHolds' /\ UnitsHold' /\ ReferenceHolds' /\ RouteIsOver'
  BY <1>4 DEF OthersAreOver, ConfigHolds, UnitsHold, ReferenceHolds, RouteIsOver
<1>11. FailureHolds'
  BY <1>1, <1>2 DEF FailureHolds
<1>12. StopHolds'
  BY <1>1, Parts DEF StopHolds
<1> QED
  BY <1>5, <1>6, <1>7, <1>8, <1>9, <1>10, <1>11, <1>12 DEF VideoInvariant

\* A step of the supervisor that changes neither the queues nor what they
\* are for, and says nothing.
LEMMA SupervisorMoves ==
    ASSUME VideoInvariant, supervisor.pc # "ended", supervisor' \in Supervisors,
           supervisor'.pc # "ended", supervisor'.epoch <= Current,
           router' \in [closed : BOOLEAN, route : Routes], router'.closed = router.closed,
           router'.route.queue = router.route.queue,
           Routed \/ router' = router,
           supervisor'.pc \in {"spawn", "report", "abort"} =>
             supervisor'.queue # 0 /\ worker.pc = "none",
           supervisor'.pc = "report" /\ supervisor'.queue # router.route.queue =>
             ~ IsCurrent(supervisor'.epoch),
           RouteIsOver', FailureHolds',
           UNCHANGED <<epochs, queues, stream, outbox, admission, units, source, worker, window>>
    PROVE  VideoInvariant'
<1>1. /\ \A s : IsCurrent(s)' <=> IsCurrent(s)
      /\ Routed' <=> Routed
      /\ Current' = Current
  BY NamesKept
<1>2. VideoTypes'
  BY <1>1, Parts DEF VideoTypes
<1>3. OnlyThePast' /\ StopHolds'
  BY PastKept, NothingStopped
<1>4. DecoderHolds' /\ PublishedHolds' /\ ShownHolds' /\ ReferenceHolds'
  BY FramesKept
<1>5. ConfigHolds' /\ UnitsHold'
  BY QueuesKept
<1>6. RoutesHold'
  BY <1>1, Parts DEF RoutesHold
<1>7. OthersAreOver'
  BY <1>1, Parts DEF OthersAreOver
<1> QED
  BY <1>2, <1>3, <1>4, <1>5, <1>6, <1>7 DEF VideoInvariant

LEMMA StartKeeps == ASSUME VideoInvariant, Start PROVE VideoInvariant'
<1>1. /\ supervisor.pc = "loop"
      /\ router' = [router EXCEPT !.route.started = TRUE, !.route.joined = FALSE]
      /\ supervisor' = [supervisor EXCEPT !.pc = "spawn", !.queue = router.route.queue]
      /\ UNCHANGED <<epochs, queues, stream, outbox, admission, units, source, worker, window>>
  BY DEF Start
<1>2. /\ router.route # NoRoute /\ ~ router.route.terminal /\ worker.pc = "none"
  BY DEF Start, Startable, Cleaned
<1>3. Routed /\ router.route.queue # 0
  BY <1>2, Parts DEF RoutesHold, Routed
<1>4. /\ router' \in [closed : BOOLEAN, route : Routes] /\ router'.closed = router.closed
      /\ router'.route.queue = router.route.queue /\ ~ router'.route.terminal
  <2> DEFINE route == [router.route EXCEPT !.started = TRUE, !.joined = FALSE]
  <2>1. route \in Routes /\ route.queue = router.route.queue /\ ~ route.terminal
    BY <1>2, RouterKnows DEF Routes
  <2>2. router' = [router EXCEPT !.route = route]
    BY <1>1, RouterKnows
  <2> HIDE DEF route
  <2> QED
    BY <2>1, <2>2, RouterKnows
<1>5. supervisor' = [pc |-> "spawn", queue |-> router.route.queue, epoch |-> supervisor.epoch]
  BY <1>1, SupervisorKnows
<1>6. supervisor' \in Supervisors
  BY <1>5, SupervisorKnows, RouterKnows DEF Supervisors
<1>7. RouteIsOver'
  BY <1>4 DEF RouteIsOver
<1>8. FailureHolds'
  BY <1>1, <1>2, Parts DEF FailureHolds
<1> QED
  BY <1>1, <1>2, <1>3, <1>4, <1>5, <1>6, <1>7, <1>8, SupervisorKnows, SupervisorMoves

LEMMA SpawnFailsKeeps == ASSUME VideoInvariant, SpawnFails PROVE VideoInvariant'
<1> DEFINE q == supervisor.queue
           e == LatestEpoch(q)
<1>1. /\ supervisor.pc = "spawn"
      /\ supervisor' = [supervisor EXCEPT !.pc = "report", !.epoch = e]
      /\ UNCHANGED <<epochs, router, queues, stream, outbox, admission, units, source, worker,
                     window>>
  BY DEF SpawnFails, sharedVars
<1>2. q \in Serials /\ q # 0 /\ worker.pc = "none"
  BY <1>1, SupervisorKnows DEF Serials
<1>3. /\ e \in SomeSerial /\ e <= Current
      /\ q # router.route.queue => ~ IsCurrent(e)
  <2>1. CASE queues[q].config # 0
    BY <1>2, <2>1, QueueKnows, QueueIsOver DEF LatestEpoch
  <2>2. CASE queues[q].config = 0 /\ queues[q].units # <<>>
    <3> DEFINE all == queues[q].units
    <3>1. all \in Seq(Nat) /\ all # <<>> /\ AllSent(all)
      BY <1>2, <2>2, QueueKnows
    <3>2. q # router.route.queue => \A i \in 1..Len(all) : ~ IsCurrent(units[all[i]].serial)
      BY <1>2, QueueIsOver
    <3>3. e = units[all[Len(all)]].serial
      BY <2>2 DEF LatestEpoch, Last
    <3> HIDE DEF all, e
    <3>4. Len(all) \in 1..Len(all)
      BY <3>1
    <3>5. all[Len(all)] \in Sent
      BY <3>1, <3>4 DEF AllSent
    <3>6. units[all[Len(all)]].serial <= Current
      BY <3>5, Parts DEF OnlyThePast
    <3>7. units[all[Len(all)]].serial \in SomeSerial
      BY <3>5, UnitTyped
    <3> QED
      BY <3>2, <3>3, <3>4, <3>6, <3>7
  <2>3. CASE queues[q].config = 0 /\ queues[q].units = <<>>
    <3>1. e = 0
      BY <2>3 DEF LatestEpoch
    <3> QED
      BY <3>1, SupervisorKnows, RouterKnows, NoDecoderTyped
  <2> QED
    BY <2>1, <2>2, <2>3
<1> HIDE DEF e
<1>4. supervisor' = [pc |-> "report", queue |-> q, epoch |-> e]
  BY <1>1, SupervisorKnows
<1>5. supervisor' \in Supervisors
  BY <1>3, <1>4, SupervisorKnows DEF Supervisors
<1>6. RouteIsOver'
  <2>1. Input' = Input /\ (Routed' <=> Routed)
    BY <1>1 DEF Input, Routed
  <2> QED
    BY <1>1, <1>4, <2>1, Parts DEF RouteIsOver
<1>7. FailureHolds'
  BY <1>1, <1>2, Parts DEF FailureHolds
<1> QED
  BY <1>1, <1>2, <1>3, <1>4, <1>5, <1>6, <1>7, RouterKnows, SupervisorMoves

LEMMA SpawnKeeps == ASSUME VideoInvariant, Spawn PROVE VideoInvariant'
<1> DEFINE q == supervisor.queue
<1>1. /\ supervisor.pc = "spawn"
      /\ worker' = [NoWorker EXCEPT !.pc = "pop", !.queue = q]
      /\ supervisor' = [supervisor EXCEPT !.pc = "loop", !.queue = 0]
      /\ UNCHANGED <<epochs, router, queues, stream, outbox, admission, units, source, window>>
  BY DEF Spawn, sharedVars
<1>2. q \in Serials /\ q # 0 /\ worker = NoWorker /\ worker.pc = "none"
  BY <1>1, SupervisorKnows DEF Serials
<1>3. worker' = [pc |-> "pop", queue |-> q, epoch |-> 0, unit |-> 0, frames |-> <<>>,
                 decoder |-> NoDecoder, panicked |-> FALSE]
  BY <1>1 DEF NoWorker
<1>4. worker' \in Workers
  <2>1. q \in SomeSerial /\ 0 \in SomeSerial /\ 0 \in Nat /\ <<>> \in Seq(Nat)
        /\ "pop" \in WorkerPlaces /\ FALSE \in BOOLEAN
    BY SupervisorKnows DEF WorkerPlaces
  <2> QED
    BY <1>3, <2>1, NoDecoderTyped DEF Workers
<1>5. supervisor' = [pc |-> "loop", queue |-> 0, epoch |-> supervisor.epoch]
  BY <1>1, SupervisorKnows
<1>6. supervisor' \in Supervisors
  BY <1>5, SupervisorKnows DEF Supervisors
<1>7. /\ \A s : IsCurrent(s)' <=> IsCurrent(s)
      /\ Routed' <=> Routed
      /\ Current' = Current
      /\ ~ IsCurrent(0)
      /\ worker'.pc = "pop" /\ worker'.epoch = 0 /\ worker'.decoder.serial = 0
  <2>1. worker'.pc = "pop" /\ worker'.epoch = 0 /\ worker'.decoder.serial = 0
    BY <1>3, NoDecoderTyped
  <2> QED
    BY <1>1, <2>1, NamesKept
<1>8. VideoTypes'
  BY <1>1, <1>4, <1>6, <1>7, Parts DEF VideoTypes
<1>9. OnlyThePast'
  <2>1. (\A s : AllSent(s)' <=> AllSent(s)) /\ 0 <= Current
    BY <1>1, RouterKnows DEF AllSent, Sent
  <2> QED
    BY <1>1, <1>3, <1>5, <1>7, <2>1, SupervisorKnows, Parts DEF OnlyThePast, Sent
<1>10. DecoderHolds'
  BY <1>3, NoDecoderTyped DEF DecoderHolds, AllSentIn
<1>11. PublishedHolds' /\ ShownHolds'
  BY <1>1, Parts DEF PublishedHolds, ShownHolds, Sent
<1>12. RoutesHold'
  BY <1>1, <1>2, <1>3, <1>5, <1>7, Parts DEF RoutesHold
<1>13. OthersAreOver'
  <2>1. supervisor'.pc = "loop"
    BY <1>5
  <2> QED
    BY <1>1, <1>7, <2>1, Parts DEF OthersAreOver
<1>14. Input' = Input
  BY <1>1 DEF Input
<1>15. \A u, s : Follows(u, s)' <=> Follows(u, s)
  BY <1>1, <1>14 DEF Follows, Linked
<1>16. ConfigHolds'
  BY <1>3, <1>7, <1>14, <1>15, Parts DEF ConfigHolds
<1>17. UnitsHold'
  BY <1>1, <1>3, <1>7, <1>14, Parts DEF UnitsHold
<1>18. ReferenceHolds'
  BY <1>3 DEF ReferenceHolds
<1>19. RouteIsOver'
  BY <1>1, <1>3, <1>5, <1>7, <1>14, Parts DEF RouteIsOver
<1>20. FailureHolds'
  BY <1>1, <1>2, Parts DEF FailureHolds
<1>21. StopHolds'
  BY <1>1, <1>5, NothingStopped
<1> QED
  BY <1>8, <1>9, <1>10, <1>11, <1>12, <1>13, <1>16, <1>17, <1>18, <1>19, <1>20, <1>21
     DEF VideoInvariant

LEMMA ReportSpawnFailureKeeps ==
    ASSUME VideoInvariant, ReportSpawnFailure PROVE VideoInvariant'
<1>1. /\ supervisor.pc = "report"
      /\ PublishControl("failed", supervisor.epoch)
      /\ supervisor' = [supervisor EXCEPT !.pc = "abort", !.epoch = 0]
      /\ UNCHANGED <<epochs, router, queues, admission, units, source, worker, window>>
  BY DEF ReportSpawnFailure
<1>2. /\ supervisor.queue \in Serials /\ worker.pc = "none" /\ supervisor.queue # 0
      /\ supervisor.epoch \in SomeSerial
  BY <1>1, SupervisorKnows DEF Serials
<1>3. PublishedWell /\ (stream'.terminal => stream.terminal \/ IsCurrent(supervisor.epoch))
  BY <1>1, <1>2, ControlPublished
<1>4. supervisor' = [pc |-> "abort", queue |-> supervisor.queue, epoch |-> 0]
  BY <1>1, SupervisorKnows
<1>5. supervisor' \in Supervisors
  BY <1>4, SupervisorKnows DEF Supervisors
<1>6. /\ stream' \in Streams /\ outbox' \in Seq(Publications)
      /\ stream'.serial = stream.serial
      /\ stream.serial = 0 => stream' = stream
  BY <1>3 DEF PublishedWell, StreamKept
<1>7. (\A s : IsCurrent(s)' <=> IsCurrent(s)) /\ (Routed' <=> Routed) /\ Current' = Current
      /\ Input' = Input
  BY <1>1, <1>6 DEF IsCurrent, Routed, Current, Input
<1>8. VideoTypes'
  BY <1>1, <1>5, <1>6, <1>7, Parts DEF VideoTypes
<1>9. PublishedHolds' /\ ShownHolds' /\ StopHolds'
      /\ \A i \in 1..Len(outbox') : outbox'[i].kind # "stopped" => outbox'[i].serial \in 1..Current'
  BY <1>1, <1>3, <1>4, PublicationsKept
<1>10. OnlyThePast'
  <2>1. (\A s : AllSent(s)' <=> AllSent(s)) /\ 0 <= Current
    BY <1>1, RouterKnows DEF AllSent, Sent
  <2> QED
    BY <1>1, <1>4, <1>7, <1>9, <2>1, Parts DEF OnlyThePast, Sent
<1>11. DecoderHolds'
  BY <1>1, Parts DEF DecoderHolds, AllSentIn, Sent
<1>12. RoutesHold'
  <2>1. stream' = NoStream <=> stream = NoStream
    BY <1>6, Parts DEF RoutesHold, NoStream
  <2> QED
    BY <1>1, <1>2, <1>4, <1>6, <1>7, <2>1, Parts DEF RoutesHold
<1>13. OthersAreOver'
  BY <1>1, <1>4, <1>7, Parts DEF OthersAreOver
<1>14. \A u, s : Follows(u, s)' <=> Follows(u, s)
  BY <1>1, <1>7 DEF Follows, Linked
<1>15. ConfigHolds'
  BY <1>1, <1>7, <1>14, Parts DEF ConfigHolds
<1>16. UnitsHold' /\ ReferenceHolds'
  <2>1. worker'.pc = "none" /\ worker'.decoder.serial = 0 /\ ~ IsCurrent(0)
    BY <1>1, SupervisorKnows, NoDecoderTyped DEF NoWorker
  <2> QED
    BY <1>1, <1>7, <2>1, Parts DEF UnitsHold, ReferenceHolds
<1>17. RouteIsOver'
  BY <1>1, <1>4, <1>7, Parts DEF RouteIsOver
<1>18. FailureHolds'
  <2>1. CASE stream.terminal
    BY <1>1, <1>2, <2>1, Parts DEF FailureHolds
  <2>2. CASE IsCurrent(supervisor.epoch)
    <3>1. supervisor.queue = router.route.queue
      BY <1>1, <2>2, Parts DEF OthersAreOver
    <3> QED
      BY <1>1, <1>4, <3>1 DEF FailureHolds
  <2> QED
    BY <1>3, <2>1, <2>2 DEF FailureHolds
<1> QED
  BY <1>8, <1>9, <1>10, <1>11, <1>12, <1>13, <1>15, <1>16, <1>17, <1>18 DEF VideoInvariant

\* A queue is emptied and closed: what follows in it is nothing.
LEMMA InputCloses ==
    ASSUME VideoInvariant, Routed, router'.route.queue = router.route.queue,
           queues' = [queues EXCEPT ![router.route.queue] = Emptied(@)],
           UNCHANGED <<epochs, units, source, stream, worker>>
    PROVE  /\ queues' \in [Serials -> InputQueues] /\ Input'.config = 0
           /\ ConfigHolds' /\ UnitsHold'
           /\ \A q \in Serials :
                /\ queues'[q].config <= Current /\ queues'[q].popped <= Current
                /\ AllSent(queues'[q].units)
                /\ q # router.route.queue => queues'[q] = queues[q]
<1> DEFINE r == router.route.queue
<1>1. /\ r \in Serials
      /\ queues' \in [Serials -> InputQueues]
      /\ queues'[r].config = 0 /\ queues'[r].units = <<>>
      /\ queues'[r].popped = queues[r].popped /\ queues'[r].closed
      /\ \A q \in Serials : q # r => queues'[q] = queues[q]
  BY InputKnows, QueueCloses
<1>2. Input'.config = 0 /\ Input'.units = <<>> /\ Input'.closed
  BY <1>1 DEF Input
<1>3. \A u : Follows(u, <<>>)'
  BY <1>2 DEF Follows, Linked
<1>4. UnitsHold'
  BY <1>2, <1>3 DEF UnitsHold
<1>5. ConfigHolds'
  BY <1>2 DEF ConfigHolds
<1>6. ASSUME NEW q \in Serials
      PROVE  /\ queues'[q].config <= Current /\ queues'[q].popped <= Current
             /\ AllSent(queues'[q].units)
  <2>1. CASE q # r
    BY <1>1, <2>1, QueueKnows
  <2>2. CASE q = r
    <3>1. queues[q].popped <= Current /\ 0 <= Current
      BY QueueKnows, RouterKnows
    <3> QED
      BY <1>1, <2>2, <3>1 DEF AllSent
  <2> QED
    BY <2>1, <2>2
<1> QED
  BY <1>1, <1>2, <1>4, <1>5, <1>6

LEMMA AbortStreamKeeps == ASSUME VideoInvariant, AbortStream PROVE VideoInvariant'
<1>1. /\ supervisor.pc = "abort"
      /\ supervisor' = [supervisor EXCEPT !.pc = "loop", !.queue = 0]
      /\ UNCHANGED <<epochs, stream, outbox, admission, units, source, worker, window>>
  BY DEF AbortStream
<1>2. supervisor' = [pc |-> "loop", queue |-> 0, epoch |-> supervisor.epoch]
  BY <1>1, SupervisorKnows
<1>3. supervisor' \in Supervisors /\ supervisor'.epoch <= Current
  BY <1>2, SupervisorKnows DEF Supervisors
<1>4. supervisor.queue \in Serials /\ worker.pc = "none" /\ worker.queue = 0 /\ supervisor.queue # 0
  BY <1>1, SupervisorKnows DEF NoWorker, Serials
<1>5. CASE router.route.queue # supervisor.queue
  <2>1. UNCHANGED <<router, queues>>
    BY <1>5 DEF AbortStream
  <2>2. RouteIsOver'
    <3>1. Input' = Input /\ (Routed' <=> Routed)
      BY <2>1 DEF Input, Routed
    <3> QED
      BY <1>1, <1>2, <2>1, <3>1, Parts DEF RouteIsOver
  <2>3. FailureHolds'
    BY <1>1, <1>4, <1>5, <2>1, Parts DEF FailureHolds
  <2> QED
    BY <1>1, <1>2, <1>3, <2>1, <2>2, <2>3, RouterKnows, SupervisorMoves
<1>6. CASE router.route.queue = supervisor.queue
  <2> DEFINE route == [router.route EXCEPT !.started = FALSE, !.terminal = TRUE, !.joined = TRUE,
                                           !.restart = FALSE]
  <2>1. /\ router' = [router EXCEPT !.route = route]
        /\ queues' = [queues EXCEPT ![router.route.queue] = Emptied(@)]
    BY <1>6 DEF AbortStream
  <2>2. /\ route \in Routes /\ route.queue = router.route.queue
        /\ route.terminal /\ ~ route.restart
    BY RouterKnows DEF Routes
  <2> HIDE DEF route
  <2>3. /\ router' \in [closed : BOOLEAN, route : Routes] /\ router'.closed = router.closed
        /\ router'.route.queue = router.route.queue
        /\ router'.route.terminal /\ ~ router'.route.restart
    BY <2>1, <2>2, RouterKnows
  <2>4. Routed /\ (Routed' <=> Routed)
    BY <1>4, <1>6, <2>3 DEF Routed
  <2>5. /\ queues' \in [Serials -> InputQueues] /\ Input'.config = 0
        /\ ConfigHolds' /\ UnitsHold'
        /\ \A q \in Serials :
             /\ queues'[q].config <= Current /\ queues'[q].popped <= Current
             /\ AllSent(queues'[q].units)
             /\ q # router.route.queue => queues'[q] = queues[q]
    BY <1>1, <2>1, <2>3, <2>4, InputCloses
  <2>6. (\A s : IsCurrent(s)' <=> IsCurrent(s)) /\ Current' = Current
    BY <1>1 DEF IsCurrent, Current
  <2>7. VideoTypes'
    BY <1>1, <1>3, <2>3, <2>5, <2>6, Parts DEF VideoTypes
  <2>8. OnlyThePast'
    <3>1. \A s : AllSent(s)' <=> AllSent(s)
      BY <1>1 DEF AllSent, Sent
    <3> QED
      BY <1>1, <1>3, <2>3, <2>5, <2>6, <3>1, Parts DEF OnlyThePast, Sent
  <2>9. DecoderHolds' /\ PublishedHolds' /\ ShownHolds' /\ ReferenceHolds'
    BY <1>1, FramesKept
  <2>10. RoutesHold'
    BY <1>1, <1>2, <2>3, <2>4, <2>6, Parts DEF RoutesHold
  <2>11. OthersAreOver'
    BY <1>1, <1>2, <2>3, <2>5, <2>6, Parts DEF OthersAreOver
  <2>12. RouteIsOver'
    BY <1>1, <1>2, <1>4, <1>6, <2>3, <2>5 DEF RouteIsOver
  <2>13. FailureHolds'
    BY <2>3 DEF FailureHolds
  <2>14. StopHolds'
    BY <1>1, <1>2, NothingStopped
  <2> QED
    BY <2>5, <2>7, <2>8, <2>9, <2>10, <2>11, <2>12, <2>13, <2>14 DEF VideoInvariant
<1> QED
  BY <1>5, <1>6

LEMMA CloseKeeps == ASSUME VideoInvariant, Close PROVE VideoInvariant'
<1>1. /\ ~ router.closed
      /\ router' = [router EXCEPT !.closed = TRUE]
      /\ queues' = IF router.route = NoRoute THEN queues
                   ELSE [queues EXCEPT ![router.route.queue] = Emptied(@)]
      /\ UNCHANGED <<epochs, stream, outbox, admission, units, source, worker, supervisor,
                     window>>
  BY DEF Close
<1>2. /\ router' \in [closed : BOOLEAN, route : Routes] /\ router'.closed
      /\ router'.route = router.route
  BY <1>1, RouterKnows
<1>3. /\ \A s : IsCurrent(s)' <=> IsCurrent(s)
      /\ Routed' <=> Routed
      /\ Current' = Current
  BY <1>1, <1>2, NamesKept
<1>4. router.route = NoRoute <=> ~ Routed
  BY Parts DEF RoutesHold, Routed, NoRoute
<1>5. /\ queues' \in [Serials -> InputQueues]
      /\ Routed => Input'.config = 0
      /\ ConfigHolds' /\ UnitsHold'
      /\ \A q \in Serials :
           /\ queues'[q].config <= Current /\ queues'[q].popped <= Current
           /\ AllSent(queues'[q].units)
           /\ q # router.route.queue => queues'[q] = queues[q]
  <2>1. CASE Routed
    BY <1>1, <1>2, <1>4, <2>1, InputCloses
  <2>2. CASE ~ Routed
    <3>1. queues' = queues
      BY <1>1, <1>4, <2>2
    <3>2. ConfigHolds' /\ UnitsHold'
      BY <1>3, <2>2 DEF ConfigHolds, UnitsHold
    <3> QED
      BY <2>2, <3>1, <3>2, QueueKnows, RouterKnows
  <2> QED
    BY <2>1, <2>2
<1>6. VideoTypes'
  BY <1>1, <1>2, <1>3, <1>5, Parts DEF VideoTypes
<1>7. OnlyThePast'
  <2>1. \A s : AllSent(s)' <=> AllSent(s)
    BY <1>1 DEF AllSent, Sent
  <2> QED
    BY <1>1, <1>2, <1>3, <1>5, <2>1, Parts DEF OnlyThePast, Sent
<1>8. DecoderHolds' /\ PublishedHolds' /\ ShownHolds' /\ ReferenceHolds'
  BY <1>1, FramesKept
<1>9. RoutesHold'
  BY <1>1, <1>2, <1>3, Parts DEF RoutesHold
<1>10. OthersAreOver'
  BY <1>1, <1>2, <1>3, <1>5, Parts DEF OthersAreOver
<1>11. RouteIsOver'
  BY <1>1, <1>2, <1>3, <1>5, Parts DEF RouteIsOver
<1>12. FailureHolds'
  <2>1. ASSUME stream.terminal
        PROVE  Routed
    <3>1. stream # NoStream
      BY <2>1 DEF NoStream
    <3> QED
      BY <3>1, Parts DEF RoutesHold
  <2> QED
    BY <1>1, <1>2, <1>5, <2>1, Parts DEF FailureHolds
<1>13. StopHolds'
  BY <1>1, <1>2, Parts DEF StopHolds
<1> QED
  BY <1>5, <1>6, <1>7, <1>8, <1>9, <1>10, <1>11, <1>12, <1>13 DEF VideoInvariant

LEMMA StopKeeps == ASSUME VideoInvariant, Stop PROVE VideoInvariant'
<1>1. /\ supervisor.pc = "loop" /\ router.closed /\ worker.pc \in {"none", "done"}
      /\ outbox' = Append(outbox, Stopped)
      /\ worker' = NoWorker
      /\ supervisor' = [supervisor EXCEPT !.pc = "ended"]
      /\ UNCHANGED <<epochs, router, queues, stream, admission, units, source, window>>
  BY DEF Stop
<1>2. supervisor' = [pc |-> "ended", queue |-> supervisor.queue, epoch |-> supervisor.epoch]
  BY <1>1, SupervisorKnows
<1>3. supervisor' \in Supervisors
  BY <1>2, SupervisorKnows DEF Supervisors
<1>4. /\ worker' \in Workers /\ worker'.frames = <<>> /\ worker'.decoder = NoDecoder
      /\ worker'.pc = "none" /\ worker'.queue = 0 /\ worker'.epoch = 0
      /\ worker'.decoder.serial = 0
  BY <1>1, NoWorkerTyped, NoDecoderTyped DEF NoWorker
<1>5. /\ Stopped \in Publications /\ Stopped.kind = "stopped"
  BY VideoAssumption DEF Stopped, Publication, Publications, SomeSerial
<1>6. /\ outbox' \in Seq(Publications) /\ Len(outbox') = Len(outbox) + 1 /\ Len(outbox) \in Nat
      /\ \A i \in 1..Len(outbox) : outbox'[i] = outbox[i]
      /\ outbox'[Len(outbox) + 1] = Stopped
  BY <1>1, <1>5, AllPublicationsHold, AppendProperties
<1>7. \A i \in 1..Len(outbox) : PublicationHolds(outbox[i])
  BY <1>1, AllPublicationsHold
<1>8. ASSUME NEW i \in 1..Len(outbox')
      PROVE  \/ i \in 1..Len(outbox) /\ outbox'[i] = outbox[i] /\ PublicationHolds(outbox'[i])
             \/ i = Len(outbox') /\ outbox'[i] = Stopped
  <2>1. i \in 1..Len(outbox) \/ i = Len(outbox) + 1
    BY <1>6
  <2> QED
    BY <1>6, <1>7, <2>1
<1>9. /\ \A s : IsCurrent(s)' <=> IsCurrent(s)
      /\ Routed' <=> Routed
      /\ Current' = Current
      /\ ~ IsCurrent(0)
  BY <1>1, NamesKept
<1>10. VideoTypes'
  BY <1>1, <1>3, <1>4, <1>6, <1>9, Parts DEF VideoTypes
<1>11. OnlyThePast'
  <2>1. (\A s : AllSent(s)' <=> AllSent(s)) /\ 0 <= Current
    BY <1>1, RouterKnows DEF AllSent, Sent
  <2>2. \A i \in 1..Len(outbox') : outbox'[i].kind # "stopped" => outbox'[i].serial \in 1..Current
    BY <1>5, <1>8 DEF PublicationHolds
  <2> QED
    BY <1>1, <1>2, <1>4, <1>9, <2>1, <2>2, Parts DEF OnlyThePast, Sent
<1>12. DecoderHolds'
  BY <1>4, NoDecoderTyped DEF DecoderHolds, AllSentIn
<1>13. PublishedHolds'
  BY <1>1, <1>5, <1>8 DEF PublishedHolds, PublicationHolds, Sent
<1>14. ShownHolds'
  BY <1>1, Parts DEF ShownHolds, Sent
<1>15. RoutesHold'
  BY <1>1, <1>2, <1>4, <1>9, Parts DEF RoutesHold
<1>16. OthersAreOver'
  BY <1>1, <1>2, <1>4, <1>9, Parts DEF OthersAreOver
<1>17. Input' = Input /\ \A u, q : Follows(u, q)' <=> Follows(u, q)
  BY <1>1 DEF Input, Follows, Linked
<1>18. ConfigHolds'
  BY <1>1, <1>4, <1>9, <1>17, Parts DEF ConfigHolds
<1>19. UnitsHold'
  BY <1>1, <1>4, <1>9, <1>17, Parts DEF UnitsHold
<1>20. ReferenceHolds'
  BY <1>4 DEF ReferenceHolds
<1>21. RouteIsOver'
  BY <1>1, <1>2, <1>4, <1>9, <1>17, Parts DEF RouteIsOver, Routed
<1>22. FailureHolds'
  BY <1>1, Parts DEF FailureHolds
<1>23. StopHolds'
  BY <1>1, <1>2, <1>4, <1>8 DEF StopHolds, PublicationHolds
<1> QED
  BY <1>10, <1>11, <1>12, <1>13, <1>14, <1>15, <1>16, <1>18, <1>19, <1>20, <1>21, <1>22, <1>23
     DEF VideoInvariant

-----------------------------------------------------------------------------
(***************************************************************************)
(* The protocol thread.                                                    *)
(***************************************************************************)
LEMMA SendRefusedKeeps == ASSUME VideoInvariant, SendRefused PROVE VideoInvariant'
<1>1. /\ source' = "ended"
      /\ UNCHANGED <<epochs, router, queues, stream, outbox, admission, units, worker,
                     supervisor, window>>
  BY DEF SendRefused, sharedVars
<1>2. /\ \A s : IsCurrent(s)' <=> IsCurrent(s)
      /\ Routed' <=> Routed
      /\ Current' = Current
  BY <1>1, NamesKept
<1>3. /\ Input' = Input /\ DecodedLast' = DecodedLast
      /\ \A u, q : Follows(u, q) => Follows(u, q)'
  BY <1>1 DEF Input, DecodedLast, Follows, Linked
<1>4. VideoTypes'
  BY <1>1, <1>2, Parts DEF VideoTypes
<1>5. OnlyThePast'
  BY <1>1, SupervisorKnows, PastKept
<1>6. DecoderHolds' /\ PublishedHolds' /\ ShownHolds' /\ ReferenceHolds'
  BY <1>1, FramesKept
<1>7. RoutesHold'
  BY <1>1, <1>2, Parts DEF RoutesHold
<1>8. OthersAreOver'
  BY <1>1, <1>2, Parts DEF OthersAreOver
<1>9. ConfigHolds'
  BY <1>1, <1>2, <1>3, Parts DEF ConfigHolds
<1>10. UnitsHold'
  <2>1. \A i \in 1..Len(Input'.units) : Routed' => units'[Input'.units[i]].serial = Current'
    BY <1>1, <1>2, <1>3, Parts DEF UnitsHold
  <2>2. Routed' /\ worker'.pc \in {"config", "reopen"} /\ IsCurrent(worker.epoch)' =>
          Follows(0, Input.units)'
    BY <1>1, <1>2, <1>3, Parts DEF UnitsHold
  <2>3. Routed' /\ IsCurrent(worker.decoder.serial)' => Follows(DecodedLast, Input.units)'
    BY <1>1, <1>2, <1>3, Parts DEF UnitsHold
  <2> QED
    BY <2>1, <2>2, <2>3 DEF UnitsHold
<1>11. RouteIsOver'
  BY <1>1, <1>2, <1>3, Parts DEF RouteIsOver
<1>12. FailureHolds'
  BY <1>1, <1>3, Parts DEF FailureHolds
<1>13. StopHolds'
  BY <1>1, Parts DEF StopHolds
<1> QED
  BY <1>4, <1>5, <1>6, <1>7, <1>8, <1>9, <1>10, <1>11, <1>12, <1>13 DEF VideoInvariant

\* While the router is open nothing was said to be stopped.
LEMMA RouterOpen ==
    ASSUME VideoInvariant, ~ router.closed
    PROVE  /\ supervisor.pc # "ended" /\ OnlyStopped(outbox) = <<>>
           /\ \A i \in 1..Len(outbox) : PublicationHolds(outbox[i])
<1>1. supervisor.pc # "ended"
  BY Parts DEF StopHolds
<1>2. outbox \in Seq(Publications) /\ \A i \in 1..Len(outbox) : PublicationHolds(outbox[i])
  BY <1>1, AllPublicationsHold
<1>3. \A i \in 1..Len(outbox) : outbox[i] # Stopped
  BY <1>2 DEF PublicationHolds, Stopped, Publication
<1> QED
  BY <1>1, <1>2, <1>3, StoppedKept

LEMMA SendConfigKeeps == ASSUME VideoInvariant, SendConfig PROVE VideoInvariant'
<1> DEFINE n == Current + 1
           route == IF Replaces(Cleaned(router.route)) THEN NewRoute(n) ELSE router.route
           t == route.queue
<1>1. PICK g \in (IF epochs = <<>> THEN {1} ELSE {Last(epochs), Last(epochs) + 1}) :
        AcceptConfig(g) /\ admission' = g
  BY DEF SendConfig
<1>2. /\ Current < MaxEpochs /\ ~ router.closed
      /\ router' = [router EXCEPT !.route = route]
      /\ queues' = PushConfig(t, n)
      /\ source' = "awaiting"
      /\ UNCHANGED <<units, worker, supervisor, window>>
  BY DEF SendConfig
<1>3. g \in Nat
  <2>1. CASE epochs = <<>>
    BY <1>1, <2>1
  <2>2. CASE epochs # <<>>
    <3>1. epochs \in Seq(Nat)
      BY Parts DEF VideoTypes
    <3>2. Last(epochs) \in Nat
      BY <2>2, <3>1 DEF Last
    <3> QED
      BY <1>1, <2>2, <3>2
  <2> QED
    BY <2>1, <2>2
<1>4. /\ epochs' \in Seq(Nat) /\ Current' = n /\ n \in Serials /\ n \in SomeSerial /\ n # 0
      /\ Current \in Nat
  <2>1. epochs \in Seq(Nat) /\ epochs' = Append(epochs, g)
    BY <1>1, Parts DEF VideoTypes, AcceptConfig
  <2>2. epochs' \in Seq(Nat) /\ Len(epochs') = Len(epochs) + 1 /\ Len(epochs) \in Nat
    BY <1>3, <2>1, AppendProperties
  <2> QED
    BY <1>2, <2>2, VideoAssumption DEF Current, Serials, SomeSerial
<1>5. outbox' = <<>> /\ supervisor.pc # "ended"
  BY <1>1, <1>2, RouterOpen DEF AcceptConfig
<1>6. /\ stream' \in Streams /\ stream'.serial = n /\ stream'.latest = 0 /\ ~ stream'.ready
      /\ ~ stream'.terminal
  <2> HIDE DEF n
  <2>1. stream' = [serial |-> n, latest |-> 0, delivered |-> 0, ready |-> FALSE,
                   terminal |-> FALSE]
    <3>1. stream' = [NoStream EXCEPT !.serial = n]
      BY <1>1 DEF AcceptConfig, n
    <3> QED
      BY <3>1 DEF NoStream
  <2> QED
    BY <1>4, <2>1 DEF Streams
<1>7. /\ route \in Routes /\ t \in Serials /\ ~ route.terminal
  <2>1. CASE Replaces(Cleaned(router.route))
    <3>1. route = [queue |-> n, started |-> FALSE, terminal |-> FALSE, joined |-> FALSE,
                   restart |-> FALSE]
      BY <2>1 DEF NewRoute, NoRoute
    <3> HIDE DEF n, route
    <3> QED
      BY <1>4, <3>1 DEF Routes
  <2>2. CASE ~ Replaces(Cleaned(router.route))
    <3>1. Cleaned(router.route) # NoRoute /\ ~ Cleaned(router.route).terminal
      BY <2>2 DEF Replaces
    <3>2. Cleaned(router.route) = router.route
      BY <3>1 DEF Cleaned
    <3>3. router.route # NoRoute /\ ~ router.route.terminal /\ route = router.route
      BY <2>2, <3>1, <3>2
    <3>4. Routed
      BY <3>3, Parts DEF RoutesHold
    <3> QED
      BY <3>3, <3>4, RouterKnows, InputKnows
  <2> QED
    BY <2>1, <2>2
<1> HIDE DEF route
<1>8. /\ router' \in [closed : BOOLEAN, route : Routes] /\ router'.closed = router.closed
      /\ router'.route = route
  BY <1>2, <1>7, RouterKnows
<1> DEFINE in == [config |-> n, units |-> <<>>, popped |-> queues[t].popped,
                  closed |-> queues[t].closed]
<1>9. in \in InputQueues
  <2> HIDE DEF n, t
  <2>1. queues[t] \in InputQueues
    BY <1>7, QueueKnows
  <2> QED
    BY <1>4, <2>1, ConfigPut
<1>10. queues' = [queues EXCEPT ![t] = in]
  <2> HIDE DEF n, t
  <2>1. [queues[t] EXCEPT !.config = n, !.units = <<>>] = in
    BY <1>4, <1>7, QueueKnows, ConfigPut
  <2>2. queues' = [queues EXCEPT ![t] = [queues[t] EXCEPT !.config = n, !.units = <<>>]]
    BY <1>2, <1>7, QueueKnows DEF PushConfig
  <2> QED
    BY <2>1, <2>2
<1>11. /\ queues' \in [Serials -> InputQueues] /\ queues'[t] = in
       /\ \A q \in Serials : q # t => queues'[q] = queues[q]
  BY <1>7, <1>9, <1>10, QueueChanged
<1>12. /\ in.config = n /\ in.units = <<>> /\ in.popped = queues[t].popped
       /\ in.closed = queues[t].closed /\ queues[t].popped <= Current
       /\ queues[t].popped \in SomeSerial
  BY <1>7, QueueKnows
<1>13. /\ Routed' /\ Input' = in
       /\ \A s : IsCurrent(s)' <=> s = n
  <2>1. Routed' /\ Input' = in
    BY <1>7, <1>8, <1>11 DEF Routed, Input, Serials
  <2>2. \A s : IsCurrent(s)' <=> s = n
    BY <1>4, <1>6 DEF IsCurrent
  <2> QED
    BY <2>1, <2>2
<1>14. \A s : s <= Current => s # n
  BY <1>4
<1> HIDE DEF n, t, in
<1>15. VideoTypes'
  <2>1. n <= MaxEpochs
    BY <1>4 DEF Serials
  <2> QED
    BY <1>1, <1>2, <1>3, <1>4, <1>5, <1>6, <1>8, <1>11, <2>1, Parts DEF VideoTypes
<1>16. OnlyThePast'
  <2>1. \A s \in SomeSerial : s <= Current => s <= n
    BY <1>4 DEF n, SomeSerial
  <2>2. n <= n /\ 0 <= n
    BY <1>4 DEF SomeSerial
  <2>3. \A q : AllSent(q)' <=> AllSent(q)
    BY <1>2 DEF AllSent, Sent
  <2>4. AllSent(<<>>)
    BY DEF AllSent
  <2>5. t <= n
    <3>1. CASE route = router.route
      BY <2>1, <3>1, RouterKnows, Parts DEF OnlyThePast, t
    <3>2. CASE route = NewRoute(n)
      BY <2>2, <3>2 DEF NewRoute, NoRoute, t
    <3> QED
      BY <3>1, <3>2 DEF route, n
  <2>6. /\ \A i \in Sent' : units'[i].serial <= n
        /\ worker'.epoch <= n /\ worker'.decoder.serial <= n /\ supervisor'.epoch <= n
    <3>1. /\ \A i \in Sent : units[i].serial <= Current
          /\ worker.epoch <= Current /\ worker.decoder.serial <= Current
          /\ supervisor.epoch <= Current
      BY Parts DEF OnlyThePast
    <3>2. worker.epoch \in SomeSerial /\ worker.decoder.serial \in SomeSerial
      BY Parts DEF VideoTypes, Workers, Decoders
    <3> QED
      BY <1>2, <2>1, <3>1, <3>2, UnitTyped, SupervisorKnows DEF Sent
  <2>7. \A q \in Serials : /\ queues'[q].config <= n /\ queues'[q].popped <= n
                           /\ AllSent(queues'[q].units)
    <3> SUFFICES ASSUME NEW q \in Serials
                 PROVE  /\ queues'[q].config <= n /\ queues'[q].popped <= n
                        /\ AllSent(queues'[q].units)
      OBVIOUS
    <3>1. CASE q = t
      BY <1>11, <1>12, <2>1, <2>2, <2>4, <3>1
    <3>2. CASE q # t
      BY <1>11, <2>1, <3>2, QueueKnows
    <3> QED
      BY <3>1, <3>2
  <2> QED
    BY <1>4, <1>5, <1>8, <2>3, <2>5, <2>6, <2>7 DEF OnlyThePast, t
<1>17. DecoderHolds'
  BY <1>2, Parts DEF DecoderHolds, AllSentIn, Sent
<1>18. PublishedHolds' /\ ShownHolds'
  BY <1>5, <1>6 DEF PublishedHolds, ShownHolds
<1>19. RoutesHold'
  BY <1>2, <1>4, <1>6, <1>13, Parts DEF RoutesHold, NoStream
<1>20. OthersAreOver'
  <2>1. ASSUME NEW q \in Serials, q # t
        PROVE  /\ queues'[q].config # n
               /\ \A i \in 1..Len(queues'[q].units) : units[queues'[q].units[i]].serial # n
    <3>1. /\ queues'[q] = queues[q] /\ queues[q].config <= Current /\ AllSent(queues[q].units)
      BY <1>11, <2>1, QueueKnows
    <3>2. \A i \in 1..Len(queues[q].units) : units[queues[q].units[i]].serial <= Current
      BY <3>1, UnitTyped DEF AllSent
    <3> QED
      BY <1>14, <3>1, <3>2
  <2>2. worker.epoch # n /\ worker.decoder.serial # n /\ supervisor.epoch # n
    BY <1>14, Parts DEF OnlyThePast
  <2> QED
    BY <1>2, <1>8, <1>13, <2>1, <2>2 DEF OthersAreOver, t
<1>21. worker.epoch # n /\ worker.decoder.serial # n /\ in.popped # n
  BY <1>12, <1>14, Parts DEF OnlyThePast
<1>22. Follows(0, <<>>)'
  BY <1>2 DEF Follows, Linked
<1>23. ConfigHolds'
  BY <1>2, <1>4, <1>12, <1>13, <1>21, <1>22 DEF ConfigHolds
<1>24. UnitsHold' /\ ReferenceHolds'
  BY <1>2, <1>12, <1>13, <1>21 DEF UnitsHold, ReferenceHolds
<1>25. RouteIsOver' /\ FailureHolds'
  BY <1>6, <1>7, <1>8 DEF RouteIsOver, FailureHolds
<1>26. StopHolds'
  BY <1>2, <1>5 DEF StopHolds
<1> QED
  BY <1>15, <1>16, <1>17, <1>18, <1>19, <1>20, <1>23, <1>24, <1>25, <1>26 DEF VideoInvariant

\* A unit more was sent: what was is as it was.
LEMMA UnitsGrow ==
    ASSUME VideoInvariant, NEW key \in BOOLEAN,
           units' = Append(units, [serial |-> Current, key |-> key])
    PROVE  /\ units' \in Seq([serial : SomeSerial, key : BOOLEAN])
           /\ Len(units') = Len(units) + 1 /\ Len(units) \in Nat
           /\ \A i \in Sent : units'[i] = units[i] /\ i \in Sent' /\ i \in Nat
           /\ Len(units) + 1 \in Sent' /\ units'[Len(units) + 1].serial = Current
           /\ units'[Len(units) + 1].key = key
           /\ \A i \in Sent' : i \in Sent \/ i = Len(units) + 1
           /\ \A q : AllSent(q) => AllSent(q)'
           /\ \A s, q : AllSentIn(s, q) => AllSentIn(s, q)'
<1> DEFINE Units == [serial : SomeSerial, key : BOOLEAN]
           unit == [serial |-> Current, key |-> key]
<1>1. unit \in Units /\ unit.serial = Current /\ unit.key = key
  BY Parts, RouterKnows DEF VideoTypes, SomeSerial
<1>2. units \in Seq(Units) /\ units' = Append(units, unit)
  BY Parts DEF VideoTypes
<1> HIDE DEF Units, unit
<1>3. /\ units' \in Seq(Units) /\ Len(units') = Len(units) + 1 /\ Len(units) \in Nat
      /\ \A i \in 1..Len(units) : units'[i] = units[i]
      /\ units'[Len(units) + 1] = unit
  BY <1>1, <1>2, AppendProperties
<1>4. \A i \in 1..(Len(units) + 1) : i \in 1..Len(units) \/ i = Len(units) + 1
  BY <1>3
<1>5. /\ Sent = 1..Len(units) /\ Sent' = 1..(Len(units) + 1)
      /\ \A i \in Sent : i \in Sent' /\ i \in Nat
  BY <1>3 DEF Sent
<1>6. \A q : AllSent(q) => AllSent(q)'
  BY <1>5 DEF AllSent
<1>7. \A s, q : AllSentIn(s, q) => AllSentIn(s, q)'
  BY <1>3, <1>5 DEF AllSentIn
<1>8. Len(units) + 1 \in Sent'
  BY <1>3, <1>5
<1>9. units' \in Seq([serial : SomeSerial, key : BOOLEAN])
  BY <1>3 DEF Units
<1> QED
  BY <1>1, <1>3, <1>4, <1>5, <1>6, <1>7, <1>8, <1>9

\* Units of the past are linked as they were.
LEMMA LinksKept ==
    ASSUME NEW v, NEW q, AllSent(q), Linked(v, q), \A i \in Sent : units'[i] = units[i]
    PROVE  Linked(v, q)'
<1> SUFFICES ASSUME NEW i \in 1..Len(q)
             PROVE  units'[q[i]].key \/ q[i] = (IF i = 1 THEN v ELSE q[i - 1]) + 1
  BY DEF Linked
<1>1. units'[q[i]] = units[q[i]]
  BY DEF AllSent
<1>2. units[q[i]].key \/ q[i] = (IF i = 1 THEN v ELSE q[i - 1]) + 1
  BY DEF Linked
<1> QED
  BY <1>1, <1>2

LEMMA UnitPushed ==
    ASSUME NEW v, NEW q \in Seq(Nat), NEW n \in Nat, AllSent(q), Linked(v, q),
           \A i \in Sent : units'[i] = units[i],
           \/ units'[n].key
           \/ n = (IF q = <<>> THEN v ELSE q[Len(q)]) + 1
    PROVE  Linked(v, Append(q, n))'
<1> DEFINE r == Append(q, n)
<1>1. /\ r \in Seq(Nat) /\ Len(r) = Len(q) + 1 /\ Len(q) \in Nat
      /\ \A i \in 1..Len(q) : r[i] = q[i]
      /\ r[Len(q) + 1] = n
  BY AppendProperties
<1> HIDE DEF r
<1>2. ASSUME NEW i \in 1..Len(r)
      PROVE  units'[r[i]].key \/ r[i] = (IF i = 1 THEN v ELSE r[i - 1]) + 1
  <2>1. CASE i \in 1..Len(q)
    <3>0. Linked(v, q)'
      BY LinksKept
    <3>1. units'[q[i]].key \/ q[i] = (IF i = 1 THEN v ELSE q[i - 1]) + 1
      BY <2>1, <3>0 DEF Linked
    <3>2. r[i] = q[i]
      BY <1>1, <2>1
    <3>3. i # 1 => r[i - 1] = q[i - 1]
      <4>1. i # 1 => i - 1 \in 1..Len(q)
        BY <1>1, <2>1
      <4> QED
        BY <1>1, <4>1
    <3> QED
      BY <3>1, <3>2, <3>3
  <2>2. CASE i = Len(q) + 1
    <3>1. r[i] = n
      BY <1>1, <2>2
    <3>2. CASE q = <<>>
      <4>1. i = 1
        BY <2>2, <3>2
      <4> QED
        BY <3>1, <3>2, <4>1
    <3>3. CASE q # <<>>
      <4>1. i # 1 /\ i - 1 = Len(q) /\ Len(q) \in 1..Len(q)
        BY <1>1, <2>2, <3>3
      <4>2. r[i - 1] = q[Len(q)]
        BY <1>1, <4>1
      <4> QED
        BY <3>1, <3>3, <4>1, <4>2
    <3> QED
      BY <3>2, <3>3
  <2> QED
    BY <1>1, <2>1, <2>2
<1>3. Linked(v, r)'
  BY <1>2 DEF Linked
<1> QED
  BY <1>3 DEF r

\* The unit sent goes to the end of the queue, or, one of random access,
\* instead of all it holds.
LEMMA InputGrows ==
    ASSUME NEW all \in Seq(Nat), AllSent(all), \A i \in 1..Len(all) : units[all[i]].serial = Current,
           NEW u \in Nat, u = Len(units) + 1, Len(units) \in Nat, Len(units') = u,
           \A i \in Sent : units'[i] = units[i] /\ i \in Sent',
           u \in Sent', units'[u].serial = Current,
           NEW pushed,
           \/ pushed = <<u>> /\ units'[u].key
           \/ /\ pushed = Append(all, u)
              /\ units'[u].key \/ (source = "sending" /\ ~ Input.closed)
    PROVE  /\ pushed \in Seq(Nat) /\ AllSent(pushed)'
           /\ \A v : Follows(v, all) => Follows(v, pushed)'
           /\ \A i \in 1..Len(pushed) : units'[pushed[i]].serial = Current
<1>1. /\ pushed \in Seq(Nat) /\ Len(pushed) \in Nat \ {0} /\ pushed[Len(pushed)] = u
      /\ \A i \in 1..Len(pushed) : pushed[i] = u \/ (\E j \in 1..Len(all) : pushed[i] = all[j])
      /\ pushed # <<>>
  <2>1. CASE pushed = <<u>>
    <3>1. <<u>> \in Seq(Nat) /\ Len(<<u>>) = 1 /\ <<u>>[1] = u /\ <<u>> # <<>>
      OBVIOUS
    <3>2. \A i \in 1..1 : i = 1
      OBVIOUS
    <3> QED
      BY <2>1, <3>1, <3>2
  <2>2. CASE pushed = Append(all, u)
    <3>1. /\ pushed \in Seq(Nat) /\ Len(pushed) = Len(all) + 1 /\ Len(all) \in Nat
          /\ \A i \in 1..Len(all) : pushed[i] = all[i]
          /\ pushed[Len(all) + 1] = u
      BY <2>2, AppendProperties
    <3>2. \A i \in 1..(Len(all) + 1) : i \in 1..Len(all) \/ i = Len(all) + 1
      BY <3>1
    <3>3. Len(pushed) \in Nat \ {0} /\ pushed # <<>> /\ pushed[Len(pushed)] = u
      BY <3>1
    <3>4. \A i \in 1..Len(pushed) : pushed[i] = u \/ (\E j \in 1..Len(all) : pushed[i] = all[j])
      BY <3>1, <3>2
    <3> QED
      BY <3>1, <3>3, <3>4
  <2> QED
    BY <2>1, <2>2
<1>2. ASSUME NEW i \in 1..Len(pushed)
      PROVE  pushed[i] \in Sent' /\ units'[pushed[i]].serial = Current
  <2>1. CASE pushed[i] = u
    BY <2>1
  <2>2. ASSUME NEW j \in 1..Len(all), pushed[i] = all[j]
        PROVE  pushed[i] \in Sent' /\ units'[pushed[i]].serial = Current
    <3>1. all[j] \in Sent /\ units[all[j]].serial = Current
      BY DEF AllSent
    <3> QED
      BY <2>2, <3>1
  <2> QED
    BY <1>1, <2>1, <2>2
<1>3. AllSent(pushed)'
  BY <1>2 DEF AllSent
<1>4. ASSUME NEW v, Follows(v, all)
      PROVE  Follows(v, pushed)'
  <2>1. Linked(v, pushed)'
    <3>1. CASE pushed = <<u>> /\ units'[u].key
      <4>1. ASSUME NEW i \in 1..Len(pushed)
            PROVE  units'[pushed[i]].key
        <5>1. pushed[i] = u
          BY <3>1, <4>1
        <5> QED
          BY <3>1, <5>1
      <4> QED
        BY <4>1 DEF Linked
    <3>2. CASE /\ pushed = Append(all, u)
               /\ units'[u].key \/ (source = "sending" /\ ~ Input.closed)
      <4>1. Linked(v, all)
        BY <1>4 DEF Follows
      <4>2. units'[u].key \/ u = (IF all = <<>> THEN v ELSE all[Len(all)]) + 1
        <5>1. CASE source = "sending" /\ ~ Input.closed
          <6>1. Len(units) = IF all = <<>> THEN v ELSE all[Len(all)]
            BY <1>4, <5>1 DEF Follows
          <6> QED
            BY <6>1
        <5> QED
          BY <3>2, <5>1
      <4>3. Linked(v, Append(all, u))'
        BY <4>1, <4>2, UnitPushed
      <4> QED
        BY <3>2, <4>3
    <3> QED
      BY <3>1, <3>2
  <2>2. Len(units') = IF pushed = <<>> THEN v ELSE pushed[Len(pushed)]
    BY <1>1
  <2> QED
    BY <2>1, <2>2 DEF Follows
<1> QED
  BY <1>1, <1>2, <1>3, <1>4

LEMMA SendUnitKeeps == ASSUME VideoInvariant, SendUnit PROVE VideoInvariant'
<1>0. PICK t, u : t = router.route.queue /\ u = Len(units) + 1
  OBVIOUS
<1>1. PICK key \in {k \in BOOLEAN : source = "awaiting" => k} :
        /\ units' = Append(units, [serial |-> Current, key |-> key])
        /\ IF stream = NoStream \/ router.route = NoRoute
           THEN source' = "sending" /\ UNCHANGED queues
           ELSE IF stream.terminal \/ router.route.terminal \/ queues[t].closed
           THEN source' = "ended" /\ UNCHANGED queues
           ELSE IF Refuses(t, key)
           THEN source' = "awaiting" /\ UNCHANGED queues
           ELSE source' = "sending" /\ queues' = PushUnit(t, u)
  BY <1>0 DEF SendUnit
<1>2. /\ source # "ended" /\ ~ router.closed
      /\ UNCHANGED <<epochs, router, stream, outbox, admission, worker, supervisor, window>>
  BY DEF SendUnit
<1>3. key \in BOOLEAN /\ (~ key => source = "sending")
  BY <1>1, <1>2, Parts DEF VideoTypes
<1>4. /\ units' \in Seq([serial : SomeSerial, key : BOOLEAN])
      /\ Len(units') = u /\ Len(units) \in Nat
      /\ \A i \in Sent : units'[i] = units[i] /\ i \in Sent' /\ i \in Nat
      /\ u \in Sent' /\ units'[u].serial = Current
      /\ units'[u].key = key
      /\ \A i \in Sent' : i \in Sent \/ i = u
      /\ \A q : AllSent(q) => AllSent(q)'
      /\ \A s, q : AllSentIn(s, q) => AllSentIn(s, q)'
  BY <1>0, <1>1, <1>3, UnitsGrow
<1>5. u \in Nat
  BY <1>0, <1>4
<1> DEFINE Outside == ~ Routed /\ UNCHANGED queues
           Refused == Routed /\ UNCHANGED queues /\ source' \in {"ended", "awaiting"}
           Pushed == /\ Routed /\ source' = "sending" /\ ~ queues[t].closed
                     /\ queues' = PushUnit(t, u)
                     /\ Saturated(t) => key
<1>6. Outside \/ Refused \/ Pushed
  <2>1. CASE stream = NoStream \/ router.route = NoRoute
    <3>1. ~ Routed
      BY <1>2, <2>1, Parts DEF RoutesHold, Routed, NoRoute
    <3> QED
      BY <1>1, <2>1, <3>1
  <2>2. CASE ~ (stream = NoStream \/ router.route = NoRoute)
    <3>1. Routed
      BY <2>2, Parts DEF RoutesHold
    <3>2. CASE stream.terminal \/ router.route.terminal \/ queues[t].closed
      BY <1>1, <2>2, <3>1, <3>2
    <3>3. CASE ~ (stream.terminal \/ router.route.terminal \/ queues[t].closed) /\ Refuses(t, key)
      BY <1>1, <2>2, <3>1, <3>3
    <3>4. CASE ~ (stream.terminal \/ router.route.terminal \/ queues[t].closed) /\ ~ Refuses(t, key)
      BY <1>1, <2>2, <3>1, <3>4 DEF Refuses
    <3> QED
      BY <3>2, <3>3, <3>4
  <2> QED
    BY <2>1, <2>2
<1> HIDE DEF Outside, Refused, Pushed
<1>7. /\ \A s : IsCurrent(s)' <=> IsCurrent(s)
      /\ Routed' <=> Routed
      /\ Current' = Current
      /\ DecodedLast' = DecodedLast
  BY <1>2, NamesKept DEF DecodedLast
<1>8. ASSUME Pushed
      PROVE  /\ queues' \in [Serials -> InputQueues]
             /\ queues'[t].config = queues[t].config /\ queues'[t].popped = queues[t].popped
             /\ AllSent(queues[t].units)'
             /\ \A q \in Serials : q # t => queues'[q] = queues[q]
             /\ \A v : Follows(v, Input.units) => Follows(v, Input.units)'
             /\ \A i \in 1..Len(Input'.units) : units'[Input'.units[i]].serial = Current
  <2>1. PICK all : all = queues[t].units
    OBVIOUS
  <2>3. PICK pushed : pushed = IF Saturated(t) THEN <<u>> ELSE Append(all, u)
    OBVIOUS
  <2>4. /\ t \in Serials /\ Input = queues[t] /\ all \in Seq(Nat) /\ AllSent(all)
        /\ queues[t] \in InputQueues
    BY <1>0, <1>8, <2>1, InputKnows, QueueKnows DEF Pushed, Input
  <2>5. \A i \in 1..Len(all) : units[all[i]].serial = Current
    BY <1>8, <2>1, <2>4, Parts DEF UnitsHold, Pushed
  <2>6. \/ pushed = <<u>> /\ units'[u].key
        \/ /\ pushed = Append(all, u)
           /\ units'[u].key \/ (source = "sending" /\ ~ Input.closed)
    <3>1. CASE Saturated(t)
      BY <1>4, <1>8, <2>3, <3>1 DEF Pushed
    <3>2. CASE ~ Saturated(t)
      <4>1. units'[u].key \/ (source = "sending" /\ ~ Input.closed)
        BY <1>3, <1>4, <1>8, <2>4 DEF Pushed
      <4> QED
        BY <2>3, <3>2, <4>1
    <3> QED
      BY <3>1, <3>2
  <2>7. /\ pushed \in Seq(Nat) /\ AllSent(pushed)'
        /\ \A v : Follows(v, all) => Follows(v, pushed)'
        /\ \A i \in 1..Len(pushed) : units'[pushed[i]].serial = Current
    <3>1. /\ Len(units) \in Nat /\ Len(units') = u /\ u = Len(units) + 1 /\ u \in Nat
          /\ u \in Sent' /\ units'[u].serial = Current
      BY <1>0, <1>4
    <3>2. \A i \in Sent : units'[i] = units[i] /\ i \in Sent'
      BY <1>4
    <3>3. all \in Seq(Nat) /\ AllSent(all)
      BY <2>4
    <3> QED
      BY <1>5, <2>5, <2>6, <3>1, <3>2, <3>3, InputGrows
  <2>8. PICK in : in = [config |-> queues[t].config, units |-> pushed,
                        popped |-> queues[t].popped, closed |-> queues[t].closed]
    OBVIOUS
  <2>9. in = [queues[t] EXCEPT !.units = pushed] /\ in \in InputQueues
    <3>1. in = [queues[t] EXCEPT !.units = pushed]
      BY <2>4, <2>8, UnitsChanged
    <3>2. in \in InputQueues
      BY <2>4, <2>7, <3>1 DEF InputQueues
    <3> QED
      BY <3>1, <3>2
  <2>10. queues' = [queues EXCEPT ![t] = in]
    <3>1. queues' = [queues EXCEPT ![t].units = IF Saturated(t) THEN <<u>> ELSE Append(@, u)]
      BY <1>8 DEF Pushed, PushUnit
    <3>2. (IF Saturated(t) THEN <<u>> ELSE Append(queues[t].units, u)) = pushed
      BY <2>1, <2>3
    <3>3. queues' = [queues EXCEPT ![t] = [queues[t] EXCEPT !.units = pushed]]
      BY <3>1, <3>2
    <3> QED
      BY <2>9, <3>3
  <2>11. /\ queues' \in [Serials -> InputQueues] /\ queues'[t] = in
         /\ \A q \in Serials : q # t => queues'[q] = queues[q]
    BY <2>4, <2>9, <2>10, QueueChanged
  <2>12. /\ in.units = pushed /\ in.config = queues[t].config /\ in.popped = queues[t].popped
    BY <2>8
  <2>13. Input' = in /\ Input.units = all
    BY <1>0, <1>2, <2>1, <2>4, <2>11 DEF Input
  <2>14. \A v : Follows(v, Input.units) => Follows(v, Input.units)'
    BY <2>7, <2>12, <2>13
  <2>15. AllSent(queues[t].units)'
    BY <1>0, <1>2, <2>7, <2>11, <2>12 DEF AllSent
  <2> QED
    BY <2>7, <2>11, <2>12, <2>13, <2>14, <2>15
<1>9. /\ queues' \in [Serials -> InputQueues]
      /\ \A q \in Serials : /\ queues'[q].config <= Current /\ queues'[q].popped <= Current
                            /\ AllSent(queues[q].units)'
                            /\ q # t => queues'[q] = queues[q]
      /\ Routed => Input'.config = Input.config /\ Input'.popped = Input.popped
  <2>1. CASE Pushed
    <3>1. ASSUME NEW q \in Serials
          PROVE  /\ queues'[q].config <= Current /\ queues'[q].popped <= Current
                 /\ AllSent(queues[q].units)'
                 /\ q # t => queues'[q] = queues[q]
      <4>1. CASE q = t
        BY <1>8, <2>1, <4>1, QueueKnows
      <4>2. CASE q # t
        <5>1. queues'[q] = queues[q] /\ AllSent(queues[q].units)
          BY <1>8, <2>1, <4>2, QueueKnows
        <5>2. AllSent(queues[q].units)'
          BY <1>4, <5>1 DEF AllSent
        <5> QED
          BY <5>1, <5>2, QueueKnows
      <4> QED
        BY <4>1, <4>2
    <3>2. Input'.config = Input.config /\ Input'.popped = Input.popped
      BY <1>0, <1>2, <1>8, <2>1 DEF Input
    <3> QED
      BY <1>8, <2>1, <3>1, <3>2
  <2>2. CASE Outside \/ Refused
    <3>1. queues' = queues /\ Input' = Input
      BY <1>2, <2>2 DEF Outside, Refused, Input
    <3>2. \A q \in Serials : AllSent(queues[q].units)'
      BY <1>4, <3>1, QueueKnows DEF AllSent
    <3> QED
      BY <3>1, <3>2, QueueKnows, RouterKnows
  <2> QED
    BY <1>6, <2>1, <2>2
<1>10. ASSUME Routed
       PROVE  /\ \A v : Follows(v, Input.units) => Follows(v, Input.units)'
              /\ \A i \in 1..Len(Input'.units) : units'[Input'.units[i]].serial = Current
  <2>1. CASE Pushed
    BY <1>8, <2>1
  <2>2. CASE Refused
    <3>1. Input' = Input /\ source' \in {"ended", "awaiting"}
      BY <1>2, <2>2 DEF Refused, Input
    <3>2. AllSent(Input.units)
      BY <1>10, InputKnows, QueueKnows DEF Input
    <3>3. \A v : Follows(v, Input.units) => Follows(v, Input.units)'
      <4> SUFFICES ASSUME NEW v, Follows(v, Input.units) PROVE Follows(v, Input.units)'
        OBVIOUS
      <4>1. PICK all : all = Input.units
        OBVIOUS
      <4>2. Linked(v, all)'
        BY <1>4, <3>2, <4>1, LinksKept DEF Follows
      <4>3. Linked(v, Input.units)'
        BY <3>1, <4>1, <4>2
      <4> QED
        BY <3>1, <4>3 DEF Follows
    <3>4. \A i \in 1..Len(Input.units) : units'[Input.units[i]].serial = Current
      BY <1>4, <1>10, <3>2, Parts DEF UnitsHold, AllSent
    <3> QED
      BY <3>1, <3>3, <3>4
  <2> QED
    BY <1>6, <1>10, <2>1, <2>2 DEF Outside
<1>11. VideoTypes'
  <2>1. source' \in {"sending", "awaiting", "ended"}
    BY <1>1
  <2> QED
    BY <1>2, <1>4, <1>7, <1>9, <2>1, Parts DEF VideoTypes
<1>12. OnlyThePast'
  <2>1. \A i \in Sent' : units'[i].serial <= Current
    BY <1>4, UnitTyped, RouterKnows
  <2> QED
    BY <1>0, <1>2, <1>7, <1>9, <2>1, Parts DEF OnlyThePast
<1>13. DecoderHolds'
  BY <1>2, <1>4, Parts DEF DecoderHolds
<1>14. PublishedHolds' /\ ShownHolds'
  BY <1>2, <1>4, Parts DEF PublishedHolds, ShownHolds
<1>15. RoutesHold'
  BY <1>2, <1>7, Parts DEF RoutesHold
<1>16. OthersAreOver'
  <2>1. ASSUME NEW q \in Serials, q # router.route.queue
        PROVE  /\ ~ IsCurrent(queues'[q].config)
               /\ \A i \in 1..Len(queues'[q].units) : ~ IsCurrent(units'[queues'[q].units[i]].serial)
    <3>1. queues'[q] = queues[q] /\ AllSent(queues[q].units)
      BY <1>0, <1>9, <2>1, QueueKnows
    <3>2. \A i \in 1..Len(queues[q].units) :
            units'[queues[q].units[i]] = units[queues[q].units[i]]
      BY <1>4, <3>1 DEF AllSent
    <3> QED
      BY <2>1, <3>1, <3>2, QueueIsOver
  <2> QED
    BY <1>2, <1>7, <2>1, Parts DEF OthersAreOver
<1>17. ConfigHolds'
  BY <1>2, <1>7, <1>9, <1>10, Parts DEF ConfigHolds
<1>18. UnitsHold'
  <2>1. Routed' /\ worker'.pc \in {"config", "reopen"} /\ IsCurrent(worker.epoch)' =>
          Follows(0, Input.units)'
    BY <1>2, <1>7, <1>10, Parts DEF UnitsHold
  <2>2. Routed' /\ IsCurrent(worker.decoder.serial)' => Follows(DecodedLast, Input.units)'
    BY <1>2, <1>7, <1>10, Parts DEF UnitsHold
  <2> QED
    BY <1>7, <1>10, <2>1, <2>2 DEF UnitsHold
<1>19. ReferenceHolds'
  BY <1>2, <1>4, <1>7, Parts DEF ReferenceHolds, DecoderHolds
<1>20. RouteIsOver'
  BY <1>2, <1>7, <1>9, Parts DEF RouteIsOver
<1>21. FailureHolds'
  <2>1. stream.terminal => Routed
    BY Parts DEF RoutesHold, NoStream
  <2> QED
    BY <1>2, <1>9, <2>1, Parts DEF FailureHolds
<1>22. StopHolds'
  BY <1>2, Parts DEF StopHolds
<1> QED
  BY <1>11, <1>12, <1>13, <1>14, <1>15, <1>16, <1>17, <1>18, <1>19, <1>20, <1>21, <1>22
     DEF VideoInvariant

-----------------------------------------------------------------------------
(***************************************************************************)
(* The UI thread: it takes publications and confirms what it showed, and   *)
(* leaves the stream the one it was unless the worker has stopped.         *)
(***************************************************************************)
LEMMA WindowMoves ==
    ASSUME VideoInvariant, window' \in Windows, ShownHolds', admission' \in Nat,
           outbox' = outbox \/ (outbox # <<>> /\ outbox' = Tail(outbox)),
           stream' \in Streams, stream'.serial = stream.serial,
           stream'.terminal => stream.terminal,
           stream.serial = 0 => stream' = stream,
           UNCHANGED <<epochs, router, queues, units, source, worker, supervisor>>
    PROVE  VideoInvariant'
<1>1. /\ \A s : IsCurrent(s)' <=> IsCurrent(s)
      /\ Routed' <=> Routed
      /\ Current' = Current
  BY DEF IsCurrent, Routed, Current
<1>2. /\ Input' = Input /\ DecodedLast' = DecodedLast
      /\ \A u, q : Follows(u, q) => Follows(u, q)'
  BY DEF Input, DecodedLast, Follows, Linked
<1>3. /\ outbox' \in Seq(Publications) /\ Len(outbox') \in Nat /\ Len(outbox) \in Nat
      /\ \A i \in 1..Len(outbox') : \E j \in 1..Len(outbox) :
           outbox'[i] = outbox[j] /\ (j = Len(outbox) => i = Len(outbox'))
  <2>1. outbox \in Seq(Publications)
    BY Parts DEF VideoTypes
  <2>2. CASE outbox' = outbox
    BY <2>1, <2>2
  <2>3. CASE outbox # <<>> /\ outbox' = Tail(outbox)
    <3>1. /\ outbox' \in Seq(Publications) /\ Len(outbox') = Len(outbox) - 1
          /\ \A i \in 1..Len(outbox') : outbox'[i] = outbox[i + 1]
      BY <2>1, <2>3, HeadTailProperties
    <3>2. Len(outbox) \in Nat
      BY <2>1
    <3>3. \A i \in 1..Len(outbox') : i + 1 \in 1..Len(outbox) /\ (i + 1 = Len(outbox) => i = Len(outbox'))
      BY <3>1, <3>2
    <3> QED
      BY <3>1, <3>2, <3>3
  <2> QED
    BY <2>2, <2>3
<1>4. VideoTypes'
  BY <1>1, <1>3, Parts DEF VideoTypes
<1>5. OnlyThePast'
  <2>1. \A s : AllSent(s)' <=> AllSent(s)
    BY DEF AllSent, Sent
  <2>2. \A i \in 1..Len(outbox') : outbox'[i].kind # "stopped" => outbox'[i].serial \in 1..Current
    BY <1>3, Parts DEF OnlyThePast
  <2> QED
    BY <1>1, <2>1, <2>2, Parts DEF OnlyThePast, Sent
<1>6. DecoderHolds'
  BY Parts DEF DecoderHolds, AllSentIn, Sent
<1>7. PublishedHolds'
  BY <1>3, Parts DEF PublishedHolds, Sent
<1>8. RoutesHold'
  <2>1. stream' = NoStream => stream = NoStream
    BY Parts DEF RoutesHold, NoStream
  <2>2. stream = NoStream => stream' = NoStream
    BY DEF NoStream
  <2> QED
    BY <1>1, <2>1, <2>2, Parts DEF RoutesHold
<1>9. OthersAreOver'
  BY <1>1, Parts DEF OthersAreOver
<1>10. ConfigHolds'
  BY <1>1, <1>2, Parts DEF ConfigHolds
<1>11. UnitsHold'
  BY <1>1, <1>2, Parts DEF UnitsHold
<1>12. ReferenceHolds'
  BY <1>1, Parts DEF ReferenceHolds
<1>13. RouteIsOver'
  BY <1>1, <1>2, Parts DEF RouteIsOver
<1>14. FailureHolds'
  BY <1>2, Parts DEF FailureHolds
<1>15. StopHolds'
  <2>1. \A i \in 1..Len(outbox') : outbox'[i].kind = "stopped" =>
          outbox'[i] = Stopped /\ i = Len(outbox') /\ supervisor.pc = "ended"
    BY <1>3, Parts DEF StopHolds
  <2> QED
    BY <2>1, Parts DEF StopHolds, Stopped, Publication
<1> QED
  BY <1>4, <1>5, <1>6, <1>7, <1>8, <1>9, <1>10, <1>11, <1>12, <1>13, <1>14, <1>15
     DEF VideoInvariant

LEMMA WindowKnows ==
    ASSUME VideoInvariant
    PROVE  /\ window \in Windows
           /\ window = [pc |-> window.pc, owner |-> window.owner,
                        configured |-> window.configured, pending |-> window.pending,
                        failed |-> window.failed]
           /\ window.pc \in {"idle", "events", "ready"} /\ window.owner \in Nat
           /\ window.configured \in Nat /\ window.pending \in Nat /\ window.failed \in BOOLEAN
           /\ stream \in Streams /\ admission \in Nat
           /\ stream.latest # 0 =>
                stream.latest \in Sent /\ units[stream.latest].serial = stream.serial
<1>1. window \in Windows /\ stream \in Streams /\ admission \in Nat
  BY Parts DEF VideoTypes
<1>2. stream.latest # 0 => stream.latest \in Sent /\ units[stream.latest].serial = stream.serial
  BY Parts DEF ShownHolds
<1> QED
  BY <1>1, <1>2 DEF Windows

LEMMA DrainAdmissionsKeeps == ASSUME VideoInvariant, DrainAdmissions PROVE VideoInvariant'
<1>1. /\ admission' = 0
      /\ UNCHANGED <<epochs, router, queues, stream, outbox, units, source, worker, supervisor>>
  BY DEF DrainAdmissions
<1>2. /\ window' \in Windows /\ window'.pc = "events"
  <2>1. CASE admission = 0 \/ admission < window.owner
    <3>1. window' = [window EXCEPT !.pc = "events"]
      BY <2>1 DEF DrainAdmissions
    <3> QED
      BY <3>1, WindowKnows DEF Windows
  <2>2. CASE ~ (admission = 0 \/ admission < window.owner)
    <3>1. window' = [window EXCEPT !.pc = "events", !.owner = admission, !.configured = 0,
                                   !.pending = 0]
      BY <2>2 DEF DrainAdmissions
    <3>2. window' = [pc |-> "events", owner |-> admission, configured |-> 0, pending |-> 0,
                     failed |-> window.failed]
      BY <3>1, WindowKnows
    <3> QED
      BY <3>2, WindowKnows DEF Windows
  <2> QED
    BY <2>1, <2>2
<1>3. ShownHolds'
  BY <1>1, <1>2, WindowKnows DEF ShownHolds, Sent
<1> QED
  BY <1>1, <1>2, <1>3, WindowKnows, WindowMoves

LEMMA EventsDrainedKeeps == ASSUME VideoInvariant, EventsDrained PROVE VideoInvariant'
<1>1. /\ window' = [window EXCEPT !.pc = "idle"]
      /\ UNCHANGED <<epochs, router, queues, stream, outbox, admission, units, source, worker,
                     supervisor>>
  BY DEF EventsDrained, sharedVars
<1>2. window' \in Windows /\ window'.pc = "idle"
  BY <1>1, WindowKnows DEF Windows
<1>3. ShownHolds'
  BY <1>1, <1>2, WindowKnows DEF ShownHolds, Sent
<1> QED
  BY <1>1, <1>2, <1>3, WindowKnows, WindowMoves

LEMMA AnnounceKeeps == ASSUME VideoInvariant, Announce PROVE VideoInvariant'
<1>1. /\ window' = [window EXCEPT !.pc = "idle", !.pending = 0]
      /\ UNCHANGED <<epochs, router, queues, stream, outbox, admission, units, source, worker,
                     supervisor>>
  BY DEF Announce, sharedVars
<1>2. window' = [pc |-> "idle", owner |-> window.owner, configured |-> window.configured,
                 pending |-> 0, failed |-> window.failed]
  BY <1>1, WindowKnows
<1>3. window' \in Windows /\ window'.pc = "idle"
  BY <1>2, WindowKnows DEF Windows
<1>4. ShownHolds'
  BY <1>1, <1>3, WindowKnows DEF ShownHolds, Sent
<1> QED
  BY <1>1, <1>3, <1>4, WindowKnows, WindowMoves

LEMMA StreamKnows ==
    ASSUME VideoInvariant
    PROVE  /\ stream = [serial |-> stream.serial, latest |-> stream.latest,
                        delivered |-> stream.delivered, ready |-> stream.ready,
                        terminal |-> stream.terminal]
           /\ stream.serial \in SomeSerial /\ stream.latest \in Nat /\ stream.delivered \in Nat
           /\ stream.ready \in BOOLEAN /\ stream.terminal \in BOOLEAN
           /\ stream.serial = 0 => stream = NoStream
<1>1. stream \in Streams
  BY Parts DEF VideoTypes
<1>2. stream.serial = 0 => stream = NoStream
  BY Parts DEF RoutesHold
<1> QED
  BY <1>1, <1>2 DEF Streams

LEMMA RenderKeeps == ASSUME VideoInvariant, Render PROVE VideoInvariant'
<1>1. /\ window.pc = "idle" /\ window.pending # 0
      /\ UNCHANGED <<epochs, router, queues, outbox, admission, units, source, worker,
                     supervisor>>
  BY DEF Render
<1>2. CASE Confirms(window.pending)
  <2>1. /\ stream' = IF stream.terminal
                     THEN [stream EXCEPT !.latest = 0, !.delivered = 0, !.ready = FALSE]
                     ELSE [stream EXCEPT !.ready = TRUE]
        /\ window' = [window EXCEPT !.pc = "ready"]
    BY <1>2 DEF Render
  <2>2. window' \in Windows /\ window'.pending = window.pending
    BY <2>1, WindowKnows DEF Windows
  <2>3. stream # NoStream /\ stream.latest = window.pending
    BY <1>2 DEF Confirms
  <2>4. window.pending \in Sent /\ units[window.pending].serial = stream.serial
    BY <1>1, <2>3, WindowKnows
  <2>5. CASE stream.terminal
    <3>1. stream' = [serial |-> stream.serial, latest |-> 0, delivered |-> 0, ready |-> FALSE,
                     terminal |-> stream.terminal]
      BY <2>1, <2>5, StreamKnows
    <3>2. stream' \in Streams
      BY <3>1, StreamKnows DEF Streams
    <3>3. ShownHolds'
      BY <3>1 DEF ShownHolds
    <3> QED
      BY <1>1, <2>2, <2>3, <3>1, <3>2, <3>3, StreamKnows, WindowKnows, WindowMoves
  <2>6. CASE ~ stream.terminal
    <3>1. stream' = [serial |-> stream.serial, latest |-> stream.latest,
                     delivered |-> stream.delivered, ready |-> TRUE,
                     terminal |-> stream.terminal]
      BY <2>1, <2>6, StreamKnows
    <3>2. stream' \in Streams
      BY <3>1, StreamKnows DEF Streams
    <3>3. ShownHolds'
      BY <1>1, <2>2, <2>3, <2>4, <3>1 DEF ShownHolds, Sent
    <3> QED
      BY <1>1, <2>2, <2>3, <3>1, <3>2, <3>3, StreamKnows, WindowKnows, WindowMoves
  <2> QED
    BY <2>5, <2>6
<1>3. CASE ~ Confirms(window.pending)
  <2>1. window' = [window EXCEPT !.pending = 0] /\ stream' = stream
    BY <1>3 DEF Render
  <2>2. window' \in Windows /\ window'.pc = "idle"
    BY <1>1, <2>1, WindowKnows DEF Windows
  <2>3. ShownHolds'
    BY <1>1, <2>1, <2>2, WindowKnows DEF ShownHolds, Sent
  <2> QED
    BY <1>1, <2>1, <2>2, <2>3, WindowKnows, WindowMoves
<1> QED
  BY <1>2, <1>3

LEMMA WindowChanged ==
    ASSUME NEW w \in Windows, NEW configured \in Nat, NEW pending \in Nat
    PROVE  /\ [w EXCEPT !.configured = configured, !.pending = pending] \in Windows
           /\ [w EXCEPT !.configured = configured, !.pending = pending].pc = w.pc
<1> DEFINE one == [w EXCEPT !.configured = configured]
           two == [one EXCEPT !.pending = pending]
<1>1. one \in Windows /\ one.pc = w.pc
  BY DEF Windows
<1>2. [w EXCEPT !.configured = configured, !.pending = pending] = two
  BY DEF Windows
<1> HIDE DEF one
<1>3. two \in Windows /\ two.pc = one.pc
  BY <1>1 DEF Windows
<1> QED
  BY <1>1, <1>2, <1>3

LEMMA WindowFails ==
    ASSUME NEW w \in Windows
    PROVE  /\ [w EXCEPT !.configured = 0, !.pending = 0, !.failed = TRUE] \in Windows
           /\ [w EXCEPT !.configured = 0, !.pending = 0, !.failed = TRUE].pc = w.pc
<1> DEFINE cleared == [w EXCEPT !.configured = 0, !.pending = 0]
<1>1. cleared \in Windows /\ cleared.pc = w.pc
  BY WindowChanged
<1>2. [w EXCEPT !.configured = 0, !.pending = 0, !.failed = TRUE] =
        [cleared EXCEPT !.failed = TRUE]
  BY DEF Windows
<1> HIDE DEF cleared
<1>3. [cleared EXCEPT !.failed = TRUE] \in Windows
      /\ [cleared EXCEPT !.failed = TRUE].pc = cleared.pc
  BY <1>1 DEF Windows
<1> QED
  BY <1>1, <1>2, <1>3

\* What the window makes of a publication leaves it typed, and its place.
LEMMA ShownTyped ==
    ASSUME VideoInvariant, NEW p, p.kind = "stopped" \/ GenerationOf(p) \in Nat, p.unit \in Nat
    PROVE  Shown(p) \in Windows /\ Shown(p).pc = window.pc
<1> DEFINE g == GenerationOf(p)
           a == p.kind = "selected" /\ window.owner = g /\ window.configured <= g
           b == p.kind = "frame" /\ window.owner = g /\ window.configured = g
           c == p.kind = "failed" /\ window.owner = g
           d == p.kind = "stopped"
           wa == [window EXCEPT !.configured = g, !.pending = 0]
           wb == [window EXCEPT !.pending = p.unit]
           wc == [window EXCEPT !.configured = 0, !.pending = 0, !.failed = TRUE]
           wd == [window EXCEPT !.configured = 0, !.pending = 0]
<1>1. Shown(p) = CASE a -> wa [] b -> wb [] c -> wc [] d -> wd [] OTHER -> window
  BY DEF Shown
<1>2. /\ a => ~ b /\ ~ c /\ ~ d
      /\ b => ~ a /\ ~ c /\ ~ d
      /\ c => ~ a /\ ~ b /\ ~ d
      /\ d => ~ a /\ ~ b /\ ~ c
  OBVIOUS
<1>3. a => wa \in Windows /\ wa.pc = window.pc
  <2>1. a => g \in Nat
    OBVIOUS
  <2>2. window \in Windows
    BY WindowKnows
  <2> HIDE DEF a, g
  <2> QED
    BY <2>1, <2>2, WindowChanged
<1>4. wb \in Windows /\ wb.pc = window.pc
  BY WindowKnows DEF Windows
<1>5. wc \in Windows /\ wc.pc = window.pc
  BY WindowKnows, WindowFails
<1>6. wd \in Windows /\ wd.pc = window.pc
  BY WindowKnows, WindowChanged
<1>7. window \in Windows
  BY WindowKnows
<1> HIDE DEF a, b, c, d, wa, wb, wc, wd
<1>8. CASE a
  <2>1. Shown(p) = wa
    BY <1>1, <1>2, <1>8, Zenon
  <2> QED
    BY <1>3, <1>8, <2>1
<1>9. CASE b
  <2>1. Shown(p) = wb
    BY <1>1, <1>2, <1>9, Zenon
  <2> QED
    BY <1>4, <2>1
<1>10. CASE c
  <2>1. Shown(p) = wc
    BY <1>1, <1>2, <1>10, Zenon
  <2> QED
    BY <1>5, <2>1
<1>11. CASE d
  <2>1. Shown(p) = wd
    BY <1>1, <1>2, <1>11, Zenon
  <2> QED
    BY <1>6, <2>1
<1>12. CASE ~ (a \/ b \/ c \/ d)
  <2>1. Shown(p) = window
    BY <1>1, <1>12, Zenon
  <2> QED
    BY <1>7, <2>1
<1> QED
  BY <1>8, <1>9, <1>10, <1>11, <1>12

LEMMA TakeEventKeeps == ASSUME VideoInvariant, TakeEvent PROVE VideoInvariant'
<1> DEFINE p == Head(outbox)
<1>1. /\ window.pc = "events" /\ outbox # <<>>
      /\ window' = Shown(p)
      /\ outbox' = IF p.kind = "stopped" THEN WithoutFrame(Tail(outbox)) ELSE Tail(outbox)
      /\ stream' = CASE p.kind = "stopped" -> NoStream
                     [] p.kind = "frame" -> [stream EXCEPT !.delivered = stream.latest]
                     [] OTHER -> stream
      /\ UNCHANGED <<epochs, router, queues, admission, units, source, worker, supervisor>>
  BY DEF TakeEvent
<1>2. /\ p = outbox[1] /\ 1 \in 1..Len(outbox) /\ p \in Publications
      /\ Tail(outbox) \in Seq(Publications) /\ Len(Tail(outbox)) = Len(outbox) - 1
      /\ Len(outbox) \in Nat
  <2>1. outbox \in Seq(Publications)
    BY Parts DEF VideoTypes
  <2>2. 1 \in 1..Len(outbox) /\ Len(outbox) \in Nat
    BY <1>1, <2>1
  <2> QED
    BY <1>1, <2>1, <2>2, HeadTailProperties, ElementOfSeq
<1>3. p.unit \in Nat /\ (p.kind = "stopped" \/ GenerationOf(p) \in Nat)
  <2>1. p.kind # "stopped" => p.serial \in 1..Current
    BY <1>2, Parts DEF OnlyThePast
  <2>2. epochs \in Seq(Nat)
    BY Parts DEF VideoTypes
  <2>3. p.kind # "stopped" => epochs[p.serial] \in Nat
    BY <2>1, <2>2, ElementOfSeq DEF Current
  <2>4. p.unit \in Nat
    BY <1>2 DEF Publications
  <2> QED
    BY <2>3, <2>4 DEF GenerationOf
<1>4. window' \in Windows /\ window'.pc = "events"
  BY <1>1, <1>3, ShownTyped
<1> HIDE DEF p
<1>5. CASE p.kind # "stopped"
  <2>1. outbox' = Tail(outbox)
    BY <1>1, <1>5
  <2>2. stream' \in {[stream EXCEPT !.delivered = stream.latest], stream}
    <3>1. CASE p.kind = "frame"
      BY <1>1, <1>5, <3>1, Zenon
    <3>2. CASE p.kind # "frame"
      BY <1>1, <1>5, <3>2, Zenon
    <3> QED
      BY <3>1, <3>2
  <2>3. /\ stream' \in Streams /\ stream'.serial = stream.serial
        /\ stream'.terminal = stream.terminal /\ stream'.latest = stream.latest
        /\ stream.serial = 0 => stream' = stream
    <3>1. CASE stream' = stream
      BY <3>1, WindowKnows
    <3>2. CASE stream' = [stream EXCEPT !.delivered = stream.latest]
      <4>1. stream' = [serial |-> stream.serial, latest |-> stream.latest,
                       delivered |-> stream.latest, ready |-> stream.ready,
                       terminal |-> stream.terminal]
        BY <3>2, StreamKnows
      <4>2. stream.serial = 0 => stream' = stream
        BY <4>1, StreamKnows DEF NoStream
      <4> QED
        BY <4>1, <4>2, StreamKnows DEF Streams
    <3> QED
      BY <2>2, <3>1, <3>2
  <2>4. ShownHolds'
    BY <1>1, <1>4, <2>3, WindowKnows DEF ShownHolds, Sent
  <2> QED
    BY <1>1, <1>4, <2>1, <2>3, <2>4, WindowKnows, WindowMoves
<1>6. CASE p.kind = "stopped"
  <2>1. /\ supervisor.pc = "ended" /\ router.closed /\ worker = NoWorker /\ Len(outbox) = 1
        /\ worker.pc = "none"
    BY <1>2, <1>6, Parts DEF StopHolds, RoutesHold
  <2>2. outbox' = <<>>
    <3>1. Tail(outbox) = <<>>
      <4>1. Tail(outbox) \in Seq(Publications) /\ Len(Tail(outbox)) = 0
        BY <1>2, <2>1
      <4> QED
        BY <4>1, EmptySeq
    <3> QED
      BY <1>1, <1>2, <1>6, <3>1, FrameRemoved
  <2>3. stream' = NoStream
    BY <1>1, <1>6, Zenon
  <2>4. /\ NoStream \in Streams /\ NoStream.serial = 0 /\ NoStream.latest = 0
        /\ ~ NoStream.ready /\ ~ NoStream.terminal
    <3>1. 0 \in SomeSerial /\ 0 \in Nat /\ FALSE \in BOOLEAN
      BY VideoAssumption DEF SomeSerial
    <3> QED
      BY <3>1 DEF NoStream, Streams
  <2>5. Current' = Current /\ \A s : ~ IsCurrent(s)'
    BY <1>1, <2>3, <2>4 DEF Current, IsCurrent
  <2>6. VideoTypes'
    BY <1>1, <1>4, <2>2, <2>3, <2>4, <2>5, Parts, EmptySeq DEF VideoTypes
  <2>7. OnlyThePast'
    <3>1. \A q : AllSent(q)' <=> AllSent(q)
      BY <1>1 DEF AllSent, Sent
    <3> QED
      BY <1>1, <2>2, <2>5, <3>1, Parts DEF OnlyThePast, Sent
  <2>8. DecoderHolds' /\ PublishedHolds' /\ StopHolds'
    BY <1>1, <2>1, <2>2, Parts DEF DecoderHolds, PublishedHolds, StopHolds, AllSentIn, Sent
  <2>9. ShownHolds'
    BY <2>3, <2>4 DEF ShownHolds
  <2>10. RoutesHold'
    BY <1>1, <2>1, <2>3, <2>4, Parts DEF RoutesHold, Routed
  <2>11. OthersAreOver'
    BY <2>5 DEF OthersAreOver
  <2>12. ConfigHolds'
    <3>1. Routed' /\ Input'.config # 0 => Input'.config = Current' /\ Follows(0, Input.units)'
      BY <1>1, <2>5, Parts DEF ConfigHolds, Routed, Input, Follows, Linked
    <3> QED
      BY <2>5, <3>1 DEF ConfigHolds
  <2>13. UnitsHold'
    BY <1>1, <2>5, Parts DEF UnitsHold, Routed, Input
  <2>14. ReferenceHolds'
    BY <1>1, <2>1 DEF ReferenceHolds
  <2>15. RouteIsOver' /\ FailureHolds'
    BY <1>1, <2>3, <2>4, Parts DEF RouteIsOver, FailureHolds, Routed, Input
  <2> QED
    BY <2>6, <2>7, <2>8, <2>9, <2>10, <2>11, <2>12, <2>13, <2>14, <2>15 DEF VideoInvariant
<1> QED
  BY <1>5, <1>6


-----------------------------------------------------------------------------
(***************************************************************************)
(* The invariant holds from the start and every step keeps it.             *)
(***************************************************************************)
LEMMA VideoInit == Init => VideoInvariant
<1> SUFFICES ASSUME Init PROVE VideoInvariant
  OBVIOUS
<1>1. /\ epochs = <<>> /\ units = <<>> /\ source = "sending"
      /\ router = [closed |-> FALSE, route |-> NoRoute]
      /\ queues = [s \in Serials |-> EmptyQueue]
      /\ stream = NoStream /\ outbox = <<>> /\ admission = 0
      /\ worker = NoWorker
      /\ supervisor = [pc |-> "loop", queue |-> 0, epoch |-> 0]
      /\ window = NoWindow
  BY DEF Init
<1>2. 0 \in SomeSerial /\ 0 \in Nat /\ FALSE \in BOOLEAN /\ Current = 0 /\ MaxEpochs \in Nat
      /\ Len(outbox) = 0 /\ Len(units) = 0
  BY <1>1, VideoAssumption DEF SomeSerial, Current
<1>3. /\ NoRoute \in Routes /\ NoRoute.queue = 0 /\ ~ NoRoute.terminal
      /\ NoStream \in Streams /\ NoStream.serial = 0 /\ NoStream.latest = 0
      /\ ~ NoStream.ready /\ ~ NoStream.terminal
  BY <1>2 DEF NoRoute, NoStream, Routes, Streams
<1>4. /\ EmptyQueue \in InputQueues /\ EmptyQueue.config = 0 /\ EmptyQueue.popped = 0
      /\ EmptyQueue.units = <<>>
  BY <1>2 DEF EmptyQueue, InputQueues
<1>5. /\ NoWindow \in Windows /\ NoWindow.pc = "idle"
  BY <1>2 DEF NoWindow, Windows
<1>6. /\ worker \in Workers /\ worker.frames = <<>> /\ worker.decoder = NoDecoder
      /\ worker.pc = "none" /\ worker.queue = 0 /\ worker.epoch = 0
      /\ NoDecoder.serial = 0 /\ NoDecoder.held = <<>>
  BY <1>1, NoWorkerTyped, NoDecoderTyped DEF NoWorker
<1>7. router.route = NoRoute /\ ~ Routed /\ \A s : ~ IsCurrent(s)
  BY <1>1, <1>3 DEF Routed, IsCurrent
<1>8. VideoTypes
  <2>1. /\ epochs \in Seq(Nat) /\ units \in Seq([serial : SomeSerial, key : BOOLEAN])
        /\ outbox \in Seq(Publications)
    BY <1>1, EmptySeq
  <2>2. supervisor \in Supervisors
    BY <1>1, <1>2 DEF Supervisors
  <2>3. router \in [closed : BOOLEAN, route : Routes]
    BY <1>1, <1>2, <1>3
  <2>4. queues \in [Serials -> InputQueues]
    BY <1>1, <1>4
  <2> QED
    BY <1>1, <1>2, <1>3, <1>5, <1>6, <2>1, <2>2, <2>3, <2>4 DEF VideoTypes
<1>9. OnlyThePast
  BY <1>1, <1>2, <1>3, <1>4, <1>6, <1>7 DEF OnlyThePast, AllSent, Sent
<1>10. DecoderHolds
  BY <1>6 DEF DecoderHolds, AllSentIn
<1>11. PublishedHolds /\ ShownHolds
  BY <1>1, <1>2, <1>3 DEF PublishedHolds, ShownHolds
<1>12. RoutesHold
  BY <1>1, <1>3, <1>6, <1>7 DEF RoutesHold
<1>13. OthersAreOver /\ ConfigHolds /\ UnitsHold /\ ReferenceHolds /\ RouteIsOver
  BY <1>7 DEF OthersAreOver, ConfigHolds, UnitsHold, ReferenceHolds, RouteIsOver
<1>14. FailureHolds /\ StopHolds
  BY <1>1, <1>2, <1>3 DEF FailureHolds, StopHolds
<1> QED
  BY <1>8, <1>9, <1>10, <1>11, <1>12, <1>13, <1>14 DEF VideoInvariant

LEMMA VideoStutters == ASSUME VideoInvariant, UNCHANGED vars PROVE VideoInvariant'
<1>1. UNCHANGED <<epochs, router, queues, stream, outbox, admission, units, source, worker,
                  supervisor, window>>
  BY DEF vars, sharedVars
<1>2. ShownHolds'
  BY <1>1, Parts DEF ShownHolds, Sent
<1> QED
  BY <1>1, <1>2, WindowKnows, WindowMoves

LEMMA VideoNext == ASSUME VideoInvariant, [Next]_vars PROVE VideoInvariant'
<1>1. CASE UNCHANGED vars
  BY <1>1, VideoStutters
<1>2. CASE Protocol
  BY <1>2, SendConfigKeeps, SendUnitKeeps, SendRefusedKeeps DEF Protocol
<1>3. CASE Supervise
  BY <1>3, ReapKeeps, CleanUpKeeps, StartKeeps, SpawnKeeps, SpawnFailsKeeps,
     ReportSpawnFailureKeeps, AbortStreamKeeps, StopKeeps DEF Supervise
<1>4. CASE Work
  BY <1>4, PopKeeps, FlushKeeps, FlushFailsKeeps, OpenDecoderKeeps, OpenFailsKeeps,
     SkipUnitKeeps, SubmitKeeps, SubmitFailsKeeps, EmitKeeps, PanicKeeps, FinishStreamKeeps
     DEF Work
<1>5. CASE Window
  BY <1>5, DrainAdmissionsKeeps, TakeEventKeeps, EventsDrainedKeeps, RenderKeeps, AnnounceKeeps
     DEF Window
<1>6. CASE Close
  BY <1>6, CloseKeeps
<1> QED
  BY <1>1, <1>2, <1>3, <1>4, <1>5, <1>6 DEF Next

(***************************************************************************)
(* Through configurations that overtake one another, threads that fail or  *)
(* are refused, failures and the end of the session, the video of a        *)
(* session stays as VideoInvariant says.                                   *)
(***************************************************************************)
THEOREM VideoInvariance == Spec => []VideoInvariant
<1>1. VideoInvariant /\ [Next]_vars => VideoInvariant'
  BY VideoNext
<1> QED
  BY VideoInit, <1>1, PTL DEF Spec

(***************************************************************************)
(* FramesOfTheirEpoch: no frame is published, or counted as shown, under   *)
(* an epoch its access unit was not sent in, whatever a decoder holds back *)
(* and whenever a configuration overtakes it.                              *)
(***************************************************************************)
THEOREM FramesKeepTheirEpoch == Spec => []FramesOfTheirEpoch
<1>1. ASSUME VideoInvariant PROVE FramesOfTheirEpoch
  <2>1. DOMAIN outbox = 1..Len(outbox)
    BY <1>1, Parts DEF VideoTypes
  <2>2. \A i \in DOMAIN outbox :
          outbox[i].kind = "frame" => outbox[i].serial = units[outbox[i].unit].serial
    BY <1>1, <2>1, Parts DEF PublishedHolds
  <2>3. Announces => stream.serial = units[window.pending].serial
    BY <1>1, Parts DEF ShownHolds, Announces, IsReady
  <2> QED
    BY <2>2, <2>3 DEF FramesOfTheirEpoch
<1> QED
  BY VideoInvariance, <1>1, PTL

(***************************************************************************)
(* NoBrokenReference: a decoder is never given a unit that refers to one   *)
(* it was not given, though queues refuse and forget and threads come and  *)
(* go.                                                                     *)
(***************************************************************************)
THEOREM NoReferenceIsBroken == Spec => []NoBrokenReference
<1>1. ASSUME VideoInvariant PROVE NoBrokenReference
  BY <1>1, Parts DEF ReferenceHolds, NoBrokenReference, Decodes
<1> QED
  BY VideoInvariance, <1>1, PTL

-----------------------------------------------------------------------------
(***************************************************************************)
(* What is heard of an epoch, and of the worker.                           *)
(***************************************************************************)
MentionedAt(q, s) == {i \in DOMAIN q : q[i].serial = s}

\* If every mention in r is one of q at another place, there are no more.
LEMMA MentionsMoved ==
    ASSUME NEW q \in Seq(Publications), NEW r \in Seq(Publications), NEW s, NEW k \in Nat,
           \A i \in 1..Len(r) :
             r[i].serial = s => i + k \in 1..Len(q) /\ q[i + k].serial = s
    PROVE  Mentions(r, s) <= Mentions(q, s)
<1> DEFINE R == MentionedAt(r, s)
           Q == MentionedAt(q, s)
           f == [i \in R |-> i + k]
<1>1. R \in SUBSET (1..Len(r)) /\ Q \in SUBSET (1..Len(q)) /\ Len(q) \in Nat
  BY DEF MentionedAt
<1>2. IsFiniteSet(Q)
  <2>1. IsFiniteSet(1..Len(q))
    BY <1>1, FS_Interval
  <2> HIDE DEF Q
  <2> QED
    BY <1>1, <2>1, FS_Subset
<1>3. f \in Injection(R, Q)
  <2>1. \A i \in R : i + k \in Q /\ i \in Nat
    BY DEF MentionedAt
  <2> HIDE DEF R, Q
  <2>2. f \in [R -> Q] /\ \A i, j \in R : f[i] = f[j] => i = j
    BY <2>1
  <2> QED
    BY <2>2 DEF Injection, IsInjective
<1>4. Cardinality(R) <= Cardinality(Q)
  <2> HIDE DEF R, Q, f
  <2> QED
    BY <1>2, <1>3, FS_Injection
<1> QED
  BY <1>4 DEF Mentions, MentionedAt

\* A failed stream has no worker and no supervisor that would speak of it.
LEMMA FailureIsTheLast ==
    ASSUME VideoInvariant, stream.terminal
    PROVE  /\ stream.serial # 0
           /\ worker.pc \notin {"none", "exit", "done"} =>
                ~ IsCurrent(worker.epoch) /\ ~ IsCurrent(worker.decoder.serial)
           /\ supervisor.pc = "report" => ~ IsCurrent(supervisor.epoch)
<1>1. stream.serial # 0
  BY StreamKnows DEF NoStream
<1>2. Routed
  BY <1>1, Parts DEF RoutesHold, NoStream
<1>3. ASSUME worker.pc \notin {"none", "exit", "done"}
      PROVE  ~ IsCurrent(worker.epoch) /\ ~ IsCurrent(worker.decoder.serial)
  <2>1. supervisor.pc # "abort"
    BY <1>3, SupervisorKnows
  <2>2. router.route.terminal
    BY <1>3, <2>1, Parts DEF FailureHolds
  <2>3. worker.queue # router.route.queue
    BY <1>2, <1>3, <2>2, Parts DEF RouteIsOver
  <2> QED
    BY <2>3, WorkerIsOver
<1>4. ASSUME supervisor.pc = "report"
      PROVE  ~ IsCurrent(supervisor.epoch)
  <2>1. worker.pc = "none"
    BY <1>4, SupervisorKnows
  <2>2. router.route.terminal
    BY <1>4, <2>1, Parts DEF FailureHolds
  <2>3. supervisor.queue # router.route.queue
    BY <1>2, <1>4, <2>2, Parts DEF RouteIsOver
  <2> QED
    BY <1>4, <2>3, Parts DEF OthersAreOver
<1> QED
  BY <1>1, <1>3, <1>4

\* What is taken is the first; with Stopped, the last, goes all there is.
LEMMA EventTaken ==
    ASSUME VideoInvariant, TakeEvent
    PROVE  outbox # <<>> /\ (outbox' = Tail(outbox) \/ outbox' = <<>>)
<1> DEFINE p == Head(outbox)
<1>1. /\ outbox # <<>>
      /\ outbox' = IF p.kind = "stopped" THEN WithoutFrame(Tail(outbox)) ELSE Tail(outbox)
  BY DEF TakeEvent
<1>2. outbox \in Seq(Publications)
  BY Parts DEF VideoTypes
<1>3. p = outbox[1] /\ 1 \in 1..Len(outbox) /\ Len(outbox) \in Nat
  BY <1>1, <1>2
<1>4. ASSUME p.kind = "stopped"
      PROVE  outbox' = <<>>
  <2>1. Len(outbox) = 1
    BY <1>3, <1>4, Parts DEF StopHolds
  <2>2. Tail(outbox) \in Seq(Publications) /\ Len(Tail(outbox)) = 0
    BY <1>1, <1>2, <2>1, HeadTailProperties
  <2>3. Tail(outbox) = <<>>
    BY <2>2, EmptySeq
  <2> QED
    BY <1>1, <1>4, <2>2, <2>3, FrameRemoved
<1> QED
  BY <1>1, <1>4

\* The steps that change what is still to be taken.
Taken == outbox # <<>> /\ outbox' = Tail(outbox)
StopSaid == supervisor.pc # "ended" /\ outbox' = Append(outbox, Stopped)

LEMMA NothingHeardAfterFailure ==
    ASSUME VideoInvariant, [Next]_vars, stream.terminal
    PROVE  outbox' = outbox \/ Taken \/ outbox' = <<>> \/ StopSaid
<1>1. CASE UNCHANGED vars
  BY <1>1 DEF vars, sharedVars
<1>2. CASE Protocol
  <2>1. CASE SendConfig
    <3>1. ~ router.closed /\ outbox' = OnlyStopped(outbox)
      BY <2>1 DEF SendConfig, AcceptConfig
    <3>2. outbox' = <<>>
      BY <3>1, RouterOpen
    <3> QED
      BY <3>2
  <2>2. CASE SendUnit
    BY <2>2 DEF SendUnit
  <2>3. CASE SendRefused
    BY <2>3 DEF SendRefused, sharedVars
  <2> QED
    BY <1>2, <2>1, <2>2, <2>3 DEF Protocol
<1>3. CASE Supervise
  <2>1. CASE Reap
    BY <2>1 DEF Reap, PublishPanic
  <2>2. CASE CleanUp
    BY <2>2 DEF CleanUp
  <2>3. CASE Start \/ Spawn \/ SpawnFails \/ AbortStream
    BY <2>3 DEF Start, Spawn, SpawnFails, AbortStream, sharedVars
  <2>4. CASE ReportSpawnFailure
    BY <2>4, FailureIsTheLast DEF ReportSpawnFailure, PublishControl
  <2>5. CASE Stop
    BY <2>5 DEF Stop, StopSaid
  <2> QED
    BY <1>3, <2>1, <2>2, <2>3, <2>4, <2>5 DEF Supervise
<1>4. CASE Work
  <2>1. CASE Pop \/ Flush \/ SkipUnit \/ Submit \/ Panic
    BY <2>1 DEF Pop, Flush, SkipUnit, Submit, Panic, sharedVars
  <2>2. CASE FlushFails
    BY <2>2, FailureIsTheLast DEF FlushFails, PublishControl
  <2>3. CASE OpenDecoder
    BY <2>3, FailureIsTheLast DEF OpenDecoder, Opens, PublishControl
  <2>4. CASE OpenFails
    BY <2>4, FailureIsTheLast DEF OpenFails, Opens, PublishControl
  <2>5. CASE SubmitFails
    BY <2>5, FailureIsTheLast DEF SubmitFails, PublishControl
  <2>6. CASE Emit
    BY <2>6, FailureIsTheLast DEF Emit, PublishFrame
  <2>7. CASE FinishStream
    BY <2>7 DEF FinishStream, PublishPanic
  <2> QED
    BY <1>4, <2>1, <2>2, <2>3, <2>4, <2>5, <2>6, <2>7 DEF Work
<1>5. CASE Window
  <2>1. CASE DrainAdmissions \/ EventsDrained \/ Render \/ Announce
    BY <2>1 DEF DrainAdmissions, EventsDrained, Render, Announce, sharedVars
  <2>2. CASE TakeEvent
    BY <2>2, EventTaken DEF Taken
  <2> QED
    BY <1>5, <2>1, <2>2 DEF Window
<1>6. CASE Close
  BY <1>6 DEF Close
<1> QED
  BY <1>1, <1>2, <1>3, <1>4, <1>5, <1>6 DEF Next

LEMMA NothingHeardAfterTheStop ==
    ASSUME VideoInvariant, [Next]_vars, supervisor.pc = "ended"
    PROVE  outbox' = outbox \/ Taken \/ outbox' = <<>>
<1>1. router.closed /\ worker.pc = "none"
  BY Parts DEF StopHolds
<1>2. CASE UNCHANGED vars
  BY <1>2 DEF vars, sharedVars
<1>3. CASE Protocol
  BY <1>1, <1>3 DEF Protocol, SendConfig, SendUnit, SendRefused, sharedVars
<1>4. ~ Supervise
  BY DEF Supervise, Reap, CleanUp, Start, Spawn, SpawnFails, ReportSpawnFailure, AbortStream,
         Stop
<1>5. ~ Work
  BY <1>1 DEF Work, Pop, Flush, FlushFails, OpenDecoder, OpenFails, Opens, SkipUnit, Submit,
              SubmitFails, Emit, Panic, FinishStream
<1>6. CASE Window
  <2>1. CASE DrainAdmissions \/ EventsDrained \/ Render \/ Announce
    BY <2>1 DEF DrainAdmissions, EventsDrained, Render, Announce, sharedVars
  <2>2. CASE TakeEvent
    BY <2>2, EventTaken DEF Taken
  <2> QED
    BY <1>6, <2>1, <2>2 DEF Window
<1>7. CASE Close
  BY <1>7 DEF Close
<1> QED
  BY <1>2, <1>3, <1>4, <1>5, <1>6, <1>7 DEF Next

(***************************************************************************)
(* NothingAfterTheEnd: after its failure no more is heard of an epoch,     *)
(* and after Stopped nothing of the worker, though the worker, the         *)
(* supervisor and the path of a panic each publish failures of their own.  *)
(***************************************************************************)
THEOREM NothingFollowsTheEnd == Spec => NothingAfterTheEnd
<1> DEFINE Quiet ==
             /\ stream.terminal =>
                  Mentions(outbox', stream.serial) <= Mentions(outbox, stream.serial)
             /\ supervisor.pc = "ended" => Len(outbox') <= Len(outbox)
<1>1. ASSUME VideoInvariant, [Next]_vars PROVE Quiet
  <2> USE <1>1
  <2>0. outbox \in Seq(Publications)
    BY Parts DEF VideoTypes
  <2>1. ASSUME Taken
        PROVE  /\ outbox' \in Seq(Publications) /\ Len(outbox') = Len(outbox) - 1
               /\ Len(outbox) \in Nat
               /\ \A i \in 1..Len(outbox') :
                    outbox'[i] = outbox[i + 1] /\ i + 1 \in 1..Len(outbox)
    BY <2>0, <2>1, HeadTailProperties DEF Taken
  <2>2. ASSUME stream.terminal
        PROVE  Mentions(outbox', stream.serial) <= Mentions(outbox, stream.serial)
    <3>1. PICK s : s = stream.serial
      OBVIOUS
    <3>2. PICK q : q = outbox'
      OBVIOUS
    <3>3. CASE q = outbox
      <4>1. \A i \in 1..Len(q) : q[i].serial = s => i + 0 \in 1..Len(outbox) /\ outbox[i + 0].serial = s
        BY <2>0, <3>3
      <4> QED
        BY <2>0, <3>1, <3>2, <3>3, <4>1, MentionsMoved
    <3>4. CASE Taken
      <4>1. \A i \in 1..Len(q) : q[i].serial = s => i + 1 \in 1..Len(outbox) /\ outbox[i + 1].serial = s
        BY <2>1, <3>2, <3>4
      <4> QED
        BY <2>0, <2>1, <3>1, <3>2, <3>4, <4>1, MentionsMoved
    <3>5. CASE q = <<>>
      <4>1. \A i \in 1..Len(q) : q[i].serial = s => i + 0 \in 1..Len(outbox) /\ outbox[i + 0].serial = s
        BY <3>5
      <4>2. q \in Seq(Publications)
        BY <3>5, EmptySeq
      <4> QED
        BY <2>0, <3>1, <3>2, <4>1, <4>2, MentionsMoved
    <3>6. CASE StopSaid
      <4>1. Stopped \in Publications /\ Stopped.serial = 0 /\ s # 0
        BY <2>2, <3>1, FailureIsTheLast, VideoAssumption
           DEF Stopped, Publication, Publications, SomeSerial
      <4>2. /\ q \in Seq(Publications) /\ Len(q) = Len(outbox) + 1 /\ Len(outbox) \in Nat
            /\ \A i \in 1..Len(outbox) : q[i] = outbox[i]
            /\ q[Len(outbox) + 1] = Stopped
        BY <2>0, <3>2, <3>6, <4>1, AppendProperties DEF StopSaid
      <4>3. ASSUME NEW i \in 1..Len(q), q[i].serial = s
            PROVE  i + 0 \in 1..Len(outbox) /\ outbox[i + 0].serial = s
        <5>1. i # Len(outbox) + 1
          BY <4>1, <4>2, <4>3
        <5>2. i \in 1..Len(outbox) /\ i + 0 = i
          BY <4>2, <5>1
        <5> QED
          BY <4>2, <4>3, <5>2
      <4> QED
        BY <2>0, <3>1, <3>2, <4>2, <4>3, MentionsMoved
    <3> QED
      BY <2>2, <3>2, <3>3, <3>4, <3>5, <3>6, NothingHeardAfterFailure
  <2>3. ASSUME supervisor.pc = "ended"
        PROVE  Len(outbox') <= Len(outbox)
    <3>1. CASE outbox' = outbox
      BY <2>0, <3>1
    <3>2. CASE Taken
      BY <2>1, <3>2
    <3>3. CASE outbox' = <<>>
      BY <2>0, <3>3
    <3> QED
      BY <2>3, <3>1, <3>2, <3>3, NothingHeardAfterTheStop
  <2> QED
    BY <2>2, <2>3
<1>2. VideoInvariant /\ [Next]_vars => [Quiet]_vars
  BY <1>1
<1> QED
  BY VideoInvariance, <1>2, PTL DEF Spec, NothingAfterTheEnd
=============================================================================
