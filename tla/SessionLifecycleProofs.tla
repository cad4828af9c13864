------------------------ MODULE SessionLifecycleProofs ------------------------
(***************************************************************************)
(* Proofs about the life of a session, for every number of connections the *)
(* user asks for and every number of cleanup attempts: the controller's    *)
(* slot and the host agree, a cancellation that came before the launch was *)
(* accepted wins, and no two sessions have workers that work.              *)
(***************************************************************************)
EXTENDS SessionLifecycle, WellFoundedInduction, SequenceTheorems, TLAPS

(***************************************************************************)
(* The state, typed.                                                       *)
(***************************************************************************)
SessionIds == 0..MaxSessions
SlotPhases == {"Vacant", "Connecting", "Active", "Disconnecting", "CleanupPending"}
SessionEvents == {"TransportReady", "Disconnecting", "Closed", "Failed"}
CleanupSteps == {"cancel", "writer", "join"}
LaunchSteps == {"none", "begin", "create", "audio", "protocol", "joinAudio", "publish"}

Controllers ==
    [session : SessionIds, slot : [session : SessionIds, phase : SlotPhases],
     page : {"ConnectionForm", "Connecting", "AwaitingFirstFrame", "Disconnecting", "Failed"}]

Hosts ==
    [launching : BOOLEAN, active : SessionIds, handle : SessionIds, cleaning : BOOLEAN,
     coordinator : {"host", "lent", "lost"}]

Exits == [whenClean : BOOLEAN, deadline : BOOLEAN, fatal : BOOLEAN, done : BOOLEAN]

WorkerRecords ==
    [protocol   : {"none", "waiting", "running", "exited"},
     audio      : {"none", "waiting", "running", "exited"},
     video      : {"none", "running", "panicked", "exited"},
     barrier    : {"Pending", "Started", "Cancelled"},
     audioStart : {"held", "sent", "dropped"},
     disconnect : BOOLEAN,
     stopVideo  : BOOLEAN,
     events     : Seq(SessionEvents),
     reported   : SUBSET SessionEvents]

LaunchNotices == {LaunchFinished(s, started, before) :
                      s \in Sessions, started \in BOOLEAN, before \in BOOLEAN}
CleanupNotices == {CleanupFinished(s, complete) : s \in Sessions, complete \in BOOLEAN}
UserEvents == {Wake} \cup LaunchNotices \cup CleanupNotices

LifecycleTypes ==
    /\ controller \in Controllers
    /\ host \in Hosts
    /\ returnToForm \in BOOLEAN
    /\ exit \in Exits
    /\ posted \in Seq(UserEvents)
    /\ launchCancelled \in BOOLEAN
    /\ launch \in [session : SessionIds, step : LaunchSteps]
    /\ cleanup \in [session : SessionIds, attempt : Nat, done : SUBSET CleanupSteps]
    /\ live \in [Sessions -> WorkerRecords]
    /\ cancelled \in SUBSET Sessions
    /\ asked \in SessionIds

-----------------------------------------------------------------------------
(***************************************************************************)
(* The user events: only wakes, or one notice among wakes.                 *)
(***************************************************************************)
OnlyWakes(q) == \A i \in 1..Len(q) : q[i] = Wake

OneNotice(q, m) ==
    \E k \in 1..Len(q) : q[k] = m /\ \A i \in 1..Len(q) : i # k => q[i] = Wake

(***************************************************************************)
(* Where a session is: who works on it, what is still to be reported of it *)
(* and what the controller's slot says meanwhile.  The application is at   *)
(* rest or at exactly one of the others, and the session it is about is    *)
(* the one of the controller.                                              *)
(***************************************************************************)
Slot(phases) ==
    /\ controller.session = asked /\ controller.session \in Sessions
    /\ InSlot(controller, controller.session, phases)

HostIs(launching, s, cleaning, coordinator) ==
    host = [launching |-> launching, active |-> s, handle |-> s, cleaning |-> cleaning,
            coordinator |-> coordinator]

AtRest ==
    /\ HostIs(FALSE, 0, FALSE, "host")
    /\ controller.session = 0 /\ controller.slot = Vacant
    /\ launch = Idle /\ cleanup = NoCleanup /\ OnlyWakes(posted)
    /\ ~ returnToForm

\* Between Connect and the launch's outcome.
Launches ==
    /\ HostIs(TRUE, 0, FALSE, "lent")
    /\ Slot({"Connecting"}) /\ controller.page = "Connecting"
    /\ cleanup = NoCleanup
    /\ live[controller.session].barrier = "Pending"
    /\ controller.session \in cancelled \/ returnToForm => launchCancelled

\* No worker is started but by the step that starts it, and a launch that
\* gives up has nothing that runs.
LaunchShape(w, step) ==
    /\ step # "publish" => w.protocol = "none"
    /\ step \in {"begin", "create", "audio"} => w.audio = "none"

Launching ==
    /\ Launches
    /\ launch.session = controller.session /\ launch.step # "none"
    /\ LaunchShape(live[controller.session], launch.step)
    /\ OnlyWakes(posted)

LaunchAnswered ==
    /\ Launches
    /\ launch = Idle
    /\ \E started, before \in BOOLEAN :
         /\ OneNotice(posted, LaunchFinished(controller.session, started, before))
         /\ ~ started => ~ Works(controller.session)

Running ==
    /\ HostIs(FALSE, controller.session, FALSE, "host")
    /\ Slot({"Connecting", "Active", "Disconnecting"})
    /\ controller.slot.phase # "Disconnecting"
         => controller.page \in {"Connecting", "AwaitingFirstFrame"}
    /\ launch = Idle /\ cleanup = NoCleanup /\ OnlyWakes(posted)
    /\ ~ returnToForm

CleansUp ==
    /\ HostIs(FALSE, 0, TRUE, "lent")
    /\ Slot({"Disconnecting", "CleanupPending"})
    /\ launch = Idle
    /\ ~ returnToForm

Cleaning ==
    /\ CleansUp
    /\ cleanup.session = controller.session
    /\ "join" \in cleanup.done => ~ Works(controller.session)
    /\ OnlyWakes(posted)

CleanupAnswered ==
    /\ CleansUp
    /\ cleanup = NoCleanup
    /\ \E complete \in BOOLEAN :
         /\ OneNotice(posted, CleanupFinished(controller.session, complete))
         /\ complete => ~ Works(controller.session)

\* The cleanup thread could not be spawned.
LosesCleanup ==
    /\ HostIs(FALSE, 0, FALSE, "lost")
    /\ Slot({"Disconnecting", "CleanupPending"})
    /\ launch = Idle /\ cleanup = NoCleanup
    /\ OneNotice(posted, CleanupFinished(controller.session, FALSE))
    /\ ~ returnToForm

Stage ==
    \/ AtRest
    \/ Launching
    \/ LaunchAnswered
    \/ Running
    \/ Cleaning
    \/ CleanupAnswered
    \/ LosesCleanup

-----------------------------------------------------------------------------
(***************************************************************************)
(* The workers.  A protocol runs only past a barrier that said Started,    *)
(* which a cancelled session's never says; a session not yet asked for has *)
(* none; and only the session of the controller has workers that work.     *)
(***************************************************************************)
BarrierHolds ==
    \A s \in Sessions :
      /\ live[s].protocol = "running" => live[s].barrier = "Started"
      /\ live[s].barrier = "Started" => s \notin cancelled

NotYetAsked ==
    \A s \in Sessions : s > asked =>
      /\ live[s].protocol = "none" /\ live[s].audio = "none"
      /\ live[s].barrier = "Pending"
      /\ s \notin cancelled

OneWorks == \A s \in Sessions : Works(s) => s = controller.session

Leaves == exit.done /\ ~ exit.fatal => CleanupLost \/ \A s \in Sessions : ~ Works(s)

(***************************************************************************)
(* The inductive invariant.  Once the event loop has ended nothing moves.  *)
(***************************************************************************)
LifecycleInvariant ==
    /\ LifecycleTypes
    /\ fault = "None"
    /\ BarrierHolds
    /\ NotYetAsked
    /\ UiRuns => Stage /\ OneWorks
    /\ Leaves
-----------------------------------------------------------------------------
(***************************************************************************)
(* What happens to the user events when one is posted or taken.            *)
(***************************************************************************)
LEMMA UserEventsDiffer ==
    /\ \A m \in LaunchNotices :
         /\ m.kind = "LaunchFinished" /\ m # Wake
         /\ m = LaunchFinished(m.session, m.started, m.cancelled)
         /\ m.session \in Sessions /\ m.started \in BOOLEAN /\ m.cancelled \in BOOLEAN
    /\ \A m \in CleanupNotices :
         /\ m.kind = "CleanupFinished" /\ m # Wake
         /\ m = CleanupFinished(m.session, m.complete)
         /\ m.session \in Sessions /\ m.complete \in BOOLEAN
    /\ Wake.kind = "Wake"
<1>1. ASSUME NEW m \in LaunchNotices
      PROVE  /\ m.kind = "LaunchFinished" /\ m.kind # "Wake"
             /\ m = LaunchFinished(m.session, m.started, m.cancelled)
             /\ m.session \in Sessions /\ m.started \in BOOLEAN /\ m.cancelled \in BOOLEAN
  BY DEF LaunchNotices, LaunchFinished
<1>2. ASSUME NEW m \in CleanupNotices
      PROVE  /\ m.kind = "CleanupFinished" /\ m.kind # "Wake"
             /\ m = CleanupFinished(m.session, m.complete)
             /\ m.session \in Sessions /\ m.complete \in BOOLEAN
  BY DEF CleanupNotices, CleanupFinished
<1>3. Wake.kind = "Wake"
  BY DEF Wake
<1> QED
  BY <1>1, <1>2, <1>3

LEMMA WakePosted ==
    ASSUME NEW q \in Seq(UserEvents)
    PROVE  /\ Append(q, Wake) \in Seq(UserEvents)
           /\ OnlyWakes(q) => OnlyWakes(Append(q, Wake))
           /\ \A m : OneNotice(q, m) => OneNotice(Append(q, Wake), m)
<1> DEFINE r == Append(q, Wake)
<1>1. Wake \in UserEvents
  BY DEF UserEvents
<1>2. r \in Seq(UserEvents) /\ Len(r) = Len(q) + 1 /\ Len(q) \in Nat
  BY <1>1
<1>3. \A i \in 1..Len(q) : r[i] = q[i] /\ i \in 1..Len(r)
  BY <1>1, <1>2
<1>4. \A i \in 1..Len(r) : i \in 1..Len(q) \/ r[i] = Wake
  BY <1>1, <1>2
<1> HIDE DEF r
<1>5. OnlyWakes(q) => OnlyWakes(r)
  BY <1>3, <1>4 DEF OnlyWakes
<1>6. ASSUME NEW m, OneNotice(q, m) PROVE OneNotice(r, m)
  BY <1>3, <1>4, <1>6 DEF OneNotice
<1> QED
  BY <1>2, <1>5, <1>6 DEF r

LEMMA NoticePosted ==
    ASSUME NEW q \in Seq(UserEvents), NEW m \in UserEvents, OnlyWakes(q)
    PROVE  /\ Append(q, m) \in Seq(UserEvents)
           /\ OneNotice(Append(q, m), m)
<1> DEFINE r == Append(q, m)
<1>1. r \in Seq(UserEvents) /\ Len(r) = Len(q) + 1 /\ Len(q) \in Nat /\ r[Len(r)] = m
  OBVIOUS
<1>2. \A i \in 1..Len(r) : i # Len(r) => i \in 1..Len(q) /\ r[i] = q[i]
  BY <1>1
<1> HIDE DEF r
<1>3. Len(r) \in 1..Len(r)
  BY <1>1
<1>4. OneNotice(r, m)
  BY <1>1, <1>2, <1>3 DEF OnlyWakes, OneNotice
<1> QED
  BY <1>1, <1>4 DEF r

LEMMA EventTaken ==
    ASSUME NEW q \in Seq(UserEvents), q # <<>>
    PROVE  /\ Head(q) \in UserEvents /\ Tail(q) \in Seq(UserEvents)
           /\ OnlyWakes(q) => Head(q) = Wake /\ OnlyWakes(Tail(q))
           /\ \A m : OneNotice(q, m) /\ Head(q) = Wake /\ m # Wake => OneNotice(Tail(q), m)
           /\ \A m : OneNotice(q, m) /\ Head(q) # Wake => Head(q) = m /\ OnlyWakes(Tail(q))
<1> DEFINE r == Tail(q)
<1>1. /\ r \in Seq(UserEvents) /\ Len(r) = Len(q) - 1 /\ Len(q) \in Nat \ {0}
      /\ Head(q) = q[1] /\ 1 \in 1..Len(q) /\ q[1] \in UserEvents
  OBVIOUS
<1>2. \A i \in 1..Len(r) : i + 1 \in 1..Len(q) /\ i + 1 # 1 /\ r[i] = q[i + 1]
  BY <1>1
<1>3. \A k \in 1..Len(q) : k # 1 => k - 1 \in 1..Len(r) /\ r[k - 1] = q[k]
  BY <1>1
<1> HIDE DEF r
<1>4. OnlyWakes(q) => Head(q) = Wake /\ OnlyWakes(r)
  BY <1>1, <1>2 DEF OnlyWakes
<1>5. ASSUME NEW m, OneNotice(q, m), Head(q) = Wake, m # Wake PROVE OneNotice(r, m)
  <2>1. PICK k \in 1..Len(q) : q[k] = m /\ \A i \in 1..Len(q) : i # k => q[i] = Wake
    BY <1>5 DEF OneNotice
  <2>2. k # 1 /\ k - 1 \in 1..Len(r) /\ r[k - 1] = m
    BY <1>1, <1>3, <1>5, <2>1
  <2>3. \A i \in 1..Len(r) : i # k - 1 => r[i] = Wake
    <3>1. \A i \in 1..Len(r) : i # k - 1 => i + 1 # k
      BY <1>1, <2>1
    <3> QED
      BY <1>2, <2>1, <3>1
  <2> QED
    BY <2>2, <2>3 DEF OneNotice
<1>6. ASSUME NEW m, OneNotice(q, m), Head(q) # Wake PROVE Head(q) = m /\ OnlyWakes(r)
  <2>1. PICK k \in 1..Len(q) : q[k] = m /\ \A i \in 1..Len(q) : i # k => q[i] = Wake
    BY <1>6 DEF OneNotice
  <2>2. k = 1
    BY <1>1, <1>6, <2>1
  <2> QED
    BY <1>1, <1>2, <2>1, <2>2 DEF OnlyWakes
<1> QED
  BY <1>1, <1>4, <1>5, <1>6 DEF r

\* Which of the notices says that a cleanup was lost.
LEMMA LostIsPosted ==
    /\ OnlyWakes(posted) => ~ CleanupLost
    /\ \A m \in UserEvents : OneNotice(posted, m) =>
         (CleanupLost <=> m.kind = "CleanupFinished" /\ ~ m.complete)
<1>1. OnlyWakes(posted) => ~ CleanupLost
  BY UserEventsDiffer DEF OnlyWakes, CleanupLost
<1>2. ASSUME NEW m \in UserEvents, OneNotice(posted, m)
      PROVE  CleanupLost <=> m.kind = "CleanupFinished" /\ ~ m.complete
  BY <1>2, UserEventsDiffer DEF OneNotice, CleanupLost
<1> QED
  BY <1>1, <1>2

LEMMA LostIsPostedNext ==
    /\ OnlyWakes(posted') => ~ CleanupLost'
    /\ \A m \in UserEvents : OneNotice(posted', m) =>
         (CleanupLost' <=> m.kind = "CleanupFinished" /\ ~ m.complete)
<1>1. OnlyWakes(posted') => ~ CleanupLost'
  BY UserEventsDiffer DEF OnlyWakes, CleanupLost
<1>2. ASSUME NEW m \in UserEvents, OneNotice(posted', m)
      PROVE  CleanupLost' <=> m.kind = "CleanupFinished" /\ ~ m.complete
  BY <1>2, UserEventsDiffer DEF OneNotice, CleanupLost
<1> QED
  BY <1>1, <1>2

-----------------------------------------------------------------------------
(***************************************************************************)
(* The events of a drain, reduced in turn: induction along AfterEvents.    *)
(***************************************************************************)
LEMMA NatMinimum ==
    ASSUME NEW T \in SUBSET Nat, T # {}
    PROVE  \E m \in T : \A k \in T : m <= k
<1> DEFINE Below == OpToRel(<, Nat)
<1>1. IsWellFoundedOn(Below, Nat)
  BY NatLessThanWellFounded
<1>2. \A k, m \in Nat : <<k, m>> \notin Below => m <= k
  BY DEF OpToRel
<1> HIDE DEF Below
<1>3. PICK m \in T : \A k \in T : ~ (<<k, m>> \in Below)
  BY <1>1, WFMin, Zenon
<1> QED
  BY <1>2, <1>3

LEMMA UpTo ==
    ASSUME NEW n \in Nat, NEW P, 0 \in P,
           \A i \in 1..n : i - 1 \in P => i \in P
    PROVE  \A i \in 0..n : i \in P
<1> DEFINE Bad == (0..n) \ P
<1>1. SUFFICES ASSUME Bad # {} PROVE FALSE
  OBVIOUS
<1>2. PICK m \in Bad : \A k \in Bad : m <= k
  <2>1. Bad \in SUBSET Nat
    OBVIOUS
  <2> QED
    BY <1>1, <2>1, NatMinimum
<1>3. m \in 1..n /\ m - 1 \in 0..n /\ ~ (m <= m - 1)
  BY <1>2
<1> QED
  BY <1>2, <1>3

AfterBody(c, q, n, f) ==
    [i \in 0..n |-> IF i = 0 THEN c ELSE AfterEvent(f[i - 1], q[i])]

LEMMA AfterExists ==
    ASSUME NEW c, NEW q, NEW n \in Nat
    PROVE  \E f : f = AfterBody(c, q, n, f)
<1> DEFINE P == {m \in 0..n : \E f : f = AfterBody(c, q, m, f)}
<1>1. 0 \in P
  <2>1. [i \in 0..0 |-> c] = AfterBody(c, q, 0, [i \in 0..0 |-> c])
    BY DEF AfterBody
  <2> QED
    BY <2>1
<1>2. ASSUME NEW m \in 1..n, m - 1 \in P PROVE m \in P
  <2>1. PICK f : f = AfterBody(c, q, m - 1, f)
    BY <1>2
  <2> DEFINE g == [i \in 0..m |-> IF i = 0 THEN c ELSE AfterEvent(f[i - 1], q[i])]
  <2>2. \A i \in 0..(m - 1) : f[i] = g[i]
    BY <2>1 DEF AfterBody
  <2>3. \A i \in 0..m : i # 0 => i - 1 \in 0..(m - 1) /\ i - 1 \in 0..m
    OBVIOUS
  <2>4. \A i \in 0..m : g[i] = IF i = 0 THEN c ELSE AfterEvent(g[i - 1], q[i])
    BY <2>2, <2>3
  <2>5. g = [i \in 0..m |-> g[i]]
    OBVIOUS
  <2> HIDE DEF g
  <2>6. g = AfterBody(c, q, m, g)
    BY <2>4, <2>5 DEF AfterBody
  <2> QED
    BY <2>6
<1>3. n \in P
  <2> HIDE DEF P
  <2>1. \A i \in 0..n : i \in P
    BY <1>1, <1>2, UpTo
  <2> QED
    BY <2>1
<1> QED
  BY <1>3

(***************************************************************************)
(* A started session's controller, while it has not ended and once it has. *)
(***************************************************************************)
Started(c, s) ==
    /\ c \in Controllers /\ c.session = s
    /\ InSlot(c, s, {"Connecting", "Active", "Disconnecting"})
    /\ c.slot.phase # "Disconnecting" => c.page \in {"Connecting", "AwaitingFirstFrame"}

EndedFor(c, s) ==
    /\ c \in Controllers /\ c.session = s
    /\ InSlot(c, s, {"Disconnecting", "CleanupPending"})

LEMMA AfterOneEvent ==
    ASSUME NEW s \in Sessions, NEW c \in Controllers, NEW e \in SessionEvents
    PROVE  /\ Started(c, s) /\ ~ EndsSession(e) => Started(AfterEvent(c, e), s)
           /\ Started(c, s) /\ EndsSession(e) => EndedFor(AfterEvent(c, e), s)
           /\ EndedFor(c, s) => EndedFor(AfterEvent(c, e), s)
<1> USE DEF AfterEvent, Ended, Disconnected, BeginsDisconnect, InSlot, EndsSession,
            SessionEvents, Controllers, SlotPhases
<1>1. Started(c, s) /\ ~ EndsSession(e) => Started(AfterEvent(c, e), s)
  BY DEF Started
<1>2. Started(c, s) /\ EndsSession(e) => EndedFor(AfterEvent(c, e), s)
  BY DEF Started, EndedFor
<1>3. EndedFor(c, s) => EndedFor(AfterEvent(c, e), s)
  BY DEF EndedFor
<1> QED
  BY <1>1, <1>2, <1>3

LEMMA AfterDrain ==
    ASSUME NEW s \in Sessions, NEW c, NEW q \in Seq(SessionEvents), Started(c, s)
    PROVE  /\ (\E i \in 1..Len(q) : EndsSession(q[i])) => EndedFor(AfterEvents(c, q), s)
           /\ (\A i \in 1..Len(q) : ~ EndsSession(q[i])) => Started(AfterEvents(c, q), s)
<1> DEFINE n == Len(q)
           f == CHOOSE f : f = AfterBody(c, q, n, f)
           P == {i \in 0..n :
                   /\ (\E j \in 1..i : EndsSession(q[j])) => EndedFor(f[i], s)
                   /\ (\A j \in 1..i : ~ EndsSession(q[j])) => Started(f[i], s)}
<1>1. n \in Nat /\ \A i \in 1..n : q[i] \in SessionEvents
  OBVIOUS
<1>2. f = AfterBody(c, q, n, f)
  BY <1>1, AfterExists
<1>3. AfterEvents(c, q) = f[n]
  BY DEF AfterEvents, AfterBody
<1> HIDE DEF f, n
<1>4. f[0] = c /\ \A i \in 1..n : f[i] = AfterEvent(f[i - 1], q[i])
  BY <1>1, <1>2 DEF AfterBody
<1>5. 0 \in P
  BY <1>1, <1>4
<1>6. ASSUME NEW i \in 1..n, i - 1 \in P PROVE i \in P
  <2>1. i \in 0..n /\ i - 1 \in 0..n /\ q[i] \in SessionEvents
    BY <1>1
  <2>2. f[i] = AfterEvent(f[i - 1], q[i])
    BY <1>4
  <2>3. \A j \in 1..i : j = i \/ j \in 1..(i - 1)
    BY <2>1
  <2>4. i \in 1..i /\ \A j \in 1..(i - 1) : j \in 1..i
    BY <2>1
  <2>5. CASE \E j \in 1..(i - 1) : EndsSession(q[j])
    <3>1. EndedFor(f[i - 1], s) /\ f[i - 1] \in Controllers
      BY <1>6, <2>5 DEF EndedFor
    <3>2. EndedFor(f[i], s)
      BY <2>1, <2>2, <3>1, AfterOneEvent
    <3> QED
      BY <2>1, <2>4, <2>5, <3>2
  <2>6. CASE \A j \in 1..(i - 1) : ~ EndsSession(q[j])
    <3>1. Started(f[i - 1], s) /\ f[i - 1] \in Controllers
      BY <1>6, <2>6 DEF Started
    <3>2. IF EndsSession(q[i]) THEN EndedFor(f[i], s) ELSE Started(f[i], s)
      BY <2>1, <2>2, <3>1, AfterOneEvent
    <3> QED
      BY <2>1, <2>3, <2>4, <2>6, <3>2
  <2> QED
    BY <2>5, <2>6
<1>7. \A i \in 0..n : i \in P
  <2> HIDE DEF P
  <2> QED
    BY <1>1, <1>5, <1>6, UpTo
<1>8. n \in P
  BY <1>1, <1>7
<1> QED
  BY <1>3, <1>8 DEF n
-----------------------------------------------------------------------------
(***************************************************************************)
(* What one step may do to the workers without disturbing the rest: change *)
(* those of one session, which has no more to do than before.              *)
(***************************************************************************)
WorksAs(w) ==
    \/ w.protocol \in {"waiting", "running"}
    \/ w.audio \in {"waiting", "running"}
    \/ w.protocol # "none" /\ w.video = "running"

\* Nothing is started in `after' that was not in `before'.
NoMore(before, after) ==
    /\ after.barrier = before.barrier
    /\ after.protocol = "none" <=> before.protocol = "none"
    /\ after.audio = "none" <=> before.audio = "none"
    /\ after.protocol = "running" =>
         before.protocol = "running" \/ before.barrier = "Started"
    /\ WorksAs(after) => WorksAs(before)

LEMMA WorksIs == \A s : Works(s) <=> WorksAs(live[s])
BY DEF Works, WorksAs

LEMMA WorksIsNext == \A s : Works(s)' <=> WorksAs(live'[s])
BY DEF Works, WorksAs

\* `r' is `q' with wakes posted or taken.
KeepsNotices(q, r) ==
    /\ r \in Seq(UserEvents)
    /\ OnlyWakes(q) => OnlyWakes(r)
    /\ \A m : OneNotice(q, m) /\ m # Wake => OneNotice(r, m)

LEMMA Undisturbed ==
    ASSUME LifecycleInvariant, UiRuns,
           live' \in [Sessions -> WorkerRecords],
           \A s \in Sessions : NoMore(live[s], live'[s]),
           KeepsNotices(posted, posted'),
           exit' \in Exits, exit'.done => ~ IsActive(host),
           UNCHANGED <<controller, host, returnToForm, fault, launchCancelled, launch,
                       cancelled, asked>>,
           \/ UNCHANGED cleanup
           \/ /\ cleanup.session # 0 /\ cleanup'.session = cleanup.session
              /\ cleanup' \in [session : SessionIds, attempt : Nat, done : SUBSET CleanupSteps]
              /\ \/ cleanup'.done \ cleanup.done \subseteq {"cancel", "writer"}
                 \/ ~ WorksAs(live[cleanup.session])
    PROVE  LifecycleInvariant'
<1> USE DEF LifecycleInvariant
<1>1. LifecycleTypes'
  BY DEF LifecycleTypes, KeepsNotices
<1>2. \A s \in Sessions : Works(s)' => Works(s)
  BY WorksIs, WorksIsNext DEF NoMore
<1>3. BarrierHolds' /\ NotYetAsked'
  BY DEF BarrierHolds, NotYetAsked, NoMore
<1>4. OneWorks'
  BY <1>2 DEF OneWorks
<1>5. OnlyWakes(posted) => OnlyWakes(posted')
  BY DEF KeepsNotices
<1>6. Launches => Launches'
  BY DEF Launches, HostIs, Slot, NoMore, NoCleanup, SessionIds
<1>7. CleansUp => CleansUp'
  BY DEF CleansUp, HostIs, Slot
<1>8. cleanup.session = 0 => cleanup' = cleanup
  OBVIOUS
<1>9. AtRest => AtRest'
  BY <1>5, <1>8 DEF AtRest, HostIs, NoCleanup
<1>10. LosesCleanup => LosesCleanup'
  <2>1. CleanupFinished(controller.session, FALSE) # Wake
    BY DEF CleanupFinished, Wake
  <2> DEFINE m == CleanupFinished(controller.session, FALSE)
  <2>2. OneNotice(posted, m) => OneNotice(posted', m)
    BY <2>1 DEF KeepsNotices
  <2>3. m' = m
    OBVIOUS
  <2>4. LosesCleanup => OneNotice(posted', m')
    BY <2>2, <2>3 DEF LosesCleanup
  <2>5. LosesCleanup => cleanup' = NoCleanup
    BY <1>8 DEF LosesCleanup, NoCleanup
  <2> HIDE DEF m
  <2>6. LosesCleanup => (HostIs(FALSE, 0, FALSE, "lost"))'
    BY DEF LosesCleanup, HostIs
  <2>7. LosesCleanup => (Slot({"Disconnecting", "CleanupPending"}))'
    BY DEF LosesCleanup, Slot
  <2> QED
    BY <2>4, <2>5, <2>6, <2>7, Zenon DEF LosesCleanup, m
<1>11. Stage'
  <2>1. CASE AtRest
    BY <1>9, <2>1 DEF Stage
  <2>2. CASE Launching
    <3>1. controller.session \in Sessions
      BY <2>2 DEF Launching, Launches, Slot
    <3>2. LaunchShape(live'[controller.session], launch.step)
      BY <2>2, <3>1 DEF Launching, LaunchShape, NoMore
    <3> QED
      BY <1>5, <1>6, <2>2, <3>2 DEF Stage, Launching
  <2>3. CASE LaunchAnswered
    <3>1. controller.session \in Sessions
      BY <2>3 DEF LaunchAnswered, Launches, Slot
    <3>2. \A started, before : LaunchFinished(controller.session, started, before) # Wake
      BY DEF LaunchFinished, Wake
    <3> QED
      BY <1>2, <1>6, <2>3, <3>1, <3>2 DEF Stage, LaunchAnswered, KeepsNotices
  <2>4. CASE Running
    BY <1>5, <1>8, <2>4 DEF Stage, Running, HostIs, Slot, NoCleanup
  <2>5. CASE Cleaning
    <3>1. controller.session \in Sessions /\ controller.session = cleanup'.session
      BY <2>5 DEF Cleaning, CleansUp, Slot
    <3>2. "join" \in cleanup'.done => ~ Works(controller.session)'
      BY <1>2, <2>5, <3>1, WorksIs DEF Cleaning
    <3> QED
      BY <1>5, <1>7, <2>5, <3>1, <3>2 DEF Stage, Cleaning
  <2>6. CASE CleanupAnswered
    <3>1. controller.session \in Sessions /\ cleanup' = cleanup
      BY <1>8, <2>6 DEF CleanupAnswered, CleansUp, Slot, NoCleanup
    <3>2. \A complete : CleanupFinished(controller.session, complete) # Wake
      BY DEF CleanupFinished, Wake
    <3> QED
      BY <1>2, <1>7, <2>6, <3>1, <3>2 DEF Stage, CleanupAnswered, KeepsNotices
  <2>7. CASE LosesCleanup
    BY <1>10, <2>7 DEF Stage
  <2> QED
    BY <2>1, <2>2, <2>3, <2>4, <2>5, <2>6, <2>7 DEF Stage
<1>12. Leaves'
  <2>1. ASSUME ~ IsActive(host) PROVE AtRest' \/ LosesCleanup'
    <3>1. ~ Running
      BY <2>1, LifecycleAssumption DEF Running, IsActive, HostIs, Slot, Sessions
    <3>2. ~ Launches /\ ~ CleansUp
      BY <2>1 DEF Launches, CleansUp, IsActive, HostIs
    <3> QED
      BY <1>9, <1>10, <3>1, <3>2
         DEF Stage, Launching, LaunchAnswered, Cleaning, CleanupAnswered
  <2>2. AtRest' => \A s \in Sessions : ~ Works(s)'
    BY <1>4 DEF AtRest, OneWorks, Sessions
  <2>3. LosesCleanup' => CleanupLost'
    <3>1. /\ CleanupFinished(controller'.session, FALSE).kind = "CleanupFinished"
          /\ ~ CleanupFinished(controller'.session, FALSE).complete
      BY DEF CleanupFinished
    <3> QED
      BY <3>1 DEF LosesCleanup, OneNotice, CleanupLost
  <2> QED
    BY <2>1, <2>2, <2>3 DEF Leaves
<1> QED
  BY <1>1, <1>3, <1>4, <1>11, <1>12

\* The same for a step of another thread than the UI's.
LEMMA Calm ==
    ASSUME LifecycleInvariant, UiRuns,
           live' \in [Sessions -> WorkerRecords],
           \A s \in Sessions : NoMore(live[s], live'[s]),
           posted' = posted \/ posted' = Append(posted, Wake),
           UNCHANGED <<controller, host, returnToForm, exit, fault, launchCancelled, launch,
                       cancelled, asked>>,
           \/ UNCHANGED cleanup
           \/ /\ cleanup.session # 0 /\ cleanup'.session = cleanup.session
              /\ cleanup' \in [session : SessionIds, attempt : Nat, done : SUBSET CleanupSteps]
              /\ \/ cleanup'.done \ cleanup.done \subseteq {"cancel", "writer"}
                 \/ ~ WorksAs(live[cleanup.session])
    PROVE  LifecycleInvariant'
<1>1. posted \in Seq(UserEvents) /\ exit \in Exits
  BY DEF LifecycleInvariant, LifecycleTypes
<1>2. KeepsNotices(posted, posted')
  BY <1>1, WakePosted DEF KeepsNotices
<1>3. exit' \in Exits /\ ~ exit'.done
  BY <1>1 DEF UiRuns
<1> QED
  BY <1>2, <1>3, Undisturbed

-----------------------------------------------------------------------------
(***************************************************************************)
(* The workers of a session.                                               *)
(***************************************************************************)
\* The form in which a step changes the workers of one session.
LEMMA OneSessionChanges ==
    ASSUME live \in [Sessions -> WorkerRecords], NEW s \in Sessions, NEW w \in WorkerRecords,
           NoMore(live[s], w), live' = [live EXCEPT ![s] = w]
    PROVE  /\ live' \in [Sessions -> WorkerRecords]
           /\ \A t \in Sessions : NoMore(live[t], live'[t])
BY DEF NoMore

LEMMA SendTyped ==
    ASSUME LifecycleTypes, NEW s \in Sessions, NEW e \in SessionEvents
    PROVE  Send(s, e) \in Seq(SessionEvents)
<1>1. live[s].events \in Seq(SessionEvents)
  BY DEF LifecycleTypes, WorkerRecords
<1> QED
  BY <1>1 DEF Send

LEMMA WorkersStep ==
    ASSUME LifecycleInvariant, NEW s \in Sessions,
           \/ WorkerStep(s)
           \/ \E e \in {"TransportReady", "Disconnecting"} : ProtocolReports(s, e)
           \/ \E e \in {"Closed", "Failed"} : ProtocolExits(s, e)
           \/ AudioFails(s)
           \/ VideoExits(s, "panicked")
    PROVE  LifecycleInvariant'
<1>1. live \in [Sessions -> WorkerRecords] /\ live[s] \in WorkerRecords
  BY DEF LifecycleInvariant, LifecycleTypes
<1>2. ASSUME NEW w \in WorkerRecords, NoMore(live[s], w), live' = [live EXCEPT ![s] = w],
             UiRuns, posted' = posted \/ posted' = Append(posted, Wake),
             UNCHANGED workersUnchanged
      PROVE  LifecycleInvariant'
  <2>1. live' \in [Sessions -> WorkerRecords] /\ \A t \in Sessions : NoMore(live[t], live'[t])
    BY <1>1, <1>2, OneSessionChanges
  <2> QED
    BY <1>2, <2>1, Calm DEF workersUnchanged, uiVars, history
<1>3. CASE ProtocolStarts(s)
  <2> DEFINE w == [live[s] EXCEPT !.protocol =
                      IF live[s].barrier = "Started" THEN "running" ELSE "exited"]
  <2>1. w \in WorkerRecords /\ NoMore(live[s], w)
    BY <1>1, <1>3 DEF ProtocolStarts, NoMore, WorksAs, WorkerRecords
  <2>2. live' = [live EXCEPT ![s] = w]
    BY <1>3 DEF ProtocolStarts
  <2> HIDE DEF w
  <2> QED
    BY <1>2, <1>3, <2>1, <2>2 DEF ProtocolStarts
<1>4. ASSUME NEW e \in {"TransportReady", "Disconnecting"}, ProtocolReports(s, e)
      PROVE  LifecycleInvariant'
  <2> DEFINE w == [live[s] EXCEPT !.events = Send(s, e), !.reported = @ \cup {e}]
  <2>1. e \in SessionEvents /\ Send(s, e) \in Seq(SessionEvents)
    BY SendTyped DEF SessionEvents, LifecycleInvariant
  <2>2. w \in WorkerRecords /\ NoMore(live[s], w)
    BY <1>1, <2>1 DEF NoMore, WorksAs, WorkerRecords
  <2>3. live' = [live EXCEPT ![s] = w]
    BY <1>4 DEF ProtocolReports
  <2> HIDE DEF w
  <2> QED
    BY <1>2, <1>4, <2>2, <2>3 DEF ProtocolReports, PostWake
<1>5. ASSUME NEW e \in {"Closed", "Failed"}, ProtocolExits(s, e)
      PROVE  LifecycleInvariant'
  <2> DEFINE w == [live[s] EXCEPT !.protocol = "exited", !.events = Send(s, e),
                                  !.reported = {}]
  <2>1. Send(s, e) \in Seq(SessionEvents)
    BY SendTyped DEF SessionEvents, LifecycleInvariant
  <2>2. w \in WorkerRecords /\ NoMore(live[s], w)
    BY <1>1, <1>5, <2>1 DEF ProtocolExits, NoMore, WorksAs, WorkerRecords
  <2>3. live' = [live EXCEPT ![s] = w]
    BY <1>5 DEF ProtocolExits
  <2> HIDE DEF w
  <2> QED
    BY <1>2, <1>5, <2>2, <2>3 DEF ProtocolExits, PostWake
<1>6. CASE AudioStarts(s)
  <2> DEFINE w == [live[s] EXCEPT !.audio =
                      IF live[s].audioStart = "sent" THEN "running" ELSE "exited"]
  <2>1. w \in WorkerRecords /\ NoMore(live[s], w)
    BY <1>1, <1>6 DEF AudioStarts, NoMore, WorksAs, WorkerRecords
  <2>2. live' = [live EXCEPT ![s] = w]
    BY <1>6 DEF AudioStarts
  <2> HIDE DEF w
  <2> QED
    BY <1>2, <1>6, <2>1, <2>2 DEF AudioStarts
<1>7. CASE AudioExits(s) \/ AudioFails(s)
  <2> DEFINE w == [live[s] EXCEPT !.audio = "exited"]
  <2>1. w \in WorkerRecords /\ NoMore(live[s], w)
    BY <1>1, <1>7 DEF AudioExits, AudioFails, NoMore, WorksAs, WorkerRecords
  <2>2. live' = [live EXCEPT ![s] = w]
    BY <1>7 DEF AudioExits, AudioFails
  <2> HIDE DEF w
  <2> QED
    BY <1>2, <1>7, <2>1, <2>2 DEF AudioExits, AudioFails, PostWake
<1>8. ASSUME NEW how \in {"exited", "panicked"}, VideoExits(s, how)
      PROVE  LifecycleInvariant'
  <2> DEFINE w == [live[s] EXCEPT !.video = how]
  <2>1. w \in WorkerRecords /\ NoMore(live[s], w)
    BY <1>1, <1>8 DEF VideoExits, NoMore, WorksAs, WorkerRecords
  <2>2. live' = [live EXCEPT ![s] = w]
    BY <1>8 DEF VideoExits
  <2> HIDE DEF w
  <2> QED
    BY <1>2, <1>8, <2>1, <2>2 DEF VideoExits
<1> QED
  BY <1>3, <1>4, <1>5, <1>6, <1>7, <1>8 DEF WorkerStep
-----------------------------------------------------------------------------
(***************************************************************************)
(* Which stage the application is in, seen from the thread that works.     *)
(***************************************************************************)
LEMMA WhoWorks ==
    ASSUME LifecycleInvariant, UiRuns
    PROVE  /\ launch.step # "none" => Launching
           /\ cleanup.session # 0 => Cleaning
           /\ host.launching => Launching \/ LaunchAnswered
           /\ host.handle # 0 => Running
           /\ controller.slot = Vacant => AtRest
<1>1. \A phases : Slot(phases) /\ "Vacant" \notin phases =>
         controller.slot # Vacant /\ controller.session # 0
  BY LifecycleAssumption DEF Slot, InSlot, Vacant, Sessions
<1> USE DEF HostIs, Idle, NoCleanup
<1>2. AtRest => launch.step = "none" /\ cleanup.session = 0 /\ ~ host.launching
                /\ host.handle = 0
  BY DEF AtRest
<1>3. Launches => cleanup.session = 0 /\ host.launching /\ host.handle = 0
                  /\ controller.slot # Vacant
  BY <1>1 DEF Launches
<1>4. Running => launch.step = "none" /\ cleanup.session = 0 /\ ~ host.launching
                 /\ controller.slot # Vacant
  BY <1>1 DEF Running
<1>5. CleansUp => launch.step = "none" /\ ~ host.launching /\ host.handle = 0
                  /\ controller.slot # Vacant
  BY <1>1 DEF CleansUp
<1>6. LosesCleanup => launch.step = "none" /\ cleanup.session = 0 /\ ~ host.launching
                      /\ host.handle = 0 /\ controller.slot # Vacant
  BY <1>1 DEF LosesCleanup
<1>7. (Launching \/ LaunchAnswered => Launches) /\ (LaunchAnswered => launch.step = "none")
  BY DEF Launching, LaunchAnswered
<1>8. (Cleaning \/ CleanupAnswered => CleansUp) /\ (CleanupAnswered => cleanup.session = 0)
  BY DEF Cleaning, CleanupAnswered
<1>9. Stage
  BY DEF LifecycleInvariant
<1> QED
  BY <1>2, <1>3, <1>4, <1>5, <1>6, <1>7, <1>8, <1>9 DEF Stage

\* What a launch may change of the workers of its session.
LaunchChanges(w) ==
    /\ w \in WorkerRecords
    /\ w.barrier = live[launch.session].barrier
    /\ w.protocol # "running"
    /\ live' = [live EXCEPT ![launch.session] = w]

LEMMA LaunchedWorkers ==
    ASSUME LifecycleInvariant, Launching, NEW w, LaunchChanges(w), UNCHANGED history
    PROVE  /\ live' \in [Sessions -> WorkerRecords]
           /\ live'[launch.session] = w /\ launch.session \in Sessions
           /\ BarrierHolds' /\ NotYetAsked'
           /\ \A s \in Sessions : Works(s)' => Works(s) \/ s = controller.session
<1>1. /\ launch.session = controller.session /\ launch.session \in Sessions
      /\ launch.session = asked /\ asked \in Nat
      /\ live[launch.session].barrier = "Pending"
  BY DEF Launching, Launches, Slot, Sessions
<1>2. live \in [Sessions -> WorkerRecords]
  BY DEF LifecycleInvariant, LifecycleTypes
<1>3. /\ live' \in [Sessions -> WorkerRecords] /\ live'[launch.session] = w
      /\ \A s \in Sessions : s # launch.session => live'[s] = live[s]
      /\ cancelled' = cancelled /\ asked' = asked
  BY <1>1, <1>2 DEF LaunchChanges, history
<1>4. BarrierHolds'
  BY <1>1, <1>3 DEF BarrierHolds, LifecycleInvariant, LaunchChanges
<1>5. NotYetAsked'
  BY <1>1, <1>3 DEF NotYetAsked, LifecycleInvariant, Sessions
<1>6. \A s \in Sessions : Works(s)' => Works(s) \/ s = controller.session
  BY <1>1, <1>3, WorksIs, WorksIsNext
<1> QED
  BY <1>1, <1>3, <1>4, <1>5, <1>6

LEMMA LaunchGoesOn ==
    ASSUME LifecycleInvariant, UiRuns, NEW w, LaunchChanges(w),
           NEW step \in LaunchSteps \ {"none"}, launch.step # "none",
           LaunchShape(w, step), GoOn(step), UNCHANGED launchUnchanged
    PROVE  LifecycleInvariant'
<1>1. Launching
  BY WhoWorks
<1>2. /\ posted' = posted /\ launch' = [launch EXCEPT !.step = step]
      /\ UNCHANGED <<controller, host, returnToForm, exit, fault, launchCancelled, cleanup>>
      /\ UNCHANGED history
  BY DEF GoOn, launchUnchanged, uiVars
<1>3. /\ live' \in [Sessions -> WorkerRecords]
      /\ live'[launch.session] = w /\ launch.session \in Sessions
      /\ BarrierHolds' /\ NotYetAsked'
      /\ \A s \in Sessions : Works(s)' => Works(s) \/ s = controller.session
  BY <1>1, <1>2, LaunchedWorkers
<1>4. LifecycleTypes'
  BY <1>2, <1>3 DEF LifecycleInvariant, LifecycleTypes, history
<1>5. launch'.step = step /\ launch'.session = launch.session
  BY <1>2 DEF LifecycleInvariant, LifecycleTypes
<1>6. Launching'
  <2>1. Launches'
    BY <1>1, <1>2, <1>3
       DEF Launching, Launches, HostIs, Slot, LaunchChanges, history
  <2> QED
    BY <1>1, <1>2, <1>3, <1>5, <2>1 DEF Launching
<1>7. OneWorks'
  BY <1>2, <1>3 DEF LifecycleInvariant, OneWorks
<1> QED
  BY <1>2, <1>3, <1>4, <1>6, <1>7 DEF LifecycleInvariant, Stage, UiRuns, Leaves

LEMMA LaunchReports ==
    ASSUME LifecycleInvariant, UiRuns, NEW w, LaunchChanges(w), launch.step # "none",
           NEW started \in BOOLEAN, ~ started => ~ WorksAs(w),
           Finish(started), UNCHANGED launchUnchanged
    PROVE  LifecycleInvariant'
<1> DEFINE m == LaunchFinished(controller.session, started, launchCancelled)
<1>1. Launching
  BY WhoWorks
<1>2. launch.session = controller.session /\ controller.session \in Sessions
  BY <1>1 DEF Launching, Launches, Slot
<1>3. /\ posted' = Append(posted, m) /\ launch' = Idle
      /\ UNCHANGED <<controller, host, returnToForm, exit, fault, launchCancelled, cleanup>>
      /\ UNCHANGED history
  BY <1>2 DEF Finish, launchUnchanged, uiVars
<1>4. /\ live' \in [Sessions -> WorkerRecords] /\ live'[controller.session] = w
      /\ BarrierHolds' /\ NotYetAsked'
      /\ \A s \in Sessions : Works(s)' => Works(s) \/ s = controller.session
  BY <1>1, <1>2, <1>3, LaunchedWorkers
<1>5. m \in UserEvents
  BY <1>2 DEF LifecycleInvariant, LifecycleTypes, UserEvents, LaunchNotices
<1>6. posted' \in Seq(UserEvents) /\ OneNotice(posted', m)
  <2>1. posted \in Seq(UserEvents) /\ OnlyWakes(posted)
    BY <1>1 DEF LifecycleInvariant, LifecycleTypes, Launching
  <2> HIDE DEF m
  <2> QED
    BY <1>3, <1>5, <2>1, NoticePosted
<1>7. LifecycleTypes'
  <2>1. Idle \in [session : SessionIds, step : LaunchSteps]
    BY LifecycleAssumption DEF Idle, SessionIds, LaunchSteps
  <2> QED
    BY <1>3, <1>4, <1>6, <2>1 DEF LifecycleInvariant, LifecycleTypes, history
<1>8. LaunchAnswered'
  <2>1. Launches'
    BY <1>1, <1>2, <1>3, <1>4
       DEF Launching, Launches, HostIs, Slot, LaunchChanges, history
  <2>2. ~ started => ~ Works(controller.session)'
    BY <1>3, <1>4, WorksIsNext
  <2>3. launchCancelled \in BOOLEAN
    BY DEF LifecycleInvariant, LifecycleTypes
  <2>4. controller' = controller /\ launch' = Idle
    BY <1>3
  <2>5. OneNotice(posted', LaunchFinished(controller'.session, started, launchCancelled))
    BY <1>6, <2>4
  <2>6. \E before \in BOOLEAN :
          OneNotice(posted', LaunchFinished(controller'.session, started, before))
    BY <2>3, <2>5
  <2>7. (~ started => ~ Works(controller.session))'
    BY <2>2
  <2> QED
    BY <2>1, <2>4, <2>6, <2>7, Zenon DEF LaunchAnswered
<1>9. OneWorks'
  BY <1>3, <1>4 DEF LifecycleInvariant, OneWorks
<1> QED
  BY <1>3, <1>4, <1>7, <1>8, <1>9 DEF LifecycleInvariant, Stage, UiRuns, Leaves

(***************************************************************************)
(* The launch thread, step by step.                                        *)
(***************************************************************************)
LEMMA RollBackStep ==
    ASSUME LifecycleInvariant, UiRuns, launch.step # "none",
           live[launch.session].protocol = "none",
           live[launch.session].audio \in {"none", "exited"},
           RollBack, UNCHANGED launchUnchanged
    PROVE  LifecycleInvariant'
<1>1. live[launch.session] \in WorkerRecords
  BY WhoWorks DEF Launching, Launches, Slot, LifecycleInvariant, LifecycleTypes
<1>2. PICK how \in {live[launch.session].video, "exited"} :
         live' = [live EXCEPT ![launch.session] =
                     [live[launch.session] EXCEPT !.stopVideo = TRUE, !.video = how]]
  BY DEF RollBack, LaunchSetWorkers
<1> DEFINE w == [live[launch.session] EXCEPT !.stopVideo = TRUE, !.video = how]
<1>3. LaunchChanges(w) /\ ~ WorksAs(w)
  BY <1>1, <1>2 DEF LaunchChanges, WorkerRecords, WorksAs
<1> HIDE DEF w
<1> QED
  BY <1>3, LaunchReports DEF RollBack

LEMMA LaunchThread ==
    ASSUME LifecycleInvariant, LaunchStep \/ LaunchCreate
    PROVE  LifecycleInvariant'
<1> DEFINE now == live[launch.session]
<1>1. UiRuns /\ launch.step # "none" /\ UNCHANGED launchUnchanged
  BY DEF LaunchStep, LaunchBegin, LaunchAudio, LaunchProtocol, LaunchJoinAudio, LaunchPublish,
         LaunchCreate, LaunchAt
<1>2. /\ Launching /\ now \in WorkerRecords /\ live \in [Sessions -> WorkerRecords]
      /\ launch.session \in Sessions
      /\ now.barrier = "Pending" /\ LaunchShape(now, launch.step)
  BY <1>1, WhoWorks
     DEF Launching, Launches, Slot, LifecycleInvariant, LifecycleTypes
<1>3. now.protocol # "running"
  BY <1>2 DEF LifecycleInvariant, BarrierHolds
<1>4. live' = live => LaunchChanges(now)
  BY <1>2, <1>3 DEF LaunchChanges
<1> HIDE DEF now
<1>5. CASE LaunchBegin
  <2>1. now.protocol = "none" /\ now.audio = "none"
    BY <1>2, <1>5 DEF LaunchBegin, LaunchAt, LaunchShape
  <2>2. CASE Finish(FALSE) /\ UNCHANGED live
    BY <1>1, <1>4, <2>1, <2>2, LaunchReports DEF WorksAs
  <2>3. CASE LaunchSetWorkers([live[launch.session] EXCEPT !.video = "running"])
             /\ GoOn("create")
    <3> DEFINE w == [live[launch.session] EXCEPT !.video = "running"]
    <3>1. LaunchChanges(w) /\ LaunchShape(w, "create")
      BY <1>2, <2>1, <2>3 DEF LaunchChanges, LaunchShape, WorkerRecords, LaunchSetWorkers, now
    <3> HIDE DEF w
    <3> QED
      BY <1>1, <2>3, <3>1, LaunchGoesOn DEF LaunchSteps
  <2> QED
    BY <1>5, <2>2, <2>3 DEF LaunchBegin
<1>6. CASE LaunchCreate
  <2>1. now.protocol = "none" /\ now.audio = "none"
    BY <1>2, <1>6 DEF LaunchCreate, LaunchAt, LaunchShape
  <2>2. CASE RollBack
    BY <1>1, <2>1, <2>2, RollBackStep DEF now
  <2>3. CASE GoOn("audio") /\ UNCHANGED live
    BY <1>1, <1>4, <2>1, <2>3, LaunchGoesOn DEF LaunchShape, LaunchSteps
  <2> QED
    BY <1>6, <2>2, <2>3 DEF LaunchCreate
<1>7. CASE LaunchAudio
  <2>1. now.protocol = "none" /\ now.audio = "none"
    BY <1>2, <1>7 DEF LaunchAudio, LaunchAt, LaunchShape
  <2>2. CASE RollBack
    BY <1>1, <2>1, <2>2, RollBackStep DEF now
  <2>3. CASE ~ RollBack
    <3> DEFINE w == [live[launch.session] EXCEPT !.audio = "waiting",
                        !.audioStart = IF launchCancelled THEN "dropped" ELSE "held"]
               step == IF launchCancelled THEN "joinAudio" ELSE "protocol"
    <3>1. live' = [live EXCEPT ![launch.session] = w] /\ GoOn(step)
      BY <1>7, <2>3 DEF LaunchAudio, LaunchSetWorkers
    <3>2. LaunchChanges(w) /\ LaunchShape(w, step) /\ step \in LaunchSteps \ {"none"}
      BY <1>2, <2>1, <3>1 DEF LaunchChanges, LaunchShape, WorkerRecords, LaunchSteps, now
    <3> HIDE DEF w, step
    <3> QED
      BY <1>1, <3>1, <3>2, LaunchGoesOn
  <2> QED
    BY <2>2, <2>3
<1>8. CASE LaunchProtocol
  <2>1. now.protocol = "none"
    BY <1>2, <1>8 DEF LaunchProtocol, LaunchAt, LaunchShape
  <2> DEFINE w1 == [live[launch.session] EXCEPT !.audioStart = "dropped"]
             w2 == [live[launch.session] EXCEPT !.protocol = "waiting", !.audioStart = "sent"]
  <2>2. CASE LaunchSetWorkers(w1) /\ GoOn("joinAudio")
    <3>1. LaunchChanges(w1) /\ LaunchShape(w1, "joinAudio")
      BY <1>2, <2>1, <2>2 DEF LaunchChanges, LaunchShape, WorkerRecords, LaunchSetWorkers, now
    <3> HIDE DEF w1
    <3> QED
      BY <1>1, <2>2, <3>1, LaunchGoesOn DEF LaunchSteps
  <2>3. CASE LaunchSetWorkers(w2) /\ GoOn("publish")
    <3>1. LaunchChanges(w2) /\ LaunchShape(w2, "publish")
      BY <1>2, <2>1, <2>3 DEF LaunchChanges, LaunchShape, WorkerRecords, LaunchSetWorkers, now
    <3> HIDE DEF w2
    <3> QED
      BY <1>1, <2>3, <3>1, LaunchGoesOn DEF LaunchSteps
  <2> QED
    BY <1>8, <2>2, <2>3 DEF LaunchProtocol
<1>9. CASE LaunchJoinAudio
  <2>1. now.protocol = "none" /\ now.audio = "exited"
    BY <1>2, <1>9 DEF LaunchJoinAudio, LaunchAt, LaunchShape, now
  <2> QED
    BY <1>1, <1>9, <2>1, RollBackStep DEF LaunchJoinAudio, now
<1>10. CASE LaunchPublish
  BY <1>1, <1>4, <1>10, LaunchReports DEF LaunchPublish
<1> QED
  BY <1>5, <1>6, <1>7, <1>8, <1>9, <1>10 DEF LaunchStep
-----------------------------------------------------------------------------
(***************************************************************************)
(* The cleanup thread.                                                     *)
(***************************************************************************)
LEMMA CleanupReports ==
    ASSUME LifecycleInvariant, UiRuns, cleanup.session # 0,
           NEW complete \in BOOLEAN, complete => ~ Works(cleanup.session),
           live' \in [Sessions -> WorkerRecords],
           \A s \in Sessions : NoMore(live[s], live'[s]),
           posted' = Append(posted, CleanupFinished(cleanup.session, complete)),
           cleanup' = NoCleanup, UNCHANGED cleanupUnchanged
    PROVE  LifecycleInvariant'
<1> DEFINE m == CleanupFinished(controller.session, complete)
<1>1. Cleaning
  BY WhoWorks
<1>2. cleanup.session = controller.session /\ controller.session \in Sessions
  BY <1>1 DEF Cleaning, CleansUp, Slot
<1>3. /\ posted' = Append(posted, m)
      /\ UNCHANGED <<controller, host, returnToForm, exit, fault, launchCancelled, launch>>
      /\ UNCHANGED <<cancelled, asked>>
  BY <1>2 DEF cleanupUnchanged, uiVars, history
<1>4. m \in UserEvents
  BY <1>2 DEF UserEvents, CleanupNotices
<1>5. posted' \in Seq(UserEvents) /\ OneNotice(posted', m)
  <2>1. posted \in Seq(UserEvents) /\ OnlyWakes(posted)
    BY <1>1 DEF LifecycleInvariant, LifecycleTypes, Cleaning
  <2> HIDE DEF m
  <2> QED
    BY <1>3, <1>4, <2>1, NoticePosted
<1>6. LifecycleTypes'
  <2>1. NoCleanup \in [session : SessionIds, attempt : Nat, done : SUBSET CleanupSteps]
    BY LifecycleAssumption DEF NoCleanup, SessionIds
  <2> QED
    BY <1>3, <1>5, <2>1 DEF LifecycleInvariant, LifecycleTypes
<1>7. BarrierHolds' /\ NotYetAsked'
  BY <1>3 DEF LifecycleInvariant, BarrierHolds, NotYetAsked, NoMore
<1>8. \A s \in Sessions : Works(s)' => Works(s)
  BY WorksIs, WorksIsNext DEF NoMore
<1>9. CleanupAnswered'
  <2>1. CleansUp'
    BY <1>1, <1>3 DEF Cleaning, CleansUp, HostIs, Slot
  <2>2. OneNotice(posted', CleanupFinished(controller'.session, complete))
    BY <1>3, <1>5
  <2>3. complete => ~ Works(controller.session)'
    BY <1>2, <1>3, <1>8
  <2> QED
    BY <2>1, <2>2, <2>3 DEF CleanupAnswered
<1>10. OneWorks'
  BY <1>3, <1>8 DEF LifecycleInvariant, OneWorks
<1> QED
  BY <1>3, <1>6, <1>7, <1>9, <1>10 DEF LifecycleInvariant, Stage, UiRuns, Leaves

(***************************************************************************)
(* What the cleanup tells or takes from a worker starts nothing.           *)
(***************************************************************************)
LEMMA WorkerTold ==
    ASSUME NEW r \in WorkerRecords
    PROVE  /\ [r EXCEPT !.disconnect = TRUE] \in WorkerRecords
           /\ [r EXCEPT !.stopVideo = TRUE] \in WorkerRecords
           /\ NoMore(r, [r EXCEPT !.disconnect = TRUE])
           /\ NoMore(r, [r EXCEPT !.stopVideo = TRUE])
<1>1. /\ [r EXCEPT !.disconnect = TRUE] \in WorkerRecords
      /\ [r EXCEPT !.stopVideo = TRUE] \in WorkerRecords
  BY DEF WorkerRecords
<1>2. NoMore(r, [r EXCEPT !.disconnect = TRUE])
  BY DEF NoMore, WorksAs, WorkerRecords
<1>3. NoMore(r, [r EXCEPT !.stopVideo = TRUE])
  BY DEF NoMore, WorksAs, WorkerRecords
<1> QED
  BY <1>1, <1>2, <1>3

LEMMA VideoJoined ==
    ASSUME NEW r \in WorkerRecords, NEW video \in {"none", "running", "exited"},
           video = "running" => r.video = "running"
    PROVE  /\ [r EXCEPT !.video = video] \in WorkerRecords
           /\ NoMore(r, [r EXCEPT !.video = video])
<1>1. [r EXCEPT !.video = video] \in WorkerRecords
  BY DEF WorkerRecords
<1>2. PICK w : w = [r EXCEPT !.video = video]
  OBVIOUS
<1>3. /\ w.protocol = r.protocol /\ w.audio = r.audio /\ w.barrier = r.barrier
      /\ w.video = video /\ w.audioStart = r.audioStart /\ w.disconnect = r.disconnect
      /\ w.stopVideo = r.stopVideo /\ w.events = r.events
  BY <1>2 DEF WorkerRecords
<1>4. NoMore(r, w)
  BY <1>3 DEF NoMore, WorksAs
<1> QED
  BY <1>1, <1>2, <1>4

LEMMA CleanupThread ==
    ASSUME LifecycleInvariant, CleanupStep
    PROVE  LifecycleInvariant'
<1> DEFINE s == cleanup.session
<1>1. UiRuns /\ s # 0 /\ UNCHANGED cleanupUnchanged
  BY DEF CleanupStep, CleanupCancel, CleanupShutdownWriter, CleanupJoin, CleanupDispose,
         CleanupAt
<1>2. /\ Cleaning /\ s \in Sessions /\ s = controller.session
      /\ live \in [Sessions -> WorkerRecords] /\ live[s] \in WorkerRecords
      /\ cleanup \in [session : SessionIds, attempt : Nat, done : SUBSET CleanupSteps]
  BY <1>1, WhoWorks DEF Cleaning, CleansUp, Slot, LifecycleInvariant, LifecycleTypes
<1>3. live' = live =>
        live' \in [Sessions -> WorkerRecords] /\ \A t \in Sessions : NoMore(live[t], live'[t])
  BY <1>2 DEF NoMore
<1>4. /\ UNCHANGED <<controller, host, returnToForm, exit, fault, launchCancelled, launch>>
      /\ UNCHANGED <<cancelled, asked>>
  BY <1>1 DEF cleanupUnchanged, uiVars, history
<1> HIDE DEF s
<1>5. CASE CleanupCancel
  <2> DEFINE w == [live[s] EXCEPT !.disconnect = TRUE]
  <2>1. w \in WorkerRecords /\ NoMore(live[s], w)
    BY <1>2, WorkerTold
  <2>2. live' = [live EXCEPT ![s] = w]
    BY <1>1, <1>5 DEF CleanupCancel, TellDisconnect, s
  <2> HIDE DEF w
  <2>3. live' \in [Sessions -> WorkerRecords] /\ \A t \in Sessions : NoMore(live[t], live'[t])
    BY <1>2, <2>1, <2>2, OneSessionChanges
  <2>4. cleanup' = [cleanup EXCEPT !.done = @ \cup {"cancel"}] /\ posted' = posted
    BY <1>5 DEF CleanupCancel, DidStep
  <2>5. /\ cleanup' \in [session : SessionIds, attempt : Nat, done : SUBSET CleanupSteps]
        /\ cleanup'.session = cleanup.session
        /\ cleanup'.done \ cleanup.done \subseteq {"cancel", "writer"}
    BY <1>2, <2>4 DEF CleanupSteps
  <2> QED
    BY <1>1, <1>4, <2>3, <2>4, <2>5, Calm DEF s
<1>6. CASE CleanupShutdownWriter
  <2> DEFINE w == [live[s] EXCEPT !.stopVideo = TRUE]
  <2>1. w \in WorkerRecords /\ NoMore(live[s], w)
    BY <1>2, WorkerTold
  <2>2. live' = [live EXCEPT ![s] = w]
    BY <1>6 DEF CleanupShutdownWriter, s
  <2> HIDE DEF w
  <2>3. live' \in [Sessions -> WorkerRecords] /\ \A t \in Sessions : NoMore(live[t], live'[t])
    BY <1>2, <2>1, <2>2, OneSessionChanges
  <2>4. cleanup' = [cleanup EXCEPT !.done = @ \cup {"writer"}] /\ posted' = posted
    BY <1>6 DEF CleanupShutdownWriter, DidStep
  <2>5. /\ cleanup' \in [session : SessionIds, attempt : Nat, done : SUBSET CleanupSteps]
        /\ cleanup'.session = cleanup.session
        /\ cleanup'.done \ cleanup.done \subseteq {"cancel", "writer"}
    BY <1>2, <2>4 DEF CleanupSteps
  <2> QED
    BY <1>1, <1>4, <2>3, <2>4, <2>5, Calm DEF s
<1>7. CASE CleanupJoin /\ Joinable(live[s])
  <2>1. live' = live /\ posted' = posted /\ cleanup' = [cleanup EXCEPT !.done = @ \cup {"join"}]
    BY <1>7 DEF CleanupJoin, DidStep, s
  <2>2. /\ cleanup' \in [session : SessionIds, attempt : Nat, done : SUBSET CleanupSteps]
        /\ cleanup'.session = cleanup.session
    BY <1>2, <2>1 DEF CleanupSteps
  <2>3. ~ WorksAs(live[s])
    BY <1>7 DEF Joinable, WorksAs
  <2> QED
    BY <1>1, <1>3, <1>4, <2>1, <2>2, <2>3, Calm DEF s
<1>8. CASE CleanupJoin /\ ~ Joinable(live[s])
  <2> DEFINE video == IF live[s].video = "panicked" THEN "exited" ELSE live[s].video
             w == [live[s] EXCEPT !.video = video]
  <2>0. video \in {"none", "running", "exited"} /\ (video = "running" => live[s].video = "running")
    BY <1>2 DEF WorkerRecords
  <2>1. w \in WorkerRecords /\ NoMore(live[s], w)
    <3> HIDE DEF video
    <3> QED
      BY <1>2, <2>0, VideoJoined
  <2>2. live' = [live EXCEPT ![s] = w]
    BY <1>8 DEF CleanupJoin, s
  <2> HIDE DEF w, video
  <2>3. live' \in [Sessions -> WorkerRecords] /\ \A t \in Sessions : NoMore(live[t], live'[t])
    BY <1>2, <2>1, <2>2, OneSessionChanges
  <2>4. CASE cleanup.attempt = MaxAttempts
    <3>1. /\ posted' = Append(posted, CleanupFinished(cleanup.session, FALSE))
          /\ cleanup' = NoCleanup
      BY <1>8, <2>4 DEF CleanupJoin, s
    <3> QED
      BY <1>1, <2>3, <3>1, CleanupReports DEF s
  <2>5. CASE cleanup.attempt # MaxAttempts
    <3>1. posted' = posted /\ cleanup' = [cleanup EXCEPT !.attempt = @ + 1]
      BY <1>8, <2>5 DEF CleanupJoin, s
    <3>2. /\ cleanup' \in [session : SessionIds, attempt : Nat, done : SUBSET CleanupSteps]
          /\ cleanup'.session = cleanup.session /\ cleanup'.done = cleanup.done
      BY <1>2, <3>1
    <3> QED
      BY <1>1, <1>4, <2>3, <3>1, <3>2, Calm DEF s
  <2> QED
    BY <2>4, <2>5
<1>9. CASE CleanupDispose
  <2>1. /\ posted' = Append(posted, CleanupFinished(cleanup.session, TRUE))
        /\ cleanup' = NoCleanup /\ live' = live
    BY <1>9 DEF CleanupDispose
  <2>2. ~ Works(cleanup.session)
    BY <1>2, <1>9 DEF CleanupDispose, CleanupAt, Cleaning, s
  <2> QED
    BY <1>1, <1>3, <2>1, <2>2, CleanupReports DEF s
<1> QED
  BY <1>5, <1>6, <1>7, <1>8, <1>9 DEF CleanupStep

-----------------------------------------------------------------------------
(***************************************************************************)
(* The end of the event loop.                                              *)
(***************************************************************************)
LEMMA FatalEnds ==
    ASSUME LifecycleInvariant, NEW h, NEW workers, Fatal(h, workers), h \in Hosts,
           workers \in [Sessions -> WorkerRecords], BarrierHolds', NotYetAsked',
           posted' \in Seq(UserEvents), controller' \in Controllers, returnToForm' \in BOOLEAN,
           cleanup' \in [session : SessionIds, attempt : Nat, done : SUBSET CleanupSteps],
           fault' = fault, UNCHANGED <<launch, history>>
    PROVE  LifecycleInvariant'
<1>1. /\ host' \in Hosts /\ exit' \in Exits /\ exit'.done /\ exit'.fatal
      /\ launchCancelled' \in BOOLEAN
  BY DEF Fatal, LifecycleInvariant, LifecycleTypes, Exits, Hosts
<1>2. live' \in [Sessions -> WorkerRecords]
  <2>1. \A r \in WorkerRecords : [r EXCEPT !.disconnect = TRUE] \in WorkerRecords
    BY DEF WorkerRecords
  <2> QED
    BY <2>1 DEF Fatal, TellDisconnect
<1>3. LifecycleTypes'
  BY <1>1, <1>2 DEF LifecycleInvariant, LifecycleTypes, history
<1> QED
  BY <1>1, <1>3 DEF LifecycleInvariant, UiRuns, Leaves

\* What telling the active session to disconnect leaves as it was.
LEMMA ToldToDisconnect ==
    ASSUME LifecycleTypes, NEW s \in SessionIds
    PROVE  /\ TellDisconnect(live, s) \in [Sessions -> WorkerRecords]
           /\ \A t \in Sessions : NoMore(live[t], TellDisconnect(live, s)[t])
<1>1. live \in [Sessions -> WorkerRecords]
  BY DEF LifecycleTypes
<1>2. \A t \in Sessions : NoMore(live[t], live[t])
  BY DEF NoMore
<1>3. CASE s = 0
  BY <1>1, <1>2, <1>3 DEF TellDisconnect
<1>4. CASE s # 0
  <2> DEFINE w == [live[s] EXCEPT !.disconnect = TRUE]
  <2>1. s \in Sessions
    BY <1>4 DEF SessionIds, Sessions
  <2>2. w \in WorkerRecords /\ NoMore(live[s], w)
    BY <1>1, <2>1, WorkerTold
  <2>3. TellDisconnect(live, s) = [live EXCEPT ![s] = w]
    BY <1>4 DEF TellDisconnect
  <2> HIDE DEF w
  <2> QED
    BY <1>1, <1>2, <2>1, <2>2, <2>3
<1> QED
  BY <1>3, <1>4

LEMMA UiFails ==
    ASSUME LifecycleInvariant, UiRuns, ShutdownTimeout \/ PresentationFails
    PROVE  LifecycleInvariant'
<1>1. /\ Fatal(host, live) /\ host \in Hosts /\ live \in [Sessions -> WorkerRecords]
      /\ UNCHANGED <<controller, returnToForm, fault, launch, cleanup, history>>
      /\ LifecycleTypes
  BY DEF ShutdownTimeout, PresentationFails, LifecycleInvariant, LifecycleTypes
<1>2. posted' \in Seq(UserEvents)
  <2>1. posted \in Seq(UserEvents) /\ <<>> \in Seq(UserEvents)
    BY <1>1 DEF LifecycleTypes
  <2> QED
    BY <2>1 DEF ShutdownTimeout, PresentationFails
<1>3. host.active \in SessionIds /\ live' = TellDisconnect(live, host.active)
  BY <1>1 DEF Hosts, Fatal
<1>4. BarrierHolds' /\ NotYetAsked'
  <2>1. /\ live' \in [Sessions -> WorkerRecords]
        /\ \A t \in Sessions : NoMore(live[t], live'[t])
    BY <1>1, <1>3, ToldToDisconnect
  <2> QED
    BY <1>1, <2>1 DEF LifecycleInvariant, BarrierHolds, NotYetAsked, NoMore, history
<1> QED
  BY <1>1, <1>2, <1>4, FatalEnds DEF LifecycleTypes
-----------------------------------------------------------------------------
(***************************************************************************)
(* What the user asks for.                                                 *)
(***************************************************************************)
LEMMA ConnectStep ==
    ASSUME LifecycleInvariant, NEW s \in Sessions, Connect(s)
    PROVE  LifecycleInvariant'
<1>1. /\ UiRuns /\ s = asked + 1 /\ asked' = s /\ AtRest /\ asked \in Nat
      /\ LifecycleTypes
  BY WhoWorks DEF Connect, LifecycleInvariant, LifecycleTypes, SessionIds
<1>2. /\ ~ IsActive(host)
      /\ controller' = [session |-> s, page |-> "Connecting",
                        slot |-> [session |-> s, phase |-> "Connecting"]]
      /\ UNCHANGED <<returnToForm, exit, cleanup, live, cancelled>>
  BY <1>1 DEF Connect, AtRest, HostIs, IsActive
<1>3. /\ fault' = fault /\ launchCancelled' = FALSE
      /\ host' = [launching |-> TRUE, active |-> 0, handle |-> 0, cleaning |-> FALSE,
                  coordinator |-> "lent"]
      /\ \/ launch' = [session |-> s, step |-> "begin"] /\ posted' = posted
         \/ posted' = Append(posted, LaunchFinished(s, FALSE, FALSE)) /\ launch' = launch
  BY <1>1, <1>2 DEF Connect, AtRest, HostIs
<1>4. /\ live[s].protocol = "none" /\ live[s].audio = "none" /\ live[s].barrier = "Pending"
      /\ s \notin cancelled
  BY <1>1 DEF LifecycleInvariant, NotYetAsked
<1>5. ~ Works(s)
  BY <1>4, WorksIs DEF WorksAs
<1>6. \A t \in Sessions : ~ Works(t)
  BY <1>1 DEF LifecycleInvariant, OneWorks, AtRest, Sessions
<1>7. BarrierHolds' /\ NotYetAsked' /\ OneWorks'
  <2>1. \A t \in Sessions : t > s => t > asked
    BY <1>1 DEF Sessions
  <2>2. \A t \in Sessions : ~ Works(t)'
    BY <1>2, <1>6 DEF Works
  <2> QED
    BY <1>1, <1>2, <2>1, <2>2 DEF LifecycleInvariant, BarrierHolds, NotYetAsked, OneWorks
<1>8. Launches'
  <2>1. ~ returnToForm /\ cleanup = NoCleanup
    BY <1>1 DEF AtRest
  <2> QED
    BY <1>1, <1>2, <1>3, <1>4, <2>1 DEF Launches, HostIs, Slot, InSlot
<1>9. /\ controller' \in Controllers /\ host' \in Hosts /\ s \in SessionIds
      /\ [session |-> s, step |-> "begin"] \in [session : SessionIds, step : LaunchSteps]
  <2>1. s \in SessionIds /\ 0 \in SessionIds
    BY LifecycleAssumption DEF SessionIds, Sessions
  <2>2. controller' \in Controllers
    BY <1>2, <2>1 DEF Controllers, SlotPhases
  <2>3. host' \in Hosts
    BY <1>3, <2>1 DEF Hosts
  <2> QED
    BY <2>1, <2>2, <2>3 DEF LaunchSteps
<1>10. CASE launch' = [session |-> s, step |-> "begin"] /\ posted' = posted
  <2>1. LifecycleTypes'
    BY <1>1, <1>2, <1>3, <1>9, <1>10 DEF LifecycleTypes
  <2>2. LaunchShape(live'[s], "begin")
    BY <1>2, <1>4 DEF LaunchShape
  <2>3. Launching'
    BY <1>1, <1>2, <1>8, <1>10, <2>2 DEF Launching, AtRest
  <2> QED
    BY <1>1, <1>2, <1>3, <1>7, <2>1, <2>3 DEF LifecycleInvariant, Stage, UiRuns, Leaves
<1>11. CASE posted' = Append(posted, LaunchFinished(s, FALSE, FALSE)) /\ launch' = launch
  <2>1. LaunchFinished(s, FALSE, FALSE) \in UserEvents
    <3>1. \A a, b \in BOOLEAN : LaunchFinished(s, a, b) \in UserEvents
      BY DEF UserEvents, LaunchNotices
    <3> QED
      BY <3>1, Zenon
  <2>2. /\ posted' \in Seq(UserEvents)
        /\ OneNotice(posted', LaunchFinished(s, FALSE, FALSE))
    BY <1>1, <1>11, <2>1, NoticePosted DEF AtRest, LifecycleTypes
  <2>3. LifecycleTypes'
    BY <1>1, <1>2, <1>3, <1>9, <1>11, <2>2 DEF LifecycleTypes
  <2>4. LaunchAnswered'
    <3>1. ~ Works(controller.session)'
      BY <1>2, <1>5 DEF Works
    <3>2. OneNotice(posted', LaunchFinished(controller'.session, FALSE, FALSE))
      BY <1>2, <2>2
    <3>3. launch' = Idle
      BY <1>1, <1>11 DEF AtRest
    <3> QED
      BY <1>8, <3>1, <3>2, <3>3 DEF LaunchAnswered
  <2> QED
    BY <1>1, <1>2, <1>3, <1>7, <2>3, <2>4 DEF LifecycleInvariant, Stage, UiRuns, Leaves
<1> QED
  BY <1>3, <1>10, <1>11

(***************************************************************************)
(* A running session's controller or its workers' orders change: Cancel,   *)
(* ReturnToConnection and the first half of closing.                       *)
(***************************************************************************)
LEMMA Disconnects ==
    ASSUME NEW c \in Controllers, NEW s \in Sessions
    PROVE  /\ Started(c, s) => Started(Disconnected(c), s) /\ EndedFor(Disconnected(c), s)
           /\ ~ BeginsDisconnect(c) => Disconnected(c) = c
<1>1. ASSUME Started(c, s)
      PROVE  Started(Disconnected(c), s) /\ EndedFor(Disconnected(c), s)
  <2>1. CASE c.slot.phase = "Disconnecting"
    BY <1>1, <2>1 DEF Disconnected, BeginsDisconnect, InSlot, Started, EndedFor
  <2>2. CASE c.slot.phase \in {"Connecting", "Active"}
    BY <1>1, <2>2 DEF Disconnected, BeginsDisconnect, InSlot, Started, EndedFor, Controllers,
                      SlotPhases
  <2> QED
    BY <1>1, <2>1, <2>2 DEF Started, InSlot
<1> QED
  BY <1>1 DEF Disconnected

LEMMA RunningIsStarted ==
    ASSUME LifecycleTypes, Running
    PROVE  /\ Started(controller, controller.session) /\ controller.session \in Sessions
           /\ host.active = controller.session /\ host.handle = controller.session
           /\ ~ host.launching /\ ~ host.cleaning /\ host.coordinator = "host"
           /\ controller.session = asked /\ host.handle # 0
<1>1. controller.session \in Sessions /\ controller.session # 0
  BY LifecycleAssumption DEF Running, Slot, Sessions
<1> QED
  BY <1>1 DEF Running, Started, LifecycleTypes, Slot, InSlot, HostIs

\* Only a running session has a slot that begins to disconnect, but for one
\* that is still being launched.
LEMMA WhoDisconnects ==
    ASSUME LifecycleInvariant, UiRuns, BeginsDisconnect(controller), ~ host.launching
    PROVE  Running
<1>1. controller.slot.phase \in {"Connecting", "Active"}
  BY DEF BeginsDisconnect, InSlot
<1>2. ~ AtRest
  <2>1. controller.slot # Vacant
    BY <1>1 DEF Vacant
  <2> QED
    BY <2>1 DEF AtRest
<1>3. ~ CleansUp /\ ~ LosesCleanup
  BY <1>1 DEF CleansUp, LosesCleanup, Slot, InSlot
<1>4. ~ Launches
  BY DEF Launches, HostIs
<1> QED
  BY <1>2, <1>3, <1>4
     DEF LifecycleInvariant, Stage, Launching, LaunchAnswered, Cleaning, CleanupAnswered

LEMMA StillRunning ==
    ASSUME LifecycleInvariant, UiRuns, Running, Started(controller', controller.session),
           live' \in [Sessions -> WorkerRecords],
           \A s \in Sessions : NoMore(live[s], live'[s]),
           OnlyWakes(posted'), posted' \in Seq(UserEvents), exit' \in Exits,
           UiRuns',
           UNCHANGED <<host, returnToForm, fault, launchCancelled, launch, cleanup, cancelled,
                       asked>>
    PROVE  LifecycleInvariant'
<1>1. LifecycleTypes'
  BY DEF LifecycleInvariant, LifecycleTypes, Started
<1>2. BarrierHolds' /\ NotYetAsked'
  BY DEF LifecycleInvariant, BarrierHolds, NotYetAsked, NoMore
<1>3. controller'.session = controller.session
  BY DEF Started
<1>4. OneWorks'
  BY <1>3, WorksIs, WorksIsNext DEF LifecycleInvariant, OneWorks, NoMore
<1>5. Running'
  BY <1>3 DEF Running, Started, HostIs, Slot, InSlot
<1> QED
  BY <1>1, <1>2, <1>4, <1>5 DEF LifecycleInvariant, Stage, UiRuns, Leaves

LEMMA CancelStep ==
    ASSUME LifecycleInvariant, Cancel
    PROVE  LifecycleInvariant'
<1>1. /\ UiRuns /\ LifecycleTypes
      /\ UNCHANGED <<host, exit, fault, posted, launch, cleanup, asked>>
  BY DEF Cancel, LifecycleInvariant
<1>2. CASE host.launching
  <2>1. /\ returnToForm' = TRUE /\ launchCancelled' = TRUE
        /\ cancelled' = cancelled \cup {controller.session}
        /\ UNCHANGED <<controller, live>>
    BY <1>2 DEF Cancel
  <2>2. Launches /\ (Launching \/ LaunchAnswered)
    BY <1>1, <1>2, WhoWorks DEF Launching, LaunchAnswered
  <2>3. /\ controller.session = asked /\ controller.session \in Sessions
        /\ live[controller.session].barrier = "Pending" /\ asked \in Nat
    BY <1>1, <2>2 DEF Launches, Slot, LifecycleTypes, SessionIds
  <2>4. LifecycleTypes'
    BY <1>1, <2>1, <2>3 DEF LifecycleTypes
  <2>5. BarrierHolds' /\ NotYetAsked' /\ OneWorks'
    <3>1. \A s \in Sessions : Works(s)' <=> Works(s)
      BY <2>1 DEF Works
    <3> QED
      BY <1>1, <2>1, <2>3, <3>1 DEF LifecycleInvariant, BarrierHolds, NotYetAsked, OneWorks
  <2>6. Launches'
    BY <1>1, <2>1, <2>2 DEF Launches, HostIs, Slot
  <2>7. Works(controller.session)' <=> Works(controller.session)
    BY <2>1 DEF Works
  <2>8. Launching' \/ LaunchAnswered'
    BY <1>1, <2>1, <2>2, <2>6, <2>7 DEF Launching, LaunchAnswered
  <2> QED
    BY <1>1, <2>4, <2>5, <2>8 DEF LifecycleInvariant, Stage, UiRuns, Leaves
<1>3. CASE ~ host.launching /\ BeginsDisconnect(controller)
  <2>1. /\ controller' = Disconnected(controller)
        /\ live' = TellDisconnect(live, host.active)
        /\ UNCHANGED <<returnToForm, launchCancelled, cancelled>>
    BY <1>3 DEF Cancel
  <2>2. Running
    BY <1>1, <1>3, WhoDisconnects
  <2>3. host.active \in SessionIds /\ controller \in Controllers
    BY <1>1 DEF LifecycleTypes, Hosts
  <2>4. Started(controller', controller.session)
    BY <1>1, <2>1, <2>2, <2>3, RunningIsStarted, Disconnects
  <2>5. /\ live' \in [Sessions -> WorkerRecords]
        /\ \A t \in Sessions : NoMore(live[t], live'[t])
    BY <1>1, <2>1, <2>3, ToldToDisconnect
  <2>6. OnlyWakes(posted') /\ posted' \in Seq(UserEvents) /\ exit' \in Exits /\ UiRuns'
    BY <1>1, <2>2 DEF Running, LifecycleTypes, UiRuns
  <2> QED
    BY <1>1, <2>1, <2>2, <2>4, <2>5, <2>6, StillRunning
<1>4. CASE ~ host.launching /\ ~ BeginsDisconnect(controller)
  <2>1. UNCHANGED <<controller, live, returnToForm, launchCancelled, cancelled>>
    BY <1>4 DEF Cancel, Disconnected
  <2>2. live' \in [Sessions -> WorkerRecords] /\ \A t \in Sessions : NoMore(live[t], live'[t])
    BY <1>1, <2>1 DEF LifecycleTypes, NoMore
  <2> QED
    BY <1>1, <2>1, <2>2, Calm
<1> QED
  BY <1>2, <1>3, <1>4

LEMMA ReturnStep ==
    ASSUME LifecycleInvariant, ReturnToConnection
    PROVE  LifecycleInvariant'
<1>1. /\ UiRuns /\ controller.page = "Failed"
      /\ controller' = [controller EXCEPT !.page = "ConnectionForm"]
      /\ UNCHANGED <<host, returnToForm, exit, fault, posted, launchCancelled, launch, cleanup,
                     live, cancelled, asked>>
      /\ LifecycleTypes
  BY DEF ReturnToConnection, LifecycleInvariant
<1>2. controller' \in Controllers /\ controller'.session = controller.session
      /\ controller'.slot = controller.slot
  BY <1>1 DEF LifecycleTypes, Controllers
<1>3. LifecycleTypes'
  BY <1>1, <1>2 DEF LifecycleTypes
<1>4. \A s : Works(s)' <=> Works(s)
  BY <1>1 DEF Works
<1>5. BarrierHolds' /\ NotYetAsked' /\ OneWorks'
  BY <1>1, <1>2, <1>4 DEF LifecycleInvariant, BarrierHolds, NotYetAsked, OneWorks
<1>6. Stage'
  <2>1. ~ Launches
    BY <1>1 DEF Launches
  <2>2. AtRest => AtRest'
    BY <1>1, <1>2 DEF AtRest, HostIs
  <2>3. Running => Running'
    BY <1>1, <1>2 DEF Running, HostIs, Slot, InSlot
  <2>4. CleansUp => CleansUp'
    BY <1>1, <1>2 DEF CleansUp, HostIs, Slot, InSlot
  <2>5. Works(controller.session)' <=> Works(controller.session)
    BY <1>2, <1>4
  <2>6. Cleaning => Cleaning'
    BY <1>1, <1>2, <2>4, <2>5 DEF Cleaning
  <2>7. CleanupAnswered => CleanupAnswered'
    BY <1>1, <1>2, <2>4, <2>5 DEF CleanupAnswered
  <2>8. LosesCleanup => LosesCleanup'
    BY <1>1, <1>2 DEF LosesCleanup, HostIs, Slot, InSlot
  <2> QED
    BY <1>1, <2>1, <2>2, <2>3, <2>6, <2>7, <2>8
       DEF LifecycleInvariant, Stage, Launching, LaunchAnswered
<1> QED
  BY <1>1, <1>3, <1>5, <1>6 DEF LifecycleInvariant, UiRuns, Leaves
-----------------------------------------------------------------------------
(***************************************************************************)
(* A cleanup starts, for a session that ended or when the window closes.   *)
(***************************************************************************)
LEMMA CleanupStarts ==
    ASSUME LifecycleInvariant, UiRuns, Running,
           EndedFor(controller', controller.session),
           NEW workers, workers \in [Sessions -> WorkerRecords],
           \A s \in Sessions : NoMore(live[s], workers[s]),
           NEW rest, rest \in Seq(UserEvents), OnlyWakes(rest),
           BeginCleanup(workers, rest),
           exit' \in Exits, exit'.done => ~ IsActive(host'),
           UNCHANGED <<returnToForm, launchCancelled, launch, cancelled, asked>>
    PROVE  LifecycleInvariant'
<1> DEFINE s == controller.session
<1>1. /\ s \in Sessions /\ s = asked /\ host.handle = s /\ s # 0 /\ s \in SessionIds
      /\ controller'.session = s /\ controller' \in Controllers
      /\ StartsCleanup /\ host.coordinator = "host" /\ LifecycleTypes
  <2>1. LifecycleTypes
    BY DEF LifecycleInvariant
  <2> QED
    BY <2>1, RunningIsStarted DEF StartsCleanup, EndedFor, Sessions, SessionIds
<1>2. PICK spawned \in BOOLEAN :
        /\ host' = CleanupHost(spawned)
        /\ fault' = fault
        /\ cleanup' = IF spawned THEN [session |-> host.handle, attempt |-> 1, done |-> {}]
                      ELSE cleanup
        /\ posted' = IF spawned THEN rest ELSE Append(rest, CleanupFinished(host.handle, FALSE))
        /\ live' = [workers EXCEPT ![host.handle].events = <<>>]
  BY <1>1 DEF BeginCleanup
<1>3. /\ live' \in [Sessions -> WorkerRecords]
      /\ \A t \in Sessions : NoMore(live[t], live'[t])
  <2> DEFINE w == [workers[s] EXCEPT !.events = <<>>]
  <2>1. /\ w \in WorkerRecords /\ w.barrier = workers[s].barrier
        /\ w.protocol = workers[s].protocol /\ w.audio = workers[s].audio
        /\ w.video = workers[s].video
    <3>1. workers[s] \in WorkerRecords /\ <<>> \in Seq(SessionEvents)
      BY <1>1
    <3> QED
      BY <3>1 DEF WorkerRecords
  <2>2. live' = [workers EXCEPT ![s] = w]
    BY <1>1, <1>2
  <2> HIDE DEF w
  <2> QED
    BY <1>1, <2>1, <2>2 DEF NoMore, WorksAs
<1>4. BarrierHolds' /\ NotYetAsked'
  BY <1>3 DEF LifecycleInvariant, BarrierHolds, NotYetAsked, NoMore
<1>5. OneWorks'
  BY <1>1, <1>3, WorksIs, WorksIsNext DEF LifecycleInvariant, OneWorks, NoMore
<1>6. /\ (Slot({"Disconnecting", "CleanupPending"}))' /\ launch' = Idle /\ ~ returnToForm'
      /\ cleanup = NoCleanup
  BY <1>1 DEF Running, Slot, InSlot, EndedFor
<1> HIDE DEF s
<1>7. CASE spawned
  <2>1. /\ host' = [launching |-> FALSE, active |-> 0, handle |-> 0, cleaning |-> TRUE,
                    coordinator |-> "lent"]
        /\ cleanup' = [session |-> controller'.session, attempt |-> 1, done |-> {}]
        /\ posted' = rest
    BY <1>1, <1>2, <1>7 DEF CleanupHost, Running, HostIs, s
  <2>2. host' \in Hosts
    BY <2>1, LifecycleAssumption DEF Hosts, SessionIds
  <2>3. cleanup' \in [session : SessionIds, attempt : Nat, done : SUBSET CleanupSteps]
    BY <1>1, <2>1
  <2>4. LifecycleTypes'
    BY <1>1, <1>3, <2>1, <2>2, <2>3 DEF LifecycleTypes
  <2>5. Cleaning'
    BY <1>6, <2>1 DEF Cleaning, CleansUp, HostIs
  <2>6. ~ exit'.done
    BY <2>1 DEF IsActive
  <2> QED
    BY <1>2, <1>4, <1>5, <2>4, <2>5, <2>6 DEF LifecycleInvariant, Stage, UiRuns, Leaves
<1>8. CASE ~ spawned
  <2> DEFINE m == CleanupFinished(controller'.session, FALSE)
  <2>1. /\ host' = [launching |-> FALSE, active |-> 0, handle |-> 0, cleaning |-> FALSE,
                    coordinator |-> "lost"]
        /\ cleanup' = NoCleanup
        /\ posted' = Append(rest, m)
    BY <1>1, <1>2, <1>6, <1>8 DEF CleanupHost, Running, HostIs, s
  <2>2. host' \in Hosts
    BY <2>1, LifecycleAssumption DEF Hosts, SessionIds
  <2>3. m \in UserEvents /\ m.kind = "CleanupFinished" /\ ~ m.complete
    <3>1. \A t \in Sessions, complete \in BOOLEAN : CleanupFinished(t, complete) \in UserEvents
      BY DEF UserEvents, CleanupNotices
    <3>2. CleanupFinished(controller'.session, FALSE) \in UserEvents
      BY <1>1, <3>1, Zenon DEF s
    <3> QED
      BY <3>2 DEF CleanupFinished
  <2>4. posted' \in Seq(UserEvents) /\ OneNotice(posted', m)
    <3> HIDE DEF m
    <3> QED
      BY <2>1, <2>3, NoticePosted
  <2>5. LifecycleTypes'
    BY <1>1, <1>3, <1>6, <2>1, <2>2, <2>4 DEF LifecycleTypes
  <2>6. LosesCleanup'
    <3>1. OneNotice(posted', CleanupFinished(controller'.session, FALSE))
      BY <2>4
    <3> QED
      BY <1>6, <2>1, <3>1 DEF LosesCleanup, HostIs
  <2>7. Leaves'
    <3>1. CleanupLost'
      <4> HIDE DEF m
      <4> QED
        BY <2>3, <2>4, LostIsPostedNext
    <3> QED
      BY <3>1 DEF Leaves
  <2> QED
    BY <1>2, <1>4, <1>5, <2>5, <2>6, <2>7 DEF LifecycleInvariant, Stage
<1> QED
  BY <1>7, <1>8

(***************************************************************************)
(* begin_shutdown.                                                         *)
(***************************************************************************)
\* Every stage but one has no active session.
LEMMA NothingActive ==
    ASSUME LifecycleInvariant, UiRuns, ~ Running
    PROVE  host.active = 0 /\ host.handle = 0
<1>1. AtRest => host.active = 0 /\ host.handle = 0
  BY DEF AtRest, HostIs
<1>2. Launches => host.active = 0 /\ host.handle = 0
  BY DEF Launches, HostIs
<1>3. CleansUp => host.active = 0 /\ host.handle = 0
  BY DEF CleansUp, HostIs
<1>4. LosesCleanup => host.active = 0 /\ host.handle = 0
  BY DEF LosesCleanup, HostIs
<1> QED
  BY <1>1, <1>2, <1>3, <1>4
     DEF LifecycleInvariant, Stage, Launching, LaunchAnswered, Cleaning, CleanupAnswered

LEMMA SameWorkers ==
    ASSUME LifecycleTypes
    PROVE  /\ live \in [Sessions -> WorkerRecords] /\ \A s \in Sessions : NoMore(live[s], live[s])
           /\ KeepsNotices(posted, posted)
BY DEF LifecycleTypes, NoMore, KeepsNotices

LEMMA CloseStep ==
    ASSUME LifecycleInvariant, Close
    PROVE  LifecycleInvariant'
<1>1. UiRuns /\ UNCHANGED <<returnToForm, launch, asked>> /\ LifecycleTypes /\ exit \in Exits
  BY DEF Close, LifecycleInvariant, LifecycleTypes
<1>2. CASE CloseDuringLaunch
  <2>1. /\ host.launching /\ launchCancelled' = TRUE /\ exit' \in Exits /\ ~ exit'.done
        /\ cancelled' = cancelled \cup {controller.session}
        /\ UNCHANGED <<controller, host, fault, posted, cleanup, live>>
    BY <1>1, <1>2 DEF CloseDuringLaunch, Exits, UiRuns
  <2>2. Launches /\ (Launching \/ LaunchAnswered)
    BY <1>1, <2>1, WhoWorks DEF Launching, LaunchAnswered
  <2>3. /\ controller.session = asked /\ controller.session \in Sessions
        /\ live[controller.session].barrier = "Pending" /\ asked \in Nat
    BY <1>1, <2>2 DEF Launches, Slot, LifecycleTypes, SessionIds
  <2>4. LifecycleTypes'
    BY <1>1, <2>1, <2>3 DEF LifecycleTypes
  <2>5. BarrierHolds' /\ NotYetAsked' /\ OneWorks'
    <3>1. \A s \in Sessions : Works(s)' <=> Works(s)
      BY <2>1 DEF Works
    <3> QED
      BY <1>1, <2>1, <2>3, <3>1 DEF LifecycleInvariant, BarrierHolds, NotYetAsked, OneWorks
  <2>6. Launches'
    BY <1>1, <2>1, <2>2 DEF Launches, HostIs, Slot
  <2>7. Works(controller.session)' <=> Works(controller.session)
    BY <2>1 DEF Works
  <2>8. Launching' \/ LaunchAnswered'
    BY <1>1, <2>1, <2>2, <2>6, <2>7 DEF Launching, LaunchAnswered
  <2> QED
    BY <1>1, <2>1, <2>4, <2>5, <2>8 DEF LifecycleInvariant, Stage, UiRuns, Leaves
<1>3. CASE CloseSession
  <2> DEFINE disconnects == controller.page # "Disconnecting" /\ BeginsDisconnect(controller)
             workers == IF disconnects THEN TellDisconnect(live, host.active) ELSE live
  <2>1. /\ exit' \in Exits /\ ~ exit'.done /\ ~ host.launching
        /\ controller' = IF disconnects THEN Disconnected(controller) ELSE controller
        /\ BeginCleanup(workers, posted)
        /\ UNCHANGED <<launchCancelled, cancelled>>
    BY <1>1, <1>3 DEF CloseSession, Exits, UiRuns
  <2>2. host.active \in SessionIds /\ controller \in Controllers
    BY <1>1 DEF LifecycleTypes, Hosts
  <2>3. workers \in [Sessions -> WorkerRecords] /\ \A s \in Sessions : NoMore(live[s], workers[s])
    BY <1>1, <2>2, SameWorkers, ToldToDisconnect
  <2>4. CASE Running
    <3>1. Started(controller, controller.session) /\ controller.session \in Sessions
      BY <1>1, <2>4, RunningIsStarted
    <3>2. EndedFor(controller', controller.session)
      <4>1. CASE disconnects
        BY <2>1, <2>2, <3>1, <4>1, Disconnects
      <4>2. CASE ~ disconnects
        <5>1. controller.slot.phase = "Disconnecting"
          BY <3>1, <4>2 DEF Started, BeginsDisconnect, InSlot
        <5> QED
          BY <2>1, <3>1, <4>2, <5>1 DEF Started, EndedFor, InSlot
      <4> QED
        BY <4>1, <4>2
    <3>3. posted \in Seq(UserEvents) /\ OnlyWakes(posted)
      BY <1>1, <2>4 DEF Running, LifecycleTypes
    <3> HIDE DEF disconnects, workers
    <3> QED
      BY <1>1, <2>1, <2>3, <2>4, <3>2, <3>3, CleanupStarts
  <2>5. CASE ~ Running
    <3>1. ~ disconnects
      BY <1>1, <2>1, <2>5, WhoDisconnects
    <3>2. ~ StartsCleanup
      BY <1>1, <2>5, NothingActive DEF StartsCleanup
    <3>3. controller' = controller /\ live' = live /\ posted' = posted
          /\ UNCHANGED <<host, fault, cleanup>>
      BY <2>1, <3>1, <3>2 DEF BeginCleanup
    <3> QED
      BY <1>1, <2>1, <3>3, SameWorkers, Undisturbed
  <2> QED
    BY <2>4, <2>5
<1>4. CASE CloseAtRest
  <2>1. /\ exit' \in Exits /\ ~ IsActive(host)
        /\ UNCHANGED <<controller, host, fault, posted, launchCancelled, cleanup, live, cancelled>>
    BY <1>1, <1>4 DEF CloseAtRest, Exits
  <2> QED
    BY <1>1, <2>1, SameWorkers, Undisturbed
<1> QED
  BY <1>2, <1>3, <1>4 DEF Close

-----------------------------------------------------------------------------
(***************************************************************************)
(* drain_runtime.                                                          *)
(***************************************************************************)
LEMMA AfterNothing == \A c : AfterEvents(c, <<>>) = c
<1>1. ASSUME NEW c PROVE AfterEvents(c, <<>>) = c
  <2> DEFINE f == CHOOSE f : f = AfterBody(c, <<>>, 0, f)
  <2>1. f = AfterBody(c, <<>>, 0, f)
    BY AfterExists
  <2>2. AfterEvents(c, <<>>) = f[0]
    BY DEF AfterEvents, AfterBody
  <2> HIDE DEF f
  <2> QED
    BY <2>1, <2>2 DEF AfterBody
<1> QED
  BY <1>1

LEMMA DrainStep ==
    ASSUME LifecycleInvariant, UiRuns, NEW rest, KeepsNotices(posted, rest), Drain(rest)
    PROVE  LifecycleInvariant'
<1>1. LifecycleTypes /\ exit \in Exits /\ rest \in Seq(UserEvents)
  BY DEF LifecycleInvariant, LifecycleTypes, KeepsNotices
<1>2. PICK videoFailed \in IF host.active = 0 THEN {FALSE} ELSE BOOLEAN :
        LET events == DrainedEvents \o (IF videoFailed THEN <<"Failed">> ELSE <<>>)
            workers == IF host.active = 0 THEN live
                       ELSE [live EXCEPT ![host.active].events = <<>>,
                                         ![host.active].disconnect = @ \/ videoFailed]
        IN  /\ controller' = IF controller.session = host.active
                             THEN AfterEvents(controller, events) ELSE controller
            /\ IF \E i \in 1..Len(events) : EndsSession(events[i])
               THEN BeginCleanup(workers, rest)
               ELSE posted' = rest /\ live' = workers /\ UNCHANGED <<host, fault, cleanup>>
            /\ exit' = ExitIfClean(exit, host')
            /\ UNCHANGED <<returnToForm, launchCancelled, launch, history>>
  BY DEF Drain
<1> DEFINE events == DrainedEvents \o (IF videoFailed THEN <<"Failed">> ELSE <<>>)
           workers == IF host.active = 0 THEN live
                      ELSE [live EXCEPT ![host.active].events = <<>>,
                                        ![host.active].disconnect = @ \/ videoFailed]
<1>3. /\ controller' = IF controller.session = host.active
                       THEN AfterEvents(controller, events) ELSE controller
      /\ IF \E i \in 1..Len(events) : EndsSession(events[i])
         THEN BeginCleanup(workers, rest)
         ELSE posted' = rest /\ live' = workers /\ UNCHANGED <<host, fault, cleanup>>
  BY <1>2
<1>4. /\ exit' \in Exits /\ (exit'.done => ~ IsActive(host'))
      /\ UNCHANGED <<returnToForm, launchCancelled, launch, cancelled, asked>>
  <2>1. exit' = ExitIfClean(exit, host')
        /\ UNCHANGED <<returnToForm, launchCancelled, launch, history>>
    BY <1>2
  <2>2. (exit.whenClean /\ ~ IsActive(host')) \in BOOLEAN
    OBVIOUS
  <2>3. exit' = [exit EXCEPT !.done = exit.whenClean /\ ~ IsActive(host')]
    BY <2>1 DEF ExitIfClean
  <2> QED
    BY <1>1, <2>1, <2>2, <2>3 DEF Exits, history
<1>5. CASE Running
  <2> DEFINE s == controller.session
  <2>1. /\ Started(controller, s) /\ s \in Sessions /\ host.active = s /\ s # 0
        /\ host.handle # 0
    BY <1>1, <1>5, RunningIsStarted
  <2>2. live \in [Sessions -> WorkerRecords] /\ live[s] \in WorkerRecords
        /\ live[s].events \in Seq(SessionEvents)
    BY <1>1, <2>1 DEF LifecycleTypes, WorkerRecords
  <2>3. events \in Seq(SessionEvents)
    <3> DEFINE first == live[s].events
               second == IF videoFailed THEN <<"Failed">> ELSE <<>>
    <3>1. second \in Seq(SessionEvents)
      <4>1. "Failed" \in SessionEvents
        BY DEF SessionEvents
      <4>2. <<"Failed">> \in Seq(SessionEvents) /\ <<>> \in Seq(SessionEvents)
        BY <4>1
      <4> QED
        BY <4>2
    <3>2. events = first \o second
      BY <2>1 DEF DrainedEvents
    <3> HIDE DEF first, second, events
    <3>3. first \in Seq(SessionEvents)
      BY <2>2 DEF first
    <3> QED
      BY <3>1, <3>2, <3>3
  <2>4. /\ workers \in [Sessions -> WorkerRecords]
        /\ \A t \in Sessions : NoMore(live[t], workers[t])
    <3> DEFINE tells == live[s].disconnect \/ videoFailed
               w == [live[s] EXCEPT !.events = <<>>, !.disconnect = tells]
    <3>1. workers = [live EXCEPT ![s] = w]
      BY <2>1, <2>2
    <3>2. tells \in BOOLEAN /\ <<>> \in Seq(SessionEvents)
      OBVIOUS
    <3> HIDE DEF tells
    <3>3. w \in WorkerRecords /\ NoMore(live[s], w)
      BY <2>2, <3>2 DEF NoMore, WorksAs, WorkerRecords
    <3>4. \A t \in Sessions : NoMore(live[t], live[t])
      BY DEF NoMore
    <3> HIDE DEF w, workers
    <3> QED
      BY <2>1, <2>2, <3>1, <3>3, <3>4
  <2>5. controller' = AfterEvents(controller, events)
    BY <1>3, <2>1
  <2>6. OnlyWakes(rest)
    BY <1>5 DEF Running, KeepsNotices
  <2> HIDE DEF events, workers
  <2>7. CASE \E i \in 1..Len(events) : EndsSession(events[i])
    <3>1. BeginCleanup(workers, rest)
      BY <1>3, <2>7
    <3>2. EndedFor(controller', controller.session)
      BY <2>1, <2>3, <2>5, <2>7, AfterDrain
    <3> QED
      BY <1>1, <1>4, <1>5, <2>4, <2>6, <3>1, <3>2, CleanupStarts
  <2>8. CASE ~ (\E i \in 1..Len(events) : EndsSession(events[i]))
    <3>1. posted' = rest /\ live' = workers /\ UNCHANGED <<host, fault, cleanup>>
      BY <1>3, <2>8
    <3>2. Started(controller', controller.session)
      BY <2>1, <2>3, <2>5, <2>8, AfterDrain
    <3>3. UiRuns'
      BY <1>4, <2>1, <3>1 DEF UiRuns, IsActive
    <3> QED
      BY <1>1, <1>4, <1>5, <2>4, <2>6, <3>1, <3>2, <3>3, StillRunning
  <2> QED
    BY <2>7, <2>8
<1>6. CASE ~ Running
  <2>1. host.active = 0
    BY <1>6, NothingActive
  <2>2. videoFailed = FALSE
    BY <1>2, <2>1
  <2>3. events = <<>> /\ workers = live
    BY <2>1, <2>2 DEF DrainedEvents
  <2> HIDE DEF events, workers
  <2>4. Len(events) = 0
    BY <2>3
  <2>5. controller' = controller
    BY <1>3, <2>3, AfterNothing
  <2>6. posted' = rest /\ live' = live /\ UNCHANGED <<host, fault, cleanup>>
    BY <1>3, <2>3, <2>4
  <2> QED
    BY <1>1, <1>4, <2>5, <2>6, SameWorkers, Undisturbed
<1> QED
  BY <1>5, <1>6

LEMMA RedrawStep ==
    ASSUME LifecycleInvariant, HandleRedraw
    PROVE  LifecycleInvariant'
<1>1. KeepsNotices(posted, posted) /\ UiRuns /\ Drain(posted)
  BY SameWorkers DEF HandleRedraw, LifecycleInvariant
<1> QED
  BY <1>1, DrainStep

LEMMA WakeStep ==
    ASSUME LifecycleInvariant, HandleWake
    PROVE  LifecycleInvariant'
<1>1. posted \in Seq(UserEvents) /\ posted # <<>> /\ Head(posted) = Wake
  BY DEF HandleWake, LifecycleInvariant, LifecycleTypes
<1>2. KeepsNotices(posted, Tail(posted))
  BY <1>1, EventTaken DEF KeepsNotices
<1> QED
  BY <1>2, DrainStep DEF HandleWake

-----------------------------------------------------------------------------
(***************************************************************************)
(* The outcome of a launch or of a cleanup is taken.                       *)
(***************************************************************************)
LEMMA NoticeIsAwaited ==
    ASSUME LifecycleInvariant, UiRuns, posted # <<>>, Outcome # Wake
    PROVE  /\ Tail(posted) \in Seq(UserEvents) /\ OnlyWakes(Tail(posted))
           /\ LaunchAnswered \/ CleanupAnswered \/ LosesCleanup
           /\ \A m : OneNotice(posted, m) => Outcome = m
<1>1. posted \in Seq(UserEvents) /\ Stage
  BY DEF LifecycleInvariant, LifecycleTypes
<1>2. \A m : OneNotice(posted, m) => Outcome = m /\ OnlyWakes(Tail(posted))
  BY <1>1, EventTaken DEF Outcome
<1>3. ~ OnlyWakes(posted)
  BY <1>1, EventTaken DEF Outcome
<1>4. LaunchAnswered \/ CleanupAnswered \/ LosesCleanup
  BY <1>1, <1>3 DEF Stage, AtRest, Launching, Running, Cleaning
<1>5. \E m : OneNotice(posted, m)
  BY <1>4 DEF LaunchAnswered, CleanupAnswered, LosesCleanup
<1> QED
  BY <1>1, <1>2, <1>4, <1>5, EventTaken

LEMMA LaunchOutcome ==
    ASSUME LifecycleInvariant, OutcomeIs("LaunchFinished")
    PROVE  /\ LaunchAnswered /\ Launches
           /\ posted' \in Seq(UserEvents) /\ OnlyWakes(posted')
           /\ Outcome.session = controller.session
           /\ Outcome.started \in BOOLEAN /\ Outcome.cancelled \in BOOLEAN
           /\ ~ Outcome.started => ~ Works(controller.session)
<1>1. UiRuns /\ posted # <<>> /\ posted' = Tail(posted) /\ Outcome.kind = "LaunchFinished"
  BY DEF OutcomeIs
<1>2. Outcome # Wake
  BY <1>1 DEF Wake
<1>3. \A s, complete : CleanupFinished(s, complete).kind = "CleanupFinished"
  BY DEF CleanupFinished
<1>4. LaunchAnswered
  <2>1. CleanupAnswered => Outcome.kind = "CleanupFinished"
    BY <1>1, <1>2, <1>3, NoticeIsAwaited DEF CleanupAnswered
  <2>2. LosesCleanup => Outcome.kind = "CleanupFinished"
    BY <1>1, <1>2, <1>3, NoticeIsAwaited DEF LosesCleanup
  <2> QED
    BY <1>1, <1>2, <2>1, <2>2, NoticeIsAwaited
<1>5. PICK started, before \in BOOLEAN :
        /\ Outcome = LaunchFinished(controller.session, started, before)
        /\ ~ started => ~ Works(controller.session)
  BY <1>1, <1>2, <1>4, NoticeIsAwaited DEF LaunchAnswered
<1>6. Outcome.session = controller.session /\ Outcome.started = started
      /\ Outcome.cancelled = before
  BY <1>5 DEF LaunchFinished
<1> QED
  BY <1>1, <1>2, <1>4, <1>5, <1>6, NoticeIsAwaited DEF LaunchAnswered

LEMMA CleanupOutcome ==
    ASSUME LifecycleInvariant, OutcomeIs("CleanupFinished")
    PROVE  /\ CleanupAnswered \/ LosesCleanup
           /\ posted' \in Seq(UserEvents) /\ OnlyWakes(posted')
           /\ Outcome.session = controller.session
           /\ Outcome.complete => CleanupAnswered /\ ~ Works(controller.session)
<1>1. UiRuns /\ posted # <<>> /\ posted' = Tail(posted) /\ Outcome.kind = "CleanupFinished"
  BY DEF OutcomeIs
<1>2. Outcome # Wake
  BY <1>1 DEF Wake
<1>3. \A s, started, before : LaunchFinished(s, started, before).kind = "LaunchFinished"
  BY DEF LaunchFinished
<1>4. CleanupAnswered \/ LosesCleanup
  <2>1. LaunchAnswered => Outcome.kind = "LaunchFinished"
    BY <1>1, <1>2, <1>3, NoticeIsAwaited DEF LaunchAnswered
  <2> QED
    BY <1>1, <1>2, <2>1, NoticeIsAwaited
<1>5. \A s, complete : /\ CleanupFinished(s, complete).session = s
                       /\ CleanupFinished(s, complete).complete = complete
  BY DEF CleanupFinished
<1>6. LosesCleanup => Outcome.session = controller.session /\ ~ Outcome.complete
  <2>1. LosesCleanup => Outcome = CleanupFinished(controller.session, FALSE)
    BY <1>1, <1>2, NoticeIsAwaited, Zenon DEF LosesCleanup
  <2> QED
    BY <2>1 DEF CleanupFinished
<1>7. CleanupAnswered => /\ Outcome.session = controller.session
                         /\ Outcome.complete => ~ Works(controller.session)
  BY <1>1, <1>2, <1>5, NoticeIsAwaited DEF CleanupAnswered
<1> QED
  BY <1>1, <1>2, <1>4, <1>6, <1>7, NoticeIsAwaited

\* The barrier of a session that is about to start, or is cancelled.
BarrierKept(s, w) ==
    /\ WorksAs(w) => s = controller.session
    /\ w.protocol = live[s].protocol /\ w.audio = live[s].audio
    /\ w.protocol = "running" => w.barrier = "Started"
    /\ w.barrier = "Started" => s \notin cancelled
    /\ s > asked => w.barrier = live[s].barrier

WithBarrier(b) == [live EXCEPT ![controller.session].barrier = b]

LEMMA BarrierSet ==
    ASSUME LifecycleTypes, BarrierHolds, NotYetAsked, OneWorks, Launches,
           NEW b \in {"Started", "Cancelled"},
           b = "Started" => controller.session \notin cancelled
    PROVE  /\ WithBarrier(b) \in [Sessions -> WorkerRecords]
           /\ \A s \in Sessions : BarrierKept(s, WithBarrier(b)[s])
<1> DEFINE c == controller.session
           workers == WithBarrier(b)
           w == [live[c] EXCEPT !.barrier = b]
<1>1. /\ live \in [Sessions -> WorkerRecords] /\ c \in Sessions /\ live[c] \in WorkerRecords
      /\ c = asked /\ live[c].barrier = "Pending" /\ asked \in Nat
  BY DEF LifecycleTypes, Launches, Slot, SessionIds
<1>2. /\ w \in WorkerRecords /\ w.barrier = b /\ w.protocol = live[c].protocol
      /\ w.audio = live[c].audio
  BY <1>1 DEF WorkerRecords
<1>3. workers = [live EXCEPT ![c] = w]
  BY <1>1 DEF WithBarrier
<1>4. live[c].protocol # "running"
  BY <1>1 DEF BarrierHolds
<1> HIDE DEF w, c, workers
<1>5. /\ workers \in [Sessions -> WorkerRecords] /\ workers[c] = w
      /\ \A s \in Sessions : s # c => workers[s] = live[s]
  BY <1>1, <1>2, <1>3
<1>6. \A s \in Sessions : WorksAs(workers[s]) => s = c
  BY <1>5, WorksIs DEF OneWorks, c
<1>7. \A s \in Sessions :
        /\ workers[s].protocol = live[s].protocol /\ workers[s].audio = live[s].audio
        /\ workers[s].protocol = "running" => workers[s].barrier = "Started"
        /\ workers[s].barrier = "Started" => s \notin cancelled
        /\ s > asked => workers[s].barrier = live[s].barrier
  <2>1. ~ (c > asked)
    BY <1>1
  <2>2. ASSUME NEW s \in Sessions
        PROVE  /\ live[s].protocol = "running" => live[s].barrier = "Started"
               /\ live[s].barrier = "Started" => s \notin cancelled
    BY DEF BarrierHolds
  <2>3. b = "Started" => c \notin cancelled
    BY DEF c
  <2> QED
    BY <1>2, <1>4, <1>5, <2>1, <2>2, <2>3
<1> QED
  BY <1>5, <1>6, <1>7 DEF c, workers, BarrierKept

\* accept_launch_outcome of a launch that succeeded.
LEMMA StartedStep ==
    ASSUME LifecycleInvariant, AcceptStarted
    PROVE  LifecycleInvariant'
<1> DEFINE c == controller.session
<1>1. /\ OutcomeIs("LaunchFinished") /\ Outcome.started /\ ~ LaunchIsCancelled /\ UiRuns
      /\ LifecycleTypes /\ BarrierHolds /\ NotYetAsked /\ OneWorks /\ fault = "None"
  BY DEF AcceptStarted, OutcomeIs, LifecycleInvariant
<1>2. /\ LaunchAnswered /\ Launches /\ Outcome.session = c
      /\ posted' \in Seq(UserEvents) /\ OnlyWakes(posted')
  BY <1>1, LaunchOutcome
<1>3. Expected
  BY <1>1, <1>2 DEF Expected, Launches, HostIs
<1>4. /\ host' = [host EXCEPT !.launching = FALSE, !.coordinator = "host",
                             !.active = c, !.handle = c]
      /\ live' = [live EXCEPT ![c].barrier = "Started"]
      /\ exit' = [exit EXCEPT !.deadline = FALSE]
      /\ launchCancelled' \in BOOLEAN
      /\ UNCHANGED <<controller, returnToForm, fault, launch, cleanup, cancelled, asked>>
  BY <1>1, <1>2, <1>3 DEF AcceptStarted, StartSession, TakeCancellation, history
<1>5. c \notin cancelled /\ ~ returnToForm /\ cleanup = NoCleanup /\ launch = Idle
      /\ c \in Sessions /\ Slot({"Connecting"}) /\ controller.page = "Connecting"
  BY <1>1, <1>2 DEF Launches, LaunchIsCancelled, LaunchAnswered, Slot
<1>6. /\ live' \in [Sessions -> WorkerRecords]
      /\ \A s \in Sessions : BarrierKept(s, live'[s])
  <2>1. live' = WithBarrier("Started")
    BY <1>4 DEF WithBarrier
  <2> QED
    BY <1>1, <1>2, <1>5, <2>1, BarrierSet
<1>7. host' = [launching |-> FALSE, active |-> c, handle |-> c, cleaning |-> FALSE,
               coordinator |-> "host"]
  BY <1>2, <1>4 DEF Launches, HostIs
<1>8. exit' \in Exits /\ ~ exit'.done /\ host' \in Hosts
  <2>1. c \in SessionIds
    BY <1>5 DEF Sessions, SessionIds
  <2> QED
    BY <1>1, <1>4, <1>7, <2>1 DEF LifecycleTypes, Exits, Hosts, UiRuns
<1>9. LifecycleTypes'
  BY <1>1, <1>2, <1>4, <1>6, <1>8 DEF LifecycleTypes
<1>10. BarrierHolds' /\ NotYetAsked'
  BY <1>1, <1>4, <1>6 DEF BarrierHolds, NotYetAsked, BarrierKept
<1>11. OneWorks'
  BY <1>4, <1>6, WorksIsNext DEF OneWorks, BarrierKept
<1>12. Running'
  <2>1. (Slot({"Connecting", "Active", "Disconnecting"}))'
    BY <1>4, <1>5 DEF Slot, InSlot
  <2> QED
    BY <1>2, <1>4, <1>5, <1>7, <2>1 DEF Running, HostIs
<1> QED
  BY <1>1, <1>4, <1>8, <1>9, <1>10, <1>11, <1>12 DEF LifecycleInvariant, Stage, Leaves

\* The barrier holds after it is set, and one session works.
LEMMA BarrierIsSet ==
    ASSUME LifecycleInvariant, Launches, OneWorks, NEW b \in {"Started", "Cancelled"},
           b = "Started" => controller.session \notin cancelled,
           \A s \in Sessions : /\ live'[s].protocol = WithBarrier(b)[s].protocol
                               /\ live'[s].audio = WithBarrier(b)[s].audio
                               /\ live'[s].video = WithBarrier(b)[s].video
                               /\ live'[s].barrier = WithBarrier(b)[s].barrier,
           UNCHANGED <<cancelled, asked>>
    PROVE  /\ BarrierHolds' /\ NotYetAsked'
           /\ \A s \in Sessions : Works(s)' => s = controller.session
<1>1. \A s \in Sessions : BarrierKept(s, WithBarrier(b)[s])
  BY BarrierSet DEF LifecycleInvariant
<1>2. \A s \in Sessions : WorksAs(live'[s]) <=> WorksAs(WithBarrier(b)[s])
  BY DEF WorksAs
<1> QED
  BY <1>1, <1>2, WorksIsNext
     DEF LifecycleInvariant, BarrierHolds, NotYetAsked, BarrierKept

\* accept_launch_outcome of a launch that was cancelled meanwhile.
LEMMA CancelledStep ==
    ASSUME LifecycleInvariant, AcceptCancelled
    PROVE  LifecycleInvariant'
<1> DEFINE c == controller.session
<1>1. /\ OutcomeIs("LaunchFinished") /\ Outcome.started /\ LaunchIsCancelled /\ UiRuns
      /\ LifecycleTypes /\ OneWorks /\ fault = "None" /\ controller \in Controllers
      /\ host \in Hosts
  BY DEF AcceptCancelled, OutcomeIs, LifecycleInvariant, LifecycleTypes
<1>2. /\ Launches /\ Outcome.session = c
      /\ posted' \in Seq(UserEvents) /\ OnlyWakes(posted')
      /\ c \in Sessions /\ c # 0 /\ c \in SessionIds /\ launch = Idle /\ cleanup = NoCleanup
  <2>1. Launches /\ LaunchAnswered /\ Outcome.session = c
        /\ posted' \in Seq(UserEvents) /\ OnlyWakes(posted')
    BY <1>1, LaunchOutcome
  <2>2. c \in Sessions
    BY <2>1 DEF Launches, Slot
  <2>3. launch = Idle /\ cleanup = NoCleanup
    BY <2>1 DEF Launches, LaunchAnswered, HostIs
  <2> HIDE DEF c
  <2> QED
    BY <2>1, <2>2, <2>3, LifecycleAssumption DEF Sessions, SessionIds
<1>3. Expected
  BY <1>1, <1>2 DEF Expected, Launches, HostIs, HoldsSlot, Slot, InSlot
<1>4. /\ CleanUpCancelled /\ UNCHANGED <<fault, launch, history>>
      /\ WithBarrier("Cancelled") \in [Sessions -> WorkerRecords]
  <2>1. CleanUpCancelled
    BY <1>3 DEF AcceptCancelled
  <2>2. "Cancelled" \in {"Started", "Cancelled"} /\ "Cancelled" # "Started"
    OBVIOUS
  <2>3. WithBarrier("Cancelled") \in [Sessions -> WorkerRecords]
    BY <1>1, <1>2, <2>2, BarrierSet DEF LifecycleInvariant
  <2> QED
    BY <2>1, <2>3 DEF CleanUpCancelled
<1> DEFINE workers == WithBarrier("Cancelled")
<1>5. CASE /\ host' = [host EXCEPT !.launching = FALSE, !.cleaning = TRUE]
           /\ cleanup' = [session |-> c, attempt |-> 1, done |-> {}]
           /\ controller' = Disconnected(controller)
           /\ returnToForm' = FALSE
           /\ live' = workers
           /\ exit' = [exit EXCEPT !.deadline = FALSE]
           /\ TakeCancellation
  <2>1. BarrierHolds' /\ NotYetAsked' /\ \A s \in Sessions : Works(s)' => s = controller.session
    BY <1>1, <1>2, <1>4, <1>5, BarrierIsSet DEF history
  <2>2. EndedFor(controller', c)
    <3>1. Started(controller, c)
      BY <1>1, <1>2 DEF Started, Launches, Slot, InSlot
    <3> QED
      BY <1>1, <1>2, <1>5, <3>1, Disconnects
  <2>3. host' = [launching |-> FALSE, active |-> 0, handle |-> 0, cleaning |-> TRUE,
                 coordinator |-> "lent"]
    BY <1>2, <1>5 DEF Launches, HostIs
  <2>4. host' \in Hosts
    BY <2>3, LifecycleAssumption DEF Hosts, SessionIds
  <2>5. exit' \in Exits /\ ~ exit'.done
    BY <1>1, <1>5 DEF LifecycleTypes, Exits, UiRuns
  <2>6. launchCancelled' \in BOOLEAN /\ returnToForm' \in BOOLEAN
    BY <1>5 DEF TakeCancellation
  <2>7. cleanup' \in [session : SessionIds, attempt : Nat, done : SUBSET CleanupSteps]
    BY <1>2, <1>5
  <2>8. LifecycleTypes'
    BY <1>1, <1>2, <1>4, <1>5, <2>2, <2>4, <2>5, <2>6, <2>7
       DEF LifecycleTypes, EndedFor, history
  <2>9. Cleaning'
    <3>1. (Slot({"Disconnecting", "CleanupPending"}))'
      BY <1>2, <1>4, <2>2 DEF Slot, EndedFor, InSlot, Launches, history
    <3> QED
      BY <1>2, <1>4, <1>5, <2>2, <2>3, <3>1 DEF Cleaning, CleansUp, HostIs, EndedFor
  <2>10. OneWorks'
    BY <2>1, <2>2 DEF OneWorks, EndedFor
  <2> QED
    BY <1>1, <1>4, <2>1, <2>5, <2>8, <2>9, <2>10 DEF LifecycleInvariant, Stage, Leaves
<1>6. CASE /\ Fatal([host EXCEPT !.launching = FALSE, !.coordinator = "lost"], workers)
           /\ UNCHANGED <<cleanup, controller, returnToForm>>
  <2> DEFINE h == [host EXCEPT !.launching = FALSE, !.coordinator = "lost"]
  <2>1. h \in Hosts /\ h.active = 0
    BY <1>1, <1>2 DEF Hosts, Launches, HostIs
  <2>2. Fatal(h, workers)
    BY <1>6
  <2> HIDE DEF h
  <2>3. live' = workers
    BY <2>1, <2>2 DEF Fatal, TellDisconnect
  <2>4. BarrierHolds' /\ NotYetAsked'
    BY <1>1, <1>2, <1>4, <2>3, BarrierIsSet DEF history
  <2>5. /\ controller' \in Controllers /\ returnToForm' \in BOOLEAN
        /\ cleanup' \in [session : SessionIds, attempt : Nat, done : SUBSET CleanupSteps]
    BY <1>1, <1>6 DEF LifecycleTypes
  <2> HIDE DEF workers
  <2>6. workers \in [Sessions -> WorkerRecords]
    BY <1>4 DEF workers
  <2> QED
    BY <1>2, <1>4, <2>1, <2>2, <2>4, <2>5, <2>6, FatalEnds
<1> QED
  <2>1. [live EXCEPT ![Outcome.session].barrier = "Cancelled"] = workers
    BY <1>2 DEF WithBarrier
  <2> HIDE DEF workers
  <2> QED
    BY <1>2, <1>4, <1>5, <1>6, <2>1 DEF CleanUpCancelled

-----------------------------------------------------------------------------
(***************************************************************************)
(* The slot is returned, after a launch rolled back or a cleanup that was  *)
(* complete: the application is at rest.                                   *)
(***************************************************************************)
LEMMA RestReached ==
    ASSUME LifecycleInvariant, UiRuns, ~ Works(controller.session),
           HostIs(FALSE, 0, FALSE, "host")', posted' \in Seq(UserEvents), OnlyWakes(posted'),
           controller' \in Controllers, controller'.session = 0, controller'.slot = Vacant,
           ~ returnToForm', returnToForm' \in BOOLEAN, launchCancelled' \in BOOLEAN,
           exit' \in Exits, launch = Idle, cleanup = NoCleanup,
           UNCHANGED <<fault, launch, cleanup, live, history>>
    PROVE  LifecycleInvariant'
<1>1. host' \in Hosts
  BY LifecycleAssumption DEF HostIs, Hosts, SessionIds
<1>2. LifecycleTypes'
  BY <1>1 DEF LifecycleInvariant, LifecycleTypes, history
<1>3. BarrierHolds' /\ NotYetAsked'
  BY DEF LifecycleInvariant, BarrierHolds, NotYetAsked, history
<1>4. \A s \in Sessions : ~ Works(s)'
  BY WorksIs, WorksIsNext DEF LifecycleInvariant, OneWorks
<1>5. AtRest'
  BY DEF AtRest, HostIs, Idle, NoCleanup
<1> QED
  BY <1>2, <1>3, <1>4, <1>5 DEF LifecycleInvariant, Stage, OneWorks, Leaves

LEMMA ExitTyped ==
    ASSUME NEW x \in Exits, NEW h
    PROVE  ExitIfClean(x, h) \in Exits
<1> DEFINE clean == x.whenClean /\ ~ IsActive(h)
<1>1. clean \in BOOLEAN
  OBVIOUS
<1>2. ExitIfClean(x, h) = [x EXCEPT !.done = clean]
  BY DEF ExitIfClean
<1> HIDE DEF clean
<1> QED
  BY <1>1, <1>2 DEF Exits

LEMMA RolledBackStep ==
    ASSUME LifecycleInvariant, AcceptRolledBack
    PROVE  LifecycleInvariant'
<1>1. /\ OutcomeIs("LaunchFinished") /\ ~ Outcome.started /\ UiRuns
      /\ LifecycleTypes /\ exit \in Exits /\ returnToForm \in BOOLEAN
  BY DEF AcceptRolledBack, OutcomeIs, LifecycleInvariant, LifecycleTypes
<1>2. /\ LaunchAnswered /\ Launches /\ Outcome.session = controller.session
      /\ posted' \in Seq(UserEvents) /\ OnlyWakes(posted') /\ ~ Works(controller.session)
  BY <1>1, LaunchOutcome
<1>3. Expected
  BY <1>1, <1>2 DEF Expected, Launches, HostIs, RollsBack, Slot
<1>4. ReturnSlot
  BY <1>3 DEF AcceptRolledBack
<1>5. HostIs(FALSE, 0, FALSE, "host")'
  <2>1. host' = [host EXCEPT !.launching = FALSE, !.coordinator = "host"]
    BY <1>4 DEF ReturnSlot
  <2> QED
    BY <1>2, <2>1 DEF Launches, HostIs
<1>6. /\ controller' \in Controllers /\ controller'.session = 0 /\ controller'.slot = Vacant
  BY <1>4, LifecycleAssumption DEF ReturnSlot, Controllers, Vacant, SlotPhases, SessionIds
<1>7. ~ returnToForm' /\ returnToForm' \in BOOLEAN /\ launchCancelled' \in BOOLEAN
  <2>1. returnToForm => LaunchIsCancelled
    BY <1>2 DEF Launches, LaunchIsCancelled
  <2>2. returnToForm' = (returnToForm /\ ~ LaunchIsCancelled) /\ TakeCancellation
    BY <1>4 DEF ReturnSlot
  <2> QED
    BY <2>1, <2>2 DEF TakeCancellation
<1>8. exit' \in Exits
  <2>1. exit' = ExitIfClean([exit EXCEPT !.deadline = FALSE], host')
    BY <1>4 DEF ReturnSlot
  <2>2. [exit EXCEPT !.deadline = FALSE] \in Exits
    BY <1>1 DEF Exits
  <2> QED
    BY <2>1, <2>2, ExitTyped
<1>9. launch = Idle /\ cleanup = NoCleanup /\ UNCHANGED <<fault, launch, cleanup, live, history>>
  BY <1>2, <1>4 DEF ReturnSlot, Launches, LaunchAnswered
<1> QED
  BY <1>1, <1>2, <1>5, <1>6, <1>7, <1>8, <1>9, RestReached

\* handle_cleanup_finished.
LEMMA CleanedStep ==
    ASSUME LifecycleInvariant, AcceptCleanup
    PROVE  LifecycleInvariant'
<1>1. /\ OutcomeIs("CleanupFinished") /\ Outcome.complete /\ UiRuns
      /\ LifecycleTypes /\ exit \in Exits /\ controller \in Controllers
  BY DEF AcceptCleanup, OutcomeIs, LifecycleInvariant, LifecycleTypes
<1>2. /\ CleanupAnswered /\ Outcome.session = controller.session
      /\ posted' \in Seq(UserEvents) /\ OnlyWakes(posted') /\ ~ Works(controller.session)
  BY <1>1, CleanupOutcome
<1>3. InSlot(controller, Outcome.session, {"Disconnecting", "CleanupPending"})
  BY <1>2 DEF CleanupAnswered, CleansUp, Slot
<1>4. /\ host' = [host EXCEPT !.cleaning = FALSE, !.coordinator = "host"]
      /\ controller' =
           [session |-> 0, slot |-> Vacant,
            page |-> IF controller.page = "Disconnecting"
                     THEN "ConnectionForm" ELSE controller.page]
      /\ exit' = ExitIfClean(exit, host')
      /\ UNCHANGED <<returnToForm, fault, armed, launchCancelled, launch, cleanup, live, history>>
  BY <1>3 DEF AcceptCleanup
<1>5. HostIs(FALSE, 0, FALSE, "host")'
  BY <1>2, <1>4 DEF CleanupAnswered, CleansUp, HostIs
<1>6. /\ controller' \in Controllers /\ controller'.session = 0 /\ controller'.slot = Vacant
  BY <1>1, <1>4, LifecycleAssumption DEF Controllers, Vacant, SlotPhases, SessionIds
<1>7. exit' \in Exits
  BY <1>1, <1>4, ExitTyped
<1>8. /\ launch = Idle /\ cleanup = NoCleanup /\ ~ returnToForm
      /\ returnToForm \in BOOLEAN /\ launchCancelled \in BOOLEAN
  BY <1>1, <1>2 DEF CleanupAnswered, CleansUp, LifecycleTypes
<1> QED
  BY <1>1, <1>2, <1>4, <1>5, <1>6, <1>7, <1>8, RestReached

LEMMA NotCleanedStep ==
    ASSUME LifecycleInvariant, AcceptCleanupFailure
    PROVE  LifecycleInvariant'
<1> DEFINE h == [host EXCEPT !.cleaning = FALSE, !.coordinator = "lost"]
<1>1. /\ OutcomeIs("CleanupFinished") /\ Fatal(h, live) /\ LifecycleTypes
      /\ live \in [Sessions -> WorkerRecords] /\ host \in Hosts /\ UiRuns
      /\ UNCHANGED <<controller, returnToForm, fault, launch, cleanup, history>>
  BY DEF AcceptCleanupFailure, OutcomeIs, LifecycleInvariant, LifecycleTypes
<1>2. h \in Hosts /\ h.active = host.active /\ host.active \in SessionIds
  BY <1>1 DEF Hosts
<1>3. posted' \in Seq(UserEvents)
  BY <1>1, CleanupOutcome
<1> HIDE DEF h
<1>4. BarrierHolds' /\ NotYetAsked'
  <2>1. live' = TellDisconnect(live, host.active)
    BY <1>1, <1>2 DEF Fatal
  <2>2. \A t \in Sessions : NoMore(live[t], live'[t])
    BY <1>1, <1>2, <2>1, ToldToDisconnect
  <2> QED
    BY <1>1, <2>2 DEF LifecycleInvariant, BarrierHolds, NotYetAsked, NoMore, history
<1> QED
  BY <1>1, <1>2, <1>3, <1>4, FatalEnds DEF LifecycleTypes

-----------------------------------------------------------------------------
(***************************************************************************)
(* The inductive invariant holds of every behaviour.                       *)
(***************************************************************************)
LEMMA InvariantInit == LifecycleInit => LifecycleInvariant
<1> SUFFICES ASSUME LifecycleInit PROVE LifecycleInvariant
  OBVIOUS
<1>1. NoWorkers \in WorkerRecords
  <2>1. <<>> \in Seq(SessionEvents) /\ {} \in SUBSET SessionEvents
    OBVIOUS
  <2> QED
    BY <2>1 DEF NoWorkers, WorkerRecords
<1>2. live = [s \in Sessions |-> NoWorkers]
  BY DEF LifecycleInit
<1>3. posted = <<>> /\ OnlyWakes(posted) /\ posted \in Seq(UserEvents)
  BY DEF LifecycleInit, OnlyWakes
<1>4. controller \in Controllers /\ host \in Hosts /\ exit \in Exits
  BY LifecycleAssumption
     DEF LifecycleInit, Controllers, Hosts, Exits, Vacant, SessionIds, SlotPhases
<1>5. /\ launch \in [session : SessionIds, step : LaunchSteps]
      /\ cleanup \in [session : SessionIds, attempt : Nat, done : SUBSET CleanupSteps]
      /\ asked \in SessionIds
  BY LifecycleAssumption DEF LifecycleInit, Idle, NoCleanup, SessionIds, LaunchSteps
<1>6. live \in [Sessions -> WorkerRecords]
  BY <1>1, <1>2
<1>7. LifecycleTypes
  BY <1>3, <1>4, <1>5, <1>6 DEF LifecycleTypes, LifecycleInit
<1>8. AtRest
  BY <1>3 DEF AtRest, HostIs, LifecycleInit
<1>9. BarrierHolds /\ NotYetAsked
  BY <1>2 DEF BarrierHolds, NotYetAsked, NoWorkers, LifecycleInit
<1>10. \A s \in Sessions : ~ Works(s)
  BY <1>2 DEF Works, NoWorkers
<1> QED
  BY <1>7, <1>8, <1>9, <1>10 DEF LifecycleInvariant, LifecycleInit, Stage, OneWorks, Leaves

LEMMA InvariantStutters ==
    ASSUME LifecycleInvariant, UNCHANGED allVars
    PROVE  LifecycleInvariant'
<1>1. /\ UNCHANGED <<controller, host, returnToForm, exit, fault>>
      /\ UNCHANGED <<posted, armed, launchCancelled, launch, cleanup, live>>
      /\ UNCHANGED <<cancelled, asked, closing>>
  BY DEF allVars, uiVars, history
<1>2. Stage' <=> Stage
  <2> USE <1>1 DEF HostIs, Slot, Launches, CleansUp
  <2>1. AtRest' <=> AtRest
    BY DEF AtRest
  <2>2. Launching' <=> Launching
    BY DEF Launching
  <2>3. LaunchAnswered' <=> LaunchAnswered
    BY DEF LaunchAnswered, Works
  <2>4. Running' <=> Running
    BY DEF Running
  <2>5. Cleaning' <=> Cleaning
    BY DEF Cleaning, Works
  <2>6. CleanupAnswered' <=> CleanupAnswered
    BY DEF CleanupAnswered, Works
  <2>7. LosesCleanup' <=> LosesCleanup
    BY DEF LosesCleanup
  <2> QED
    BY <2>1, <2>2, <2>3, <2>4, <2>5, <2>6, <2>7 DEF Stage
<1>3. (OneWorks' <=> OneWorks) /\ (Leaves' <=> Leaves)
  BY <1>1 DEF OneWorks, Leaves, Works, CleanupLost
<1>4. LifecycleTypes' /\ BarrierHolds' /\ NotYetAsked'
  BY <1>1 DEF LifecycleInvariant, LifecycleTypes, BarrierHolds, NotYetAsked
<1> QED
  BY <1>1, <1>2, <1>3, <1>4 DEF LifecycleInvariant, UiRuns

LEMMA InvariantNext ==
    ASSUME LifecycleInvariant, [LifecycleNext]_allVars
    PROVE  LifecycleInvariant'
<1>1. CASE \E s \in Sessions : Connect(s)
  BY <1>1, ConnectStep
<1>2. CASE Cancel
  BY <1>2, CancelStep
<1>3. CASE ReturnToConnection
  BY <1>3, ReturnStep
<1>4. CASE Close
  BY <1>4, CloseStep
<1>5. CASE ShutdownTimeout \/ PresentationFails
  <2>1. UiRuns
    BY <1>5 DEF ShutdownTimeout, PresentationFails
  <2> QED
    BY <1>5, <2>1, UiFails
<1>6. CASE HandlePosted
  BY <1>6, WakeStep, StartedStep, CancelledStep, RolledBackStep, CleanedStep, NotCleanedStep
     DEF HandlePosted
<1>7. CASE HandleRedraw
  BY <1>7, RedrawStep
<1>8. CASE LaunchStep \/ LaunchCreate
  BY <1>8, LaunchThread
<1>9. CASE CleanupStep
  BY <1>9, CleanupThread
<1>10. ASSUME NEW s \in Sessions,
              \/ WorkerStep(s)
              \/ \E e \in {"TransportReady", "Disconnecting"} : ProtocolReports(s, e)
              \/ \E e \in {"Closed", "Failed"} : ProtocolExits(s, e)
              \/ AudioFails(s)
              \/ VideoExits(s, "panicked")
       PROVE  LifecycleInvariant'
  BY <1>10, WorkersStep
<1>11. CASE UNCHANGED allVars
  BY <1>11, InvariantStutters
<1> QED
  BY <1>1, <1>2, <1>3, <1>4, <1>5, <1>6, <1>7, <1>8, <1>9, <1>10, <1>11 DEF LifecycleNext

(***************************************************************************)
(* At any time the application is at rest or at one stage of one session,  *)
(* and every report of the other threads finds it at the stage that waits  *)
(* for it.                                                                 *)
(***************************************************************************)
THEOREM LifecycleInvariance == LifecycleSpec => []LifecycleInvariant
<1>1. LifecycleInvariant /\ [LifecycleNext]_allVars => LifecycleInvariant'
  BY InvariantNext
<1> QED
  BY <1>1, InvariantInit, PTL DEF LifecycleSpec

-----------------------------------------------------------------------------
(***************************************************************************)
(* The slot of the controller and the host agree between two callbacks,    *)
(* though neither reads the other; no event is ever reported as            *)
(* InvalidState and the coordinator is at home when it is taken.           *)
(***************************************************************************)
LEMMA InvariantTracks == LifecycleInvariant => SlotTracksHost
<1> SUFFICES ASSUME LifecycleInvariant, UiRuns
             PROVE  /\ controller.slot # Vacant <=> IsActive(host) \/ CleanupLost
                    /\ controller.session = controller.slot.session
                    /\ host.handle \in {0, controller.session}
                    /\ host.active = host.handle
                    /\ host.launching => /\ controller.slot.phase = "Connecting"
                                         /\ controller.page = "Connecting"
                    /\ host.cleaning =>
                         controller.slot.phase \in {"Disconnecting", "CleanupPending"}
                    /\ returnToForm => host.launching
  BY DEF SlotTracksHost, LifecycleInvariant
<1>1. LifecycleTypes /\ Stage
  BY DEF LifecycleInvariant
<1>2. \A phases : Slot(phases) /\ "Vacant" \notin phases =>
        /\ controller.slot # Vacant /\ controller.session # 0
        /\ controller.session = controller.slot.session /\ controller.slot.phase \in phases
  BY LifecycleAssumption DEF Slot, InSlot, Vacant, Sessions
<1>3. CASE AtRest
  <2>1. ~ CleanupLost
    BY <1>3, LostIsPosted DEF AtRest
  <2> QED
    BY <1>3, <2>1 DEF AtRest, HostIs, IsActive, Vacant
<1>4. CASE Launches
  BY <1>2, <1>4 DEF Launches, HostIs, IsActive
<1>5. CASE Running
  <2>1. /\ host = [launching |-> FALSE, active |-> controller.session,
                   handle |-> controller.session, cleaning |-> FALSE, coordinator |-> "host"]
        /\ Slot({"Connecting", "Active", "Disconnecting"}) /\ ~ returnToForm
    BY <1>5 DEF Running, HostIs
  <2> QED
    BY <1>2, <2>1 DEF IsActive
<1>6. CASE CleansUp
  BY <1>2, <1>6 DEF CleansUp, HostIs, IsActive
<1>7. CASE LosesCleanup
  <2> DEFINE m == CleanupFinished(controller.session, FALSE)
  <2>1. m.kind = "CleanupFinished" /\ ~ m.complete
    BY DEF CleanupFinished
  <2>2. OneNotice(posted, m)
    BY <1>7, Zenon DEF LosesCleanup
  <2> HIDE DEF m
  <2>3. CleanupLost
    BY <2>1, <2>2 DEF OneNotice, CleanupLost
  <2> QED
    BY <1>2, <1>7, <2>3 DEF LosesCleanup, HostIs, IsActive
<1> QED
  BY <1>1, <1>3, <1>4, <1>5, <1>6, <1>7
     DEF Stage, Launching, LaunchAnswered, Cleaning, CleanupAnswered

THEOREM SlotAlwaysTracksHost == LifecycleSpec => []SlotTracksHost
BY LifecycleInvariance, InvariantTracks, PTL

(***************************************************************************)
(* A launch cancelled while it was pending never runs its protocol.        *)
(***************************************************************************)
LEMMA InvariantCancels == LifecycleInvariant => CancelWins
BY DEF LifecycleInvariant, LifecycleTypes, BarrierHolds, CancelWins

THEOREM CancelAlwaysWins == LifecycleSpec => []CancelWins
BY LifecycleInvariance, InvariantCancels, PTL

(***************************************************************************)
(* No two sessions have workers that work, and the event loop ends without *)
(* a fatal report only when nothing is left running.                       *)
(***************************************************************************)
LEMMA InvariantOneWorks == LifecycleInvariant => WorkersGoneInTime
BY DEF LifecycleInvariant, OneWorks, Leaves, WorkersGoneInTime

THEOREM WorkersAlwaysGoneInTime == LifecycleSpec => []WorkersGoneInTime
BY LifecycleInvariance, InvariantOneWorks, PTL
=============================================================================
