------------------------ MODULE AppleProtocolProofs ------------------------
(***************************************************************************)
(* Proofs about the protocol threads of an Apple session.  The generations *)
(* of the display agree (GeometryAgrees), for all sizes and bounds: every  *)
(* step of the reader is a composition of the operators of AppleReader,    *)
(* and Good is kept by each of them.  The guess of the rollover counter of *)
(* SRTP is right (Authenticates) for every even size of the sequence       *)
(* space, that of the code (2^16) with them.  What the decoder is given is *)
(* whole pictures of the server (WholePictures); none is left out in       *)
(* silence (NoSilentGap), and none is given without the one it refers to   *)
(* (ReferencesKept), as long as less than half of that space, less the     *)
(* windows, is lost in a row (NoLongLoss).                                 *)
(***************************************************************************)
EXTENDS AppleReader, VideoReceive, WellFoundedInduction, TLAPS

States == {"Unavailable", "Disabled", "Stable", "Pending", "Switching"}
Controllers ==
    [state : States, generation : Nat, size : Sizes, target : Sizes \cup {NoSize}]
Admissions == [target : Sizes \cup {NoSize}, generation : Nat]
Readers ==
    [generation : Nat \ {0}, size : Sizes,
     inFlight : BOOLEAN, followup : {"None", "Scheduled", "Sent"}, assembling : BOOLEAN,
     queue : Sizes \cup {NoSize}, controller : Controllers,
     waiting : BOOLEAN, admission : Admissions,
     single : BOOLEAN, applied : BOOLEAN, armedAt : Nat,
     owed : Nat, lapsed : BOOLEAN, end : {"no", "tables", "incoherent"}]

(***************************************************************************)
(* GeometryAgrees with what it rests on: a controller that is not armed    *)
(* never waits for an answer, and the first surface has the first size.    *)
(***************************************************************************)
Good(r) ==
    /\ r \in Readers
    /\ ~ Armed(r) => r.controller.state = "Unavailable"
    /\ r.generation = 1 => r.size = FirstSize
    /\ ~ ArmedLate(r) => Agrees(r)

\* The inductive invariant.
GoodReader == Good(reader)

LEMMA FirstSizeKnown == FirstSize \in Sizes /\ NoSize = 0
BY ReaderAssumption DEF NoSize

(***************************************************************************)
(* What Good speaks of, and what a request or a flag leaves alone.         *)
(***************************************************************************)
SameGeometry(r, t) ==
    /\ t.generation = r.generation /\ t.size = r.size /\ t.controller = r.controller
    /\ t.waiting = r.waiting /\ t.admission = r.admission /\ t.armedAt = r.armedAt

LEMMA SameIsGood ==
    ASSUME NEW r, Good(r), NEW t \in Readers, SameGeometry(r, t),
           t.end = "incoherent" => r.end = "incoherent"
    PROVE  Good(t)
BY DEF Good, SameGeometry, Armed, ArmedLate, Agrees

LEMMA AskedGood ==
    ASSUME NEW r, Good(r)
    PROVE  Good(Asked(r)) /\ SameGeometry(r, Asked(r)) /\ Asked(r).end = r.end
<1>1. r \in Readers
  BY DEF Good
<1>2. Asked(r) \in Readers
  BY <1>1 DEF Asked, Readers
<1>3. SameGeometry(r, Asked(r)) /\ Asked(r).end = r.end
  BY <1>1 DEF Asked, SameGeometry, Readers
<1> QED
  BY <1>2, <1>3, SameIsGood

LEMMA RecoveredGood ==
    ASSUME NEW r, Good(r)
    PROVE  Good(Recovered(r))
<1> DEFINE t == [r EXCEPT !.assembling = FALSE]
<1>1. r \in Readers
  BY DEF Good
<1>2. t \in Readers /\ SameGeometry(r, t) /\ t.end = r.end
  BY <1>1 DEF SameGeometry, Readers
<1>3. Good(t)
  BY <1>2, SameIsGood
<1> QED
  BY <1>3, AskedGood DEF Recovered

LEMMA BegunGood ==
    ASSUME NEW r, Good(r)
    PROVE  Good(Begun(r))
<1>1. r \in Readers
  BY DEF Good
<1>2. Begun(r) \in Readers /\ SameGeometry(r, Begun(r)) /\ Begun(r).end = r.end
  BY <1>1 DEF Begun, SameGeometry, Readers
<1> QED
  BY <1>2, SameIsGood

-----------------------------------------------------------------------------
LEMMA MaybeArmedGood ==
    ASSUME NEW r, Good(r)
    PROVE  Good(MaybeArmed(r)) /\ MaybeArmed(r).end = r.end
<1> DEFINE c == NewController(IF optIn THEN "Stable" ELSE "Disabled")
           t == [r EXCEPT !.armedAt = r.generation, !.controller = c]
<1>1. r \in Readers
  BY DEF Good
<1>2. CASE ~ Armed(r) /\ r.single /\ r.applied
  <2>1. MaybeArmed(r) = t
    BY <1>2 DEF MaybeArmed
  <2>2. c \in Controllers /\ c.generation = 0 /\ c.size = FirstSize /\ c.state # "Pending"
    BY FirstSizeKnown DEF NewController, Controllers, States, NoSize
  <2>3. /\ t.armedAt = r.generation /\ t.controller = c /\ t.generation = r.generation
        /\ t.size = r.size /\ t.waiting = r.waiting /\ t.admission = r.admission
        /\ t.end = r.end
    BY <1>1 DEF Readers
  <2>4. t \in Readers
    BY <1>1, <2>2 DEF Readers
  <2>5. Agrees(r) /\ ~ r.waiting /\ r.admission = NoAdmission
    BY <1>2 DEF Good, Armed, ArmedLate, Agrees
  <2>6. r.generation \in Nat \ {0} /\ (r.generation = 1 => r.size = FirstSize)
    BY <1>1 DEF Good, Readers
  <2>7. r.generation = 1 => Agrees(t)
    BY <2>2, <2>3, <2>5, <2>6 DEF Agrees
  <2>8. Good(t)
    BY <2>3, <2>4, <2>6, <2>7 DEF Good, Armed, ArmedLate
  <2> QED
    BY <2>1, <2>3, <2>8
<1>3. CASE ~ (~ Armed(r) /\ r.single /\ r.applied)
  BY <1>3 DEF MaybeArmed
<1> QED
  BY <1>2, <1>3

LEMMA DisplaysObservedGood ==
    ASSUME NEW r, Good(r), NEW size \in Sizes, NEW single \in BOOLEAN
    PROVE  /\ Good(DisplaysObserved(r, size, single))
           /\ DisplaysObserved(r, size, single).end = r.end
<1> DEFINE t == [r EXCEPT !.single = single]
<1>1. r \in Readers
  BY DEF Good
<1>2. t \in Readers /\ SameGeometry(r, t) /\ t.end = r.end
  BY <1>1 DEF Readers, SameGeometry
<1>3. Good(t)
  BY <1>2, SameIsGood
<1>4. Good(MaybeArmed(t)) /\ MaybeArmed(t).end = r.end
  BY <1>2, <1>3, MaybeArmedGood
<1>5. Good(MaybeArmed(r)) /\ MaybeArmed(r).end = r.end
  BY MaybeArmedGood
<1> QED
  BY <1>4, <1>5 DEF DisplaysObserved

LEMMA FullAppliedGood ==
    ASSUME NEW r, Good(r)
    PROVE  Good(FullApplied(r))
<1> DEFINE t == [r EXCEPT !.applied = TRUE]
           u == [r EXCEPT !.controller.state = "Stable"]
<1>1. r \in Readers /\ r.controller \in Controllers
  BY DEF Good, Readers
<1>2. t \in Readers /\ SameGeometry(r, t) /\ t.end = r.end
  BY <1>1 DEF Readers, SameGeometry
<1>3. Good(MaybeArmed(t))
  BY <1>2, SameIsGood, MaybeArmedGood
<1>4. ASSUME r.controller.state = "Switching" PROVE Good(u)
  <2>1. /\ u.controller = [r.controller EXCEPT !.state = "Stable"]
        /\ u.armedAt = r.armedAt /\ u.generation = r.generation /\ u.size = r.size
        /\ u.waiting = r.waiting /\ u.admission = r.admission /\ u.end = r.end
    BY <1>1 DEF Readers
  <2>2. /\ u.controller \in Controllers
        /\ u.controller.state = "Stable" /\ u.controller.size = r.controller.size
        /\ u.controller.generation = r.controller.generation
    BY <1>1, <2>1 DEF Controllers, States
  <2>3. u \in Readers
    BY <1>1, <2>1, <2>2 DEF Readers
  <2>4. Armed(r)
    BY <1>4 DEF Good
  <2>5. ~ ArmedLate(r) => Agrees(u)
    BY <1>4, <2>1, <2>2 DEF Good, Agrees
  <2> QED
    BY <2>1, <2>3, <2>4, <2>5 DEF Good, Armed, ArmedLate
<1> QED
  BY <1>3, <1>4 DEF FullApplied

LEMMA TimedOutGood ==
    ASSUME NEW r, Good(r), r.waiting
    PROVE  Good(TimedOut(r))
<1> DEFINE t == TimedOut(r)
<1>1. r \in Readers /\ r.controller \in Controllers
  BY DEF Good, Readers
<1>2. NoAdmission \in Admissions
  BY FirstSizeKnown DEF NoAdmission, Admissions, NoSize
<1>3. /\ t.controller = [r.controller EXCEPT !.state = "Stable", !.target = NoSize]
      /\ t.armedAt = r.armedAt /\ t.generation = r.generation /\ t.size = r.size
      /\ t.waiting = FALSE /\ t.admission = NoAdmission /\ t.end = r.end
  BY <1>1 DEF TimedOut, Readers, Controllers
<1>4. /\ t.controller \in Controllers
      /\ t.controller.state = "Stable" /\ t.controller.size = r.controller.size
      /\ t.controller.generation = r.controller.generation
  BY <1>1, <1>3 DEF Controllers, States
<1>5. t \in Readers
  BY <1>1, <1>2, <1>3, <1>4 DEF TimedOut, Readers
<1>6. Armed(r)
  BY DEF Good, Armed, ArmedLate, Agrees
<1>7. ~ ArmedLate(r) => Agrees(t)
  BY <1>3, <1>4 DEF Good, Agrees
<1> QED
  BY <1>3, <1>5, <1>6, <1>7 DEF Good, Armed, ArmedLate

LEMMA TargetedGood ==
    ASSUME NEW r, Good(r), Armed(r), r.controller.state = "Stable", r.queue # NoSize
    PROVE  Good(Targeted(r))
<1> DEFINE t == [r EXCEPT !.controller.state = "Pending", !.controller.target = r.queue,
                   !.waiting = TRUE, !.queue = NoSize,
                   !.admission = [target |-> r.queue, generation |-> r.generation + 1]]
           u == [r EXCEPT !.end = "incoherent"]
           matches == /\ r.controller.generation + 1 = r.generation
                      /\ r.admission = NoAdmission
<1>1. r \in Readers /\ r.controller \in Controllers /\ r.queue \in Sizes
      /\ r.generation \in Nat
  BY DEF Good, Readers
<1>2. Targeted(r) = IF matches THEN t ELSE u
  BY DEF Targeted
<1>3. CASE matches
  <2>1. [target |-> r.queue, generation |-> r.generation + 1] \in Admissions
    BY <1>1 DEF Admissions
  <2>2. /\ t.controller = [r.controller EXCEPT !.state = "Pending", !.target = r.queue]
        /\ t.armedAt = r.armedAt /\ t.generation = r.generation /\ t.size = r.size
        /\ t.waiting = TRUE /\ t.end = r.end
        /\ t.admission = [target |-> r.queue, generation |-> r.generation + 1]
    BY <1>1 DEF Readers, Controllers
  <2> DEFINE c == [r.controller EXCEPT !.state = "Pending", !.target = r.queue]
  <2>a. /\ c \in Controllers
        /\ c.state = "Pending" /\ c.size = r.controller.size
        /\ c.generation = r.controller.generation /\ c.target = r.queue
    BY <1>1 DEF Controllers, States
  <2> HIDE DEF t, c
  <2>3. /\ t.controller \in Controllers
        /\ t.controller.state = "Pending" /\ t.controller.size = r.controller.size
        /\ t.controller.generation = r.controller.generation
        /\ t.controller.target = r.queue
    BY <2>2, <2>a DEF c
  <2> USE DEF t
  <2>4. t \in Readers
    BY <1>1, <2>1, <2>2, <2>3 DEF Readers
  <2>5. ~ ArmedLate(r) => Agrees(t)
    BY <2>2, <2>3 DEF Good, Agrees
  <2>6. Good(t)
    BY <2>2, <2>4, <2>5 DEF Good, Armed, ArmedLate
  <2> QED
    BY <1>2, <1>3, <2>6
<1>4. CASE ~ matches
  <2>1. ArmedLate(r)
    BY <1>4 DEF Good, Agrees
  <2>2. u \in Readers /\ SameGeometry(r, u)
    BY <1>1 DEF Readers, SameGeometry
  <2>3. Good(u)
    BY <2>1, <2>2 DEF Good, SameGeometry, Armed, ArmedLate
  <2> QED
    BY <1>2, <1>4, <2>3
<1> QED
  BY <1>3, <1>4

LEMMA ViewportServedGood ==
    ASSUME NEW r, Good(r)
    PROVE  Good(ViewportServed(r))
<1> DEFINE t == [r EXCEPT !.queue = NoSize]
<1>1. r \in Readers
  BY DEF Good
<1>2. t \in Readers /\ SameGeometry(r, t) /\ t.end = r.end
  BY <1>1 DEF Readers, SameGeometry
<1>3. Good(t)
  BY <1>2, SameIsGood
<1> QED
  BY <1>3, TargetedGood DEF ViewportServed

-----------------------------------------------------------------------------
LEMMA TickedGood ==
    ASSUME NEW r, Good(r), NEW due
    PROVE  Good(Ticked(r, due))
<1> DEFINE recovered == r.assembling /\ "incomplete" \in due
           a == IF recovered THEN Recovered(r) ELSE r
           b == IF a.waiting /\ "pending" \in due THEN TimedOut(a) ELSE a
           f == [b EXCEPT !.followup = "Sent"]
<1>1. Good(a)
  BY RecoveredGood
<1>2. Good(b)
  BY <1>1, TimedOutGood
<1> HIDE DEF a, b
<1>3. f \in Readers /\ SameGeometry(b, f) /\ f.end = b.end
  BY <1>2 DEF Good, Readers, SameGeometry
<1>4. Good(Asked(f))
  BY <1>2, <1>3, SameIsGood, AskedGood
<1>5. Good(ViewportServed(b))
  BY <1>2, ViewportServedGood
<1>6. Ticked(r, due) \in {b, Asked(f), ViewportServed(b)}
  BY DEF Ticked, a, b
<1> QED
  BY <1>2, <1>4, <1>5, <1>6

LEMMA FullBoundaryGood ==
    ASSUME NEW r, Good(r), NEW due
    PROVE  Good(FullBoundary(r, due))
<1> DEFINE n == [r EXCEPT !.followup = "None"]
<1>1. n \in Readers /\ SameGeometry(r, n) /\ n.end = r.end
  BY DEF Good, Readers, SameGeometry
<1>2. Good(n)
  BY <1>1, SameIsGood
<1>3. Good(Ticked(n, due))
  BY <1>2, TickedGood
<1> QED
  BY <1>3, AskedGood DEF FullBoundary

LEMMA CompletedGood ==
    ASSUME NEW r, Good(r), NEW record \in Records, NEW due
    PROVE  Good(Completed(r, record, due))
<1> DEFINE b == Begun(r)
           t == [b EXCEPT !.end = "tables"]
           s == [b EXCEPT !.followup = "Scheduled"]
<1>1. Good(b)
  BY BegunGood
<1> HIDE DEF b
<1>2. Good(t)
  <2>1. t \in Readers /\ SameGeometry(b, t) /\ t.end = "tables"
    BY <1>1 DEF Good, Readers, SameGeometry
  <2> QED
    BY <1>1, <2>1, SameIsGood
<1>3. Good(s)
  <2>1. s \in Readers /\ SameGeometry(b, s) /\ s.end = b.end
    BY <1>1 DEF Good, Readers, SameGeometry
  <2> QED
    BY <1>1, <2>1, SameIsGood
<1>4. Good(FullApplied(b)) /\ Good(Recovered(b)) /\ Good(Asked(b))
  BY <1>1, FullAppliedGood, RecoveredGood, AskedGood
<1>5. Good(FullBoundary(FullApplied(b), due)) /\ Good(Recovered(FullApplied(b)))
      /\ Good(FullBoundary(b, due))
  BY <1>1, <1>4, FullBoundaryGood, RecoveredGood
<1>6. Completed(r, record, due) \in
        {t, s, b, FullBoundary(FullApplied(b), due), FullBoundary(b, due), Asked(b),
         Recovered(FullApplied(b)), Recovered(b)}
  BY DEF Completed, Records, b
<1> QED
  BY <1>1, <1>2, <1>3, <1>4, <1>5, <1>6

-----------------------------------------------------------------------------
(***************************************************************************)
(* A new surface: the generation goes up, and the controller was told of   *)
(* it before.                                                              *)
(***************************************************************************)
LEMMA RegeneratedGood ==
    ASSUME NEW r \in Readers, r.end = "no", NEW size \in Sizes,
           ~ Armed(r) => r.controller.state = "Unavailable",
           ~ ArmedLate(r) =>
               /\ r.controller.generation = r.generation /\ r.controller.size = size
               /\ ~ r.waiting /\ r.controller.state # "Pending"
               /\ r.admission = NoAdmission
    PROVE  Good(Regenerated(r, size))
<1> DEFINE t == [r EXCEPT !.generation = @ + 1, !.size = size,
                          !.inFlight = FALSE, !.followup = "None"]
<1>1. /\ t.generation = r.generation + 1 /\ t.size = size /\ t.controller = r.controller
      /\ t.waiting = r.waiting /\ t.admission = r.admission /\ t.armedAt = r.armedAt
      /\ t.end = "no"
  BY DEF Readers
<1>2. r.generation \in Nat \ {0} /\ t.generation \in Nat \ {0} /\ t.generation # 1
  BY <1>1 DEF Readers
<1>3. t \in Readers
  BY <1>1, <1>2 DEF Readers
<1>4. ~ ArmedLate(r) => Agrees(t)
  BY <1>1, <1>2 DEF Agrees
<1>5. Good(t)
  BY <1>1, <1>2, <1>3, <1>4 DEF Good, Armed, ArmedLate
<1>6. Regenerated(r, size) = Recovered(t)
  BY DEF Regenerated
<1> QED
  BY <1>5, <1>6, RecoveredGood

LEMMA OwnChangeGood ==
    ASSUME NEW r, Good(r), r.end = "no", NEW size \in Sizes
    PROVE  Good(Regenerated(ServerInitiated(r, size), size))
<1> DEFINE t == ServerInitiated(r, size)
           c == OwnGeometry(r, size)
<1>1. r \in Readers /\ r.controller \in Controllers /\ r.generation \in Nat
  BY DEF Good, Readers
<1>2. NoAdmission \in Admissions
  BY FirstSizeKnown DEF NoAdmission, Admissions, NoSize
<1>3. /\ c \in Controllers /\ c.generation = r.generation /\ c.size = size
      /\ c.state # "Pending"
      /\ r.controller.state = "Unavailable" => c.state = "Unavailable"
  BY <1>1, FirstSizeKnown DEF OwnGeometry, Controllers, States, NoSize
<1> HIDE DEF c
<1>4. /\ t.controller = c /\ t.generation = r.generation /\ t.armedAt = r.armedAt
      /\ t.waiting = FALSE /\ t.admission = NoAdmission /\ t.end = "no"
  BY <1>1 DEF ServerInitiated, Readers, c
<1>5. t \in Readers
  BY <1>1, <1>2, <1>3 DEF ServerInitiated, Readers, c
<1>6. ~ Armed(t) => t.controller.state = "Unavailable"
  BY <1>3, <1>4 DEF Good, Armed
<1> HIDE DEF t
<1>7. Good(Regenerated(t, size))
  BY <1>3, <1>4, <1>5, <1>6, RegeneratedGood
<1> QED
  BY <1>7 DEF t

LEMMA AcknowledgedGood ==
    ASSUME NEW r, Good(r), r.end = "no", NEW size \in Sizes, IsAck(r, size)
    PROVE  Good(Regenerated(Acknowledged(r, size), size))
<1> DEFINE c == [state |-> "Switching", generation |-> r.generation,
                 size |-> size, target |-> NoSize]
           t == [r EXCEPT !.waiting = FALSE, !.admission = NoAdmission, !.controller = c]
           u == [r EXCEPT !.end = "incoherent"]
           matches == r.admission = [target |-> size, generation |-> r.generation + 1]
<1>1. r \in Readers /\ r.generation \in Nat
  BY DEF Good, Readers
<1>2. NoAdmission \in Admissions
  BY FirstSizeKnown DEF NoAdmission, Admissions, NoSize
<1>3. c \in Controllers /\ c.generation = r.generation /\ c.size = size
      /\ c.state = "Switching"
  BY <1>1, FirstSizeKnown DEF Controllers, States, NoSize
<1>4. Acknowledged(r, size) = IF matches THEN t ELSE u
  BY DEF Acknowledged
<1>5. Armed(r)
  BY DEF Good, IsAck
<1> HIDE DEF c
<1>6. CASE matches
  <2>1. /\ t.controller = c /\ t.generation = r.generation /\ t.armedAt = r.armedAt
        /\ t.waiting = FALSE /\ t.admission = NoAdmission /\ t.end = "no"
    BY <1>1 DEF Readers
  <2>2. t \in Readers
    BY <1>1, <1>2, <1>3 DEF Readers
  <2>3. Armed(t)
    BY <1>5, <2>1 DEF Armed
  <2> HIDE DEF t
  <2>4. Good(Regenerated(t, size))
    BY <1>3, <2>1, <2>2, <2>3, RegeneratedGood
  <2> QED
    BY <1>4, <1>6, <2>4
<1>7. CASE ~ matches
  <2>1. ArmedLate(r)
    BY <1>7 DEF Good, Agrees, IsAck
  <2>2. u \in Readers /\ SameGeometry(r, u) /\ u.end = "incoherent"
    BY <1>1 DEF Readers, SameGeometry
  <2>3. Good(u)
    BY <2>1, <2>2 DEF Good, SameGeometry, Armed, ArmedLate
  <2>4. Regenerated(u, size) = u
    BY <2>2 DEF Regenerated
  <2> QED
    BY <1>4, <1>7, <2>3, <2>4
<1> QED
  BY <1>6, <1>7

LEMMA StateObservedGood ==
    ASSUME NEW r, Good(r), r.end = "no", NEW size \in Sizes, NEW single \in BOOLEAN
    PROVE  Good(StateObserved(r, size, single))
<1> DEFINE d == DisplaysObserved(r, size, single)
           u == [d EXCEPT !.end = "incoherent"]
<1>1. Good(d) /\ d.end = "no"
  BY DisplaysObservedGood
<1> HIDE DEF d
<1>2. ASSUME ~ Coherent(d) PROVE Good(u)
  <2>1. ArmedLate(d)
    BY <1>1, <1>2 DEF Good, Agrees, Coherent
  <2>2. u \in Readers /\ SameGeometry(d, u)
    BY <1>1 DEF Good, Readers, SameGeometry
  <2> QED
    BY <1>1, <2>1, <2>2 DEF Good, SameGeometry, Armed, ArmedLate
<1>3. IsAck(d, size) => Good(Regenerated(Acknowledged(d, size), size))
  BY <1>1, AcknowledgedGood
<1>4. Good(Regenerated(ServerInitiated(d, size), size))
  BY <1>1, OwnChangeGood
<1> QED
  BY <1>1, <1>2, <1>3, <1>4 DEF StateObserved, d

-----------------------------------------------------------------------------
LEMMA InitGood == ReaderInit => Good(reader)
<1> SUFFICES ASSUME NEW single \in BOOLEAN, reader = Confirmed(single)
             PROVE  Good(reader)
  BY DEF ReaderInit
<1> DEFINE r == [generation |-> 1, size |-> FirstSize,
           inFlight |-> FALSE, followup |-> "None", assembling |-> FALSE,
           queue |-> NoSize, controller |-> NewController("Unavailable"),
           waiting |-> FALSE, admission |-> NoAdmission,
           single |-> single, applied |-> FALSE, armedAt |-> 0,
           owed |-> 0, lapsed |-> FALSE, end |-> "no"]
<1>1. NoAdmission \in Admissions
  BY FirstSizeKnown DEF NoAdmission, Admissions, NoSize
<1>2. /\ NewController("Unavailable") \in Controllers
      /\ NewController("Unavailable").state = "Unavailable"
      /\ NewController("Unavailable").generation = 0
      /\ NewController("Unavailable").size = FirstSize
  BY FirstSizeKnown DEF NewController, Controllers, States, NoSize
<1>3. r \in Readers
  BY <1>1, <1>2, FirstSizeKnown DEF Readers, NoSize
<1>4. Good(r)
  BY <1>2, <1>3 DEF Good, Armed, ArmedLate, Agrees
<1> QED
  BY <1>4, AskedGood DEF Confirmed

LEMMA AnswersGood ==
    ASSUME NEW r, Good(r), r.owed > 0, NEW t \in Answers(r)
    PROVE  Good(t)
<1>1. r \in Readers /\ r.owed \in Nat
  BY DEF Good, Readers
<1>2. PICK left \in {0, r.owed - 1} : t = [r EXCEPT !.owed = left]
  BY DEF Answers
<1>3. left \in Nat
  BY <1>1
<1>4. t \in Readers /\ SameGeometry(r, t) /\ t.end = r.end
  BY <1>1, <1>2, <1>3 DEF Readers, SameGeometry
<1> QED
  BY <1>4, SameIsGood

LEMMA StepGood == Good(reader) /\ [ReaderNext]_readerVars => Good(reader')
<1> SUFFICES ASSUME Good(reader), [ReaderNext]_readerVars PROVE Good(reader')
  OBVIOUS
<1>1. CASE BeginRecord
  <2>1. PICK r \in Answers(reader) : reader' = [r EXCEPT !.assembling = TRUE]
    BY <1>1 DEF BeginRecord
  <2>2. Good(r)
    BY <1>1, AnswersGood DEF BeginRecord
  <2> DEFINE t == [r EXCEPT !.assembling = TRUE]
  <2>3. t \in Readers /\ SameGeometry(r, t) /\ t.end = r.end
    BY <2>2 DEF Good, Readers, SameGeometry
  <2> QED
    BY <2>1, <2>2, <2>3, SameIsGood
<1>2. ASSUME NEW record \in Records, NEW due \in SUBSET Intervals, WholeRecord(record, due)
      PROVE  Good(reader')
  <2>1. PICK r \in Answers(reader) : reader' = Completed(r, record, due)
    BY <1>2 DEF WholeRecord
  <2>2. Good(r)
    BY <1>2, AnswersGood DEF WholeRecord
  <2> QED
    BY <2>1, <2>2, CompletedGood
<1>3. ASSUME NEW record \in Records, NEW due \in SUBSET Intervals, LastChunk(record, due)
      PROVE  Good(reader')
  BY <1>3, CompletedGood DEF LastChunk
<1>4. ASSUME NEW size \in Sizes, NEW single \in BOOLEAN, ServerState(size, single)
      PROVE  Good(reader')
  BY <1>4, StateObservedGood DEF ServerState, ReaderRuns
<1>5. ASSUME NEW target \in Sizes \cup {NoSize}, ObserveViewport(target)
      PROVE  Good(reader')
  <2> DEFINE t == [reader EXCEPT !.queue = target]
  <2>1. t \in Readers /\ SameGeometry(reader, t) /\ t.end = reader.end
    BY DEF Good, Readers, SameGeometry
  <2> QED
    BY <1>5, <2>1, SameIsGood DEF ObserveViewport
<1>6. ASSUME NEW due \in SUBSET Intervals, Tick(due)
      PROVE  Good(reader')
  BY <1>6, TickedGood DEF Tick
<1>7. CASE UNCHANGED readerVars
  BY <1>7 DEF readerVars
<1> QED
  BY <1>1, <1>2, <1>3, <1>4, <1>5, <1>6, <1>7 DEF ReaderNext

(***************************************************************************)
(* Whatever the server answers and when, the controller, the surface and   *)
(* the admitted generation agree until the session ends, and the checks    *)
(* of plan_server_geometry, commit_server_geometry and reconcile_dynamic_  *)
(* generation_admission never end a session that armed in its first        *)
(* generation.                                                             *)
(***************************************************************************)
THEOREM GeometryHolds == ReaderSpec => []GeometryAgrees
<1>1. ReaderInit => GoodReader
  BY InitGood DEF GoodReader
<1>2. GoodReader /\ [ReaderNext]_readerVars => GoodReader'
  BY StepGood DEF GoodReader
<1>3. GoodReader => GeometryAgrees
  BY DEF GoodReader, Good, GeometryAgrees
<1> QED
  BY <1>1, <1>2, <1>3, PTL DEF ReaderSpec

-----------------------------------------------------------------------------
(***************************************************************************)
(* The arithmetic: numbers less than half the space apart are in the same  *)
(* or in neighbouring rounds of it, and the remainders tell which.         *)
(***************************************************************************)
LEMMA Division ==
    ASSUME NEW n \in Nat, NEW s \in Nat, s > 0
    PROVE  /\ n % s \in 0..(s - 1) /\ n \div s \in Nat
           /\ n = s * (n \div s) + (n % s)
<1> QED
  BY Z3

LEMMA Halves ==
    ASSUME NEW s \in Nat, s > 0, s % 2 = 0
    PROVE  s \div 2 \in Nat /\ s = (s \div 2) + (s \div 2)
<1> QED
  BY Z3

\* s * r + x and s * d + y are the numbers: round and remainder.
LEMMA Neighbours ==
    ASSUME NEW s \in Nat, NEW half \in Nat, s = half + half, s > 0,
           NEW r \in Nat, NEW d \in Nat, NEW x \in 0..(s - 1), NEW y \in 0..(s - 1),
           (s * d + y) - (s * r + x) \in (1 - half)..(half - 1)
    PROVE  \/ d = r /\ y - x \in (1 - half)..(half - 1)
           \/ d = r + 1 /\ y - x < half - s
           \/ d + 1 = r /\ y - x > s - half
<1>1. d < r + 2
  <2> SUFFICES ASSUME d >= r + 2 PROVE FALSE
    OBVIOUS
  <2>1. s * d >= s * (r + 2)
    BY Z3
  <2>2. s * (r + 2) = s * r + s + s
    BY Z3
  <2> QED
    BY <2>1, <2>2, Z3
<1>2. r < d + 2
  <2> SUFFICES ASSUME r >= d + 2 PROVE FALSE
    OBVIOUS
  <2>1. s * r >= s * (d + 2)
    BY Z3
  <2>2. s * (d + 2) = s * d + s + s
    BY Z3
  <2> QED
    BY <2>1, <2>2, Z3
<1>3. d = r \/ d = r + 1 \/ d + 1 = r
  BY <1>1, <1>2
<1>4. s * (r + 1) = s * r + s /\ s * (d + 1) = s * d + s
  BY Z3
<1> QED
  BY <1>3, <1>4, Z3

\* So the guess is right, whichever of the three it is.
LEMMA Guessed ==
    ASSUME NEW p, p.number \in Nat, opened[p.ssrc] # {}, Highest(p.ssrc) \in Nat,
           p.number - Highest(p.ssrc) \in (1 - Half)..(Half - 1)
    PROVE  Authentic(p)
<1> DEFINE high == Highest(p.ssrc)
           r == high \div SequenceSpace
           x == high % SequenceSpace
           d == p.number \div SequenceSpace
           y == p.number % SequenceSpace
<1>1. SequenceSpace \in Nat /\ SequenceSpace > 0
  BY SequenceAssumption
<1>2. Half \in Nat /\ SequenceSpace = Half + Half
  BY <1>1, SequenceAssumption, Halves DEF Half
<1>3. /\ x \in 0..(SequenceSpace - 1) /\ r \in Nat /\ high = SequenceSpace * r + x
  BY <1>1, Division
<1>4. /\ y \in 0..(SequenceSpace - 1) /\ d \in Nat /\ p.number = SequenceSpace * d + y
  BY <1>1, Division
<1>5. (SequenceSpace * d + y) - (SequenceSpace * r + x) \in (1 - Half)..(Half - 1)
  BY <1>3, <1>4
<1> HIDE DEF high, r, x, d, y
<1>6. \/ d = r /\ y - x \in (1 - Half)..(Half - 1)
      \/ d = r + 1 /\ y - x < Half - SequenceSpace
      \/ d + 1 = r /\ y - x > SequenceSpace - Half
  BY <1>1, <1>2, <1>3, <1>4, <1>5, Neighbours
<1>7. Estimated(p) =
        (IF x < Half /\ y > x + Half THEN IF r = 0 THEN 0 ELSE r - 1
         ELSE IF x >= Half /\ y < x - Half THEN r + 1
         ELSE r)
  BY DEF Estimated, Sequence, high, r, x, y
<1>8. Estimated(p) = d
  <2>1. /\ x \in Nat /\ y \in Nat /\ r \in Nat /\ d \in Nat /\ Half \in Nat
        /\ x < Half + Half /\ y < Half + Half /\ SequenceSpace = Half + Half
    BY <1>1, <1>2, <1>3, <1>4
  <2>2. CASE d = r /\ y - x \in (1 - Half)..(Half - 1)
    <3>1. ~ (x < Half /\ y > x + Half) /\ ~ (x >= Half /\ y < x - Half)
      BY <2>1, <2>2
    <3> QED
      BY <1>7, <2>2, <3>1, Zenon
  <2>3. CASE d = r + 1 /\ y - x < Half - SequenceSpace
    <3>1. ~ (x < Half /\ y > x + Half) /\ x >= Half /\ y < x - Half
      BY <2>1, <2>3
    <3> QED
      BY <1>7, <2>3, <3>1, Zenon
  <2>4. CASE d + 1 = r /\ y - x > SequenceSpace - Half
    <3>1. x < Half /\ y > x + Half /\ r # 0 /\ r - 1 = d
      BY <2>1, <2>4
    <3> QED
      BY <1>7, <3>1, Zenon
  <2> QED
    BY <1>6, <2>2, <2>3, <2>4
<1> QED
  BY <1>8 DEF Authentic, d

-----------------------------------------------------------------------------
(***************************************************************************)
(* The invariant: packets have a number, and of the numbers accepted of a  *)
(* stream there is a highest one.                                          *)
(***************************************************************************)
Genuine ==
    [ssrc : 1..MaxStreams, number : Nat, kind : {"sets", "start", "end", "slice"},
     key : BOOLEAN, picture : Nat, marker : BOOLEAN]
HasHighest(numbers) == \E n \in numbers : \A m \in numbers : m <= n
ReceiveInvariant ==
    /\ sent \in Seq(Genuine)
    /\ opened \in [1..MaxStreams -> SUBSET Nat]
    /\ \A s \in 1..MaxStreams : opened[s] # {} => HasHighest(opened[s])

\* One more number leaves a highest one.
LEMMA HighestKept ==
    ASSUME NEW numbers \in SUBSET Nat, NEW n \in Nat, numbers # {} => HasHighest(numbers)
    PROVE  HasHighest(numbers \cup {n})
<1>1. CASE numbers = {}
  BY <1>1 DEF HasHighest
<1>2. CASE numbers # {}
  <2>1. PICK m \in numbers : \A k \in numbers : k <= m
    BY <1>2 DEF HasHighest
  <2>2. CASE m <= n
    BY <2>1, <2>2 DEF HasHighest
  <2>3. CASE ~ (m <= n)
    BY <2>1, <2>3 DEF HasHighest
  <2> QED
    BY <2>2, <2>3
<1> QED
  BY <1>1, <1>2

\* Whatever a picture is cut into, its packets are genuine.
LEMMA PacketsGenuine ==
    ASSUME ReceiveInvariant, NEW ssrc \in 1..MaxStreams, NEW number \in Nat,
           NEW key \in BOOLEAN, NEW parts \in KeyParts \cup DeltaParts
    PROVE  Packets(ssrc, number, key, parts) \in Seq(Genuine)
<1>1. parts \in Seq({"sets", "start", "end", "slice"})
  <2> DEFINE Kinds == {"sets", "start", "end", "slice"}
  <2>1. "sets" \in Kinds /\ "start" \in Kinds /\ "end" \in Kinds /\ "slice" \in Kinds
    OBVIOUS
  <2> HIDE DEF Kinds
  <2>2. <<"sets", "slice">> \in Seq(Kinds) /\ <<"slice">> \in Seq(Kinds)
    BY <2>1
  <2>3. <<"start", "end">> \in Seq(Kinds) /\ <<"slice", "slice">> \in Seq(Kinds)
    BY <2>1
  <2>4. parts \in Seq(Kinds)
    BY <2>2, <2>3 DEF KeyParts, DeltaParts
  <2> QED
    BY <2>4 DEF Kinds
<1>2. (IF sent = <<>> THEN 1 ELSE LastSent.picture + 1) \in Nat
  <2>1. sent # <<>> => LastSent \in Genuine
    BY DEF ReceiveInvariant, LastSent
  <2> QED
    BY <2>1 DEF Genuine
<1>3. Packets(ssrc, number, key, parts) \in [1..Len(parts) -> Genuine]
  BY <1>1, <1>2 DEF Packets, Genuine
<1> QED
  BY <1>1, <1>3

\* One lemma for the server's steps, one for the delivery of a packet.
LEMMA SendKept ==
    ASSUME ReceiveInvariant, NEW key \in BOOLEAN, NEW parts \in KeyParts \cup DeltaParts,
           SendPicture(key, parts) \/ StartStream(parts)
    PROVE  ReceiveInvariant'
<1>1. sent # <<>> => LastSent \in Genuine
  BY DEF ReceiveInvariant, LastSent
<1>2. ASSUME SendPicture(key, parts)
      PROVE  sent' \in Seq(Genuine)
  <2>1. Packets(LastSent.ssrc, LastSent.number + 1, key, parts) \in Seq(Genuine)
    <3>1. LastSent.ssrc \in 1..MaxStreams /\ LastSent.number + 1 \in Nat
      BY <1>1, <1>2 DEF SendPicture, Genuine
    <3> QED
      BY <3>1, PacketsGenuine
  <2> QED
    BY <1>2, <2>1 DEF SendPicture, ReceiveInvariant
<1>3. ASSUME StartStream(parts)
      PROVE  sent' \in Seq(Genuine)
  <2> DEFINE ssrc == IF sent = <<>> THEN 1 ELSE LastSent.ssrc + 1
  <2>1. ssrc \in 1..MaxStreams /\ FirstNumber \in Nat
    BY <1>1, <1>3, ReceiveAssumption, SequenceAssumption DEF StartStream, Genuine
  <2>2. Packets(ssrc, FirstNumber, TRUE, parts) \in Seq(Genuine)
    BY <2>1, PacketsGenuine
  <2> DEFINE new == Packets(ssrc, FirstNumber, TRUE, parts)
  <2>3. sent' = sent \o new
    BY <1>3 DEF StartStream
  <2> HIDE DEF new
  <2>4. new \in Seq(Genuine)
    BY <2>2 DEF new
  <2> QED
    BY <2>3, <2>4 DEF ReceiveInvariant
<1>4. opened' = opened
  BY DEF SendPicture, StartStream
<1> QED
  BY <1>2, <1>3, <1>4 DEF ReceiveInvariant

LEMMA DeliverKept ==
    ASSUME ReceiveInvariant, NEW i \in InTheAir, NEW room \in Rooms, Deliver(sent[i], room)
    PROVE  ReceiveInvariant'
<1>1. sent[i] \in Genuine
  BY DEF InTheAir, ReceiveInvariant
<1> DEFINE p == sent[i]
<1>2. p.ssrc \in 1..MaxStreams /\ p.number \in Nat
  BY <1>1 DEF Genuine
<1>3. /\ opened' = [opened EXCEPT ![p.ssrc] = @ \cup {p.number}] /\ sent' = sent
  BY DEF Deliver
<1> HIDE DEF p
<1>4. HasHighest(opened[p.ssrc] \cup {p.number})
  BY <1>2, HighestKept DEF ReceiveInvariant
<1> QED
  BY <1>2, <1>3, <1>4 DEF ReceiveInvariant

LEMMA ReceiveStep == ReceiveInvariant /\ [Next]_vars => ReceiveInvariant'
<1> SUFFICES ASSUME ReceiveInvariant, [Next]_vars
             PROVE  ReceiveInvariant'
  OBVIOUS
<1>1. ASSUME NEW parts \in KeyParts, StartStream(parts) \/ SendPicture(TRUE, parts)
      PROVE  ReceiveInvariant'
  BY <1>1, SendKept
<1>2. ASSUME NEW parts \in DeltaParts, SendPicture(FALSE, parts)
      PROVE  ReceiveInvariant'
  BY <1>2, SendKept
<1>3. ASSUME NEW i \in InTheAir, NEW room \in Rooms, Deliver(sent[i], room)
      PROVE  ReceiveInvariant'
  BY <1>3, DeliverKept
<1>4. CASE Report
  BY <1>4 DEF Report, ReceiveInvariant
<1>5. CASE UNCHANGED vars
  BY <1>5 DEF vars, ReceiveInvariant
<1> QED
  BY <1>1, <1>2, <1>3, <1>4, <1>5 DEF Next

(***************************************************************************)
(* A packet less than half the sequence space away from the newest is      *)
(* never taken for a forgery (srtp.rs, estimate_rollover_counter).         *)
(***************************************************************************)
THEOREM GenuineAuthenticates == Spec => []Authenticates
<1>1. Init => ReceiveInvariant
  BY DEF Init, ReceiveInvariant
<1>2. ReceiveInvariant /\ [Next]_vars => ReceiveInvariant'
  BY ReceiveStep
<1>3. ReceiveInvariant => Authenticates
  <2> SUFFICES ASSUME ReceiveInvariant, NEW i \in DOMAIN sent, opened[sent[i].ssrc] # {},
                      sent[i].number - Highest(sent[i].ssrc) \in (1 - Half)..(Half - 1)
               PROVE  Authentic(sent[i])
    BY DEF Authenticates
  <2>1. sent[i] \in Genuine
    BY DEF ReceiveInvariant
  <2>2. sent[i].ssrc \in 1..MaxStreams /\ sent[i].number \in Nat
    BY <2>1 DEF Genuine
  <2>3. Highest(sent[i].ssrc) \in Nat
    BY <2>2 DEF ReceiveInvariant, HasHighest, Highest
  <2> QED
    BY <2>2, <2>3, Guessed
<1> QED
  BY <1>1, <1>2, <1>3, PTL DEF Spec

-----------------------------------------------------------------------------
(* Arithmetic of sequence numbers *)

\* Multiples of s that are less than s apart are the same.
LEMMA SameMultiple ==
    ASSUME NEW s \in Nat, s > 0, NEW a \in Int, NEW b \in Int,
           s * a - s * b < s, s * b - s * a < s
    PROVE  a = b
<1>1. ASSUME NEW x \in Int, NEW y \in Int, x > y
      PROVE  s * x - s * y >= s
  <2>1. s * x >= s * (y + 1)
    BY <1>1, Z3
  <2>2. s * (y + 1) = s * y + s
    BY Z3
  <2>3. s * x \in Int /\ s * y \in Int /\ s * (y + 1) \in Int
    BY Z3
  <2> QED
    BY <2>1, <2>2, <2>3
<1>2. s * a \in Int /\ s * b \in Int
  BY Z3
<1>3. ~ (a > b)
  <2> SUFFICES ASSUME a > b PROVE FALSE
    OBVIOUS
  <2>1. s * a - s * b >= s
    BY <1>1
  <2> QED
    BY <1>2, <2>1
<1>4. ~ (b > a)
  <2> SUFFICES ASSUME b > a PROVE FALSE
    OBVIOUS
  <2>1. s * b - s * a >= s
    BY <1>1
  <2> QED
    BY <1>2, <2>1
<1> QED
  BY <1>3, <1>4

\* A remainder is the only number below s with the same distance to a multiple.
LEMMA Remainder ==
    ASSUME NEW s \in Nat, s > 0, NEW z \in Int, NEW k \in Int, NEW r \in 0..(s - 1),
           z = s * k + r
    PROVE  z % s = r
<1>1. z % s \in 0..(s - 1) /\ z \div s \in Int /\ z = s * (z \div s) + (z % s)
  BY Z3
<1> DEFINE d == z \div s
           m == z % s
<1>2. m \in 0..(s - 1) /\ d \in Int /\ z = s * d + m
  BY <1>1
<1> HIDE DEF d, m
<1>3. s * d \in Int /\ s * k \in Int
  BY <1>2, Z3
<1>4. s * d - s * k < s /\ s * k - s * d < s
  BY <1>2, <1>3
<1>5. d = k
  BY <1>2, <1>4, SameMultiple
<1>6. m = r
  BY <1>2, <1>3, <1>5
<1> QED
  BY <1>6 DEF m

LEMMA NextSequence ==
    ASSUME NEW n \in Nat, NEW s \in Nat, s > 0
    PROVE  ((n % s) + 1) % s = (n + 1) % s
<1> DEFINE q == n \div s
           x == n % s
<1>1. x \in 0..(s - 1) /\ q \in Nat /\ n = s * q + x
  BY Division
<1> HIDE DEF q, x
<1>2. CASE x + 1 < s
  <2>1. x + 1 \in 0..(s - 1) /\ n + 1 = s * q + (x + 1) /\ x + 1 = s * 0 + (x + 1)
    <3>1. s * q \in Int /\ s * 0 = 0
      BY <1>1, Z3
    <3> QED
      BY <1>1, <1>2, <3>1
  <2>2. (n + 1) % s = x + 1
    BY <1>1, <2>1, Remainder
  <2>3. (x + 1) % s = x + 1
    BY <1>1, <2>1, Remainder
  <2> QED
    BY <2>2, <2>3 DEF x
<1>3. CASE ~ (x + 1 < s)
  <2>1. s * (q + 1) = s * q + s /\ s * q \in Int /\ s * 1 = s
    BY <1>1, Z3
  <2>2. n + 1 = s * (q + 1) + 0 /\ x + 1 = s * 1 + 0 /\ 0 \in 0..(s - 1)
    BY <1>1, <1>3, <2>1
  <2>3. (n + 1) % s = 0
    BY <1>1, <2>2, Remainder
  <2>4. (x + 1) % s = 0
    BY <1>1, <2>2, Remainder
  <2> QED
    BY <2>3, <2>4 DEF x
<1> QED
  BY <1>2, <1>3

-----------------------------------------------------------------------------
(***************************************************************************)
(* The server's packets: pictures one after the other, the packets of a    *)
(* stream numbered without a gap.                                          *)
(***************************************************************************)
Ordered(i, j) ==
    /\ sent[i].ssrc <= sent[j].ssrc
    /\ sent[i].ssrc = sent[j].ssrc => sent[j].number = sent[i].number + (j - i)
    /\ sent[i].picture <= sent[j].picture
    /\ sent[i].picture = sent[j].picture =>
         /\ sent[i].ssrc = sent[j].ssrc /\ sent[i].key = sent[j].key
         /\ \A k \in i..(j - 1) : ~ sent[k].marker
    /\ (\A k \in i..(j - 1) : ~ sent[k].marker) => sent[i].picture = sent[j].picture

Begins(i) == i = 1 \/ sent[i - 1].marker
SentOrdered ==
    /\ \A i \in 1..Len(sent) :
         /\ sent[i].marker => sent[i].kind \notin {"start", "sets"}
         /\ sent[i].kind = "sets" => Begins(i) /\ sent[i].key
         /\ i = Len(sent) => sent[i].marker
         /\ sent[i].marker /\ i < Len(sent) =>
              sent[i + 1].picture = sent[i].picture + 1
    /\ \A i, j \in 1..Len(sent) : i < j => Ordered(i, j)

\* Packets f to g of what was sent.
Stretch(parts, f, g) ==
    /\ f \in 1..Len(sent) /\ g \in f..Len(sent)
    /\ parts = [i \in 1..(g - f + 1) |-> sent[f + i - 1]]

\* A picture: from behind one marker to the next.
Whole(parts) ==
    \E f, g \in 1..Len(sent) :
        /\ Stretch(parts, f, g)
        /\ Begins(f) /\ sent[g].marker /\ \A k \in f..(g - 1) : ~ sent[k].marker

Window == ReorderWindow + ReplayWindow
Parts(a) == a.nals \o a.fu

Assemblers ==
    [expected : Int, buffered : SUBSET Genuine, picture : Int,
     nals : Seq(Genuine), fu : Seq(Genuine), initialSets : BOOLEAN, sets : BOOLEAN,
     configuration : {"AwaitingConfigurationAu", "AwaitingRecoveryIrap", "Configured"},
     dropping : BOOLEAN, recovery : Int]

\* No parameter sets yet: a picture that is finished now is an error.
Unset(a) ==
    /\ a.configuration = "AwaitingConfigurationAu" /\ ~ a.sets
    /\ \A k \in 1..Len(Parts(a)) : Parts(a)[k].kind # "sets"

\* What is assembled is what the server sent before number n, from the
\* beginning of a picture unless it cannot be finished.
Assembled(a, s, n) ==
    \/ /\ Parts(a) = <<>> /\ a.picture = None
       /\ \/ Unset(a)
          \/ \E j \in 1..Len(sent) :
               sent[j].ssrc = s /\ sent[j].number = n - 1 /\ sent[j].marker
    \/ \E f, g \in 1..Len(sent) :
         /\ Stretch(Parts(a), f, g)
         /\ sent[g].ssrc = s /\ sent[g].number = n - 1
         /\ a.picture = sent[f].picture /\ \A k \in f..g : ~ sent[k].marker
         /\ Begins(f) \/ Unset(a)

Buffered(a, s, n, seen) ==
    \A q \in a.buffered :
        \E j \in 1..Len(sent) :
            /\ q = sent[j] /\ q.ssrc = s /\ q.number \in seen
            /\ n <= q.number /\ q.number < n + ReorderWindow

\* The numbers seen reach to n, or to just before it, and not beyond the windows.
InOrder(a, s, n, seen) ==
    /\ ~ a.dropping /\ a.expected = n % SequenceSpace
    /\ Assembled(a, s, n) /\ Buffered(a, s, n, seen)
    /\ \E m \in seen : m >= n - 1
    /\ \A m \in seen : m < n + Window

Drops(a, n, seen) ==
    /\ a.dropping /\ a.recovery = n % SequenceSpace
    /\ Parts(a) = <<>> /\ a.picture = None
    /\ \E m \in seen : m >= n
    /\ \A m \in seen : m < n + Window

Configured(a) == a.configuration = "Configured"
Consistent(a) ==
    /\ a.sets <=> a.configuration # "AwaitingConfigurationAu"
    /\ a.dropping => ~ Configured(a)

\* The pictures with numbers less than m are done with; the next begins with m, or later.
Stands(a, s, m, seen) ==
    /\ a \in Assemblers /\ Consistent(a)
    /\ \E n \in Nat : \/ InOrder(a, s, n, seen) /\ m = n - Len(Parts(a))
                      \/ Drops(a, n, seen) /\ m = n

Holds(a, s, seen) == \E m \in Int : Stands(a, s, m, seen)

Units == [parts : Seq(Genuine), keyframe : BOOLEAN, sets : BOOLEAN]
WholeUnits(units) ==
    units \in Seq(Units) /\ \A k \in 1..Len(units) : Whole(units[k].parts)

First(unit) == unit.parts[1]
Final(unit) == unit.parts[Len(unit.parts)]
FinalOf(units) == Final(units[Len(units)])

\* A unit of stream s: random access brings the parameter sets along.
OfStream(unit, s) ==
    /\ First(unit) \in Genuine /\ Final(unit) \in Genuine
    /\ First(unit).ssrc = s /\ Final(unit).ssrc = s
    /\ unit.keyframe => unit.sets /\ First(unit).key

\* Each of the units begins where the one before ends.
Gapless(units) ==
    \A k \in 2..Len(units) : First(units[k]).number = Final(units[k - 1]).number + 1

(***************************************************************************)
(* What lies between an assembler that stands at m (configured, if c) and  *)
(* one at n (configured, if d): without a hole if it was configured, else  *)
(* from a random-access picture on.                                        *)
(***************************************************************************)
Trail(units, s, m, c, n, d) ==
    /\ \A k \in 1..Len(units) : OfStream(units[k], s)
    /\ Gapless(units)
    /\ units = <<>> => m <= n /\ (c <=> d) /\ (c => m = n)
    /\ units # <<>> => /\ d /\ n = FinalOf(units).number + 1
                      /\ m <= First(units[1]).number
                      /\ IF c THEN m = First(units[1]).number ELSE units[1].keyframe

\* What the proof needs of the receive state while the session runs.
Receives ==
    [ssrc : Nat, retired : SUBSET Nat, replacing : BOOLEAN, backpressured : BOOLEAN,
     request : BOOLEAN, configured : BOOLEAN, failed : {"no"}]

AssemblerHolds ==
    \/ assembler = NewAssembler
    \/ /\ receive.ssrc \in 1..MaxStreams
       /\ Holds(assembler, receive.ssrc, opened[receive.ssrc])

PicturesInvariant ==
    /\ SentOrdered
    /\ WholeUnits(published.units)
    /\ Running => /\ receive \in Receives
                  /\ receive.ssrc = 0 => assembler = NewAssembler
                  /\ AssemblerHolds

\* No packet is accepted half the sequence space, less the windows, ahead of
\* all of its stream accepted before.
NoLongLoss ==
    \A s \in 1..MaxStreams : \A n \in opened'[s] \ opened[s] :
        opened[s] # {} => \E m \in opened[s] : n <= m + (Half - Window)

-----------------------------------------------------------------------------
(* The server's packets *)

LEMMA GenuineKnown ==
    ASSUME NEW p \in Genuine
    PROVE  /\ p.ssrc \in Nat /\ p.ssrc \in 1..MaxStreams /\ p.number \in Nat
           /\ p.picture \in Nat /\ p.marker \in BOOLEAN /\ p.key \in BOOLEAN
           /\ p.kind \in {"sets", "start", "end", "slice"}
BY ReceiveAssumption DEF Genuine

LEMMA PartsKnown ==
    ASSUME NEW parts \in KeyParts \cup DeltaParts
    PROVE  /\ Len(parts) \in 1..3 /\ DOMAIN parts = 1..Len(parts)
           /\ \A k \in 1..Len(parts) : parts[k] \in {"sets", "start", "end", "slice"}
           /\ \A k \in 1..Len(parts) : parts[k] = "sets" => k = 1 /\ parts \notin DeltaParts
           /\ parts[Len(parts)] \notin {"start", "sets"}
<1>1. CASE parts = <<"sets", "slice">>
  <2>1. parts[1] = "sets"
    BY <1>1
  <2>2. parts \notin DeltaParts
    BY <2>1 DEF DeltaParts
  <2> QED
    BY <1>1, <2>2
<1>2. CASE parts = <<"slice">>
  BY <1>2
<1>3. CASE parts = <<"start", "end">>
  BY <1>3
<1>4. CASE parts = <<"slice", "slice">>
  BY <1>4
<1> QED
  BY <1>1, <1>2, <1>3, <1>4 DEF KeyParts, DeltaParts

\* What is sent next: a picture of its own, numbered on, with a marker at its end.
IsPicture(new, ssrc, number, picture) ==
    /\ new \in Seq(Genuine) /\ Len(new) \in Nat \ {0}
    /\ \A k \in 1..Len(new) :
         /\ new[k].ssrc = ssrc /\ new[k].number = number + k - 1
         /\ new[k].picture = picture
         /\ new[k].marker <=> k = Len(new)
         /\ new[k].key = new[1].key
         /\ new[k].kind = "sets" => k = 1 /\ new[k].key
         /\ k = Len(new) => new[k].kind \notin {"start", "sets"}

LEMMA PacketsKnown ==
    ASSUME sent \in Seq(Genuine), NEW ssrc \in 1..MaxStreams, NEW number \in Nat,
           NEW key \in BOOLEAN, NEW parts \in KeyParts \cup DeltaParts,
           key \/ parts \in DeltaParts
    PROVE  IsPicture(Packets(ssrc, number, key, parts), ssrc, number,
                     IF sent = <<>> THEN 1 ELSE LastSent.picture + 1)
<1> DEFINE picture == IF sent = <<>> THEN 1 ELSE LastSent.picture + 1
           n == Len(parts)
           new == Packets(ssrc, number, key, parts)
<1>1. /\ n \in 1..3 /\ DOMAIN parts = 1..n
      /\ \A k \in 1..n : parts[k] \in {"sets", "start", "end", "slice"}
      /\ \A k \in 1..n : parts[k] = "sets" => k = 1 /\ parts \notin DeltaParts
      /\ parts[n] \notin {"start", "sets"}
  BY PartsKnown
<1>2. picture \in Nat
  <2>1. sent # <<>> => LastSent \in Genuine
    BY DEF LastSent
  <2> QED
    BY <2>1 DEF Genuine
<1>3. new = [k \in 1..n |->
               [ssrc |-> ssrc, number |-> number + k - 1, kind |-> parts[k], key |-> key,
                picture |-> picture, marker |-> k = n]]
  BY <1>1 DEF Packets
<1> HIDE DEF picture, n, new
<1>4. new \in [1..n -> Genuine] /\ n \in Nat \ {0}
  <2>1. SUFFICES ASSUME NEW k \in 1..n PROVE new[k] \in Genuine
    BY <1>1, <1>3
  <2>2. number + k - 1 \in Nat /\ (k = n) \in BOOLEAN
    BY <1>1
  <2> QED
    BY <1>1, <1>2, <1>3, <2>2 DEF Genuine
<1>5. new \in Seq(Genuine) /\ Len(new) = n
  BY <1>4
<1>6. \A k \in 1..n :
         /\ new[k].ssrc = ssrc /\ new[k].number = number + k - 1
         /\ new[k].picture = picture /\ new[k].kind = parts[k] /\ new[k].key = key
         /\ new[k].marker <=> k = n
  BY <1>3
<1> QED
  BY <1>1, <1>4, <1>5, <1>6 DEF IsPicture, picture, new

\* What was sent stays where it is.
LEMMA Appended ==
    ASSUME sent \in Seq(Genuine), NEW new \in Seq(Genuine), sent' = sent \o new
    PROVE  /\ sent' \in Seq(Genuine) /\ Len(sent) \in Nat /\ Len(new) \in Nat
           /\ Len(sent') = Len(sent) + Len(new)
           /\ \A i \in 1..Len(sent) : i \in 1..Len(sent') /\ sent'[i] = sent[i]
           /\ \A i \in 1..Len(sent') : i \notin 1..Len(sent) =>
                i - Len(sent) \in 1..Len(new) /\ sent'[i] = new[i - Len(sent)]
OBVIOUS

LEMMA OrderGrows ==
    ASSUME sent \in Seq(Genuine), SentOrdered, NEW ssrc \in 1..MaxStreams, NEW number \in Nat,
           NEW new, sent' = sent \o new, ssrc \in Nat,
           IsPicture(new, ssrc, number, IF sent = <<>> THEN 1 ELSE LastSent.picture + 1),
           sent # <<>> => \/ ssrc = LastSent.ssrc /\ number = LastSent.number + 1
                          \/ ssrc > LastSent.ssrc
    PROVE  SentOrdered'
<1> DEFINE l == Len(sent)
           picture == IF sent = <<>> THEN 1 ELSE LastSent.picture + 1
<1>1. /\ sent' \in Seq(Genuine) /\ l \in Nat /\ Len(new) \in Nat \ {0}
      /\ Len(sent') = l + Len(new)
      /\ \A i \in 1..l : i \in 1..Len(sent') /\ sent'[i] = sent[i] /\ sent[i] \in Genuine
      /\ \A i \in 1..Len(sent') : i \notin 1..l =>
           i - l \in 1..Len(new) /\ sent'[i] = new[i - l]
  BY Appended DEF IsPicture
<1>2. ASSUME NEW i \in 1..Len(sent'), i \notin 1..l
      PROVE  /\ i > l /\ sent'[i].ssrc = ssrc /\ sent'[i].number = number + ((i - l) - 1)
             /\ sent'[i].picture = picture
             /\ sent'[i].marker <=> i = Len(sent')
             /\ sent'[i].key = new[1].key
             /\ sent'[i].kind = "sets" => i = l + 1 /\ sent'[i].key
             /\ i = Len(sent') => sent'[i].kind \notin {"start", "sets"}
  <2>1. i - l \in 1..Len(new) /\ sent'[i] = new[i - l] /\ i > l
    BY <1>1, <1>2
  <2>2. /\ i - l = Len(new) <=> i = Len(sent')
        /\ i - l = 1 <=> i = l + 1
    BY <1>1
  <2>3. number + (i - l) - 1 = number + ((i - l) - 1)
    BY <1>1
  <2>4. /\ new[i - l].ssrc = ssrc /\ new[i - l].number = number + (i - l) - 1
        /\ new[i - l].picture = picture
        /\ new[i - l].marker <=> i - l = Len(new)
        /\ new[i - l].key = new[1].key
        /\ new[i - l].kind = "sets" => i - l = 1 /\ new[i - l].key
        /\ i - l = Len(new) => new[i - l].kind \notin {"start", "sets"}
    BY Zenon, <2>1 DEF IsPicture
  <2> HIDE DEF l, picture
  <2> QED
    BY Zenon, <2>1, <2>2, <2>3, <2>4
<1>3. l # 0 => /\ LastSent = sent[l] /\ sent # <<>> /\ l \in 1..l
               /\ sent[l].marker /\ sent'[l].marker
  BY <1>1 DEF LastSent, SentOrdered
<1>4. ASSUME NEW i \in 1..Len(sent')
      PROVE  /\ sent'[i].marker => sent'[i].kind \notin {"start", "sets"}
             /\ sent'[i].kind = "sets" => Begins(i)' /\ sent'[i].key
             /\ i = Len(sent') => sent'[i].marker
             /\ sent'[i].marker /\ i < Len(sent') =>
                  sent'[i + 1].picture = sent'[i].picture + 1
  <2>1. CASE i \in 1..l
    <3>1. sent'[i] = sent[i] /\ i # Len(sent')
      BY <1>1, <2>1
    <3>2. i # 1 => i - 1 \in 1..l /\ sent'[i - 1] = sent[i - 1]
      BY <1>1, <2>1
    <3>3. i < l => i + 1 \in 1..l /\ sent'[i + 1] = sent[i + 1]
      BY <1>1, <2>1
    <3>4. i = l => sent'[i + 1].picture = sent'[i].picture + 1
      <4> SUFFICES ASSUME i = l PROVE sent'[i + 1].picture = sent'[i].picture + 1
        OBVIOUS
      <4>1. i + 1 \in 1..Len(sent') /\ i + 1 \notin 1..l /\ l # 0
        BY <1>1, <2>1
      <4>2. sent'[i + 1].picture = picture /\ picture = sent[l].picture + 1
        BY <1>2, <1>3, <4>1
      <4> QED
        BY <3>1, <4>2
    <3>5. i < l \/ i = l
      BY <1>1, <2>1
    <3> HIDE DEF picture, l
    <3>6. /\ sent[i].marker => sent[i].kind \notin {"start", "sets"}
          /\ sent[i].kind = "sets" => Begins(i) /\ sent[i].key
          /\ i < l /\ sent[i].marker => sent[i + 1].picture = sent[i].picture + 1
      BY <2>1 DEF SentOrdered, l
    <3>7. Begins(i) => Begins(i)'
      BY <3>2 DEF Begins
    <3> QED
      BY <3>1, <3>3, <3>4, <3>5, <3>6, <3>7
  <2>2. CASE i \notin 1..l
    <3>1. i = l + 1 => i = 1 \/ (l # 0 /\ i - 1 = l)
      BY <1>1
    <3>2. i < Len(sent') => i # Len(sent')
      BY <1>1
    <3> QED
      BY <1>2, <1>3, <2>2, <3>1, <3>2 DEF Begins
  <2> QED
    BY <2>1, <2>2
<1>5. ASSUME NEW i \in 1..Len(sent'), NEW j \in 1..Len(sent'), i < j
      PROVE  Ordered(i, j)'
  <2>1. CASE j \in 1..l
    <3>1. i \in 1..l /\ \A k \in i..(j - 1) : k \in 1..l /\ sent'[k] = sent[k]
      BY <1>1, <1>5, <2>1
    <3>2. Ordered(i, j)
      BY <1>5, <2>1, <3>1 DEF SentOrdered
    <3>3. sent'[i] = sent[i] /\ sent'[j] = sent[j]
      BY <1>1, <2>1, <3>1
    <3> QED
      BY <3>1, <3>2, <3>3 DEF Ordered
  <2>2. CASE i \notin 1..l
    <3>1. j \notin 1..l
      BY <1>1, <1>5, <2>2
    <3>2. \A k \in i..(j - 1) : k \in 1..Len(sent') /\ k \notin 1..l /\ k # Len(sent')
      BY <1>1, <1>2, <1>5, <2>2
    <3>3. \A k \in i..(j - 1) : ~ sent'[k].marker
      BY <1>2, <3>2
    <3>4. /\ sent'[i].ssrc = ssrc /\ sent'[j].ssrc = ssrc
          /\ sent'[i].picture = picture /\ sent'[j].picture = picture
          /\ sent'[i].key = sent'[j].key
          /\ sent'[i].number = number + ((i - l) - 1)
          /\ sent'[j].number = number + ((j - l) - 1)
      BY <1>2, <2>2, <3>1
    <3>5. /\ sent'[j].number = sent'[i].number + (j - i) /\ picture <= picture
          /\ ssrc <= ssrc
      <4>1. picture \in Nat
        BY <1>1, <1>3, GenuineKnown
      <4> QED
        BY <1>1, <3>4, <4>1
    <3> QED
      BY <3>3, <3>4, <3>5 DEF Ordered
  <2>3. CASE i \in 1..l /\ j \notin 1..l
    <3>1. l # 0 /\ l \in i..(j - 1) /\ sent'[l] = sent[l] /\ l \in 1..l
      BY <1>1, <1>2, <1>5, <2>3
    <3>2. /\ sent'[j].ssrc = ssrc /\ sent'[j].number = number + ((j - l) - 1)
          /\ sent'[j].picture = LastSent.picture + 1 /\ sent'[i] = sent[i]
      BY <1>1, <1>2, <1>3, <2>3, <3>1
    <3>3. /\ sent[i].ssrc <= sent[l].ssrc /\ sent[i].picture <= sent[l].picture
          /\ sent[i].ssrc = sent[l].ssrc => sent[l].number = sent[i].number + (l - i)
          /\ sent[i].ssrc \in Nat /\ sent[l].ssrc \in Nat
          /\ sent[i].number \in Nat /\ sent[l].number \in Nat
          /\ sent[i].picture \in Nat /\ sent[l].picture \in Nat
      <4>1. sent[i] \in Genuine /\ sent[l] \in Genuine
        BY <1>1, <2>3, <3>1
      <4>2. /\ sent[i].ssrc \in Nat /\ sent[l].ssrc \in Nat
            /\ sent[i].number \in Nat /\ sent[l].number \in Nat
            /\ sent[i].picture \in Nat /\ sent[l].picture \in Nat
        BY <4>1, GenuineKnown
      <4>3. CASE i = l
        BY <1>1, <4>2, <4>3
      <4>4. CASE i # l
        <5>1. i < l
          BY <1>1, <2>3, <4>4
        <5>2. Ordered(i, l)
          BY <2>3, <3>1, <5>1 DEF SentOrdered
        <5> QED
          BY <4>2, <5>2 DEF Ordered
      <4> QED
        BY <4>3, <4>4
    <3>4. /\ ssrc = sent[l].ssrc => number = sent[l].number + 1
          /\ ssrc >= sent[l].ssrc /\ LastSent = sent[l]
      BY SMTT(30), <1>1, <1>3, <3>1, <3>3
    <3>5. sent'[i].ssrc = ssrc => sent'[j].number = sent'[i].number + (j - i)
      <4> SUFFICES ASSUME sent[i].ssrc = ssrc
                   PROVE  sent'[j].number = sent[i].number + (j - i)
        BY <3>2
      <4>1. ssrc = sent[l].ssrc
        BY <3>3, <3>4
      <4>2. number = (sent[i].number + (l - i)) + 1
        BY <3>3, <3>4, <4>1
      <4>3. sent'[j].number = ((sent[i].number + (l - i)) + 1) + ((j - l) - 1)
        BY <3>2, <4>2
      <4>4. PICK n \in Nat : n = sent[i].number
        BY <3>3, Zenon
      <4>5. ((n + (l - i)) + 1) + ((j - l) - 1) = n + (j - i)
        BY <1>1
      <4> QED
        BY <4>3, <4>4, <4>5, Zenon
    <3>6. sent'[i].picture < sent'[j].picture /\ sent'[i].picture # sent'[j].picture
      <4>1. sent'[i].picture = sent[i].picture /\ sent'[j].picture = sent[l].picture + 1
        BY <3>2, <3>4, Zenon
      <4>2. PICK a \in Nat, b \in Nat :
              a = sent[i].picture /\ b = sent[l].picture /\ a <= b
        BY <3>3, Zenon
      <4>3. a < b + 1 /\ a # b + 1
        BY <4>2
      <4> QED
        BY <4>1, <4>2, <4>3, Zenon
    <3>7. ~ \A k \in i..(j - 1) : ~ sent'[k].marker
      BY <1>3, <3>1
    <3>8. sent'[i].picture <= sent'[j].picture /\ sent'[i].ssrc <= sent'[j].ssrc
      <4>1. sent'[i].picture \in Nat /\ sent'[j].picture \in Nat
        <5>1. sent'[i] \in Genuine /\ sent'[j] \in Genuine
          BY SMTT(30), <1>1
        <5> QED
          BY <5>1, GenuineKnown
      <4>2. sent'[i].ssrc = sent[i].ssrc /\ sent'[j].ssrc = ssrc
        BY <3>2, Zenon
      <4>3. PICK a \in Nat, b \in Nat :
              a = sent[i].ssrc /\ b = sent[l].ssrc /\ a <= b /\ ssrc >= b
        BY <3>3, <3>4, Zenon
      <4>4. a <= ssrc
        BY <4>3
      <4>5. PICK c \in Nat, d \in Nat :
              c = sent'[i].picture /\ d = sent'[j].picture /\ c < d
        BY <3>6, <4>1, Zenon
      <4>6. c <= d
        BY SMTT(30), <4>5
      <4> QED
        BY <4>2, <4>3, <4>4, <4>5, <4>6, Zenon
    <3> QED
      BY <3>2, <3>5, <3>6, <3>7, <3>8 DEF Ordered
  <2> QED
    BY <2>1, <2>2, <2>3
<1> QED
  BY <1>4, <1>5 DEF SentOrdered

\* Two packets of a stream are as far apart in what was sent as their numbers.
LEMMA NumbersApart ==
    ASSUME sent \in Seq(Genuine), SentOrdered, NEW i \in 1..Len(sent), NEW j \in 1..Len(sent),
           sent[i].ssrc = sent[j].ssrc
    PROVE  sent[j].number = sent[i].number + (j - i)
<1>1. PICK n \in Nat, m \in Nat : n = sent[i].number /\ m = sent[j].number
  <2>1. sent[i] \in Genuine /\ sent[j] \in Genuine
    OBVIOUS
  <2> QED
    BY <2>1, GenuineKnown, Zenon
<1>2. CASE i < j
  BY <1>2 DEF SentOrdered, Ordered
<1>3. CASE j < i
  <2>1. n = m + (i - j)
    BY <1>1, <1>3 DEF SentOrdered, Ordered
  <2>2. m = n + (j - i)
    BY <2>1
  <2> QED
    BY <1>1, <2>2, Zenon
<1>4. CASE i = j
  <2>1. n = n + (j - i)
    BY <1>4
  <2> QED
    BY <1>1, <1>4, <2>1, Zenon
<1>5. i < j \/ j < i \/ i = j
  OBVIOUS
<1> QED
  BY <1>2, <1>3, <1>4, <1>5

LEMMA SamePacket ==
    ASSUME sent \in Seq(Genuine), SentOrdered, NEW i \in 1..Len(sent), NEW j \in 1..Len(sent),
           sent[i].ssrc = sent[j].ssrc, sent[i].number = sent[j].number
    PROVE  i = j
<1>1. PICK n \in Nat : n = sent[i].number
  <2>1. sent[i] \in Genuine
    OBVIOUS
  <2> QED
    BY <2>1, GenuineKnown, Zenon
<1>2. n = n + (j - i)
  BY <1>1, NumbersApart, Zenon
<1> QED
  BY <1>2

LEMMA NextPacket ==
    ASSUME sent \in Seq(Genuine), SentOrdered, NEW i \in 1..Len(sent), NEW j \in 1..Len(sent),
           sent[i].ssrc = sent[j].ssrc, NEW n \in Nat,
           sent[i].number = n - 1, sent[j].number = n
    PROVE  j = i + 1
<1>1. n = (n - 1) + (j - i)
  BY NumbersApart, Zenon
<1> QED
  BY <1>1

(***************************************************************************)
(* What is whole is a picture, all of it.                                  *)
(***************************************************************************)
LEMMA WholeIsPicture ==
    ASSUME sent \in Seq(Genuine), SentOrdered, NEW parts, Whole(parts)
    PROVE  \E first \in DOMAIN sent :
             /\ PictureOf(parts[1]) = first..(first + Len(parts) - 1)
             /\ parts = [i \in 1..Len(parts) |-> sent[first + i - 1]]
<1>1. PICK f \in 1..Len(sent), g \in 1..Len(sent) :
        /\ Stretch(parts, f, g)
        /\ Begins(f) /\ sent[g].marker /\ \A k \in f..(g - 1) : ~ sent[k].marker
  BY DEF Whole
<1>2. f <= g /\ parts = [i \in 1..(g - f + 1) |-> sent[f + i - 1]]
  BY <1>1 DEF Stretch
<1>3. /\ g - f + 1 \in Nat /\ 1 \in 1..(g - f + 1) /\ f + 1 - 1 = f
      /\ f + (g - f + 1) - 1 = g
  BY <1>2
<1>4. Len(parts) = g - f + 1 /\ parts[1] = sent[f]
  <2>1. parts \in [1..(g - f + 1) -> Genuine]
    <3>1. \A i \in 1..(g - f + 1) : f + i - 1 \in 1..Len(sent)
      BY <1>2
    <3> QED
      BY <1>2, <3>1
  <2>2. Len(parts) = g - f + 1
    BY <1>3, <2>1
  <2> QED
    BY <1>2, <1>3, <2>2
<1>5. PictureOf(sent[f]) = f..g
  <2>1. ASSUME NEW i \in 1..Len(sent), i < f
        PROVE  sent[i].picture # sent[f].picture
    <3>1. f - 1 \in i..(f - 1) /\ f # 1 /\ i < f
      BY <2>1
    <3>2. sent[f - 1].marker
      BY <1>1, <3>1 DEF Begins
    <3> QED
      BY <3>1, <3>2 DEF SentOrdered, Ordered
  <2>2. ASSUME NEW i \in 1..Len(sent), i > g
        PROVE  sent[i].picture # sent[f].picture
    <3>1. g \in f..(i - 1) /\ f < i
      BY <1>2, <2>2
    <3> QED
      BY <1>1, <3>1 DEF SentOrdered, Ordered
  <2>3. ASSUME NEW i \in f..g
        PROVE  /\ i \in 1..Len(sent)
               /\ sent[i].picture = sent[f].picture /\ sent[i].ssrc = sent[f].ssrc
    <3>1. CASE i = f
      BY <3>1
    <3>2. CASE i # f
      <4>1. f < i /\ i \in 1..Len(sent) /\ \A k \in f..(i - 1) : k \in f..(g - 1)
        BY <3>2
      <4> QED
        BY <1>1, <4>1 DEF SentOrdered, Ordered
    <3> QED
      BY <3>1, <3>2
  <2>4. \A i \in 1..Len(sent) : i \in f..g \/ i < f \/ i > g
    OBVIOUS
  <2>5. DOMAIN sent = 1..Len(sent)
    OBVIOUS
  <2> QED
    BY <2>1, <2>2, <2>3, <2>4, <2>5, Zenon DEF PictureOf
<1> QED
  BY <1>2, <1>3, <1>4, <1>5

\* The ends of a whole picture: one stream, one picture, numbered without a gap.
Ends(parts, f, g) ==
    /\ f <= g /\ Len(parts) = g - f + 1
    /\ \A i \in 1..Len(parts) : f + i - 1 \in f..g /\ parts[i] = sent[f + i - 1]
    /\ parts[1] = sent[f] /\ parts[Len(parts)] = sent[g]
    /\ Begins(f) /\ sent[g].marker
    /\ \A i \in f..g : /\ sent[i].ssrc = sent[f].ssrc
                       /\ sent[i].picture = sent[f].picture /\ sent[i].key = sent[f].key
    /\ sent[g].number = sent[f].number + (g - f)

LEMMA WholeEnds ==
    ASSUME sent \in Seq(Genuine), SentOrdered, NEW parts, Whole(parts)
    PROVE  \E f, g \in 1..Len(sent) : Ends(parts, f, g)
<1>1. PICK f \in 1..Len(sent), g \in 1..Len(sent) :
        /\ Stretch(parts, f, g)
        /\ Begins(f) /\ sent[g].marker /\ \A k \in f..(g - 1) : ~ sent[k].marker
  BY DEF Whole
<1>2. f <= g /\ parts = [i \in 1..(g - f + 1) |-> sent[f + i - 1]]
  BY <1>1 DEF Stretch
<1>3. /\ g - f + 1 \in Nat /\ 1 \in 1..(g - f + 1) /\ f + 1 - 1 = f
      /\ g - f + 1 \in 1..(g - f + 1) /\ f + (g - f + 1) - 1 = g
      /\ \A i \in 1..(g - f + 1) : f + i - 1 \in f..g
  BY <1>2
<1>4. Len(parts) = g - f + 1
  <2>1. parts \in [1..(g - f + 1) -> Genuine]
    <3>1. \A i \in 1..(g - f + 1) : f + i - 1 \in 1..Len(sent)
      BY <1>2
    <3> QED
      BY <1>2, <3>1
  <2> QED
    BY <1>3, <2>1
<1>5. ASSUME NEW i \in f..g
      PROVE  /\ sent[i].ssrc = sent[f].ssrc
             /\ sent[i].picture = sent[f].picture /\ sent[i].key = sent[f].key
  <2>1. CASE i = f
    BY <2>1
  <2>2. CASE i # f
    <3>1. f < i /\ i \in 1..Len(sent) /\ \A k \in f..(i - 1) : k \in f..(g - 1)
      BY <2>2
    <3> QED
      BY <1>1, <3>1 DEF SentOrdered, Ordered
  <2> QED
    BY <2>1, <2>2
<1>6. sent[g].number = sent[f].number + (g - f)
  <2>1. g \in f..g
    BY <1>2
  <2> QED
    BY <1>5, <2>1, NumbersApart
<1>7. /\ parts[1] = sent[f] /\ parts[Len(parts)] = sent[g]
      /\ \A i \in 1..Len(parts) : f + i - 1 \in f..g /\ parts[i] = sent[f + i - 1]
  BY <1>2, <1>3, <1>4
<1> QED
  BY <1>1, <1>2, <1>4, <1>5, <1>6, <1>7, Zenon DEF Ends

\* Random access is known from any slice; parameter sets come with one.
LEMMA KeyKnown ==
    ASSUME sent \in Seq(Genuine), SentOrdered, NEW parts, Whole(parts)
    PROVE  /\ \A i \in 1..Len(parts) : HoldsIrap(parts[i]) => parts[1].key
           /\ \A i \in 1..Len(parts) : parts[i].kind = "sets" =>
                Len(parts) \in 1..Len(parts) /\ HoldsIrap(parts[Len(parts)])
<1>0. PICK f \in 1..Len(sent), g \in 1..Len(sent) : Ends(parts, f, g)
  BY WholeEnds
<1>1. /\ f <= g /\ Len(parts) = g - f + 1
      /\ \A i \in 1..Len(parts) : f + i - 1 \in f..g /\ parts[i] = sent[f + i - 1]
      /\ parts[1] = sent[f] /\ parts[Len(parts)] = sent[g]
      /\ \A i \in f..g : sent[i].key = sent[f].key
      /\ sent[g].marker
  BY <1>0 DEF Ends
<1>2. \A i \in f..g : i \in 1..Len(sent)
  OBVIOUS
<1>3. Len(parts) \in 1..Len(parts) /\ g \in f..g
  BY <1>1
<1>4. ASSUME NEW i \in 1..Len(parts)
      PROVE  parts[i].key = sent[f].key /\ (parts[i].kind = "sets" => sent[f].key)
  <2>1. parts[i] = sent[f + i - 1] /\ f + i - 1 \in 1..Len(sent)
    BY <1>1, <1>2
  <2>2. sent[f + i - 1].kind = "sets" => sent[f + i - 1].key
    BY <2>1 DEF SentOrdered
  <2> QED
    BY <1>1, <2>1, <2>2
<1>5. sent[g].kind # "sets" /\ sent[g].key = sent[f].key
  BY <1>1, <1>3 DEF SentOrdered
<1> QED
  BY <1>1, <1>3, <1>4, <1>5 DEF HoldsIrap

(***************************************************************************)
(* What the server sends later changes nothing of it.                      *)
(***************************************************************************)
LEMMA StretchStays ==
    ASSUME sent \in Seq(Genuine), NEW new \in Seq(Genuine), sent' = sent \o new,
           NEW parts, NEW f \in 1..Len(sent), NEW g \in 1..Len(sent), Stretch(parts, f, g)
    PROVE  Stretch(parts, f, g)' /\ (Begins(f) => Begins(f)')
<1>1. /\ Len(sent') \in Nat /\ Len(sent') >= Len(sent)
      /\ \A i \in 1..Len(sent) : i \in 1..Len(sent') /\ sent'[i] = sent[i]
  BY Appended
<1>2. f <= g /\ parts = [i \in 1..(g - f + 1) |-> sent[f + i - 1]]
  BY DEF Stretch
<1>3. \A i \in 1..(g - f + 1) : f + i - 1 \in 1..Len(sent)
  BY <1>2
<1>4. parts = [i \in 1..(g - f + 1) |-> sent'[f + i - 1]]
  BY <1>1, <1>2, <1>3
<1>5. f \in 1..Len(sent') /\ g \in f..Len(sent')
  BY <1>1, <1>2
<1>6. f # 1 => f - 1 \in 1..Len(sent)
  OBVIOUS
<1> QED
  BY <1>1, <1>4, <1>5, <1>6 DEF Stretch, Begins

LEMMA WholeStays ==
    ASSUME sent \in Seq(Genuine), NEW new \in Seq(Genuine), sent' = sent \o new,
           NEW parts, Whole(parts)
    PROVE  Whole(parts)'
<1>1. PICK f \in 1..Len(sent), g \in 1..Len(sent) :
        /\ Stretch(parts, f, g)
        /\ Begins(f) /\ sent[g].marker /\ \A k \in f..(g - 1) : ~ sent[k].marker
  BY DEF Whole
<1>2. \A i \in 1..Len(sent) : i \in 1..Len(sent') /\ sent'[i] = sent[i]
  BY Appended
<1>3. Stretch(parts, f, g)' /\ Begins(f)'
  BY <1>1, StretchStays
<1>4. \A k \in f..(g - 1) : k \in 1..Len(sent)
  OBVIOUS
<1>5. /\ sent'[g].marker /\ \A k \in f..(g - 1) : ~ sent'[k].marker
      /\ f \in 1..Len(sent') /\ g \in 1..Len(sent')
  BY <1>1, <1>2, <1>4
<1> QED
  BY <1>3, <1>5, Zenon DEF Whole

LEMMA AssembledStays ==
    ASSUME sent \in Seq(Genuine), NEW new \in Seq(Genuine), sent' = sent \o new,
           NEW a, NEW s, NEW n, Assembled(a, s, n)
    PROVE  Assembled(a, s, n)'
<1>1. \A i \in 1..Len(sent) : i \in 1..Len(sent') /\ sent'[i] = sent[i]
  BY Appended
<1>2. CASE /\ Parts(a) = <<>> /\ a.picture = None
           /\ Unset(a) \/ \E j \in 1..Len(sent) :
                  sent[j].ssrc = s /\ sent[j].number = n - 1 /\ sent[j].marker
  <2>1. CASE Unset(a)
    BY <1>2, <2>1, Zenon DEF Assembled
  <2>2. CASE \E j \in 1..Len(sent) :
               sent[j].ssrc = s /\ sent[j].number = n - 1 /\ sent[j].marker
    <3>1. \E j \in 1..Len(sent') :
            sent'[j].ssrc = s /\ sent'[j].number = n - 1 /\ sent'[j].marker
      BY <1>1, <2>2
    <3> QED
      BY <1>2, <3>1, Zenon DEF Assembled
  <2> QED
    BY <1>2, <2>1, <2>2
<1>3. CASE \E f, g \in 1..Len(sent) :
             /\ Stretch(Parts(a), f, g)
             /\ sent[g].ssrc = s /\ sent[g].number = n - 1
             /\ a.picture = sent[f].picture /\ \A k \in f..g : ~ sent[k].marker
             /\ Begins(f) \/ Unset(a)
  <2>1. PICK f \in 1..Len(sent), g \in 1..Len(sent) :
             /\ Stretch(Parts(a), f, g)
             /\ sent[g].ssrc = s /\ sent[g].number = n - 1
             /\ a.picture = sent[f].picture /\ \A k \in f..g : ~ sent[k].marker
             /\ Begins(f) \/ Unset(a)
    BY <1>3
  <2>2. Stretch(Parts(a), f, g)' /\ (Begins(f) => Begins(f)')
    BY <2>1, StretchStays
  <2>3. \A k \in f..g : k \in 1..Len(sent)
    OBVIOUS
  <2>4. /\ sent'[g].ssrc = s /\ sent'[g].number = n - 1
        /\ a.picture = sent'[f].picture /\ \A k \in f..g : ~ sent'[k].marker
        /\ f \in 1..Len(sent') /\ g \in 1..Len(sent')
    BY <1>1, <2>1, <2>3
  <2>5. Begins(f)' \/ Unset(a)
    BY <2>1, <2>2
  <2> QED
    BY <2>2, <2>4, <2>5, Zenon DEF Assembled
<1> QED
  BY <1>2, <1>3, Zenon DEF Assembled

-----------------------------------------------------------------------------
(* The assembler *)

LEMMA AssemblerKnown ==
    ASSUME NEW a \in Assemblers
    PROVE  /\ a.expected \in Int /\ a.buffered \in SUBSET Genuine /\ a.picture \in Int
           /\ a.nals \in Seq(Genuine) /\ a.fu \in Seq(Genuine) /\ Parts(a) \in Seq(Genuine)
           /\ a.initialSets \in BOOLEAN /\ a.sets \in BOOLEAN
           /\ a.configuration \in {"AwaitingConfigurationAu", "AwaitingRecoveryIrap",
                                   "Configured"}
           /\ a.dropping \in BOOLEAN /\ a.recovery \in Int
BY DEF Assemblers, Parts

LEMMA DiscardedKnown ==
    ASSUME NEW a \in Assemblers
    PROVE  /\ Discarded(a) \in Assemblers
           /\ Parts(Discarded(a)) = <<>> /\ Discarded(a).picture = None
           /\ Discarded(a).expected = a.expected /\ Discarded(a).buffered = a.buffered
           /\ Discarded(a).dropping = a.dropping /\ Discarded(a).sets = a.sets
           /\ Discarded(a).configuration = a.configuration
<1> DEFINE d == Discarded(a)
<1>1. /\ d \in Assemblers /\ d.nals = <<>> /\ d.fu = <<>> /\ d.picture = None
      /\ d.expected = a.expected /\ d.buffered = a.buffered /\ d.dropping = a.dropping
      /\ d.sets = a.sets /\ d.configuration = a.configuration
  <2>1. None \in Int /\ <<>> \in Seq(Genuine)
    BY DEF None
  <2> QED
    BY <2>1 DEF Discarded, Assemblers
<1>2. <<>> \o <<>> = <<>>
  OBVIOUS
<1> QED
  BY <1>1, <1>2 DEF Parts

LEMMA PartsAppended ==
    ASSUME NEW x \in Seq(Genuine), NEW y \in Seq(Genuine), NEW p \in Genuine
    PROVE  /\ x \o <<p>> \in Seq(Genuine) /\ x \o y \o <<p>> \in Seq(Genuine)
           /\ <<p>> \in Seq(Genuine) /\ <<>> \in Seq(Genuine) /\ Append(x, p) \in Seq(Genuine)
           /\ x \o <<>> = x
           /\ x \o <<p>> = Append(x, p)
           /\ (x \o y \o <<p>>) \o <<>> = Append(x \o y, p)
           /\ Append(x, p) \o <<>> = Append(x, p)
<1>1. x \o y \in Seq(Genuine) /\ <<p>> \in Seq(Genuine) /\ Append(x, p) \in Seq(Genuine)
  OBVIOUS
<1>2. \A z \in Seq(Genuine) :
        z \o <<p>> = Append(z, p) /\ z \o <<p>> \in Seq(Genuine) /\ z \o <<>> = z
  OBVIOUS
<1> QED
  BY <1>1, <1>2

LEMMA DepacketizedKnown ==
    ASSUME NEW b \in Assemblers, NEW p \in Genuine, DepacketizeError(b, p) = "no"
    PROVE  LET c == Depacketized(b, p) IN
           /\ c \in Assemblers
           /\ Parts(c) = Append(Parts(b), p)
           /\ p.kind # "start" => c.fu = <<>>
           /\ c.expected = b.expected /\ c.buffered = b.buffered /\ c.picture = b.picture
           /\ c.sets = b.sets /\ c.configuration = b.configuration
           /\ c.dropping = b.dropping
<1> DEFINE c == Depacketized(b, p)
<1>1. /\ b.nals \in Seq(Genuine) /\ b.fu \in Seq(Genuine) /\ b.initialSets \in BOOLEAN
      /\ p.kind \in {"sets", "start", "end", "slice"}
  BY AssemblerKnown, GenuineKnown
<1>2. p.kind # "end" => b.fu = <<>>
  BY DEF DepacketizeError
<1>3. /\ b.nals \o <<p>> \in Seq(Genuine) /\ b.nals \o b.fu \o <<p>> \in Seq(Genuine)
      /\ <<p>> \in Seq(Genuine) /\ <<>> \in Seq(Genuine) /\ Append(b.nals, p) \in Seq(Genuine)
      /\ b.nals \o <<>> = b.nals
      /\ b.nals \o <<p>> = Append(b.nals, p)
      /\ (b.nals \o b.fu \o <<p>>) \o <<>> = Append(b.nals \o b.fu, p)
      /\ Append(b.nals, p) \o <<>> = Append(b.nals, p)
  BY <1>1, PartsAppended, Zenon
<1>4. CASE p.kind = "start"
  <2>1. c = [b EXCEPT !.fu = <<p>>]
    BY <1>4 DEF Depacketized
  <2>2. /\ c \in Assemblers /\ c.fu = <<p>> /\ c.nals = b.nals
        /\ c.expected = b.expected /\ c.buffered = b.buffered /\ c.picture = b.picture
        /\ c.sets = b.sets /\ c.configuration = b.configuration /\ c.dropping = b.dropping
    BY <1>3, <2>1 DEF Assemblers
  <2> HIDE DEF c
  <2>3. Parts(c) = Append(Parts(b), p)
    BY <1>2, <1>3, <1>4, <2>2 DEF Parts
  <2> QED
    BY <1>4, <2>2, <2>3 DEF c
<1>5. CASE p.kind = "end"
  <2>1. c = [b EXCEPT !.nals = b.nals \o b.fu \o <<p>>, !.fu = <<>>]
    BY <1>5 DEF Depacketized
  <2>2. /\ c \in Assemblers /\ c.fu = <<>> /\ c.nals = b.nals \o b.fu \o <<p>>
        /\ c.expected = b.expected /\ c.buffered = b.buffered /\ c.picture = b.picture
        /\ c.sets = b.sets /\ c.configuration = b.configuration /\ c.dropping = b.dropping
    BY <1>3, <2>1 DEF Assemblers
  <2> HIDE DEF c
  <2>3. Parts(c) = Append(Parts(b), p)
    BY <1>3, <2>2 DEF Parts
  <2> QED
    BY <2>2, <2>3 DEF c
<1>6. CASE p.kind \in {"slice", "sets"}
  <2>1. /\ c \in Assemblers /\ c.fu = b.fu /\ c.nals = Append(b.nals, p)
        /\ c.expected = b.expected /\ c.buffered = b.buffered /\ c.picture = b.picture
        /\ c.sets = b.sets /\ c.configuration = b.configuration /\ c.dropping = b.dropping
    <3>1. CASE p.kind = "slice"
      <4>1. c = [b EXCEPT !.nals = Append(b.nals, p)]
        BY <3>1 DEF Depacketized
      <4> QED
        BY <1>3, <4>1 DEF Assemblers
    <3>2. CASE p.kind = "sets"
      <4>1. c = [b EXCEPT !.nals = Append(b.nals, p),
                          !.initialSets = b.initialSets
                                          \/ b.configuration = "AwaitingConfigurationAu"]
        BY <3>2 DEF Depacketized
      <4>2. (b.initialSets \/ b.configuration = "AwaitingConfigurationAu") \in BOOLEAN
        BY <1>1
      <4> QED
        BY <1>3, <4>1, <4>2 DEF Assemblers
    <3> QED
      BY <1>6, <3>1, <3>2
  <2> HIDE DEF c
  <2>2. b.fu = <<>>
    BY <1>2, <1>6
  <2>3. Parts(c) = Append(Parts(b), p)
    BY <1>3, <2>1, <2>2 DEF Parts
  <2> QED
    BY <2>1, <2>2, <2>3 DEF c
<1> QED
  BY <1>1, <1>4, <1>5, <1>6

(***************************************************************************)
(* A packet more: what is assembled now reaches to it, from the beginning  *)
(* of its picture unless there are no parameter sets to finish it with.    *)
(***************************************************************************)
ReachesTo(c, j) ==
    \E f \in 1..j :
        /\ Stretch(Parts(c), f, j)
        /\ c.picture = sent[f].picture /\ \A k \in f..(j - 1) : ~ sent[k].marker
        /\ Begins(f) \/ Unset(c)

LEMMA OneMore ==
    ASSUME sent \in Seq(Genuine), SentOrdered, NEW s, NEW n \in Nat,
           NEW a \in Assemblers, Assembled(a, s, n),
           NEW j \in 1..Len(sent), sent[j].ssrc = s, sent[j].number = n,
           a.picture \in {None, sent[j].picture},
           NEW c \in Assemblers, Parts(c) = Append(Parts(a), sent[j]),
           c.picture = sent[j].picture, c.sets = a.sets, c.configuration = a.configuration
    PROVE  ReachesTo(c, j)
<1> DEFINE p == sent[j]
<1>1. p \in Genuine /\ Parts(a) \in Seq(Genuine) /\ p.picture \in Nat /\ j \in 1..j
  BY AssemblerKnown, GenuineKnown
<1>2. /\ Len(Parts(c)) = Len(Parts(a)) + 1 /\ Len(Parts(a)) \in Nat
      /\ Parts(c)[Len(Parts(a)) + 1] = p
      /\ \A k \in 1..Len(Parts(a)) : Parts(c)[k] = Parts(a)[k]
  BY <1>1
<1>3. Unset(a) /\ p.kind # "sets" => Unset(c)
  <2> SUFFICES ASSUME Unset(a), p.kind # "sets", NEW k \in 1..Len(Parts(c))
               PROVE  Parts(c)[k].kind # "sets"
    BY DEF Unset
  <2>1. k \in 1..Len(Parts(a)) \/ k = Len(Parts(a)) + 1
    BY <1>2
  <2> QED
    BY <1>2, <2>1 DEF Unset
<1>4. p.kind = "sets" => Begins(j)
  BY DEF SentOrdered
<1>5. CASE /\ Parts(a) = <<>> /\ a.picture = None
           /\ Unset(a) \/ \E i \in 1..Len(sent) :
                  sent[i].ssrc = s /\ sent[i].number = n - 1 /\ sent[i].marker
  <2>1. Stretch(Parts(c), j, j)
    <3>1. Parts(c) = <<p>>
      BY <1>5
    <3>2. j - j + 1 = 1 /\ j + 1 - 1 = j /\ j \in j..Len(sent)
      OBVIOUS
    <3>3. <<p>> = [i \in 1..1 |-> sent[j + i - 1]]
      BY <3>2
    <3> QED
      BY <3>1, <3>2, <3>3 DEF Stretch
  <2>2. Begins(j) \/ Unset(c)
    <3>1. ASSUME NEW i \in 1..Len(sent), sent[i].ssrc = s, sent[i].number = n - 1,
                 sent[i].marker
          PROVE  Begins(j)
      <4>1. j = i + 1
        BY <3>1, NextPacket
      <4> QED
        BY <3>1, <4>1 DEF Begins
    <3> QED
      BY <1>3, <1>4, <1>5, <3>1
  <2>3. \A k \in j..(j - 1) : ~ sent[k].marker
    OBVIOUS
  <2> QED
    BY <1>1, <2>1, <2>2, <2>3 DEF ReachesTo
<1>6. CASE \E f, g \in 1..Len(sent) :
             /\ Stretch(Parts(a), f, g)
             /\ sent[g].ssrc = s /\ sent[g].number = n - 1
             /\ a.picture = sent[f].picture /\ \A k \in f..g : ~ sent[k].marker
             /\ Begins(f) \/ Unset(a)
  <2>1. PICK f \in 1..Len(sent), g \in 1..Len(sent) :
             /\ Stretch(Parts(a), f, g)
             /\ sent[g].ssrc = s /\ sent[g].number = n - 1
             /\ a.picture = sent[f].picture /\ \A k \in f..g : ~ sent[k].marker
             /\ Begins(f) \/ Unset(a)
    BY <1>6
  <2>2. j = g + 1
    BY <2>1, NextPacket
  <2>3. f <= g /\ Parts(a) = [i \in 1..(g - f + 1) |-> sent[f + i - 1]]
    BY <2>1 DEF Stretch
  <2>4. Len(Parts(a)) = g - f + 1
    BY <1>1, <2>3
  <2>5. Stretch(Parts(c), f, j)
    <3>1. j - f + 1 = (g - f + 1) + 1 /\ f + ((g - f + 1) + 1) - 1 = j /\ j \in f..Len(sent)
      BY <2>2, <2>3
    <3>2. \A i \in 1..(j - f + 1) : i \in 1..(g - f + 1) \/ i = (g - f + 1) + 1
      BY <2>2, <2>3
    <3>3. \A i \in 1..(j - f + 1) : Parts(c)[i] = sent[f + i - 1]
      <4>1. \A i \in 1..(g - f + 1) : Parts(c)[i] = sent[f + i - 1]
        BY <1>2, <2>3, <2>4
      <4>2. Parts(c)[(g - f + 1) + 1] = sent[f + ((g - f + 1) + 1) - 1]
        BY <1>2, <2>4, <3>1
      <4> QED
        BY <3>2, <4>1, <4>2
    <3>4. Parts(c) \in Seq(Genuine) /\ Len(Parts(c)) = j - f + 1
      BY <1>2, <2>4, <3>1, AssemblerKnown
    <3>5. Parts(c) = [i \in 1..(j - f + 1) |-> sent[f + i - 1]]
      BY <3>3, <3>4
    <3> QED
      BY <3>1, <3>5 DEF Stretch
  <2>6. p.picture = sent[f].picture
    <3>1. sent[f] \in Genuine
      OBVIOUS
    <3>2. sent[f].picture \in Nat
      BY <3>1, GenuineKnown
    <3>3. a.picture # None
      BY <2>1, <3>2 DEF None
    <3> QED
      BY <2>1, <3>3
  <2>7. Begins(f) \/ Unset(c)
    <3>1. ~ Begins(j)
      <4>1. j # 1 /\ j - 1 = g /\ g \in f..g
        BY <2>2, <2>3
      <4> QED
        BY <2>1, <4>1 DEF Begins
    <3> QED
      BY <1>3, <1>4, <2>1, <3>1
  <2>8. (\A k \in f..(j - 1) : ~ sent[k].marker) /\ f \in 1..j
    BY <2>1, <2>2, <2>3
  <2> QED
    BY <2>5, <2>6, <2>7, <2>8 DEF ReachesTo
<1> QED
  BY <1>5, <1>6, Zenon DEF Assembled

LEMMA NoUnits == WholeUnits(<<>>)
<1>1. <<>> \in Seq(Units) /\ Len(<<>>) = 0 /\ 1..0 = {}
  OBVIOUS
<1> QED
  BY <1>1 DEF WholeUnits

LEMMA WholeSoFar ==
    ASSUME sent \in Seq(Genuine), NEW j \in 1..Len(sent), sent[j].marker,
           NEW c, ReachesTo(c, j), ~ Unset(c)
    PROVE  Whole(Parts(c))
<1>1. PICK f \in 1..j :
        /\ Stretch(Parts(c), f, j)
        /\ c.picture = sent[f].picture /\ \A k \in f..(j - 1) : ~ sent[k].marker
        /\ Begins(f) \/ Unset(c)
  BY DEF ReachesTo
<1>2. f \in 1..Len(sent)
  OBVIOUS
<1> QED
  BY <1>1, <1>2 DEF Whole

LEMMA FinishedKnown ==
    ASSUME sent \in Seq(Genuine), SentOrdered, NEW c \in Assemblers, Consistent(c), c.fu = <<>>,
           NEW j \in 1..Len(sent), sent[j].marker, ReachesTo(c, j)
    PROVE  LET r == Finished(c) IN
           /\ r = Result(r.a, r.units, r.error)
           /\ r.error \in {"no", "MissingInitialParameterSets"}
           /\ r.error = "no" =>
                /\ r.a \in Assemblers /\ Parts(r.a) = <<>> /\ r.a.picture = None
                /\ r.a.expected = c.expected /\ r.a.buffered = c.buffered
                /\ r.a.dropping = c.dropping /\ r.a.sets /\ Configured(r.a)
                /\ WholeUnits(r.units)
                /\ \E unit \in Units :
                     /\ r.units = <<unit>> /\ unit.parts = Parts(c)
                     /\ unit.keyframe => unit.sets /\ First(unit).key
                     /\ unit.keyframe \/ c.configuration # "AwaitingConfigurationAu"
                     /\ unit.keyframe \/ \A i \in DOMAIN c.nals : ~ HoldsIrap(c.nals[i])
<1> DEFINE own  == \E i \in DOMAIN c.nals : c.nals[i].kind = "sets"
           irap == \E i \in DOMAIN c.nals : HoldsIrap(c.nals[i])
           unit == [parts |-> c.nals, keyframe |-> irap, sets |-> own \/ (irap /\ c.sets)]
           d == Discarded(c)
           e == [d EXCEPT !.sets = c.sets \/ own, !.configuration = "Configured"]
           bad == c.configuration # "Configured" /\ ~ c.sets /\ ~ own
<1>1. Finished(c) = IF bad THEN Result(d, <<>>, "MissingInitialParameterSets")
                    ELSE Result(e, <<unit>>, "no")
  BY DEF Finished
<1>2. c.nals \in Seq(Genuine) /\ c.sets \in BOOLEAN
  BY AssemblerKnown
<1>3. c.nals \o <<>> = c.nals /\ DOMAIN c.nals = 1..Len(c.nals)
  BY <1>2
<1>4. Parts(c) = c.nals
  BY <1>3 DEF Parts
<1>5. Unset(c) => bad
  BY <1>3, <1>4 DEF Unset
<1>6. ~ bad => Whole(c.nals)
  BY <1>4, <1>5, WholeSoFar
<1>7. /\ unit \in Units /\ unit.parts = c.nals
      /\ unit.keyframe = irap /\ unit.sets = (own \/ (irap /\ c.sets))
  <2>1. irap \in BOOLEAN /\ (own \/ (irap /\ c.sets)) \in BOOLEAN
    OBVIOUS
  <2> HIDE DEF irap, own
  <2> QED
    BY <1>2, <2>1 DEF Units
<1>8. /\ d \in Assemblers /\ Parts(d) = <<>> /\ d.picture = None
      /\ d.expected = c.expected /\ d.buffered = c.buffered /\ d.dropping = c.dropping
  BY DiscardedKnown
<1>9. /\ e \in Assemblers /\ e.nals = d.nals /\ e.fu = d.fu /\ e.picture = d.picture
      /\ e.expected = d.expected /\ e.buffered = d.buffered /\ e.dropping = d.dropping
      /\ e.sets = (c.sets \/ own) /\ e.configuration = "Configured"
  <2>1. (c.sets \/ own) \in BOOLEAN
    OBVIOUS
  <2> HIDE DEF own, d
  <2> QED
    BY <1>8, <2>1 DEF Assemblers
<1>10. ~ bad => (irap => First(unit).key) /\ (own => irap)
  <2> SUFFICES ASSUME ~ bad PROVE (irap => c.nals[1].key) /\ (own => irap)
    BY <1>7 DEF First
  <2> QED
    BY <1>3, <1>6, KeyKnown
<1>11. ~ bad => c.sets \/ own
  BY DEF Consistent
<1>12. c.configuration = "AwaitingConfigurationAu" => ~ c.sets
  BY DEF Consistent
<1>13. irap \/ \A i \in DOMAIN c.nals : ~ HoldsIrap(c.nals[i])
  OBVIOUS
<1> HIDE DEF own, irap, unit, d, e, bad
<1>14. Parts(e) = Parts(d)
  BY <1>9 DEF Parts
<1>15. ~ bad => WholeUnits(<<unit>>)
  BY <1>6, <1>7 DEF WholeUnits
<1>16. CASE bad
  BY <1>1, <1>16 DEF Result
<1>17. CASE ~ bad
  <2>1. /\ Finished(c).a = e /\ Finished(c).units = <<unit>> /\ Finished(c).error = "no"
        /\ Finished(c) = Result(e, <<unit>>, "no")
    BY <1>1, <1>17 DEF Result
  <2>2. /\ unit.parts = Parts(c) /\ (unit.keyframe => unit.sets /\ First(unit).key)
        /\ unit.keyframe \/ c.configuration # "AwaitingConfigurationAu"
        /\ unit.keyframe \/ \A i \in DOMAIN c.nals : ~ HoldsIrap(c.nals[i])
    BY <1>4, <1>7, <1>10, <1>11, <1>12, <1>13, <1>17, Zenon
  <2>3. e.sets /\ Configured(e)
    BY <1>9, <1>11, <1>17 DEF Configured
  <2> QED
    BY <1>4, <1>7, <1>8, <1>9, <1>14, <1>15, <1>17, <2>1, <2>2, <2>3, Zenon
<1> QED
  BY <1>16, <1>17

LEMMA NoTrail ==
    ASSUME NEW s, NEW m \in Int, NEW n \in Int, NEW c \in BOOLEAN, m <= n, c => m = n
    PROVE  Trail(<<>>, s, m, c, n, c)
<1>1. Len(<<>>) = 0 /\ 1..0 = {} /\ 2..0 = {}
  OBVIOUS
<1> QED
  BY <1>1 DEF Trail, Gapless

LEMMA UnitTrail ==
    ASSUME sent \in Seq(Genuine), SentOrdered, NEW s, NEW n \in Nat, NEW l \in Nat,
           NEW unit, Whole(unit.parts), Len(unit.parts) = l + 1,
           Final(unit).ssrc = s, Final(unit).number = n,
           unit.keyframe => unit.sets /\ First(unit).key,
           NEW c \in BOOLEAN, c \/ unit.keyframe
    PROVE  Trail(<<unit>>, s, n - l, c, n + 1, TRUE)
<1>0. PICK f \in 1..Len(sent), g \in 1..Len(sent) : Ends(unit.parts, f, g)
  BY WholeEnds
<1>1. /\ f <= g /\ Len(unit.parts) = g - f + 1
      /\ unit.parts[1] = sent[f] /\ unit.parts[Len(unit.parts)] = sent[g]
      /\ \A i \in f..g : sent[i].ssrc = sent[f].ssrc
      /\ sent[g].number = sent[f].number + (g - f)
  BY <1>0 DEF Ends
<1>2. First(unit) = sent[f] /\ Final(unit) = sent[g]
  BY <1>1 DEF First, Final
<1>3. PICK k \in Nat : k = sent[f].number
  <2>1. sent[f] \in Genuine
    OBVIOUS
  <2> QED
    BY <2>1, GenuineKnown, Zenon
<1>4. First(unit).ssrc = s
  <2>1. g \in f..g
    BY <1>1
  <2> QED
    BY <1>1, <1>2, <2>1
<1>5. g - f = l
  BY <1>1
<1>6. n = k + l
  BY <1>1, <1>2, <1>3, <1>5, Zenon
<1>7. First(unit).number = n - l
  <2>1. k = n - l
    BY <1>6
  <2> QED
    BY <1>2, <1>3, <2>1, Zenon
<1>8. Len(<<unit>>) = 1 /\ <<unit>>[1] = unit /\ <<unit>> # <<>> /\ 1..1 = {1} /\ 2..1 = {}
  OBVIOUS
<1>9. FinalOf(<<unit>>).number = n /\ n - l <= n - l
  BY <1>8 DEF FinalOf
<1>10. OfStream(unit, s)
  <2>1. sent[f] \in Genuine /\ sent[g] \in Genuine
    OBVIOUS
  <2> QED
    BY <1>2, <1>4, <2>1 DEF OfStream
<1> QED
  BY <1>7, <1>8, <1>9, <1>10, Zenon DEF Trail, Gapless

LEMMA ProcessKnown ==
    ASSUME sent \in Seq(Genuine), SentOrdered, NEW s, NEW n \in Nat,
           NEW a \in Assemblers, Consistent(a), ~ a.dropping, Assembled(a, s, n),
           NEW j \in 1..Len(sent), sent[j].ssrc = s, sent[j].number = n
    PROVE  LET r == ProcessOrdered(a, sent[j]) IN
           /\ r = Result(r.a, r.units, r.error) /\ r.error # "ReorderWindowExceeded"
           /\ r.error = "no" =>
                /\ r.a \in Assemblers /\ ~ r.a.dropping
                /\ r.a.expected = a.expected /\ r.a.buffered = a.buffered
                /\ Assembled(r.a, s, n + 1)
                /\ WholeUnits(r.units) /\ Consistent(r.a)
                /\ Trail(r.units, s, n - Len(Parts(a)), Configured(a),
                         (n + 1) - Len(Parts(r.a)), Configured(r.a))
<1> DEFINE p == sent[j]
           b == [a EXCEPT !.picture = p.picture]
           error == DepacketizeError(b, p)
           c == Depacketized(b, p)
           r == ProcessOrdered(a, p)
           skips == /\ c.configuration = "AwaitingRecoveryIrap"
                    /\ \A i \in DOMAIN c.nals : ~ HoldsIrap(c.nals[i])
<1>1. p \in Genuine /\ p.picture \in Nat /\ p.marker \in BOOLEAN
  BY GenuineKnown
<1>2. r = IF a.picture \notin {None, p.picture}
          THEN Result(DroppingFrom(Discarded(a), p), <<>>, "TimestampChangedBeforeMarker")
          ELSE IF error # "no" THEN Result(DroppingFrom(Discarded(b), p), <<>>, error)
          ELSE IF ~ p.marker THEN Result(c, <<>>, "no")
          ELSE IF skips THEN Result(Discarded(c), <<>>, "no")
          ELSE Finished(c)
  BY DEF ProcessOrdered
<1>3. error \in {"FuContinuationWithoutStart", "InterleavedPayload", "no"}
  BY DEF DepacketizeError
<1>4. /\ b \in Assemblers /\ b.nals = a.nals /\ b.fu = a.fu /\ b.picture = p.picture
      /\ b.expected = a.expected /\ b.buffered = a.buffered /\ b.dropping = a.dropping
      /\ b.sets = a.sets /\ b.configuration = a.configuration
  <2>1. p.picture \in Int
    BY <1>1
  <2> HIDE DEF p
  <2> QED
    BY <2>1 DEF Assemblers
<1> HIDE DEF b, p
<1>5. ASSUME error = "no", a.picture \in {None, p.picture}
      PROVE  /\ c \in Assemblers /\ ReachesTo(c, j) /\ (p.kind # "start" => c.fu = <<>>)
             /\ c.expected = a.expected /\ c.buffered = a.buffered /\ c.dropping = a.dropping
             /\ c.picture = p.picture /\ Parts(c) = Append(Parts(a), p)
             /\ Consistent(c) /\ c.configuration = a.configuration
  <2>1. /\ c \in Assemblers /\ Parts(c) = Append(Parts(b), p)
        /\ p.kind # "start" => c.fu = <<>>
        /\ c.expected = b.expected /\ c.buffered = b.buffered /\ c.picture = b.picture
        /\ c.sets = b.sets /\ c.configuration = b.configuration
        /\ c.dropping = b.dropping
    BY <1>1, <1>4, <1>5, DepacketizedKnown
  <2>2. Parts(b) = Parts(a)
    BY <1>4 DEF Parts
  <2> HIDE DEF c, error
  <2>3. ReachesTo(c, j)
    BY <1>4, <1>5, <2>1, <2>2, OneMore DEF p
  <2>4. Consistent(c) /\ c.configuration = a.configuration
    BY <1>4, <2>1 DEF Consistent, Configured
  <2> QED
    BY <1>4, <2>1, <2>2, <2>3, <2>4
<1>14. Parts(a) \in Seq(Genuine)
  BY AssemblerKnown
<1>15. skips \/ c.configuration # "AwaitingRecoveryIrap"
       \/ ~ \A i \in DOMAIN c.nals : ~ HoldsIrap(c.nals[i])
  OBVIOUS
<1>16. skips => c.configuration = "AwaitingRecoveryIrap"
  OBVIOUS
<1> HIDE DEF c, error, r, skips
<1>17. a.configuration \in {"AwaitingConfigurationAu", "AwaitingRecoveryIrap", "Configured"}
  BY AssemblerKnown
<1>18. PICK l \in Nat : l = Len(Parts(a))
  BY <1>14
<1>19. \A x : Parts(x) = Append(Parts(a), p) => Len(Parts(x)) = l + 1 /\ Parts(x)[l + 1] = p
  BY <1>14, <1>18
<1>20. \A x : Parts(x) = <<>> => Len(Parts(x)) = 0
  OBVIOUS
<1>21. Configured(a) \in BOOLEAN
  BY DEF Configured
<1>6. (n + 1) - 1 = n
  OBVIOUS
<1>7. CASE a.picture \notin {None, p.picture}
  BY <1>2, <1>7 DEF Result, p, r
<1>8. CASE a.picture \in {None, p.picture} /\ error # "no"
  BY <1>2, <1>3, <1>8 DEF Result, p, r
<1>9. CASE a.picture \in {None, p.picture} /\ error = "no" /\ ~ p.marker
  <2>1. r = Result(c, <<>>, "no")
    BY <1>2, <1>9
  <2>2. Assembled(c, s, n + 1)
    <3>1. PICK f \in 1..j :
            /\ Stretch(Parts(c), f, j)
            /\ c.picture = sent[f].picture /\ \A k \in f..(j - 1) : ~ sent[k].marker
            /\ Begins(f) \/ Unset(c)
      BY <1>5, <1>9 DEF ReachesTo
    <3>2. \A k \in f..j : ~ sent[k].marker
      BY <1>9, <3>1 DEF p
    <3>3. f \in 1..Len(sent) /\ sent[j].ssrc = s /\ sent[j].number = (n + 1) - 1
      BY <1>6
    <3> QED
      BY <3>1, <3>2, <3>3, Zenon DEF Assembled
  <2>3. /\ r = Result(r.a, r.units, r.error) /\ r.a = c /\ r.units = <<>> /\ r.error = "no"
    BY <2>1 DEF Result
  <2>4. Trail(<<>>, s, n - l, Configured(a), (n + 1) - Len(Parts(c)), Configured(c))
    <3>1. Configured(c) = Configured(a) /\ Len(Parts(c)) = l + 1
      BY <1>5, <1>9, <1>19 DEF Configured
    <3>2. (n + 1) - (l + 1) = n - l /\ n - l \in Int /\ n - l <= n - l
      OBVIOUS
    <3>3. Trail(<<>>, s, n - l, Configured(a), n - l, Configured(a))
      BY <1>21, <3>2, NoTrail
    <3> QED
      BY <3>1, <3>2, <3>3
  <2> QED
    BY <1>5, <1>9, <1>18, <2>2, <2>3, <2>4, NoUnits DEF p, r
<1>10. ASSUME NEW x, Parts(x) = <<>>, x.picture = None, p.marker
       PROVE  Assembled(x, s, n + 1)
  BY <1>6, <1>10 DEF Assembled, p
<1>11. CASE a.picture \in {None, p.picture} /\ error = "no" /\ p.marker /\ skips
  <2>1. r = Result(Discarded(c), <<>>, "no")
    BY <1>2, <1>11
  <2>2. /\ r = Result(r.a, r.units, r.error) /\ r.a = Discarded(c)
        /\ r.units = <<>> /\ r.error = "no"
    BY <2>1 DEF Result
  <2>3. /\ Discarded(c) \in Assemblers
        /\ Parts(Discarded(c)) = <<>> /\ Discarded(c).picture = None
        /\ Discarded(c).expected = c.expected /\ Discarded(c).buffered = c.buffered
        /\ Discarded(c).dropping = c.dropping /\ Discarded(c).sets = c.sets
        /\ Discarded(c).configuration = c.configuration
    BY <1>5, <1>11, DiscardedKnown
  <2>4. Assembled(Discarded(c), s, n + 1)
    BY <1>10, <1>11, <2>3
  <2>5. Consistent(Discarded(c)) /\ ~ Configured(Discarded(c)) /\ ~ Configured(a)
    BY <1>5, <1>11, <1>16, <2>3 DEF Consistent, Configured
  <2>6. Trail(<<>>, s, n - l, Configured(a), (n + 1) - Len(Parts(Discarded(c))),
              Configured(Discarded(c)))
    <3>1. Len(Parts(Discarded(c))) = 0 /\ n - l <= n + 1 /\ (n + 1) - 0 = n + 1
          /\ n - l \in Int /\ n + 1 \in Int
      BY <1>20, <2>3
    <3>2. Configured(Discarded(c)) = Configured(a)
      BY <1>21, <2>5 DEF Configured
    <3>3. Trail(<<>>, s, n - l, Configured(a), n + 1, Configured(a))
      BY <1>21, <2>5, <3>1, NoTrail
    <3> QED
      BY <3>1, <3>2, <3>3
  <2> QED
    BY <1>5, <1>11, <1>18, <2>2, <2>3, <2>4, <2>5, <2>6, NoUnits DEF p, r
<1>12. CASE a.picture \in {None, p.picture} /\ error = "no" /\ p.marker /\ ~ skips
  <2>1. r = Finished(c)
    BY <1>2, <1>12
  <2>2. c.fu = <<>>
    BY <1>5, <1>12 DEF SentOrdered, p
  <2>3. /\ r = Result(r.a, r.units, r.error)
        /\ r.error \in {"no", "MissingInitialParameterSets"}
        /\ r.error = "no" =>
             /\ r.a \in Assemblers /\ Parts(r.a) = <<>> /\ r.a.picture = None
             /\ r.a.expected = c.expected /\ r.a.buffered = c.buffered
             /\ r.a.dropping = c.dropping /\ r.a.sets /\ Configured(r.a)
             /\ WholeUnits(r.units)
             /\ \E unit \in Units :
                  /\ r.units = <<unit>> /\ unit.parts = Parts(c)
                  /\ unit.keyframe => unit.sets /\ First(unit).key
                  /\ unit.keyframe \/ c.configuration # "AwaitingConfigurationAu"
                  /\ unit.keyframe \/ \A i \in DOMAIN c.nals : ~ HoldsIrap(c.nals[i])
    BY <1>5, <1>12, <2>1, <2>2, FinishedKnown DEF p
  <2>4. r.error = "no" => Assembled(r.a, s, n + 1)
    BY <1>10, <1>12, <2>3
  <2>5. ASSUME r.error = "no"
        PROVE  Trail(r.units, s, n - l, Configured(a), (n + 1) - Len(Parts(r.a)), TRUE)
    <3>1. PICK unit \in Units :
                  /\ r.units = <<unit>> /\ unit.parts = Parts(c)
                  /\ unit.keyframe => unit.sets /\ First(unit).key
                  /\ unit.keyframe \/ c.configuration # "AwaitingConfigurationAu"
                  /\ unit.keyframe \/ \A i \in DOMAIN c.nals : ~ HoldsIrap(c.nals[i])
      BY <2>3, <2>5
    <3>2. Configured(a) \/ unit.keyframe
      BY <1>5, <1>12, <1>15, <1>17, <3>1 DEF Configured
    <3>3. Whole(unit.parts)
      BY <2>3, <2>5, <3>1 DEF WholeUnits
    <3>4. Len(unit.parts) = l + 1 /\ Final(unit) = p
      BY <1>5, <1>12, <1>19, <3>1 DEF Final
    <3>5. Trail(<<unit>>, s, n - l, Configured(a), n + 1, TRUE)
      BY <1>21, <3>1, <3>2, <3>3, <3>4, UnitTrail DEF p
    <3>6. Len(Parts(r.a)) = 0 /\ (n + 1) - 0 = n + 1
      BY <1>20, <2>3, <2>5
    <3> QED
      BY <3>1, <3>5, <3>6
  <2>6. r.error = "no" => Consistent(r.a) /\ Configured(r.a) = TRUE
    BY <1>5, <1>12, <2>3 DEF Consistent, Configured
  <2> QED
    BY <1>5, <1>12, <1>18, <2>3, <2>4, <2>5, <2>6 DEF p, r
<1> QED
  BY <1>1, <1>7, <1>8, <1>9, <1>11, <1>12

\* Numbers less than the sequence space apart that carry the same sequence number.
LEMMA SameNumber ==
    ASSUME NEW s \in Nat, s > 0, NEW n \in Nat, NEW m \in Nat, n % s = m % s,
           n - m < s, m - n < s
    PROVE  n = m
<1> DEFINE a == n \div s
           x == n % s
           b == m \div s
           y == m % s
<1>1. x \in 0..(s - 1) /\ a \in Nat /\ n = s * a + x
  BY Division
<1>2. y \in 0..(s - 1) /\ b \in Nat /\ m = s * b + y
  BY Division
<1>3. x = y
  OBVIOUS
<1> HIDE DEF a, x, b, y
<1>4. s * a \in Int /\ s * b \in Int
  BY <1>1, <1>2, Z3
<1>5. s * a - s * b < s /\ s * b - s * a < s
  BY <1>1, <1>2, <1>3, <1>4
<1>6. a = b
  BY <1>1, <1>2, <1>5, SameMultiple
<1> QED
  BY <1>1, <1>2, <1>3, <1>6

LEMMA SpaceKnown ==
    /\ SequenceSpace \in Nat /\ SequenceSpace > 0 /\ Half \in Nat /\ SequenceSpace = Half + Half
    /\ ReorderWindow \in Nat /\ ReorderWindow > 0 /\ ReorderWindow <= Half
    /\ ReplayWindow \in Nat /\ ReplayWindow > 0 /\ ReplayWindow <= Half
    /\ Window = ReorderWindow + ReplayWindow /\ MaxStreams \in Nat
<1>1. SequenceSpace \in Nat /\ SequenceSpace > 0 /\ SequenceSpace % 2 = 0
  BY SequenceAssumption
<1>2. Half \in Nat /\ SequenceSpace = Half + Half
  BY <1>1 DEF Half
<1> QED
  BY <1>1, <1>2, SequenceAssumption, ReceiveAssumption DEF Half, Window

LEMMA UnitsJoined ==
    ASSUME NEW x, NEW y, WholeUnits(x), WholeUnits(y)
    PROVE  WholeUnits(x \o y)
<1>1. x \in Seq(Units) /\ y \in Seq(Units)
  BY DEF WholeUnits
<1>2. x \o y \in Seq(Units) /\ Len(x \o y) = Len(x) + Len(y)
  BY <1>1
<1>3. ASSUME NEW k \in 1..Len(x \o y)
      PROVE  Whole((x \o y)[k].parts)
  <2>1. CASE k \in 1..Len(x)
    BY <1>1, <2>1 DEF WholeUnits
  <2>2. CASE k \notin 1..Len(x)
    <3>1. k - Len(x) \in 1..Len(y) /\ (x \o y)[k] = y[k - Len(x)]
      BY <1>1, <1>2, <2>2
    <3> QED
      BY <3>1 DEF WholeUnits
  <2> QED
    BY <2>1, <2>2
<1> QED
  BY <1>2, <1>3 DEF WholeUnits

LEMMA TrailsJoined ==
    ASSUME NEW x \in Seq(Units), NEW y \in Seq(Units), NEW s,
           NEW m \in Int, NEW k \in Int, NEW n \in Int,
           NEW c \in BOOLEAN, NEW d \in BOOLEAN, NEW e \in BOOLEAN,
           Trail(x, s, m, c, k, d), Trail(y, s, k, d, n, e)
    PROVE  Trail(x \o y, s, m, c, n, e)
<1>1. CASE y = <<>>
  <2>1. x \o y = x /\ d = e /\ k <= n /\ (d => k = n)
    BY <1>1 DEF Trail
  <2>2. CASE x = <<>>
    <3>1. c = d /\ m <= k /\ (c => m = k)
      BY <2>2 DEF Trail
    <3>2. m <= n /\ (c => m = n)
      BY <2>1, <3>1
    <3> QED
      BY <2>1, <2>2, <3>1, <3>2, NoTrail
  <2>3. CASE x # <<>>
    <3>1. d = TRUE
      BY <2>3 DEF Trail
    <3> QED
      BY <2>1, <3>1
  <2> QED
    BY <2>2, <2>3
<1>2. CASE x = <<>> /\ y # <<>>
  <2>1. x \o y = y /\ Len(y) \in 1..Len(y)
    BY <1>2
  <2>2. m <= k /\ (c <=> d) /\ (c => m = k)
    BY <1>2 DEF Trail
  <2>3. /\ \A i \in 1..Len(y) : OfStream(y[i], s)
        /\ Gapless(y) /\ e /\ n = FinalOf(y).number + 1
        /\ k <= First(y[1]).number
        /\ IF d THEN k = First(y[1]).number ELSE y[1].keyframe
    BY <1>2 DEF Trail
  <2>4. First(y[1]).number \in Nat
    <3>1. 1 \in 1..Len(y)
      BY <1>2
    <3> QED
      BY <2>3, <3>1, GenuineKnown DEF OfStream
  <2>5. m <= First(y[1]).number
    BY <2>2, <2>3, <2>4
  <2>6. IF c THEN m = First(y[1]).number ELSE y[1].keyframe
    BY <2>2, <2>3
  <2> QED
    BY <1>2, <2>1, <2>3, <2>5, <2>6, Zenon DEF Trail
<1>3. CASE x # <<>> /\ y # <<>>
  <2> DEFINE z == x \o y
             l == Len(x)
  <2>1. /\ l \in Nat /\ l \in 1..l /\ 1 \in 1..l /\ 1 \in 1..Len(y) /\ z # <<>>
        /\ Len(z) = l + Len(y) /\ z[1] = x[1] /\ z[Len(z)] = y[Len(y)]
        /\ \A i \in 1..Len(z) : IF i <= l THEN i \in 1..l /\ z[i] = x[i]
                                ELSE i - l \in 1..Len(y) /\ z[i] = y[i - l]
    BY <1>3
  <2>2. /\ \A i \in 1..Len(x) : OfStream(x[i], s)
        /\ Gapless(x) /\ d /\ k = FinalOf(x).number + 1
        /\ m <= First(x[1]).number
        /\ IF c THEN m = First(x[1]).number ELSE x[1].keyframe
    BY <1>3 DEF Trail
  <2>3. /\ \A i \in 1..Len(y) : OfStream(y[i], s)
        /\ Gapless(y) /\ e /\ n = FinalOf(y).number + 1
        /\ k = First(y[1]).number
    BY <1>3, <2>2 DEF Trail
  <2> HIDE DEF z, l
  <2>4. ASSUME NEW i \in 2..Len(z)
        PROVE  First(z[i]).number = Final(z[i - 1]).number + 1
    <3>1. CASE i <= l
      <4>1. i \in 2..l /\ i \in 1..Len(z) /\ i - 1 \in 1..Len(z) /\ i - 1 <= l
        BY <2>1, <3>1
      <4>2. z[i] = x[i] /\ z[i - 1] = x[i - 1]
        BY <2>1, <3>1, <4>1
      <4> QED
        BY <2>2, <4>1, <4>2 DEF Gapless, l
    <3>2. CASE i = l + 1
      <4>1. i \in 1..Len(z) /\ i - 1 = l /\ i - 1 \in 1..Len(z) /\ ~ (i <= l) /\ i - l = 1
        BY <2>1, <3>2
      <4>2. z[i] = y[1] /\ z[i - 1] = x[l]
        BY <2>1, <4>1
      <4> QED
        BY <2>2, <2>3, <4>2 DEF FinalOf, l
    <3>3. CASE i > l + 1
      <4>1. /\ i \in 1..Len(z) /\ i - 1 \in 1..Len(z) /\ ~ (i <= l) /\ ~ (i - 1 <= l)
            /\ i - l \in 2..Len(y) /\ (i - 1) - l = (i - l) - 1
        BY <2>1, <3>3
      <4>2. z[i] = y[i - l] /\ z[i - 1] = y[(i - l) - 1]
        BY <2>1, <4>1
      <4> QED
        BY <2>3, <4>1, <4>2 DEF Gapless
    <3> QED
      BY <2>1, <3>1, <3>2, <3>3
  <2>5. \A i \in 1..Len(z) : OfStream(z[i], s)
    BY <2>1, <2>2, <2>3 DEF l
  <2>6. FinalOf(z) = FinalOf(y)
    BY <2>1 DEF FinalOf
  <2>7. Gapless(z)
    BY <2>4 DEF Gapless
  <2>8. Trail(z, s, m, c, n, e)
    BY <2>1, <2>2, <2>3, <2>5, <2>6, <2>7, Zenon DEF Trail
  <2> QED
    BY <2>8 DEF z
<1> QED
  BY <1>1, <1>2, <1>3

LEMMA TakenKnown ==
    ASSUME NEW b \in Assemblers, NEW p
    PROVE  LET a == [b EXCEPT !.buffered = @ \ {p}, !.expected = After(@)] IN
           /\ a \in Assemblers /\ a.nals = b.nals /\ a.fu = b.fu /\ a.picture = b.picture
           /\ a.buffered = b.buffered \ {p} /\ a.expected = After(b.expected)
           /\ a.dropping = b.dropping /\ a.sets = b.sets
           /\ a.configuration = b.configuration
<1>1. b.buffered \ {p} \in SUBSET Genuine /\ b.expected \in Int
  BY AssemblerKnown
<1>2. After(b.expected) \in Int
  BY <1>1, SpaceKnown DEF After
<1> HIDE DEF After
<1> QED
  BY <1>1, <1>2 DEF Assemblers

\* A result of the loop of push is as it should be.
Fits(r, s, low, c, seen) ==
    /\ r.error # "ReorderWindowExceeded"
    /\ r.error = "no" =>
         /\ r.a \in Assemblers /\ Consistent(r.a) /\ WholeUnits(r.units)
         /\ \E n \in Nat :
              /\ InOrder(r.a, s, n, seen)
              /\ Trail(r.units, s, low, c, n - Len(Parts(r.a)), Configured(r.a))

LEMMA TakeNextFits ==
    ASSUME sent \in Seq(Genuine), SentOrdered, NEW s, NEW seen \in SUBSET Nat,
           NEW low \in Int, NEW c \in BOOLEAN, NEW r, Fits(r, s, low, c, seen)
    PROVE  Fits(TakeNext(r), s, low, c, seen)
<1> DEFINE ready == {p \in r.a.buffered : Sequence(p) = r.a.expected}
           p == CHOOSE q \in ready : TRUE
           a == [r.a EXCEPT !.buffered = @ \ {p}, !.expected = After(@)]
           t == ProcessOrdered(a, p)
           joined == [t EXCEPT !.units = r.units \o @]
           emptied == [t EXCEPT !.a.buffered = {}]
<1>1. TakeNext(r) = IF r.error # "no" \/ ready = {} THEN r
                    ELSE IF t.error = "no" THEN joined ELSE emptied
  BY DEF TakeNext
<1> SUFFICES ASSUME r.error = "no", ready # {}
             PROVE  Fits(IF t.error = "no" THEN joined ELSE emptied, s, low, c, seen)
  BY <1>1, Zenon
<1>2. p \in r.a.buffered /\ Sequence(p) = r.a.expected
  OBVIOUS
<1> HIDE DEF p
<1>3. r.a \in Assemblers /\ Consistent(r.a) /\ WholeUnits(r.units)
  BY DEF Fits
<1>4. PICK n \in Nat :
        /\ InOrder(r.a, s, n, seen)
        /\ Trail(r.units, s, low, c, n - Len(Parts(r.a)), Configured(r.a))
  BY DEF Fits
<1>5. PICK j \in 1..Len(sent) :
        /\ p = sent[j] /\ p.ssrc = s /\ p.number \in seen
        /\ n <= p.number /\ p.number < n + ReorderWindow
  BY <1>2, <1>4 DEF InOrder, Buffered
<1>6. p.number = n
  <2>1. PICK m \in Nat : m = p.number
    BY <1>5
  <2>2. m % SequenceSpace = n % SequenceSpace
    BY <1>2, <1>4, <2>1 DEF InOrder, Sequence
  <2>3. n - m < SequenceSpace /\ m - n < SequenceSpace
    BY <1>5, <2>1, SpaceKnown
  <2>4. n = m
    BY <2>2, <2>3, SameNumber, SpaceKnown
  <2> QED
    BY <2>1, <2>4
<1>7. /\ a \in Assemblers /\ a.nals = r.a.nals /\ a.fu = r.a.fu /\ a.picture = r.a.picture
      /\ a.buffered = r.a.buffered \ {p} /\ a.expected = After(r.a.expected)
      /\ a.dropping = r.a.dropping /\ a.sets = r.a.sets
      /\ a.configuration = r.a.configuration
  BY <1>3, TakenKnown, Zenon
<1>8. a.expected = (n + 1) % SequenceSpace
  BY <1>4, <1>7, SpaceKnown, NextSequence DEF After, InOrder
<1> HIDE DEF a
<1>9. Assembled(a, s, n) /\ ~ a.dropping
  BY <1>4, <1>7 DEF Assembled, Unset, Parts, InOrder
<1>13. Parts(a) = Parts(r.a) /\ Configured(a) = Configured(r.a) /\ Consistent(a)
  BY <1>3, <1>7 DEF Parts, Configured, Consistent
<1>10. /\ t = Result(t.a, t.units, t.error) /\ t.error # "ReorderWindowExceeded"
       /\ t.error = "no" =>
            /\ t.a \in Assemblers /\ ~ t.a.dropping
            /\ t.a.expected = a.expected /\ t.a.buffered = a.buffered
            /\ Assembled(t.a, s, n + 1)
            /\ WholeUnits(t.units) /\ Consistent(t.a)
            /\ Trail(t.units, s, n - Len(Parts(a)), Configured(a),
                     (n + 1) - Len(Parts(t.a)), Configured(t.a))
  BY <1>5, <1>6, <1>7, <1>9, <1>13, ProcessKnown
<1> HIDE DEF t
<1>11. CASE t.error # "no"
  <2>1. emptied.error = t.error
    BY <1>10 DEF Result
  <2> QED
    BY <1>10, <1>11, <2>1 DEF Fits
<1>12. CASE t.error = "no"
  <2>1. joined.error = "no" /\ joined.a = t.a /\ joined.units = r.units \o t.units
    BY <1>10, <1>12 DEF Result
  <2>2. Buffered(t.a, s, n + 1, seen)
    <3> SUFFICES ASSUME NEW q \in t.a.buffered
                 PROVE  \E i \in 1..Len(sent) :
                            /\ q = sent[i] /\ q.ssrc = s /\ q.number \in seen
                            /\ n + 1 <= q.number /\ q.number < (n + 1) + ReorderWindow
      BY DEF Buffered
    <3>1. q \in r.a.buffered /\ q # p
      BY <1>7, <1>10, <1>12
    <3>2. PICK i \in 1..Len(sent) :
            /\ q = sent[i] /\ q.ssrc = s /\ q.number \in seen
            /\ n <= q.number /\ q.number < n + ReorderWindow
      BY <1>4, <3>1 DEF InOrder, Buffered
    <3>3. q.number # n
      <4> SUFFICES ASSUME q.number = n PROVE FALSE
        OBVIOUS
      <4>1. i = j
        BY <1>5, <1>6, <3>2, SamePacket
      <4> QED
        BY <1>5, <3>1, <3>2, <4>1
    <3>4. n + 1 <= q.number /\ q.number < (n + 1) + ReorderWindow
      <4>1. PICK m \in Nat : m = q.number
        BY <3>2
      <4>2. n + 1 <= m /\ m < (n + 1) + ReorderWindow
        BY SMTT(30), <3>2, <3>3, <4>1, SpaceKnown
      <4> QED
        BY <4>1, <4>2
    <3> QED
      BY <3>2, <3>4
  <2>3. /\ \E m \in seen : m >= (n + 1) - 1
        /\ \A m \in seen : m < (n + 1) + Window
    <3>1. \A m \in seen : m < n + Window /\ m \in Nat
      BY <1>4 DEF InOrder
    <3>2. Window \in Nat
      BY SpaceKnown
    <3>3. n \in seen /\ n >= (n + 1) - 1
      BY <1>5, <1>6
    <3> QED
      BY <3>1, <3>2, <3>3
  <2>4. InOrder(t.a, s, n + 1, seen)
    BY <1>8, <1>10, <1>12, <2>2, <2>3 DEF InOrder
  <2>5. n + 1 \in Nat
    OBVIOUS
  <2>6. WholeUnits(joined.units)
    BY <1>3, <1>10, <1>12, <2>1, UnitsJoined
  <2>7. Trail(joined.units, s, low, c, (n + 1) - Len(Parts(t.a)), Configured(t.a))
    <3>1. r.units \in Seq(Units) /\ t.units \in Seq(Units)
      BY <1>3, <1>10, <1>12 DEF WholeUnits
    <3>2. Parts(r.a) \in Seq(Genuine) /\ Parts(t.a) \in Seq(Genuine)
      BY <1>3, <1>10, <1>12, AssemblerKnown
    <3>3. n - Len(Parts(r.a)) \in Int /\ (n + 1) - Len(Parts(t.a)) \in Int
      BY <3>2
    <3>4. Configured(r.a) \in BOOLEAN /\ Configured(t.a) \in BOOLEAN
      BY DEF Configured
    <3>5. Trail(t.units, s, n - Len(Parts(r.a)), Configured(r.a),
                (n + 1) - Len(Parts(t.a)), Configured(t.a))
      BY <1>10, <1>12, <1>13
    <3>6. Trail(r.units \o t.units, s, low, c, (n + 1) - Len(Parts(t.a)), Configured(t.a))
      BY <1>4, <3>1, <3>3, <3>4, <3>5, TrailsJoined
    <3> QED
      BY <2>1, <3>6
  <2> QED
    BY <1>10, <1>12, <2>1, <2>4, <2>5, <2>6, <2>7 DEF Fits
<1> QED
  BY <1>11, <1>12

-----------------------------------------------------------------------------
(***************************************************************************)
(* The loop of push.  tlapm knows a recursive function only as a CHOOSE,   *)
(* so its existence is proved by extending partial solutions.              *)
(***************************************************************************)
LEMMA NatMinimum ==
    ASSUME NEW T \in SUBSET Nat, T # {}
    PROVE  \E m \in T : \A k \in T : m <= k
<1> DEFINE Less == OpToRel(<, Nat)
<1>1. IsWellFoundedOn(Less, Nat)
  BY NatLessThanWellFounded
<1>2. ASSUME NEW k \in Nat, NEW m \in Nat, <<k, m>> \notin Less
      PROVE  m <= k
  BY <1>2 DEF OpToRel
<1> HIDE DEF Less
<1>3. PICK m \in T : \A k \in T : ~ (<<k, m>> \in Less)
  BY <1>1, WFMin, Zenon
<1>4. m \in Nat /\ \A k \in T : k \in Nat /\ <<k, m>> \notin Less
  BY <1>3
<1> QED
  BY <1>2, <1>3, <1>4

\* Induction up to n, for a set of indices.
LEMMA UpTo ==
    ASSUME NEW n \in Nat, NEW P, 0 \in P,
           \A i \in 1..n : i - 1 \in P => i \in P
    PROVE  \A i \in 0..n : i \in P
<1> DEFINE Bad == (0..n) \ P
<1>1. SUFFICES ASSUME Bad # {} PROVE FALSE
  OBVIOUS
<1>2. PICK m \in Bad : \A k \in Bad : m <= k
  <2>1. Bad \in SUBSET Nat
    OBVIOUS
  <2> QED
    BY <1>1, <2>1, NatMinimum
<1>3. m \in 1..n /\ m - 1 \in 0..n /\ ~ (m <= m - 1)
  BY <1>2
<1> QED
  BY <1>2, <1>3

DrainBody(a, n, f) ==
    [i \in 0..n |-> IF i = 0 THEN Result(a, <<>>, "no") ELSE TakeNext(f[i - 1])]

LEMMA DrainExists ==
    ASSUME NEW a, NEW n \in Nat
    PROVE  \E f : f = DrainBody(a, n, f)
<1> DEFINE P == {m \in 0..n : \E f : f = DrainBody(a, m, f)}
           start == Result(a, <<>>, "no")
<1>1. 0 \in P
  <2>1. [i \in 0..0 |-> start] = DrainBody(a, 0, [i \in 0..0 |-> start])
    BY DEF DrainBody
  <2> QED
    BY <2>1
<1>2. ASSUME NEW m \in 1..n, m - 1 \in P PROVE m \in P
  <2>1. PICK f : f = DrainBody(a, m - 1, f)
    BY <1>2
  <2> DEFINE g == [i \in 0..m |-> IF i = 0 THEN start ELSE TakeNext(f[i - 1])]
  <2>2. \A i \in 0..(m - 1) : f[i] = g[i]
    BY <2>1 DEF DrainBody
  <2>3. \A i \in 0..m : i # 0 => i - 1 \in 0..(m - 1)
    OBVIOUS
  <2>4. \A i \in 0..m : g[i] = IF i = 0 THEN start ELSE TakeNext(g[i - 1])
    BY <2>2, <2>3
  <2>5. g = [i \in 0..m |-> g[i]]
    OBVIOUS
  <2> HIDE DEF g
  <2>6. g = DrainBody(a, m, g)
    BY <2>4, <2>5 DEF DrainBody
  <2> QED
    BY <2>6
<1>3. n \in P
  <2> HIDE DEF P
  <2>1. \A i \in 0..n : i \in P
    BY <1>1, <1>2, UpTo
  <2> QED
    BY <2>1
<1> QED
  BY <1>3

LEMMA DrainedFits ==
    ASSUME sent \in Seq(Genuine), SentOrdered, NEW s, NEW seen \in SUBSET Nat,
           NEW a \in Assemblers, Consistent(a), NEW n \in Nat, InOrder(a, s, n, seen)
    PROVE  Fits(Drained(a), s, n - Len(Parts(a)), Configured(a), seen)
<1> DEFINE f == CHOOSE f : f = DrainBody(a, ReorderWindow, f)
           low == n - Len(Parts(a))
           P == {i \in 0..ReorderWindow : Fits(f[i], s, low, Configured(a), seen)}
           start == Result(a, <<>>, "no")
<1>1. f = DrainBody(a, ReorderWindow, f)
  BY DrainExists, SpaceKnown
<1>2. Drained(a) = f[ReorderWindow]
  BY DEF Drained, DrainBody
<1> HIDE DEF f
<1>8. low \in Int /\ Configured(a) \in BOOLEAN
  BY AssemblerKnown DEF Configured
<1>3. Fits(start, s, low, Configured(a), seen)
  <2>1. start.a = a /\ start.units = <<>> /\ start.error = "no"
    BY DEF Result
  <2>2. Trail(<<>>, s, low, Configured(a), low, Configured(a))
    BY <1>8, NoTrail
  <2> HIDE DEF start
  <2> QED
    BY <2>1, <2>2, NoUnits, Zenon DEF Fits
<1>4. f[0] = start /\ \A i \in 1..ReorderWindow : f[i] = TakeNext(f[i - 1])
  BY <1>1, SpaceKnown DEF DrainBody
<1>5. 0 \in P
  BY <1>3, <1>4, SpaceKnown
<1>6. \A i \in 1..ReorderWindow : i - 1 \in P => i \in P
  <2> HIDE DEF low
  <2> QED
    BY <1>4, <1>8, TakeNextFits
<1>7. ReorderWindow \in P
  <2> HIDE DEF P
  <2>1. \A i \in 0..ReorderWindow : i \in P
    BY <1>5, <1>6, UpTo, SpaceKnown
  <2> QED
    BY <2>1, SpaceKnown
<1> QED
  BY <1>2, <1>7

-----------------------------------------------------------------------------
(* What is published *)

Views == [receive : Receives, units : Seq(Units), room : Int, full : BOOLEAN]

Publishes(v, ssrc) == v \in Views /\ v.receive.ssrc = ssrc /\ WholeUnits(v.units)

LEMMA ReceiveKept ==
    ASSUME NEW v \in Views, NEW b \in BOOLEAN
    PROVE  LET x == [v EXCEPT !.receive.backpressured = b]
               y == [v EXCEPT !.room = @ - 1, !.receive.configured = TRUE]
               z == [v EXCEPT !.receive.replacing = b]
           IN  /\ x \in Views /\ x.receive.ssrc = v.receive.ssrc /\ x.units = v.units
               /\ y \in Views /\ y.receive.ssrc = v.receive.ssrc /\ y.units = v.units
               /\ z \in Views /\ z.receive.ssrc = v.receive.ssrc /\ z.units = v.units
<1> DEFINE x == [v EXCEPT !.receive.backpressured = b]
           y == [v EXCEPT !.room = @ - 1, !.receive.configured = TRUE]
           z == [v EXCEPT !.receive.replacing = b]
<1>1. x \in Views /\ x.receive.ssrc = v.receive.ssrc /\ x.units = v.units
  BY DEF Views, Receives
<1>2. z \in Views /\ z.receive.ssrc = v.receive.ssrc /\ z.units = v.units
  BY DEF Views, Receives
<1>3. y \in Views /\ y.receive.ssrc = v.receive.ssrc /\ y.units = v.units
  <2> DEFINE r == [v.receive EXCEPT !.configured = TRUE]
             n == v.room - 1
  <2>1. r \in Receives /\ r.ssrc = v.receive.ssrc /\ n \in Int
    <3>1. v.receive \in Receives /\ v.room \in Int
      BY DEF Views
    <3>2. n \in Int
      BY <3>1
    <3> HIDE DEF n
    <3> QED
      BY <3>1, <3>2 DEF Receives
  <2>2. y = [v EXCEPT !.room = n, !.receive = r]
    BY DEF Views
  <2> HIDE DEF r, n, y
  <2> QED
    BY <2>1, <2>2 DEF Views
<1> QED
  BY <1>1, <1>2, <1>3

LEMMA LostKept ==
    ASSUME NEW v, NEW ssrc, Publishes(v, ssrc)
    PROVE  Publishes(Lost(v), ssrc)
<1>1. /\ Lost(v) \in Views /\ Lost(v).receive.ssrc = v.receive.ssrc
      /\ Lost(v).units = v.units
  BY DEF Lost, Publishes, Views, Receives
<1> QED
  BY <1>1 DEF Publishes

LEMMA GivenKept ==
    ASSUME NEW w, NEW ssrc, Publishes(w, ssrc), NEW unit \in Units, Whole(unit.parts)
    PROVE  Publishes([w EXCEPT !.room = @ - 1, !.units = Append(@, unit),
                               !.receive.backpressured = FALSE], ssrc)
<1> DEFINE x == [w EXCEPT !.room = @ - 1, !.units = Append(@, unit),
                          !.receive.backpressured = FALSE]
<1>1. w \in Views /\ w.units \in Seq(Units) /\ WholeUnits(w.units)
  BY DEF Publishes, WholeUnits
<1>2. Append(w.units, unit) \in Seq(Units)
  BY <1>1
<1>3. x \in Views /\ x.receive.ssrc = w.receive.ssrc /\ x.units = Append(w.units, unit)
  <2> DEFINE r == [w.receive EXCEPT !.backpressured = FALSE]
             n == w.room - 1
             u == Append(w.units, unit)
  <2>1. r \in Receives /\ r.ssrc = w.receive.ssrc /\ n \in Int
    <3>1. w.receive \in Receives /\ w.room \in Int
      BY <1>1 DEF Views
    <3>2. n \in Int
      BY <3>1
    <3> HIDE DEF n
    <3> QED
      BY <3>1, <3>2 DEF Receives
  <2>2. x = [w EXCEPT !.room = n, !.units = u, !.receive = r]
    BY <1>1 DEF Views
  <2>3. u \in Seq(Units)
    BY <1>2
  <2> HIDE DEF r, n, u, x
  <2>4. x \in Views /\ x.receive.ssrc = w.receive.ssrc /\ x.units = u
    BY <1>1, <2>1, <2>2, <2>3 DEF Views
  <2> QED
    BY <2>4 DEF u
<1> HIDE DEF x
<1>4. WholeUnits(x.units)
  <2>1. WholeUnits(<<unit>>)
    BY DEF WholeUnits
  <2>2. Append(w.units, unit) = w.units \o <<unit>>
    BY <1>1
  <2> QED
    BY <1>1, <1>3, <2>1, <2>2, UnitsJoined
<1> QED
  BY <1>3, <1>4 DEF Publishes, x

LEMMA AcceptUnitKept ==
    ASSUME NEW v, NEW ssrc, Publishes(v, ssrc), NEW unit \in Units, Whole(unit.parts)
    PROVE  Publishes(AcceptUnit(v, unit), ssrc)
<1> DEFINE z == [v EXCEPT !.receive.replacing = FALSE]
           y == [z EXCEPT !.room = @ - 1, !.receive.configured = TRUE]
           w == IF z.receive.configured THEN z ELSE y
           x == [z EXCEPT !.receive.backpressured = FALSE]
           given == [w EXCEPT !.room = @ - 1, !.units = Append(@, unit),
                              !.receive.backpressured = FALSE]
<1>1. Publishes(z, ssrc)
  <2>1. v \in Views /\ FALSE \in BOOLEAN
    BY DEF Publishes
  <2>2. z \in Views /\ z.receive.ssrc = v.receive.ssrc /\ z.units = v.units
    BY <2>1, ReceiveKept
  <2> QED
    BY <2>2 DEF Publishes
<1>2. AcceptUnit(v, unit) \in {v, x, Lost(z), Lost(w), given}
  BY DEF AcceptUnit, Publish
<1> HIDE DEF z
<1>3. Publishes(x, ssrc) /\ Publishes(y, ssrc)
  <2>1. z \in Views /\ FALSE \in BOOLEAN
    BY <1>1 DEF Publishes
  <2>2. /\ x \in Views /\ x.receive.ssrc = z.receive.ssrc /\ x.units = z.units
        /\ y \in Views /\ y.receive.ssrc = z.receive.ssrc /\ y.units = z.units
    BY <2>1, ReceiveKept
  <2> QED
    BY <1>1, <2>2 DEF Publishes
<1> HIDE DEF x, y
<1>4. Publishes(w, ssrc)
  BY <1>1, <1>3
<1> HIDE DEF w
<1>5. Publishes(Lost(z), ssrc) /\ Publishes(Lost(w), ssrc) /\ Publishes(given, ssrc)
  BY <1>1, <1>4, LostKept, GivenKept
<1> HIDE DEF given
<1> QED
  BY <1>2, <1>3, <1>5

GivenBody(r, units, room, n, f) ==
    [i \in 0..n |->
        IF i = 0 THEN [receive |-> r, units |-> <<>>, room |-> room, full |-> FALSE]
        ELSE AcceptUnit(f[i - 1], units[i])]

LEMMA GivenExists ==
    ASSUME NEW r, NEW units, NEW room, NEW n \in Nat
    PROVE  \E f : f = GivenBody(r, units, room, n, f)
<1> DEFINE start == [receive |-> r, units |-> <<>>, room |-> room, full |-> FALSE]
           P == {m \in 0..n : \E f : f = GivenBody(r, units, room, m, f)}
<1>1. 0 \in P
  <2>1. [i \in 0..0 |-> start] = GivenBody(r, units, room, 0, [i \in 0..0 |-> start])
    BY DEF GivenBody
  <2> QED
    BY <2>1
<1>2. ASSUME NEW m \in 1..n, m - 1 \in P PROVE m \in P
  <2>1. PICK f : f = GivenBody(r, units, room, m - 1, f)
    BY <1>2
  <2> DEFINE g == [i \in 0..m |-> IF i = 0 THEN start ELSE AcceptUnit(f[i - 1], units[i])]
  <2> HIDE DEF start
  <2>2. \A i \in 0..(m - 1) : f[i] = g[i]
    <3>1. \A i \in 0..(m - 1) : i \in 0..m
      OBVIOUS
    <3>2. f = [i \in 0..(m - 1) |-> IF i = 0 THEN start ELSE AcceptUnit(f[i - 1], units[i])]
      BY <2>1, Zenon DEF GivenBody, start
    <3> QED
      BY <3>1, <3>2, Zenon
  <2>3. \A i \in 0..m : i # 0 => i - 1 \in 0..(m - 1)
    OBVIOUS
  <2>4. \A i \in 0..m : g[i] = IF i = 0 THEN start ELSE AcceptUnit(g[i - 1], units[i])
    BY <2>2, <2>3
  <2>5. g = [i \in 0..m |-> g[i]]
    OBVIOUS
  <2> HIDE DEF g
  <2>6. g = GivenBody(r, units, room, m, g)
    BY <2>4, <2>5 DEF GivenBody, start
  <2> QED
    BY <2>6
<1>3. n \in P
  <2> HIDE DEF P
  <2>1. \A i \in 0..n : i \in P
    BY <1>1, <1>2, UpTo
  <2> QED
    BY <2>1
<1> QED
  BY <1>3

LEMMA AcceptedKnown ==
    ASSUME NEW r \in Receives, NEW units, WholeUnits(units), NEW room \in Int
    PROVE  Publishes(Accepted(r, units, room), r.ssrc)
<1> DEFINE n == Len(units)
           f == CHOOSE f : f = GivenBody(r, units, room, n, f)
           P == {i \in 0..n : Publishes(f[i], r.ssrc)}
           start == [receive |-> r, units |-> <<>>, room |-> room, full |-> FALSE]
<1>1. n \in Nat /\ \A i \in 1..n : units[i] \in Units /\ Whole(units[i].parts)
  BY DEF WholeUnits
<1>2. Accepted(r, units, room) = f[n]
  BY DEF Accepted, GivenBody
<1> HIDE DEF n
<1>3. f = GivenBody(r, units, room, n, f)
  BY <1>1, GivenExists
<1> HIDE DEF f
<1>4. Publishes(start, r.ssrc)
  <2>1. <<>> \in Seq(Units) /\ FALSE \in BOOLEAN
    OBVIOUS
  <2>2. start \in Views /\ start.receive = r /\ start.units = <<>>
    BY <2>1 DEF Views
  <2> HIDE DEF start
  <2> QED
    BY <2>2, NoUnits DEF Publishes
<1>5. f[0] = start /\ \A i \in 1..n : f[i] = AcceptUnit(f[i - 1], units[i])
  <2>1. f = [i \in 0..n |-> IF i = 0 THEN start ELSE AcceptUnit(f[i - 1], units[i])]
    BY <1>3, Zenon DEF GivenBody, start
  <2>2. 0 \in 0..n /\ \A i \in 1..n : i \in 0..n /\ i # 0
    BY <1>1
  <2> HIDE DEF start
  <2>3. \A i \in 0..n : f[i] = IF i = 0 THEN start ELSE AcceptUnit(f[i - 1], units[i])
    BY <2>1, Zenon
  <2> QED
    BY <2>2, <2>3, Zenon
<1>6. 0 \in P
  BY <1>1, <1>4, <1>5
<1>7. \A i \in 1..n : i - 1 \in P => i \in P
  BY <1>1, <1>5, AcceptUnitKept
<1>8. n \in P
  <2> HIDE DEF P
  <2>1. \A i \in 0..n : i \in P
    BY <1>1, <1>6, <1>7, UpTo
  <2> QED
    BY <1>1, <2>1
<1> QED
  BY <1>2, <1>8

(***************************************************************************)
(* Which units are given: none that is not random access while one is      *)
(* waited for, and no more once the channel was full.                      *)
(***************************************************************************)
Awaits(r) == r.replacing \/ r.backpressured
Passes(r, unit) == unit.keyframe \/ ~ Awaits(r)

LEMMA ViewKnown ==
    ASSUME NEW v \in Views
    PROVE  /\ v.receive \in Receives /\ v.units \in Seq(Units) /\ v.room \in Int
           /\ v.receive.ssrc \in Nat /\ v.receive.retired \in SUBSET Nat
           /\ v.receive.replacing \in BOOLEAN /\ v.receive.backpressured \in BOOLEAN
           /\ v.receive.configured \in BOOLEAN
BY DEF Views, Receives

LEMMA LostUnit ==
    ASSUME NEW v \in Views
    PROVE  LET o == Lost(v) IN
           /\ o.full /\ o.units = v.units
           /\ o.receive.backpressured /\ o.receive.request
           /\ o.receive.replacing = v.receive.replacing
           /\ o.receive.ssrc = v.receive.ssrc /\ o.receive.retired = v.receive.retired
BY DEF Lost, Views, Receives

LEMMA GivenUnit ==
    ASSUME NEW v \in Views, NEW unit
    PROVE  LET o == [v EXCEPT !.room = @ - 1, !.units = Append(@, unit),
                              !.receive.backpressured = FALSE]
           IN  /\ o.full = v.full /\ o.units = Append(v.units, unit)
               /\ ~ o.receive.backpressured /\ o.receive.configured = v.receive.configured
               /\ o.receive.replacing = v.receive.replacing
               /\ o.receive.ssrc = v.receive.ssrc /\ o.receive.retired = v.receive.retired
<1> DEFINE r == [v.receive EXCEPT !.backpressured = FALSE]
           n == v.room - 1
           u == Append(v.units, unit)
           o == [v EXCEPT !.room = n, !.units = u, !.receive = r]
<1>1. /\ ~ r.backpressured /\ r.configured = v.receive.configured
      /\ r.replacing = v.receive.replacing
      /\ r.ssrc = v.receive.ssrc /\ r.retired = v.receive.retired
  BY DEF Views, Receives
<1>2. o = [v EXCEPT !.room = @ - 1, !.units = Append(@, unit), !.receive.backpressured = FALSE]
  BY DEF Views
<1> HIDE DEF r, n, u
<1>3. o.full = v.full /\ o.units = u /\ o.receive = r
  BY DEF Views
<1> HIDE DEF o
<1> QED
  BY <1>1, <1>2, <1>3 DEF u

LEMMA AcceptUnitCases ==
    ASSUME NEW v \in Views, NEW unit, unit.keyframe => unit.sets,
           Passes(v.receive, unit) => unit.keyframe \/ v.receive.configured
    PROVE  LET o == AcceptUnit(v, unit) IN
           /\ v.full \/ ~ Passes(v.receive, unit) => o = v
           /\ ~ v.full /\ Passes(v.receive, unit) =>
                /\ o.receive.ssrc = v.receive.ssrc /\ o.receive.retired = v.receive.retired
                /\ ~ o.receive.replacing
                /\ IF o.full
                   THEN /\ o.units = v.units
                        /\ o.receive.backpressured /\ o.receive.request
                   ELSE /\ o.units = Append(v.units, unit)
                        /\ ~ o.receive.backpressured /\ o.receive.configured
<1> DEFINE z == [v EXCEPT !.receive.replacing = FALSE]
           y == [z EXCEPT !.room = @ - 1, !.receive.configured = TRUE]
           w == IF z.receive.configured THEN z ELSE y
           x == [z EXCEPT !.receive.backpressured = FALSE]
           given == [w EXCEPT !.room = @ - 1, !.units = Append(@, unit),
                              !.receive.backpressured = FALSE]
           o == AcceptUnit(v, unit)
<1>1. CASE v.full \/ ~ Passes(v.receive, unit)
  BY <1>1 DEF Passes, Awaits, AcceptUnit
<1>2. CASE ~ v.full /\ Passes(v.receive, unit)
  <2>1. o = IF ~ z.receive.configured /\ ~ unit.sets THEN x
            ELSE IF ~ z.receive.configured /\ z.room = 0 THEN Lost(z)
            ELSE IF w.room = 0 THEN Lost(w) ELSE given
    BY <1>2 DEF Passes, Awaits, AcceptUnit, Publish
  <2>2. /\ z \in Views /\ z.units = v.units /\ z.full = v.full
        /\ z.receive.ssrc = v.receive.ssrc /\ z.receive.retired = v.receive.retired
        /\ ~ z.receive.replacing /\ z.receive.configured = v.receive.configured
    BY DEF Views, Receives
  <2> HIDE DEF z
  <2>3. /\ y \in Views /\ y.units = z.units /\ y.full = z.full
        /\ y.receive.ssrc = z.receive.ssrc /\ y.receive.retired = z.receive.retired
        /\ ~ y.receive.replacing /\ y.receive.configured
    <3>0. z \in Views /\ TRUE \in BOOLEAN
      BY <2>2
    <3>1. y \in Views /\ y.units = z.units
      BY <3>0, ReceiveKept, Zenon
    <3> DEFINE r == [z.receive EXCEPT !.configured = TRUE]
               n == z.room - 1
    <3>2. y = [z EXCEPT !.room = n, !.receive = r]
      BY <2>2 DEF Views
    <3>3. /\ r.ssrc = z.receive.ssrc /\ r.retired = z.receive.retired
          /\ ~ r.replacing /\ r.configured
      BY <2>2 DEF Views, Receives
    <3> HIDE DEF y, r, n
    <3>4. y.full = z.full /\ y.receive = r
      BY <2>2, <3>2 DEF Views
    <3> QED
      BY <3>1, <3>3, <3>4
  <2> HIDE DEF y
  <2>4. /\ w \in Views /\ w.units = v.units /\ w.full = v.full
        /\ w.receive.ssrc = v.receive.ssrc /\ w.receive.retired = v.receive.retired
        /\ ~ w.receive.replacing /\ w.receive.configured
    BY <2>2, <2>3
  <2> HIDE DEF w, x, given
  <2>5. z.receive.configured \/ unit.sets
    BY <1>2, <2>2
  <2>6. o = Lost(z) \/ o = Lost(w) \/ o = given
    BY <2>1, <2>5
  <2>7. /\ Lost(z).full /\ Lost(z).units = v.units
        /\ Lost(z).receive.backpressured /\ Lost(z).receive.request
        /\ ~ Lost(z).receive.replacing
        /\ Lost(z).receive.ssrc = v.receive.ssrc /\ Lost(z).receive.retired = v.receive.retired
    BY <2>2, LostUnit
  <2>8. /\ Lost(w).full /\ Lost(w).units = v.units
        /\ Lost(w).receive.backpressured /\ Lost(w).receive.request
        /\ ~ Lost(w).receive.replacing
        /\ Lost(w).receive.ssrc = v.receive.ssrc /\ Lost(w).receive.retired = v.receive.retired
    BY <2>4, LostUnit
  <2>9. /\ given.full = v.full /\ given.units = Append(v.units, unit)
        /\ ~ given.receive.backpressured /\ given.receive.configured
        /\ ~ given.receive.replacing
        /\ given.receive.ssrc = v.receive.ssrc /\ given.receive.retired = v.receive.retired
    BY <2>4, GivenUnit DEF given
  <2> HIDE DEF o
  <2>10. /\ o.receive.ssrc = v.receive.ssrc /\ o.receive.retired = v.receive.retired
         /\ ~ o.receive.replacing
         /\ IF o.full
            THEN /\ o.units = v.units
                 /\ o.receive.backpressured /\ o.receive.request
            ELSE /\ o.units = Append(v.units, unit)
                 /\ ~ o.receive.backpressured /\ o.receive.configured
    BY <1>2, <2>6, <2>7, <2>8, <2>9, Zenon
  <2> QED
    BY <1>2, <2>10 DEF o
<1> QED
  BY <1>1, <1>2

\* What v has given of the first i units: from the first random access on, if one
\* is awaited, else from the first on, one after the other until there was no room.
Gives(r, units, v, i) ==
    /\ Publishes(v, r.ssrc) /\ v.receive.retired = r.retired
    /\ \A k \in 1..Len(v.units) : OfStream(v.units[k], r.ssrc)
    /\ Gapless(v.units)
    /\ v.units # <<>> =>
         i > 0 /\ IF Awaits(r) THEN v.units[1].keyframe ELSE v.units[1] = units[1]
    /\ v.full => /\ v.receive.backpressured /\ v.receive.request
                 /\ ~ v.receive.replacing
    /\ ~ v.full /\ v.units = <<>> => v.receive = r /\ (i = 0 \/ Awaits(r))
    /\ ~ v.full /\ v.units # <<>> =>
         /\ FinalOf(v.units) = Final(units[i])
         /\ ~ Awaits(v.receive) /\ v.receive.configured

LEMMA OneMoreUnit ==
    ASSUME NEW given \in Seq(Units), NEW unit \in Units, NEW s,
           \A k \in 1..Len(given) : OfStream(given[k], s), Gapless(given),
           OfStream(unit, s),
           given # <<>> => First(unit).number = FinalOf(given).number + 1
    PROVE  LET u == Append(given, unit) IN
           /\ u # <<>> /\ FinalOf(u) = Final(unit)
           /\ u[1] = IF given = <<>> THEN unit ELSE given[1]
           /\ \A k \in 1..Len(u) : OfStream(u[k], s)
           /\ Gapless(u)
<1> DEFINE u == Append(given, unit)
           n == Len(given)
<1>1. /\ Len(u) = n + 1 /\ n \in Nat /\ u[n + 1] = unit
      /\ \A k \in 1..n : u[k] = given[k]
  OBVIOUS
<1>2. u # <<>> /\ (n = 0 <=> given = <<>>)
  <2>1. n = 0 => given = <<>>
    OBVIOUS
  <2>2. given = <<>> => n = 0
    OBVIOUS
  <2>3. Len(u) # 0 /\ Len(<<>>) = 0
    BY <1>1
  <2> QED
    BY <2>1, <2>2, <2>3
<1> HIDE DEF u
<1>3. FinalOf(u) = Final(unit)
  BY <1>1 DEF FinalOf
<1>4. u[1] = IF given = <<>> THEN unit ELSE given[1]
  BY <1>1, <1>2
<1>5. \A k \in 1..Len(u) : OfStream(u[k], s)
  <2>1. \A k \in 1..Len(u) : k \in 1..n \/ k = n + 1
    BY <1>1
  <2> QED
    BY <1>1, <2>1
<1>6. ASSUME NEW k \in 2..Len(u)
      PROVE  First(u[k]).number = Final(u[k - 1]).number + 1
  <2>1. CASE k \in 2..n
    <3>1. k \in 1..n /\ k - 1 \in 1..n
      BY <1>1, <2>1
    <3> QED
      BY <1>1, <2>1, <3>1 DEF Gapless
  <2>2. CASE k = n + 1
    <3>1. k - 1 = n /\ n \in 1..n /\ given # <<>>
      BY <1>1, <1>2, <2>2
    <3> QED
      BY <1>1, <2>2, <3>1 DEF FinalOf
  <2> QED
    BY <1>1, <2>1, <2>2
<1>7. Gapless(u)
  BY <1>6 DEF Gapless
<1> QED
  BY <1>2, <1>3, <1>4, <1>5, <1>7 DEF u

LEMMA GivesOneMore ==
    ASSUME NEW r \in Receives, NEW units, WholeUnits(units),
           \A k \in 1..Len(units) : OfStream(units[k], r.ssrc), Gapless(units),
           units # <<>> /\ ~ Awaits(r) => units[1].keyframe \/ r.configured,
           NEW i \in 1..Len(units), NEW v, Gives(r, units, v, i - 1)
    PROVE  Gives(r, units, AcceptUnit(v, units[i]), i)
<1> DEFINE unit == units[i]
           o == AcceptUnit(v, unit)
<1>1. /\ unit \in Units /\ Whole(unit.parts) /\ OfStream(unit, r.ssrc)
      /\ units # <<>> /\ (unit.keyframe => unit.sets)
  BY DEF WholeUnits, OfStream
<1>2. v \in Views /\ v.units \in Seq(Units) /\ v.receive.ssrc = r.ssrc
  BY DEF Gives, Publishes, WholeUnits
<1>3. Passes(v.receive, unit) /\ ~ v.full => unit.keyframe \/ v.receive.configured
  <2>1. CASE v.units = <<>> /\ ~ v.full
    BY <1>1, <2>1 DEF Gives, Passes, Awaits
  <2>2. CASE v.units # <<>> /\ ~ v.full
    BY <2>2 DEF Gives
  <2> QED
    BY <2>1, <2>2
<1>4. Publishes(o, r.ssrc)
  BY <1>1, AcceptUnitKept DEF Gives
<1>5. CASE v.full
  <2>1. o = v
    BY <1>5 DEF AcceptUnit
  <2> HIDE DEF o, unit
  <2>2. Gives(r, units, o, i)
    BY <1>5, <2>1 DEF Gives
  <2> QED
    BY <2>2 DEF o, unit
<1>6. CASE ~ v.full /\ ~ Passes(v.receive, unit)
  <2>1. o = v
    BY <1>2, <1>6 DEF AcceptUnit, Passes, Awaits
  <2>2. Awaits(v.receive) /\ v.units = <<>> /\ Awaits(r)
    BY <1>6 DEF Gives, Passes, Awaits
  <2> HIDE DEF o, unit
  <2>3. Gives(r, units, o, i)
    BY <1>6, <2>1, <2>2 DEF Gives
  <2> QED
    BY <2>3 DEF o, unit
<1>7. CASE ~ v.full /\ Passes(v.receive, unit)
  <2>1. /\ o.receive.ssrc = v.receive.ssrc /\ o.receive.retired = v.receive.retired
        /\ ~ o.receive.replacing
        /\ IF o.full
           THEN /\ o.units = v.units
                /\ o.receive.backpressured /\ o.receive.request
           ELSE /\ o.units = Append(v.units, unit)
                /\ ~ o.receive.backpressured /\ o.receive.configured
    BY <1>1, <1>2, <1>3, <1>7, AcceptUnitCases
  <2>2. CASE o.full
    <3> HIDE DEF o, unit
    <3>1. Gives(r, units, o, i)
      BY <1>4, <2>1, <2>2 DEF Gives
    <3> QED
      BY <3>1 DEF o, unit
  <2>3. CASE ~ o.full
    <3>1. v.units # <<>> => First(unit).number = FinalOf(v.units).number + 1
      <4>1. CASE v.units # <<>>
        <5>1. i - 1 > 0 /\ FinalOf(v.units) = Final(units[i - 1])
          BY <1>7, <4>1 DEF Gives
        <5>2. i \in 2..Len(units)
          BY <5>1
        <5> QED
          BY <5>1, <5>2 DEF Gapless
      <4> QED
        BY <4>1
    <3>2. v.units = <<>> => IF Awaits(r) THEN unit.keyframe ELSE unit = units[1]
      <4>1. v.units = <<>> => v.receive = r /\ (i = 1 \/ Awaits(r))
        BY <1>7 DEF Gives
      <4> QED
        BY <1>7, <4>1 DEF Passes, Awaits
    <3> HIDE DEF o, unit
    <3>3. /\ \A k \in 1..Len(v.units) : OfStream(v.units[k], r.ssrc)
          /\ Gapless(v.units) /\ v.receive.retired = r.retired
          /\ v.units # <<>> =>
               IF Awaits(r) THEN v.units[1].keyframe ELSE v.units[1] = units[1]
      BY DEF Gives
    <3>4. /\ o.units # <<>> /\ FinalOf(o.units) = Final(unit)
          /\ o.units[1] = IF v.units = <<>> THEN unit ELSE v.units[1]
          /\ \A k \in 1..Len(o.units) : OfStream(o.units[k], r.ssrc)
          /\ Gapless(o.units)
      <4>1. o.units = Append(v.units, unit)
        BY <2>1, <2>3
      <4>2. /\ v.units \in Seq(Units) /\ unit \in Units /\ OfStream(unit, r.ssrc)
            /\ \A k \in 1..Len(v.units) : OfStream(v.units[k], r.ssrc)
            /\ Gapless(v.units)
            /\ v.units # <<>> => First(unit).number = FinalOf(v.units).number + 1
        BY <1>1, <1>2, <3>1, <3>3
      <4> DEFINE u == v.units
      <4> HIDE DEF u
      <4>3. o.units = Append(u, unit) /\ u = v.units
        BY <4>1 DEF u
      <4> QED
        BY <4>2, <4>3, OneMoreUnit
    <3>5. ~ Awaits(o.receive) /\ i > 0
      BY <2>1, <2>3 DEF Awaits
    <3>6. IF Awaits(r) THEN o.units[1].keyframe ELSE o.units[1] = units[1]
      BY <3>2, <3>3, <3>4
    <3>7. FinalOf(o.units) = Final(units[i])
      BY <3>4 DEF unit
    <3>8. Gives(r, units, o, i)
      BY <1>4, <2>1, <2>3, <3>3, <3>4, <3>5, <3>6, <3>7 DEF Gives
    <3> QED
      BY <3>8 DEF o, unit
  <2> QED
    BY <2>2, <2>3
<1> QED
  BY <1>5, <1>6, <1>7

LEMMA AcceptedGives ==
    ASSUME NEW r \in Receives, NEW units, WholeUnits(units), NEW room \in Int,
           \A k \in 1..Len(units) : OfStream(units[k], r.ssrc), Gapless(units),
           units # <<>> /\ ~ Awaits(r) => units[1].keyframe \/ r.configured
    PROVE  Gives(r, units, Accepted(r, units, room), Len(units))
<1> DEFINE n == Len(units)
           f == CHOOSE f : f = GivenBody(r, units, room, n, f)
           P == {i \in 0..n : Gives(r, units, f[i], i)}
           start == [receive |-> r, units |-> <<>>, room |-> room, full |-> FALSE]
<1>1. n \in Nat
  BY DEF WholeUnits
<1>2. Accepted(r, units, room) = f[n]
  BY DEF Accepted, GivenBody
<1>3. f = GivenBody(r, units, room, n, f)
  <2> HIDE DEF n
  <2> QED
    BY <1>1, GivenExists
<1> HIDE DEF f
<1>4. Gives(r, units, start, 0)
  <2>1. <<>> \in Seq(Units) /\ FALSE \in BOOLEAN /\ Len(<<>>) = 0 /\ 1..0 = {} /\ 2..0 = {}
    OBVIOUS
  <2>2. start \in Views /\ start.receive = r /\ start.units = <<>> /\ ~ start.full
    BY <2>1 DEF Views
  <2> HIDE DEF start
  <2> QED
    BY <2>1, <2>2, NoUnits DEF Gives, Publishes, Gapless
<1>5. f[0] = start /\ \A i \in 1..n : f[i] = AcceptUnit(f[i - 1], units[i])
  <2>1. f = [i \in 0..n |-> IF i = 0 THEN start ELSE AcceptUnit(f[i - 1], units[i])]
    BY <1>3, Zenon DEF GivenBody, start
  <2>2. 0 \in 0..n /\ \A i \in 1..n : i \in 0..n /\ i # 0
    BY <1>1
  <2> HIDE DEF start
  <2>3. \A i \in 0..n : f[i] = IF i = 0 THEN start ELSE AcceptUnit(f[i - 1], units[i])
    BY <2>1, Zenon
  <2> QED
    BY <2>2, <2>3, Zenon
<1>6. 0 \in P
  BY <1>1, <1>4, <1>5
<1>7. ASSUME NEW i \in 1..n, i - 1 \in P PROVE i \in P
  <2>1. Gives(r, units, f[i - 1], i - 1)
    BY <1>7
  <2>2. Gives(r, units, AcceptUnit(f[i - 1], units[i]), i)
    BY <2>1, GivesOneMore
  <2> QED
    BY <1>1, <1>5, <2>2
<1>8. n \in P
  <2> HIDE DEF P
  <2>1. \A i \in 0..n : i \in P
    BY <1>1, <1>6, <1>7, UpTo
  <2> QED
    BY <1>1, <2>1
<1> QED
  BY <1>2, <1>8

-----------------------------------------------------------------------------
(* A packet is pushed *)

\* N comes neither too late to be accepted nor after too long a loss.
Near(N, seen) ==
    seen # {} =>
        /\ \E h \in seen : (\A m \in seen : m <= h) /\ h - N < ReplayWindow
        /\ \E m \in seen : N <= m + (Half - Window)

\* The distance of two remainders, to either side.
LEMMA DistanceAhead ==
    ASSUME NEW n \in Nat, NEW m \in Nat, NEW d \in 0..(SequenceSpace - 1),
           NEW k \in Int, n - m = SequenceSpace * k + d
    PROVE  Distance(n % SequenceSpace, m % SequenceSpace) = d
<1> DEFINE s == SequenceSpace
           a == n \div s
           x == n % s
           b == m \div s
           y == m % s
<1>0. s \in Nat /\ s > 0 /\ d \in 0..(s - 1) /\ n - m = s * k + d
  BY SpaceKnown
<1>1. x \in 0..(s - 1) /\ a \in Nat /\ n = s * a + x
  BY <1>0, Division
<1>2. y \in 0..(s - 1) /\ b \in Nat /\ m = s * b + y
  BY <1>0, Division
<1> HIDE DEF s, a, x, b, y
<1>3. s * ((k + b) - a) = (s * k + s * b) - s * a
  BY <1>0, <1>1, <1>2, Z3
<1>4. s * k \in Int /\ s * a \in Int /\ s * b \in Int /\ (k + b) - a \in Int
  BY <1>0, <1>1, <1>2, Z3
<1>5. x - y = s * ((k + b) - a) + d /\ x - y \in Int
  BY <1>0, <1>1, <1>2, <1>3, <1>4
<1>6. (x - y) % s = d
  BY <1>0, <1>4, <1>5, Remainder
<1> QED
  BY <1>6 DEF x, y, s, Distance

LEMMA NearKnown ==
    ASSUME NEW seen \in SUBSET Nat, NEW n \in Nat, NEW N \in Nat, Near(N, seen),
           \E m \in seen : m >= n - 1, \A m \in seen : m < n + Window
    PROVE  /\ N < n + Half /\ n <= N + Half
           /\ Distance(N % SequenceSpace, n % SequenceSpace) =
                IF n <= N THEN N - n ELSE (N - n) + SequenceSpace
<1>1. N < n + Half
  <2>1. PICK m \in seen : N <= m + (Half - Window)
    BY DEF Near
  <2>2. m \in Nat /\ m < n + Window
    OBVIOUS
  <2> QED
    BY <2>1, <2>2, SpaceKnown
<1>2. n <= N + Half
  <2>1. PICK h \in seen : (\A m \in seen : m <= h) /\ h - N < ReplayWindow
    BY DEF Near
  <2>2. PICK m \in seen : m >= n - 1
    OBVIOUS
  <2>3. m <= h /\ m \in Nat /\ h \in Nat
    BY <2>1
  <2> QED
    BY <2>1, <2>2, <2>3, SpaceKnown
<1>4. CASE n <= N
  <2>1. N - n \in 0..(SequenceSpace - 1) /\ N - n = SequenceSpace * 0 + (N - n) /\ 0 \in Int
    <3>1. SequenceSpace * 0 = 0
      BY SpaceKnown, Z3
    <3> QED
      BY <1>1, <1>4, <3>1, SpaceKnown
  <2>2. Distance(N % SequenceSpace, n % SequenceSpace) = N - n
    BY <2>1, DistanceAhead
  <2> QED
    BY <1>1, <1>2, <1>4, <2>2, Zenon
<1>5. CASE ~ (n <= N)
  <2> DEFINE d == (N - n) + SequenceSpace
  <2>1. d \in 0..(SequenceSpace - 1) /\ N - n = SequenceSpace * (-1) + d /\ -1 \in Int
    <3>1. SequenceSpace * (-1) = - SequenceSpace
      BY SpaceKnown, Z3
    <3> QED
      BY <1>2, <1>5, <3>1, SpaceKnown
  <2> HIDE DEF d
  <2>2. Distance(N % SequenceSpace, n % SequenceSpace) = d
    BY <2>1, DistanceAhead
  <2> QED
    BY <1>1, <1>2, <1>5, <2>2, Zenon DEF d
<1> QED
  BY <1>4, <1>5

LEMMA NewKnown ==
    /\ NewAssembler \in Assemblers /\ Parts(NewAssembler) = <<>>
    /\ NewAssembler.picture = None /\ NewAssembler.expected = None
    /\ NewAssembler.buffered = {} /\ ~ NewAssembler.dropping
    /\ NewAssembler.configuration = "AwaitingConfigurationAu" /\ ~ NewAssembler.sets
    /\ Consistent(NewAssembler) /\ ~ Configured(NewAssembler)
<1>1. <<>> \in Seq(Genuine) /\ <<>> \o <<>> = <<>> /\ None \in Int
  BY DEF None
<1> QED
  BY <1>1 DEF NewAssembler, Assemblers, Parts, Consistent, Configured

LEMMA DroppedKnown ==
    ASSUME NEW a \in Assemblers, Consistent(a), NEW p \in Genuine
    PROVE  LET d == DroppedAt(RequireIrap(a), p) IN
           /\ d \in Assemblers /\ Parts(d) = <<>> /\ d.picture = None /\ d.buffered = {}
           /\ d.expected = After(Sequence(p)) /\ (d.dropping <=> ~ p.marker)
           /\ ~ p.marker => d.recovery = Sequence(p)
           /\ Consistent(d) /\ ~ Configured(d)
<1> DEFINE b == RequireIrap(a)
           c == Discarded(b)
           e == DroppingFrom(c, p)
           d == [e EXCEPT !.buffered = {}, !.expected = After(Sequence(p))]
<1>1. b \in Assemblers /\ Consistent(b) /\ ~ Configured(b)
  <2>1. b \in Assemblers
    BY DEF RequireIrap, Assemblers
  <2>2. a.configuration \in {"AwaitingConfigurationAu", "AwaitingRecoveryIrap", "Configured"}
    BY AssemblerKnown
  <2>3. CASE a.configuration = "AwaitingConfigurationAu" /\ a.initialSets
    <3>1. b.sets = TRUE /\ b.configuration = "AwaitingRecoveryIrap"
      BY <2>3 DEF RequireIrap, Assemblers
    <3> QED
      BY <2>1, <3>1 DEF Consistent, Configured
  <2>4. CASE a.configuration = "Configured"
    <3>1. b.sets = a.sets /\ b.configuration = "AwaitingRecoveryIrap"
      BY <2>4 DEF RequireIrap, Assemblers
    <3> QED
      BY <2>1, <2>4, <3>1 DEF Consistent, Configured
  <2>5. CASE /\ a.configuration # "Configured"
             /\ ~ (a.configuration = "AwaitingConfigurationAu" /\ a.initialSets)
    <3>1. b = a
      BY <2>5 DEF RequireIrap
    <3> QED
      BY <2>1, <2>5, <3>1 DEF Configured
  <2> QED
    BY <2>3, <2>4, <2>5
<1> HIDE DEF b
<1>2. /\ c \in Assemblers /\ Parts(c) = <<>> /\ c.picture = None
      /\ c.sets = b.sets /\ c.configuration = b.configuration
  BY <1>1, DiscardedKnown
<1> HIDE DEF c
<1>3. p.marker \in BOOLEAN /\ Sequence(p) \in Int /\ After(Sequence(p)) \in Int /\ None \in Int
  <2>1. p.number \in Nat
    BY GenuineKnown
  <2>2. Sequence(p) \in Int
    BY <2>1, SpaceKnown DEF Sequence
  <2>3. After(Sequence(p)) \in Int
    BY <2>2, SpaceKnown DEF After
  <2> QED
    BY <2>2, <2>3, GenuineKnown DEF None
<1>4. /\ e \in Assemblers /\ e.nals = c.nals /\ e.fu = c.fu /\ e.picture = c.picture
      /\ e.dropping <=> ~ p.marker
      /\ ~ p.marker => e.recovery = Sequence(p)
      /\ e.sets = c.sets /\ e.configuration = c.configuration
  BY <1>2, <1>3 DEF DroppingFrom, Assemblers
<1> HIDE DEF e
<1>5. /\ d \in Assemblers /\ d.nals = e.nals /\ d.fu = e.fu /\ d.picture = e.picture
      /\ d.dropping = e.dropping /\ d.recovery = e.recovery
      /\ d.buffered = {} /\ d.expected = After(Sequence(p))
      /\ d.sets = e.sets /\ d.configuration = e.configuration
  BY <1>3, <1>4 DEF Assemblers
<1>6. DroppedAt(b, p) = d
  BY DEF DroppedAt, d, e, c
<1> HIDE DEF d
<1>7. Parts(d) = Parts(c)
  BY <1>4, <1>5 DEF Parts
<1>8. Consistent(d) /\ ~ Configured(d)
  BY <1>1, <1>2, <1>4, <1>5 DEF Consistent, Configured
<1> QED
  BY <1>2, <1>4, <1>5, <1>6, <1>7, <1>8 DEF b

\* Behind the marker of packet j nothing is assembled yet.
LEMMA BehindMarker ==
    ASSUME sent \in Seq(Genuine), NEW j \in 1..Len(sent), sent[j].marker,
           NEW seen \in SUBSET Nat, sent[j].number \in seen,
           NEW a \in Assemblers, Consistent(a), ~ a.dropping, Parts(a) = <<>>, a.picture = None,
           a.buffered = {}, a.expected = After(Sequence(sent[j])),
           \A m \in seen : m < sent[j].number + Window
    PROVE  Stands(a, sent[j].ssrc, sent[j].number + 1, seen)
<1>1. PICK N \in Nat : N = sent[j].number
  OBVIOUS
<1>2. a.expected = (N + 1) % SequenceSpace
  BY <1>1, SpaceKnown, NextSequence DEF After, Sequence
<1>3. Assembled(a, sent[j].ssrc, N + 1)
  <2>1. sent[j].number = (N + 1) - 1
    BY <1>1
  <2> QED
    BY <2>1 DEF Assembled
<1>4. Buffered(a, sent[j].ssrc, N + 1, seen)
  BY DEF Buffered
<1>5. /\ \E m \in seen : m >= (N + 1) - 1
      /\ \A m \in seen : m < (N + 1) + Window
  <2>1. N \in seen /\ N >= (N + 1) - 1
    BY <1>1
  <2>2. \A m \in seen : m < N + Window /\ m \in Nat
    BY <1>1
  <2> QED
    BY <2>1, <2>2, SpaceKnown
<1>6. InOrder(a, sent[j].ssrc, N + 1, seen) /\ N + 1 \in Nat
  BY <1>2, <1>3, <1>4, <1>5 DEF InOrder
<1>7. Len(Parts(a)) = 0 /\ (N + 1) - 0 = N + 1
  OBVIOUS
<1> QED
  BY <1>1, <1>6, <1>7 DEF Stands

LEMMA ResynchronisedKnown ==
    ASSUME sent \in Seq(Genuine), NEW j \in 1..Len(sent), NEW seen \in SUBSET Nat,
           Near(sent[j].number, seen), NEW a \in Assemblers, Consistent(a),
           NEW n \in Nat, Drops(a, n, seen)
    PROVE  LET r == Resynchronised(a, sent[j]) IN
           /\ ~ Configured(r)
           /\ \E m \in Nat : n <= m /\ Stands(r, sent[j].ssrc, m, seen \cup {sent[j].number})
<1> DEFINE p == sent[j]
           all == seen \cup {p.number}
           ahead == IF a.recovery = None THEN 1 ELSE Distance(Sequence(p), a.recovery)
           cursor == IF ahead \in 1..(Half - 1) THEN Sequence(p) ELSE a.recovery
           done == [a EXCEPT !.dropping = FALSE, !.expected = After(Sequence(p)),
                             !.recovery = None, !.buffered = {}]
           on == [a EXCEPT !.recovery = cursor]
<1>1. Resynchronised(a, p) = IF p.marker /\ ahead < Half THEN done ELSE on
  BY DEF Resynchronised
<1>2. PICK N \in Nat : N = p.number
  <2>1. p \in Genuine
    OBVIOUS
  <2> QED
    BY <2>1, GenuineKnown
<1>3. /\ a.dropping /\ a.recovery = n % SequenceSpace /\ Parts(a) = <<>> /\ a.picture = None
      /\ (\E m \in seen : m >= n) /\ (\A m \in seen : m < n + Window)
  BY DEF Drops
<1>4. /\ N < n + Half /\ n <= N + Half
      /\ Distance(N % SequenceSpace, n % SequenceSpace) =
           IF n <= N THEN N - n ELSE (N - n) + SequenceSpace
  <2>1. \E m \in seen : m >= n - 1
    BY <1>3
  <2>2. \A m \in seen : m < n + Window
    BY DEF Drops
  <2>3. Near(N, seen)
    BY <1>2
  <2> QED
    BY <2>1, <2>2, <2>3, NearKnown
<1>5. a.recovery \in Nat /\ a.recovery # None
  <2>1. n % SequenceSpace \in 0..(SequenceSpace - 1)
    BY SpaceKnown, Division
  <2> QED
    BY <1>3, <2>1 DEF None
<1>6. ahead = IF n <= N THEN N - n ELSE (N - n) + SequenceSpace
  BY <1>2, <1>4, <1>5, <1>3 DEF Sequence
<1>7. Sequence(p) = N % SequenceSpace /\ Sequence(p) \in Int /\ After(Sequence(p)) \in Int
  <2>1. Sequence(p) = N % SequenceSpace /\ N % SequenceSpace \in Int
    BY <1>2, SpaceKnown DEF Sequence
  <2> QED
    BY <2>1, SpaceKnown DEF After
<1>8. all \in SUBSET Nat /\ N \in all /\ \A m \in all : m \in seen \/ m = N
  BY <1>2
<1>11. ~ Configured(a)
  BY <1>3 DEF Consistent
<1> HIDE DEF p, all, ahead
<1>9. CASE p.marker /\ ahead < Half
  <2>1. n <= N
    BY <1>4, <1>6, <1>9, SpaceKnown
  <2>2. /\ done \in Assemblers /\ ~ done.dropping /\ done.nals = a.nals /\ done.fu = a.fu
        /\ done.picture = a.picture /\ done.buffered = {} /\ done.expected = After(Sequence(p))
        /\ done.sets = a.sets /\ done.configuration = a.configuration
    <3>1. None \in Int
      BY DEF None
    <3> QED
      BY <1>7, <3>1 DEF Assemblers
  <2> HIDE DEF done
  <2>3. Parts(done) = <<>>
    BY <1>3, <2>2 DEF Parts
  <2>4. \A m \in all : m < N + Window
    <3>1. \A m \in seen : m < n + Window
      BY DEF Drops
    <3>2. \A m \in seen : m < N + Window
      BY <2>1, <3>1, SpaceKnown
    <3>3. N < N + Window
      BY SpaceKnown
    <3> QED
      BY <1>8, <3>2, <3>3
  <2>6. Consistent(done) /\ ~ Configured(done)
    BY <1>11, <2>2 DEF Consistent, Configured
  <2>5. Stands(done, p.ssrc, N + 1, all)
    BY <1>2, <1>3, <1>8, <1>9, <2>2, <2>3, <2>4, <2>6, BehindMarker DEF p
  <2>7. N + 1 \in Nat /\ n <= N + 1
    BY <2>1
  <2>8. Resynchronised(a, p) = done
    BY <1>1, <1>9
  <2> QED
    BY <2>5, <2>6, <2>7, <2>8 DEF p, all
<1>10. CASE ~ (p.marker /\ ahead < Half)
  <2>1. cursor \in Int
    BY <1>5, <1>7
  <2>2. /\ on \in Assemblers /\ on.dropping = a.dropping /\ on.nals = a.nals /\ on.fu = a.fu
        /\ on.picture = a.picture /\ on.recovery = cursor
        /\ on.sets = a.sets /\ on.configuration = a.configuration
    <3> HIDE DEF cursor
    <3> QED
      BY <2>1 DEF Assemblers
  <2> HIDE DEF on
  <2>3. Parts(on) = <<>> /\ on.picture = None /\ on.dropping
    BY <1>3, <2>2 DEF Parts
  <2>4. \A m \in seen : m < n + Window /\ m \in Nat
    BY DEF Drops
  <2>7. Consistent(on) /\ ~ Configured(on)
    BY <1>11, <2>2 DEF Consistent, Configured
  <2>8. Resynchronised(a, p) = on
    BY <1>1, <1>10
  <2>5. CASE ahead \in 1..(Half - 1)
    <3>1. n <= N
      BY <1>4, <1>6, <2>5, SpaceKnown
    <3>2. on.recovery = N % SequenceSpace
      BY <1>7, <2>2, <2>5
    <3>3. \A m \in all : m < N + Window
      BY <1>8, <2>4, <3>1, SpaceKnown
    <3>4. Drops(on, N, all)
      BY <1>8, <2>3, <3>2, <3>3 DEF Drops
    <3>5. Stands(on, p.ssrc, N, all)
      BY <2>2, <2>7, <3>4 DEF Stands
    <3> QED
      BY <2>7, <2>8, <3>1, <3>5 DEF p, all
  <2>6. CASE ahead \notin 1..(Half - 1)
    <3>1. N <= n
      BY <1>4, <1>6, <2>6, SpaceKnown
    <3>2. on.recovery = n % SequenceSpace
      BY <1>3, <2>2, <2>6
    <3>3. \A m \in all : m < n + Window
      BY <1>8, <2>4, <3>1, SpaceKnown
    <3>4. \E m \in all : m >= n
      BY <1>3, <1>8 DEF all
    <3>5. Drops(on, n, all)
      BY <2>3, <3>2, <3>3, <3>4 DEF Drops
    <3>6. Stands(on, p.ssrc, n, all)
      BY <2>2, <2>7, <3>5 DEF Stands
    <3> QED
      BY <2>7, <2>8, <3>6 DEF p, all
  <2> QED
    BY <2>5, <2>6
<1> QED
  BY <1>9, <1>10

\* What push leaves of an assembler that stands at low and is configured, if c.
Pushed(r, s, low, c, seen) ==
    /\ r.error = "no" =>
         /\ WholeUnits(r.units)
         /\ \E n \in Int : /\ Stands(r.a, s, n, seen)
                           /\ Trail(r.units, s, low, c, n, Configured(r.a))
    /\ r.error = "ReorderWindowExceeded" =>
         ~ Configured(r.a) /\ \E n \in Int : low <= n /\ Stands(r.a, s, n, seen)

LEMMA FitsPushed ==
    ASSUME NEW r, NEW s, NEW low, NEW c, NEW seen, Fits(r, s, low, c, seen)
    PROVE  Pushed(r, s, low, c, seen)
<1>1. ASSUME r.error = "no"
      PROVE  /\ WholeUnits(r.units)
             /\ \E n \in Int : /\ Stands(r.a, s, n, seen)
                               /\ Trail(r.units, s, low, c, n, Configured(r.a))
  <2>1. r.a \in Assemblers /\ Consistent(r.a) /\ WholeUnits(r.units)
    BY <1>1 DEF Fits
  <2>2. PICK n \in Nat :
              /\ InOrder(r.a, s, n, seen)
              /\ Trail(r.units, s, low, c, n - Len(Parts(r.a)), Configured(r.a))
    BY <1>1 DEF Fits
  <2>3. n - Len(Parts(r.a)) \in Int
    BY <2>1, AssemblerKnown
  <2>4. Stands(r.a, s, n - Len(Parts(r.a)), seen)
    BY <2>1, <2>2 DEF Stands
  <2> QED
    BY <2>1, <2>2, <2>3, <2>4
<1> QED
  BY <1>1 DEF Fits, Pushed

\* A packet between what is expected and the end of the window.
LEMMA WindowKnown ==
    ASSUME sent \in Seq(Genuine), SentOrdered, NEW j \in 1..Len(sent),
           NEW seen \in SUBSET Nat, sent[j].number \in seen,
           NEW a \in Assemblers, Consistent(a), NEW n \in Nat, InOrder(a, sent[j].ssrc, n, seen),
           n <= sent[j].number, sent[j].number < n + ReorderWindow
    PROVE  Pushed(Drained([a EXCEPT !.buffered = @ \cup {sent[j]}]), sent[j].ssrc,
                  n - Len(Parts(a)), Configured(a), seen)
<1> DEFINE p == sent[j]
           b == [a EXCEPT !.buffered = @ \cup {p}]
<1>1. p \in Genuine /\ a.buffered \in SUBSET Genuine
  BY AssemblerKnown
<1>2. /\ b \in Assemblers /\ b.buffered = a.buffered \cup {p}
      /\ b.expected = a.expected /\ b.dropping = a.dropping /\ b.nals = a.nals /\ b.fu = a.fu
      /\ b.picture = a.picture /\ b.sets = a.sets /\ b.configuration = a.configuration
  BY <1>1 DEF Assemblers
<1> HIDE DEF b
<1>3. Buffered(b, p.ssrc, n, seen)
  BY <1>2 DEF InOrder, Buffered
<1>4. Assembled(b, p.ssrc, n)
  BY <1>2 DEF InOrder, Assembled, Unset, Parts
<1>5. InOrder(b, p.ssrc, n, seen)
  BY <1>2, <1>3, <1>4 DEF InOrder
<1>7. Parts(b) = Parts(a) /\ Configured(b) = Configured(a) /\ Consistent(b)
  BY <1>2 DEF Parts, Configured, Consistent
<1>6. Fits(Drained(b), p.ssrc, n - Len(Parts(a)), Configured(a), seen)
  BY <1>2, <1>5, <1>7, DrainedFits
<1> QED
  BY <1>6, FitsPushed DEF b

\* More numbers seen, none of them too far ahead.
LEMMA SeenMore ==
    ASSUME NEW a, NEW s, NEW n \in Nat, NEW seen \in SUBSET Nat, InOrder(a, s, n, seen),
           NEW N \in Nat, N < n + Window
    PROVE  InOrder(a, s, n, seen \cup {N})
BY DEF InOrder, Buffered

LEMMA InOrderPushed ==
    ASSUME sent \in Seq(Genuine), SentOrdered, NEW j \in 1..Len(sent),
           NEW seen \in SUBSET Nat, NEW a \in Assemblers, Consistent(a),
           NEW n \in Nat, InOrder(a, sent[j].ssrc, n, seen),
           Near(sent[j].number, seen)
    PROVE  Pushed(Push(a, sent[j]), sent[j].ssrc, n - Len(Parts(a)), Configured(a),
                  seen \cup {sent[j].number})
<1> DEFINE p == sent[j]
           s == p.ssrc
           all == seen \cup {p.number}
           first == [a EXCEPT !.expected = IF @ = None THEN Sequence(p) ELSE @]
           distance == Distance(Sequence(p), a.expected)
           r == Push(a, p)
           low == n - Len(Parts(a))
           c == Configured(a)
<1>1. p \in Genuine
  OBVIOUS
<1>2. PICK N \in Nat : N = p.number
  BY <1>1, GenuineKnown
<1>3. ~ a.dropping /\ a.expected = n % SequenceSpace
  BY DEF InOrder
<1>4. first = a
  <2>1. n % SequenceSpace \in 0..(SequenceSpace - 1)
    BY SpaceKnown, Division
  <2>2. a.expected # None
    BY <1>3, <2>1 DEF None
  <2> QED
    BY <2>2 DEF Assemblers
<1>5. r = IF distance >= Half THEN Result(a, <<>>, "no")
          ELSE IF distance >= ReorderWindow
          THEN Result(DroppedAt(RequireIrap(a), p), <<>>, "ReorderWindowExceeded")
          ELSE IF \E q \in a.buffered : Sequence(q) = Sequence(p)
          THEN Result(a, <<>>, "no")
          ELSE Drained([a EXCEPT !.buffered = @ \cup {p}])
  <2> HIDE DEF first
  <2>1. r = IF a.dropping THEN Result(Resynchronised(a, p), <<>>, "no")
            ELSE IF Distance(Sequence(p), first.expected) >= Half THEN Result(first, <<>>, "no")
            ELSE IF Distance(Sequence(p), first.expected) >= ReorderWindow
            THEN Result(DroppedAt(RequireIrap(first), p), <<>>, "ReorderWindowExceeded")
            ELSE IF \E q \in first.buffered : Sequence(q) = Sequence(p)
            THEN Result(first, <<>>, "no")
            ELSE Drained([first EXCEPT !.buffered = @ \cup {p}])
    BY DEF Push, Late, first
  <2> QED
    BY <1>3, <1>4, <2>1
<1>6. /\ N < n + Half /\ n <= N + Half
      /\ distance = IF n <= N THEN N - n ELSE (N - n) + SequenceSpace
  <2>1. /\ Near(N, seen) /\ (\E m \in seen : m >= n - 1)
        /\ \A m \in seen : m < n + Window
    BY <1>2 DEF InOrder
  <2>2. distance = Distance(N % SequenceSpace, n % SequenceSpace)
    BY <1>2, <1>3 DEF Sequence
  <2>3. (\E m \in seen : m >= n - 1) /\ \A m \in seen : m < n + Window
    BY DEF InOrder
  <2> QED
    BY <2>1, <2>2, <2>3, NearKnown
<1>7. all \in SUBSET Nat /\ N \in all /\ seen \cup {N} = all
  BY <1>2
<1>13. low \in Int /\ low <= n /\ c \in BOOLEAN
  BY AssemblerKnown DEF Configured
<1>8. N < n + Window => Stands(a, s, low, all)
  BY <1>7, SeenMore DEF Stands
<1> HIDE DEF p, all, first, distance, r
<1>9. ASSUME r = Result(a, <<>>, "no"), N < n + Window
      PROVE  Pushed(r, s, low, c, all)
  <2>1. r.a = a /\ r.units = <<>> /\ r.error = "no"
    BY <1>9 DEF Result
  <2> HIDE DEF low
  <2>2. Trail(<<>>, s, low, c, low, c)
    BY <1>13, NoTrail
  <2> QED
    BY <1>8, <1>9, <1>13, <2>1, <2>2, NoUnits, Zenon DEF Pushed, c
<1>10. CASE distance >= Half
  <2>1. N < n + Window
    BY <1>6, <1>10, SpaceKnown
  <2> QED
    BY <1>5, <1>9, <1>10, <2>1 DEF r, p, all
<1>11. CASE ~ (distance >= Half) /\ distance >= ReorderWindow
  <2> DEFINE d == DroppedAt(RequireIrap(a), p)
  <2>1. r.a = d /\ r.error = "ReorderWindowExceeded"
    BY <1>5, <1>11 DEF Result
  <2>2. /\ d \in Assemblers /\ Parts(d) = <<>> /\ d.picture = None /\ d.buffered = {}
        /\ d.expected = After(Sequence(p)) /\ (d.dropping <=> ~ p.marker)
        /\ ~ p.marker => d.recovery = Sequence(p)
        /\ Consistent(d) /\ ~ Configured(d)
    BY <1>1, DroppedKnown
  <2> HIDE DEF d
  <2>3. n <= N
    BY <1>6, <1>11, SpaceKnown
  <2>4. \A m \in all : m < N + Window
    <3>1. \A m \in seen : m < n + Window /\ m \in Nat
      BY DEF InOrder
    <3> QED
      BY <1>7, <2>3, <3>1, SpaceKnown
  <2>5. \E k \in Int : low <= k /\ Stands(d, s, k, all)
    <3> HIDE DEF low
    <3>1. CASE p.marker
      <4>1. Stands(d, s, N + 1, all)
        BY <1>2, <1>7, <2>2, <2>4, <3>1, BehindMarker DEF p
      <4>2. N + 1 \in Int /\ low <= N + 1
        BY <1>13, <2>3
      <4> QED
        BY <4>1, <4>2
    <3>2. CASE ~ p.marker
      <4>1. d.recovery = N % SequenceSpace
        BY <1>2, <2>2, <3>2 DEF Sequence
      <4>2. \E m \in all : m >= N
        BY <1>7
      <4>3. Drops(d, N, all)
        BY <2>2, <2>4, <3>2, <4>1, <4>2 DEF Drops
      <4>4. Stands(d, s, N, all)
        BY <2>2, <4>3 DEF Stands
      <4>5. N \in Int /\ low <= N
        BY <1>13, <2>3
      <4> QED
        BY <4>4, <4>5
    <3> QED
      BY <3>1, <3>2
  <2> QED
    BY <2>1, <2>2, <2>5, Zenon DEF Pushed, r, p, all
<1>12. CASE ~ (distance >= Half) /\ ~ (distance >= ReorderWindow)
  <2>1. n <= N /\ N < n + ReorderWindow
    BY <1>6, <1>12, SpaceKnown
  <2>2. N < n + Window
    BY <2>1, SpaceKnown
  <2>3. CASE \E q \in a.buffered : Sequence(q) = Sequence(p)
    BY <1>5, <1>9, <1>12, <2>2, <2>3 DEF r, p, all
  <2>4. CASE ~ \E q \in a.buffered : Sequence(q) = Sequence(p)
    <3>1. r = Drained([a EXCEPT !.buffered = @ \cup {p}])
      BY <1>5, <1>12, <2>4
    <3>2. InOrder(a, s, n, all)
      BY <1>7, <2>2, SeenMore DEF p
    <3>3. Pushed(r, s, low, c, all)
      BY <1>2, <1>7, <2>1, <3>1, <3>2, WindowKnown DEF p
    <3> QED
      BY <3>3 DEF r, p, all
  <2> QED
    BY <2>3, <2>4
<1> QED
  BY <1>6, <1>10, <1>11, <1>12

\* An assembler that expects nothing yet takes any number as the first.
LEMMA NewPushed ==
    ASSUME sent \in Seq(Genuine), SentOrdered, NEW j \in 1..Len(sent),
           NEW seen \in SUBSET Nat, Near(sent[j].number, seen)
    PROVE  Pushed(Push(NewAssembler, sent[j]), sent[j].ssrc, sent[j].number, FALSE,
                  seen \cup {sent[j].number})
<1> DEFINE p == sent[j]
           s == p.ssrc
           all == seen \cup {p.number}
           first == [NewAssembler EXCEPT !.expected = IF @ = None THEN Sequence(p) ELSE @]
           a == [NewAssembler EXCEPT !.expected = Sequence(p)]
           r == Push(NewAssembler, p)
<1>1. PICK N \in Nat : N = p.number
  <2>1. p \in Genuine
    OBVIOUS
  <2> QED
    BY <2>1, GenuineKnown
<1>2. Sequence(p) = N % SequenceSpace /\ Sequence(p) \in Int
  <2>1. N % SequenceSpace \in Int
    BY SpaceKnown, Division
  <2> QED
    BY <1>1, <2>1 DEF Sequence
<1>3. first = a
  BY NewKnown
<1>4. /\ a \in Assemblers /\ a.expected = Sequence(p) /\ Parts(a) = <<>> /\ a.picture = None
      /\ a.buffered = {} /\ ~ a.dropping /\ Unset(a)
      /\ Consistent(a) /\ ~ Configured(a)
  <2> DEFINE new == NewAssembler
  <2>1. /\ new \in Assemblers /\ Parts(new) = <<>> /\ new.picture = None
        /\ new.buffered = {} /\ ~ new.dropping
        /\ new.configuration = "AwaitingConfigurationAu" /\ ~ new.sets
    BY NewKnown
  <2> HIDE DEF new, p
  <2>2. /\ a \in Assemblers /\ a.expected = Sequence(p) /\ a.nals = new.nals /\ a.fu = new.fu
        /\ a.picture = new.picture /\ a.buffered = new.buffered
        /\ a.dropping = new.dropping /\ a.configuration = new.configuration
        /\ a.sets = new.sets
    <3>1. a = [new EXCEPT !.expected = Sequence(p)]
      BY DEF new
    <3> HIDE DEF a
    <3> QED
      BY <1>2, <2>1, <3>1 DEF Assemblers
  <2> HIDE DEF a
  <2>3. Parts(a) = <<>>
    BY <2>1, <2>2 DEF Parts
  <2>4. Len(<<>>) = 0 /\ 1..0 = {}
    OBVIOUS
  <2> QED
    BY <2>1, <2>2, <2>3, <2>4 DEF Unset, Consistent, Configured
<1>5. r = Drained([a EXCEPT !.buffered = @ \cup {p}])
  <2> HIDE DEF first, a
  <2>1. r = IF NewAssembler.dropping THEN Result(Resynchronised(NewAssembler, p), <<>>, "no")
            ELSE IF Distance(Sequence(p), first.expected) >= Half THEN Result(first, <<>>, "no")
            ELSE IF Distance(Sequence(p), first.expected) >= ReorderWindow
            THEN Result(DroppedAt(RequireIrap(first), p), <<>>, "ReorderWindowExceeded")
            ELSE IF \E q \in first.buffered : Sequence(q) = Sequence(p)
            THEN Result(first, <<>>, "no")
            ELSE Drained([first EXCEPT !.buffered = @ \cup {p}])
    BY DEF Push, Late, first
  <2>2. Distance(Sequence(p), a.expected) = 0
    <3>1. Sequence(p) - Sequence(p) = 0 /\ 0 = SequenceSpace * 0 + 0 /\ 0 \in 0..(SequenceSpace - 1)
      <4>1. SequenceSpace * 0 = 0
        BY SpaceKnown, Z3
      <4> QED
        BY <1>2, <4>1, SpaceKnown
    <3>2. 0 % SequenceSpace = 0
      BY <3>1, Remainder, SpaceKnown
    <3> QED
      BY <1>4, <3>1, <3>2 DEF Distance
  <2>3. ~ (0 >= Half) /\ ~ (0 >= ReorderWindow)
    BY SpaceKnown
  <2> QED
    BY <1>3, <1>4, <2>1, <2>2, <2>3, NewKnown
<1>6. all \in SUBSET Nat /\ N \in all /\ \A m \in all : m \in seen \/ m = N
  BY <1>1
<1> HIDE DEF p, all, first, a, r
<1>7. \A m \in all : m < N + Window
  <2>1. ASSUME NEW m \in seen PROVE m < N + Window
    <3>1. PICK h \in seen : (\A k \in seen : k <= h) /\ h - N < ReplayWindow
      BY <1>1 DEF Near, p
    <3>2. m \in Nat /\ h \in Nat /\ m <= h
      BY <3>1
    <3> QED
      BY <3>1, <3>2, SpaceKnown
  <2>2. N < N + Window
    BY SpaceKnown
  <2> QED
    BY <1>6, <2>1, <2>2
<1>8. InOrder(a, s, N, all)
  <2>1. Assembled(a, s, N)
    BY <1>4 DEF Assembled
  <2>2. Buffered(a, s, N, all)
    BY <1>4 DEF Buffered
  <2>3. \E m \in all : m >= N - 1
    BY <1>6
  <2> QED
    BY <1>2, <1>4, <1>7, <2>1, <2>2, <2>3 DEF InOrder
<1>9. Pushed(r, s, N, FALSE, all)
  <2>1. N <= N /\ N < N + ReorderWindow
    BY SpaceKnown
  <2>2. Len(Parts(a)) = 0 /\ N - 0 = N /\ Configured(a) = FALSE
    BY <1>4 DEF Configured
  <2>3. Pushed(r, s, N - Len(Parts(a)), Configured(a), all)
    BY <1>1, <1>4, <1>5, <1>6, <1>8, <2>1, WindowKnown DEF p
  <2> QED
    BY <2>2, <2>3
<1> QED
  BY <1>1, <1>9 DEF r, p, all

LEMMA PushKnown ==
    ASSUME sent \in Seq(Genuine), SentOrdered, NEW j \in 1..Len(sent),
           NEW seen \in SUBSET Nat, Near(sent[j].number, seen),
           NEW a, NEW low \in Int, Stands(a, sent[j].ssrc, low, seen)
    PROVE  Pushed(Push(a, sent[j]), sent[j].ssrc, low, Configured(a),
                  seen \cup {sent[j].number})
<1>1. a \in Assemblers /\ Consistent(a)
  BY DEF Stands
<1>2. PICK n \in Nat : \/ InOrder(a, sent[j].ssrc, n, seen) /\ low = n - Len(Parts(a))
                       \/ Drops(a, n, seen) /\ low = n
  BY DEF Stands
<1>3. CASE InOrder(a, sent[j].ssrc, n, seen) /\ low = n - Len(Parts(a))
  BY <1>1, <1>3, InOrderPushed
<1>4. CASE Drops(a, n, seen) /\ low = n
  <2> DEFINE r == Resynchronised(a, sent[j])
             all == seen \cup {sent[j].number}
  <2>1. Push(a, sent[j]) = Result(r, <<>>, "no")
    BY <1>4 DEF Push, Late, Drops
  <2>2. /\ ~ Configured(r)
        /\ \E m \in Nat : n <= m /\ Stands(r, sent[j].ssrc, m, all)
    BY <1>1, <1>4, ResynchronisedKnown
  <2>3. /\ Push(a, sent[j]).a = r /\ Push(a, sent[j]).units = <<>>
        /\ Push(a, sent[j]).error = "no"
    BY <2>1 DEF Result
  <2>4. Configured(a) = FALSE /\ Configured(r) = FALSE
    BY <1>1, <1>4, <2>2 DEF Consistent, Drops, Configured
  <2> HIDE DEF r, all
  <2>5. PICK m \in Nat : n <= m /\ Stands(r, sent[j].ssrc, m, all)
    BY <2>2
  <2>6. Trail(<<>>, sent[j].ssrc, low, FALSE, m, FALSE) /\ m \in Int
    <3>1. m \in Int /\ low <= m /\ FALSE \in BOOLEAN
      BY <1>4, <2>5
    <3> QED
      BY <3>1, NoTrail
  <2>7. Pushed(Push(a, sent[j]), sent[j].ssrc, low, Configured(a), all)
    BY <2>3, <2>4, <2>5, <2>6, NoUnits DEF Pushed
  <2> QED
    BY <2>7 DEF all
<1> QED
  BY <1>2, <1>3, <1>4

\* Wherever it stands.
LEMMA AnyPushed ==
    ASSUME sent \in Seq(Genuine), SentOrdered, NEW j \in 1..Len(sent),
           NEW seen \in SUBSET Nat, Near(sent[j].number, seen),
           NEW a, a = NewAssembler \/ Holds(a, sent[j].ssrc, seen),
           NEW r, r = Push(a, sent[j]), NEW all, all = seen \cup {sent[j].number}
    PROVE  /\ r.error = "no" => WholeUnits(r.units) /\ Holds(r.a, sent[j].ssrc, all)
           /\ r.error = "ReorderWindowExceeded" => Holds(r.a, sent[j].ssrc, all)
<1>1. \E low, c : Pushed(r, sent[j].ssrc, low, c, all)
  <2>1. CASE a = NewAssembler
    BY <2>1, NewPushed
  <2>2. CASE Holds(a, sent[j].ssrc, seen)
    <3>1. PICK low \in Int : Stands(a, sent[j].ssrc, low, seen)
      BY <2>2 DEF Holds
    <3> QED
      BY <3>1, PushKnown
  <2> QED
    BY <2>1, <2>2
<1> QED
  BY <1>1 DEF Pushed, Holds

-----------------------------------------------------------------------------
(***************************************************************************)
(* What is shown.  An assembler that is configured while nothing is        *)
(* awaited stands right behind the last picture shown; else a picture is   *)
(* asked for, or the stream has just replaced another, whose SSRC is       *)
(* retired.  As long as the channel had room nothing older can be given.   *)
(***************************************************************************)
Shown(a, r, units, reported, seen) ==
    /\ Consistent(a)
    /\ Configured(a) /\ ~ Awaits(r) =>
         /\ r.configured /\ units # <<>> /\ FinalOf(units).ssrc = r.ssrc
         /\ Stands(a, r.ssrc, FinalOf(units).number + 1, seen)
    /\ units # <<>> =>
         /\ r.ssrc # 0 /\ FinalOf(units).ssrc \in r.retired \cup {r.ssrc}
         /\ r.replacing => FinalOf(units).ssrc # r.ssrc
         /\ r.request \/ reported \/ r.replacing \/ (~ r.backpressured /\ Configured(a))
         /\ ~ r.backpressured /\ FinalOf(units).ssrc = r.ssrc =>
              \E m \in Int : m > FinalOf(units).number /\ Stands(a, r.ssrc, m, seen)

ShownInvariant ==
    /\ published.units = <<>> => published.before.ssrc = 0
    /\ Running => Shown(assembler, receive, published.units, asked, opened[receive.ssrc])

\* The adapter takes what push gave: the units `new' lead from a, which stood at
\* low, behind the last of the units shown, to b, which stands at n.
Leads(a, r, units, low, b, n, new, v) ==
    /\ low \in Int /\ n \in Int
    /\ WholeUnits(new) /\ Trail(new, r.ssrc, low, Configured(a), n, Configured(b))
    /\ Configured(a) /\ ~ Awaits(r) => low = FinalOf(units).number + 1
    /\ units # <<>> /\ ~ r.backpressured /\ FinalOf(units).ssrc = r.ssrc =>
         FinalOf(units).number < low
    /\ Gives(r, new, v, Len(new))

\* What stands before AcceptRtp's verdict v is acted on, and what it leads to:
\* the assembler on, the units shown and the report still asked for.
Accepting(r, a, units, reported, seen, all, b, n, low, new, v, still, on, shows) ==
    /\ r \in Receives /\ r.ssrc \in Nat \ {0}
    /\ WholeUnits(units) /\ Shown(a, r, units, reported, seen)
    /\ Stands(b, r.ssrc, n, all) /\ Leads(a, r, units, low, b, n, new, v)
    /\ reported /\ v.units = <<>> => still
    /\ on = IF v.full THEN NewAssembler ELSE b
    /\ shows = IF v.units = <<>> THEN units ELSE v.units

\* The units u can follow the ones shown, if the channel was full or not: each
\* is random access or the next picture, and none is an older one.
Continues(u, units, s, full) ==
    LET last == First(units[Len(units)])
        p == First(u[1])
    IN  /\ ~ p.key => /\ units # <<>> /\ last.ssrc = s
                      /\ p.picture = last.picture + 1
        /\ units # <<>> /\ ~ full /\ last.ssrc = s => last.picture < p.picture
        /\ \A k \in 2..Len(u) :
             /\ First(u[k]).ssrc = First(u[k - 1]).ssrc
             /\ First(u[k]).picture = First(u[k - 1]).picture + 1

\* The ends of two whole units of one stream.
LEMMA TwoUnits ==
    ASSUME sent \in Seq(Genuine), SentOrdered, NEW x, NEW y, Whole(x.parts), Whole(y.parts),
           Final(x).ssrc = First(y).ssrc
    PROVE  \E e, f, g \in 1..Len(sent) :
             /\ First(x) = sent[e] /\ Final(x) = sent[f] /\ First(y) = sent[g]
             /\ sent[f].marker /\ e <= f
             /\ sent[e].ssrc = sent[f].ssrc /\ sent[e].picture = sent[f].picture
             /\ sent[g].number = sent[f].number + (g - f)
<1>1. PICK e \in 1..Len(sent), f \in 1..Len(sent) : Ends(x.parts, e, f)
  BY WholeEnds
<1>2. PICK g \in 1..Len(sent), h \in 1..Len(sent) : Ends(y.parts, g, h)
  BY WholeEnds
<1>3. First(x) = sent[e] /\ Final(x) = sent[f] /\ First(y) = sent[g] /\ sent[f].marker /\ e <= f
  BY <1>1, <1>2 DEF Ends, First, Final
<1>4. sent[e].ssrc = sent[f].ssrc /\ sent[e].picture = sent[f].picture
  <2>1. f \in e..f
    BY <1>3
  <2> QED
    BY <1>1, <2>1 DEF Ends
<1>5. sent[g].number = sent[f].number + (g - f)
  <2>1. sent[f].ssrc = sent[g].ssrc
    BY <1>3
  <2> QED
    BY <2>1, NumbersApart
<1> QED
  BY <1>3, <1>4, <1>5

\* A unit that begins where another ends is the next picture of its stream.
LEMMA NextUnit ==
    ASSUME sent \in Seq(Genuine), SentOrdered, NEW x, NEW y, Whole(x.parts), Whole(y.parts),
           Final(x).ssrc = First(y).ssrc, First(y).number = Final(x).number + 1
    PROVE  First(x).ssrc = First(y).ssrc /\ First(y).picture = First(x).picture + 1
<1>1. PICK e \in 1..Len(sent), f \in 1..Len(sent), g \in 1..Len(sent) :
        /\ First(x) = sent[e] /\ Final(x) = sent[f] /\ First(y) = sent[g]
        /\ sent[f].marker
        /\ sent[e].ssrc = sent[f].ssrc /\ sent[e].picture = sent[f].picture
        /\ sent[g].number = sent[f].number + (g - f)
  BY TwoUnits
<1>2. PICK n \in Nat : n = sent[f].number
  <2>1. sent[f] \in Genuine
    OBVIOUS
  <2> QED
    BY <2>1, GenuineKnown, Zenon
<1>3. n + 1 = n + (g - f)
  BY <1>1, <1>2, Zenon
<1>4. g = f + 1 /\ f < Len(sent)
  BY <1>3
<1>5. sent[g].picture = sent[f].picture + 1
  BY <1>1, <1>4 DEF SentOrdered
<1> QED
  BY <1>1, <1>5

\* A unit that begins behind another is a later picture.
LEMMA LaterUnit ==
    ASSUME sent \in Seq(Genuine), SentOrdered, NEW x, NEW y, Whole(x.parts), Whole(y.parts),
           Final(x).ssrc = First(y).ssrc, First(y).number > Final(x).number
    PROVE  First(x).picture < First(y).picture
<1>1. PICK e \in 1..Len(sent), f \in 1..Len(sent), g \in 1..Len(sent) :
        /\ First(x) = sent[e] /\ Final(x) = sent[f] /\ First(y) = sent[g]
        /\ sent[f].marker
        /\ sent[e].ssrc = sent[f].ssrc /\ sent[e].picture = sent[f].picture
        /\ sent[g].number = sent[f].number + (g - f)
  BY TwoUnits
<1>2. PICK n \in Nat : n = sent[f].number
  <2>1. sent[f] \in Genuine
    OBVIOUS
  <2> QED
    BY <2>1, GenuineKnown, Zenon
<1>3. n + (g - f) > n
  BY <1>1, <1>2, Zenon
<1>4. f < g /\ f \in f..(g - 1)
  BY <1>3
<1>5. sent[f].picture <= sent[g].picture /\ sent[f].picture # sent[g].picture
  BY <1>1, <1>4 DEF SentOrdered, Ordered
<1>6. sent[f].picture \in Nat /\ sent[g].picture \in Nat
  <2>1. sent[f] \in Genuine /\ sent[g] \in Genuine
    OBVIOUS
  <2> QED
    BY <2>1, GenuineKnown, Zenon
<1>7. sent[f].picture < sent[g].picture
  BY <1>5, <1>6
<1> QED
  BY <1>1, <1>7, Zenon

LEMMA FinalKnown ==
    ASSUME sent \in Seq(Genuine), SentOrdered, NEW units, WholeUnits(units), units # <<>>
    PROVE  /\ Len(units) \in 1..Len(units) /\ Whole(units[Len(units)].parts)
           /\ FinalOf(units) \in Genuine /\ FinalOf(units).number \in Nat
           /\ First(units[Len(units)]).ssrc = FinalOf(units).ssrc
<1> DEFINE x == units[Len(units)]
<1>1. Len(units) \in 1..Len(units) /\ Whole(x.parts)
  BY DEF WholeUnits
<1>2. FinalOf(units) = Final(x)
  BY DEF FinalOf
<1> HIDE DEF x
<1>3. PICK f \in 1..Len(sent), g \in 1..Len(sent) : Ends(x.parts, f, g)
  BY <1>1, WholeEnds
<1>4. Final(x) = sent[g] /\ First(x) = sent[f] /\ sent[g].ssrc = sent[f].ssrc
  <2>1. g \in f..g
    BY <1>3 DEF Ends
  <2> QED
    BY <1>3, <2>1 DEF Ends, First, Final
<1>5. sent[g] \in Genuine
  OBVIOUS
<1> QED
  BY <1>1, <1>2, <1>4, <1>5, GenuineKnown DEF x

\* Where the assembler stands, seen from the last picture shown.
LEMMA ShownPushed ==
    ASSUME sent \in Seq(Genuine), SentOrdered, NEW j \in 1..Len(sent),
           NEW seen \in SUBSET Nat, Near(sent[j].number, seen),
           NEW s, s = sent[j].ssrc, NEW all, all = seen \cup {sent[j].number},
           NEW r \in Receives, r.ssrc = s, NEW a, a = NewAssembler \/ Holds(a, s, seen),
           NEW units, WholeUnits(units), NEW reported, Shown(a, r, units, reported, seen)
    PROVE  \E low \in Int :
             /\ Pushed(Push(a, sent[j]), s, low, Configured(a), all)
             /\ Configured(a) /\ ~ Awaits(r) => low = FinalOf(units).number + 1
             /\ units # <<>> /\ ~ r.backpressured /\ FinalOf(units).ssrc = s =>
                  FinalOf(units).number < low
<1>1. units # <<>> => FinalOf(units).number \in Nat
  BY FinalKnown
<1>2. CASE Configured(a) /\ ~ Awaits(r)
  <2>1. units # <<>> /\ Stands(a, s, FinalOf(units).number + 1, seen)
    BY <1>2 DEF Shown
  <2>2. PICK n \in Nat : n = FinalOf(units).number
    BY <1>1, <2>1
  <2>3. n + 1 \in Int /\ n < n + 1
    OBVIOUS
  <2>4. Pushed(Push(a, sent[j]), s, n + 1, Configured(a), all)
    BY <2>1, <2>2, <2>3, PushKnown
  <2> QED
    BY <2>2, <2>3, <2>4
<1>3. CASE /\ ~ (Configured(a) /\ ~ Awaits(r))
           /\ units # <<>> /\ ~ r.backpressured /\ FinalOf(units).ssrc = s
  <2>1. PICK m \in Int : m > FinalOf(units).number /\ Stands(a, s, m, seen)
    BY <1>3 DEF Shown
  <2>2. Pushed(Push(a, sent[j]), s, m, Configured(a), all)
    BY <2>1, PushKnown
  <2>3. FinalOf(units).number < m
    BY <1>1, <1>3, <2>1
  <2> QED
    BY <1>3, <2>2, <2>3
<1>4. CASE /\ ~ (Configured(a) /\ ~ Awaits(r))
           /\ ~ (units # <<>> /\ ~ r.backpressured /\ FinalOf(units).ssrc = s)
  <2>1. CASE a = NewAssembler
    <3>1. Configured(NewAssembler) = FALSE
      BY NewKnown DEF Configured
    <3>2. sent[j].number \in Int
      <4>1. sent[j] \in Genuine
        OBVIOUS
      <4> QED
        BY <4>1, GenuineKnown
    <3>3. Pushed(Push(a, sent[j]), s, sent[j].number, Configured(a), all)
      BY <2>1, <3>1, NewPushed
    <3> QED
      BY <1>4, <3>2, <3>3
  <2>2. CASE Holds(a, s, seen)
    <3>1. PICK m \in Int : Stands(a, s, m, seen)
      BY <2>2 DEF Holds
    <3>2. Pushed(Push(a, sent[j]), s, m, Configured(a), all)
      BY <3>1, PushKnown
    <3> QED
      BY <1>4, <3>2
  <2> QED
    BY <2>1, <2>2
<1> QED
  BY <1>2, <1>3, <1>4

\* What AcceptRtp leaves when the packet was accepted.
LEMMA ShownGiven ==
    ASSUME NEW r, NEW a, NEW units, NEW reported, NEW seen, NEW all, NEW b, NEW n, NEW low,
           NEW new, NEW v, NEW still, NEW on, NEW shows,
           sent \in Seq(Genuine), SentOrdered,
           Accepting(r, a, units, reported, seen, all, b, n, low, new, v, still, on, shows)
    PROVE  Shown(on, v.receive, shows, still, all)
<1> USE DEF Accepting
<1>0. /\ low \in Int /\ n \in Int
      /\ WholeUnits(new) /\ Trail(new, r.ssrc, low, Configured(a), n, Configured(b))
      /\ Configured(a) /\ ~ Awaits(r) => low = FinalOf(units).number + 1
      /\ units # <<>> /\ ~ r.backpressured /\ FinalOf(units).ssrc = r.ssrc =>
           FinalOf(units).number < low
      /\ Gives(r, new, v, Len(new)) /\ Consistent(b)
  BY DEF Leads, Stands
<1>1. Consistent(NewAssembler) /\ ~ Configured(NewAssembler)
  BY NewKnown
<1>2. /\ v.receive.ssrc = r.ssrc /\ v.receive.retired = r.retired
      /\ WholeUnits(v.units)
  BY <1>0 DEF Gives, Publishes
<1>3. v.units # <<>> => FinalOf(v.units).ssrc = r.ssrc
  <2>1. v.units # <<>> => Len(v.units) \in 1..Len(v.units)
    BY <1>0, <1>2, FinalKnown
  <2> QED
    BY <1>0, <2>1 DEF Gives, OfStream, FinalOf
<1>4. CASE v.full
  <2>1. /\ v.receive.backpressured /\ v.receive.request /\ ~ v.receive.replacing
    BY <1>0, <1>4 DEF Gives
  <2>2. shows # <<>> => FinalOf(shows).ssrc \in v.receive.retired \cup {v.receive.ssrc}
    BY <1>0, <1>2, <1>3 DEF Shown
  <2>3. Shown(NewAssembler, v.receive, shows, still, all)
    BY <1>0, <1>1, <1>2, <2>1, <2>2 DEF Shown
  <2> QED
    BY <1>0, <1>4, <2>3
<1>5. CASE ~ v.full /\ v.units = <<>>
  <2>1. v.receive = r /\ (new = <<>> \/ Awaits(r))
    <3>1. Len(new) = 0 => new = <<>>
      BY <1>0 DEF WholeUnits
    <3> QED
      BY <1>0, <1>5, <3>1 DEF Gives
  <2>2. new = <<>> => /\ low <= n /\ (Configured(a) <=> Configured(b))
                      /\ Configured(a) => low = n
    BY <1>0 DEF Trail
  <2>3. new # <<>> => Configured(b)
    BY <1>0 DEF Trail
  <2>4. Configured(b) /\ ~ Awaits(r) =>
          /\ r.configured /\ units # <<>> /\ FinalOf(units).ssrc = r.ssrc
          /\ Stands(b, r.ssrc, FinalOf(units).number + 1, all)
    BY <1>0, <2>1, <2>2 DEF Shown
  <2>5. ASSUME units # <<>>
        PROVE  /\ r.ssrc # 0 /\ FinalOf(units).ssrc \in r.retired \cup {r.ssrc}
               /\ r.replacing => FinalOf(units).ssrc # r.ssrc
               /\ r.request \/ still \/ r.replacing \/ (~ r.backpressured /\ Configured(b))
    BY <1>0, <1>5, <2>2, <2>3, <2>5 DEF Shown
  <2>6. ASSUME units # <<>>, ~ r.backpressured, FinalOf(units).ssrc = r.ssrc
        PROVE  \E m \in Int : m > FinalOf(units).number /\ Stands(b, r.ssrc, m, all)
    <3>1. new = <<>> /\ FinalOf(units).number < low
      BY <1>0, <2>1, <2>5, <2>6 DEF Awaits
    <3>2. FinalOf(units).number \in Nat
      BY <1>0, <2>6, FinalKnown
    <3>3. n > FinalOf(units).number
      BY <1>0, <2>2, <3>1, <3>2
    <3> QED
      BY <1>0, <3>3
  <2>7. Shown(b, r, units, still, all)
    <3>1. ~ r.backpressured /\ FinalOf(units).ssrc = r.ssrc /\ units # <<>> =>
            \E m \in Int : m > FinalOf(units).number /\ Stands(b, r.ssrc, m, all)
      BY <1>0, <2>6
    <3>2. units # <<>> =>
            /\ r.ssrc # 0 /\ FinalOf(units).ssrc \in r.retired \cup {r.ssrc}
            /\ r.replacing => FinalOf(units).ssrc # r.ssrc
            /\ r.request \/ still \/ r.replacing \/ (~ r.backpressured /\ Configured(b))
      BY <1>0, <2>5
    <3>3. Consistent(b)
      BY <1>0
    <3> QED
      BY <1>0, <2>4, <3>1, <3>2, <3>3, Zenon DEF Shown
  <2> QED
    BY <1>0, <1>5, <2>1, <2>7
<1>6. CASE ~ v.full /\ v.units # <<>>
  <2>1. /\ new # <<>> /\ FinalOf(v.units) = FinalOf(new)
        /\ ~ Awaits(v.receive) /\ v.receive.configured
    <3>1. Len(<<>>) = 0
      OBVIOUS
    <3> QED
      BY <1>0, <1>6, <3>1 DEF Gives, FinalOf
  <2>2. Configured(b) /\ n = FinalOf(v.units).number + 1
    BY <1>0, <2>1 DEF Trail
  <2>3. n > FinalOf(v.units).number
    <3>1. FinalOf(v.units).number \in Nat
      BY <1>0, <1>2, <1>6, FinalKnown
    <3> QED
      BY <1>0, <2>2, <3>1
  <2>4. ~ v.receive.replacing /\ ~ v.receive.backpressured
    BY <1>0, <2>1 DEF Awaits
  <2>5. Shown(b, v.receive, v.units, still, all)
    BY <1>0, <1>2, <1>3, <1>6, <2>1, <2>2, <2>3, <2>4 DEF Shown
  <2> QED
    BY <1>0, <1>6, <2>5
<1> QED
  BY <1>0, <1>4, <1>5, <1>6

LEMMA ShownExceeded ==
    ASSUME sent \in Seq(Genuine), SentOrdered, NEW r \in Receives,
           NEW a, NEW units, WholeUnits(units), NEW reported, NEW seen, NEW all,
           Shown(a, r, units, reported, seen),
           NEW b, NEW low \in Int, NEW n \in Int, low <= n, Stands(b, r.ssrc, n, all),
           ~ Configured(b),
           units # <<>> /\ ~ r.backpressured /\ FinalOf(units).ssrc = r.ssrc =>
             FinalOf(units).number < low
    PROVE  Shown(b, [r EXCEPT !.request = TRUE], units, reported, all)
<1> DEFINE q == [r EXCEPT !.request = TRUE]
<1>1. /\ q.ssrc = r.ssrc /\ q.retired = r.retired /\ q.replacing = r.replacing
      /\ q.backpressured = r.backpressured /\ q.request
  BY DEF Receives
<1> HIDE DEF q
<1>2. Consistent(b)
  BY DEF Stands
<1>3. ASSUME units # <<>>, ~ r.backpressured, FinalOf(units).ssrc = r.ssrc
      PROVE  \E m \in Int : m > FinalOf(units).number /\ Stands(b, r.ssrc, m, all)
  <2>1. FinalOf(units).number \in Nat
    BY <1>3, FinalKnown
  <2>2. n > FinalOf(units).number
    BY <1>3, <2>1
  <2> QED
    BY <2>2
<1>4. ASSUME units # <<>>
      PROVE  /\ r.ssrc # 0 /\ FinalOf(units).ssrc \in r.retired \cup {r.ssrc}
             /\ r.replacing => FinalOf(units).ssrc # r.ssrc
  BY <1>4 DEF Shown
<1>5. Shown(b, q, units, reported, all)
  BY <1>1, <1>2, <1>3, <1>4 DEF Shown
<1> QED
  BY <1>5 DEF q

LEMMA ShownTolerated ==
    ASSUME NEW r \in Receives, Awaits(r), NEW a, NEW units, NEW reported,
           NEW seen, NEW all, Shown(a, r, units, reported, seen)
    PROVE  Shown(NewAssembler, r, units, reported, all)
<1>1. Consistent(NewAssembler) /\ ~ Configured(NewAssembler)
  BY NewKnown
<1> QED
  BY <1>1 DEF Shown, Awaits

(***************************************************************************)
(* The units given, one behind the other, and the last one shown before.   *)
(***************************************************************************)
LEMMA ReferencesGiven ==
    ASSUME sent \in Seq(Genuine), SentOrdered, NEW r \in Receives,
           NEW a, NEW units, WholeUnits(units), NEW reported, NEW seen,
           Shown(a, r, units, reported, seen),
           NEW b, NEW n, NEW low, NEW new, NEW v,
           Leads(a, r, units, low, b, n, new, v), v.units # <<>>
    PROVE  Continues(v.units, units, r.ssrc, r.backpressured)
<1> DEFINE x == units[Len(units)]
           y == v.units[1]
<1>0. /\ low \in Int /\ WholeUnits(new)
      /\ Trail(new, r.ssrc, low, Configured(a), n, Configured(b))
      /\ Configured(a) /\ ~ Awaits(r) => low = FinalOf(units).number + 1
      /\ units # <<>> /\ ~ r.backpressured /\ FinalOf(units).ssrc = r.ssrc =>
           FinalOf(units).number < low
      /\ Gives(r, new, v, Len(new))
  BY DEF Leads
<1>1. WholeUnits(v.units) /\ v.units \in Seq(Units)
  BY <1>0 DEF Gives, Publishes, WholeUnits
<1>2. 1 \in 1..Len(v.units)
  BY <1>1, FinalKnown
<1>3. Whole(y.parts) /\ OfStream(y, r.ssrc)
  BY <1>0, <1>1, <1>2 DEF WholeUnits, Gives
<1>4. units # <<>> => /\ Whole(x.parts) /\ FinalOf(units).number \in Nat
                      /\ First(x).ssrc = FinalOf(units).ssrc
  BY FinalKnown
<1>5. FinalOf(units) = Final(x)
  BY DEF FinalOf
<1>6. ~ Awaits(r) => /\ y = new[1] /\ new # <<>>
                     /\ low <= First(y).number
                     /\ Configured(a) => low = First(y).number
                     /\ ~ y.keyframe => Configured(a)
  <2>1. ~ Awaits(r) => y = new[1]
    BY <1>0 DEF Gives
  <2>2. new # <<>>
    <3>1. Len(new) > 0 /\ Len(<<>>) = 0
      BY <1>0 DEF Gives
    <3> QED
      BY <3>1
  <2> QED
    BY <1>0, <2>1, <2>2 DEF Trail
<1>7. ASSUME ~ First(y).key
      PROVE  /\ units # <<>> /\ First(x).ssrc = r.ssrc
             /\ First(y).picture = First(x).picture + 1
  <2>1. ~ y.keyframe /\ First(y).ssrc = r.ssrc
    BY <1>3, <1>7 DEF OfStream
  <2>2. ~ Awaits(r)
    BY <1>0, <2>1 DEF Gives
  <2>3. Configured(a) /\ First(y).number = FinalOf(units).number + 1
    BY <1>0, <1>6, <2>1, <2>2
  <2>4. units # <<>> /\ FinalOf(units).ssrc = r.ssrc
    BY <2>2, <2>3 DEF Shown
  <2> HIDE DEF x, y
  <2>5. First(y).number = Final(x).number + 1 /\ Final(x).ssrc = First(y).ssrc
    BY <1>5, <2>1, <2>3, <2>4
  <2>6. First(x).ssrc = First(y).ssrc /\ First(y).picture = First(x).picture + 1
    BY <1>3, <1>4, <2>4, <2>5, NextUnit
  <2> QED
    BY <2>1, <2>4, <2>6
<1>8. ASSUME units # <<>>, ~ r.backpressured, First(x).ssrc = r.ssrc
      PROVE  First(x).picture < First(y).picture
  <2>1. FinalOf(units).ssrc = r.ssrc /\ FinalOf(units).number < low
    BY <1>0, <1>4, <1>8
  <2>2. ~ Awaits(r)
    BY <1>8, <2>1 DEF Shown, Awaits
  <2>3. low <= First(y).number /\ First(y).number \in Nat /\ First(y).ssrc = r.ssrc
    BY <1>3, <1>6, <2>2, GenuineKnown DEF OfStream
  <2>4. First(y).number > FinalOf(units).number
    BY <1>0, <1>4, <1>8, <2>1, <2>3
  <2> HIDE DEF x, y
  <2>5. First(y).number > Final(x).number /\ Final(x).ssrc = First(y).ssrc
    BY <1>5, <2>1, <2>3, <2>4
  <2> QED
    BY <1>3, <1>4, <1>8, <2>5, LaterUnit
<1>9. ASSUME NEW k \in 2..Len(v.units)
       PROVE  /\ First(v.units[k]).ssrc = First(v.units[k - 1]).ssrc
              /\ First(v.units[k]).picture = First(v.units[k - 1]).picture + 1
  <2>1. k \in 1..Len(v.units) /\ k - 1 \in 1..Len(v.units)
    BY <1>1
  <2>2. Whole(v.units[k].parts) /\ Whole(v.units[k - 1].parts)
    BY <1>1, <2>1 DEF WholeUnits
  <2>3. First(v.units[k]).ssrc = r.ssrc /\ Final(v.units[k - 1]).ssrc = r.ssrc
    BY <1>0, <2>1 DEF Gives, OfStream
  <2>4. First(v.units[k]).number = Final(v.units[k - 1]).number + 1
    BY <1>0 DEF Gives, Gapless
  <2> QED
    BY <2>2, <2>3, <2>4, NextUnit
<1> QED
  BY <1>3, <1>7, <1>8, <1>9 DEF Continues

-----------------------------------------------------------------------------
(* The steps *)

LEMMA UnitsStay ==
    ASSUME sent \in Seq(Genuine), NEW new \in Seq(Genuine), sent' = sent \o new,
           NEW units, WholeUnits(units)
    PROVE  WholeUnits(units)'
BY WholeStays DEF WholeUnits

LEMMA StandsStay ==
    ASSUME sent \in Seq(Genuine), NEW new \in Seq(Genuine), sent' = sent \o new,
           NEW a, NEW s, NEW m, NEW seen, Stands(a, s, m, seen)
    PROVE  Stands(a, s, m, seen)'
<1>1. PICK n \in Nat : \/ InOrder(a, s, n, seen) /\ m = n - Len(Parts(a))
                       \/ Drops(a, n, seen) /\ m = n
  BY DEF Stands
<1>2. CASE InOrder(a, s, n, seen) /\ m = n - Len(Parts(a))
  <2>1. Assembled(a, s, n)'
    BY <1>2, AssembledStays DEF InOrder
  <2>2. \A i \in 1..Len(sent) : i \in 1..Len(sent') /\ sent'[i] = sent[i]
    BY Appended
  <2>3. Buffered(a, s, n, seen)'
    BY <1>2, <2>2 DEF InOrder, Buffered
  <2>4. InOrder(a, s, n, seen)'
    BY <1>2, <2>1, <2>3 DEF InOrder
  <2> QED
    BY <1>2, <2>4 DEF Stands
<1>3. CASE Drops(a, n, seen) /\ m = n
  BY <1>3 DEF Stands, Drops
<1> QED
  BY <1>1, <1>2, <1>3

LEMMA HoldsStay ==
    ASSUME sent \in Seq(Genuine), NEW new \in Seq(Genuine), sent' = sent \o new,
           NEW a, NEW s, NEW seen, Holds(a, s, seen)
    PROVE  Holds(a, s, seen)'
<1>1. PICK m \in Int : Stands(a, s, m, seen)
  BY DEF Holds
<1>2. Stands(a, s, m, seen)'
  BY <1>1, StandsStay
<1> QED
  BY <1>2 DEF Holds

\* Nor does a step in which nothing is sent.
LEMMA NothingSent ==
    ASSUME sent \in Seq(Genuine), sent' = sent
    PROVE  /\ SentOrdered => SentOrdered'
           /\ \A units : WholeUnits(units) => WholeUnits(units)'
           /\ \A a, s, seen : Holds(a, s, seen) => Holds(a, s, seen)'
           /\ \A a, s, m, seen : Stands(a, s, m, seen) => Stands(a, s, m, seen)'
<1>1. sent' = sent \o <<>> /\ <<>> \in Seq(Genuine)
  OBVIOUS
<1>2. SentOrdered => SentOrdered'
  <2>1. \A i, j : Ordered(i, j)' <=> Ordered(i, j)
    BY ZenonT(40) DEF Ordered
  <2>2. \A i : Begins(i)' <=> Begins(i)
    BY Zenon DEF Begins
  <2> QED
    BY <2>1, <2>2, Zenon DEF SentOrdered
<1>3. ASSUME NEW units, WholeUnits(units) PROVE WholeUnits(units)'
  BY <1>1, <1>3, UnitsStay
<1>4. ASSUME NEW a, NEW s, NEW seen, Holds(a, s, seen) PROVE Holds(a, s, seen)'
  BY <1>1, <1>4, HoldsStay
<1>5. ASSUME NEW a, NEW s, NEW m, NEW seen, Stands(a, s, m, seen)
      PROVE  Stands(a, s, m, seen)'
  BY <1>1, <1>5, StandsStay
<1> QED
  BY <1>2, <1>3, <1>4, <1>5

LEMMA NewSent ==
    ASSUME ReceiveInvariant, PicturesInvariant,
           NEW key \in BOOLEAN, NEW parts \in KeyParts \cup DeltaParts,
           key \/ parts \in DeltaParts, SendPicture(key, parts) \/ StartStream(parts)
    PROVE  \E new : sent' = sent \o new /\ new \in Seq(Genuine) /\ SentOrdered'
<1>0. sent \in Seq(Genuine) /\ (sent # <<>> => LastSent \in Genuine)
  BY DEF ReceiveInvariant, LastSent
<1>1. ASSUME NEW ssrc \in 1..MaxStreams, NEW number \in Nat, NEW k \in BOOLEAN,
             k \/ parts \in DeltaParts,
             sent' = sent \o Packets(ssrc, number, k, parts),
             sent # <<>> => \/ ssrc = LastSent.ssrc /\ number = LastSent.number + 1
                            \/ ssrc > LastSent.ssrc
      PROVE  \E new : sent' = sent \o new /\ new \in Seq(Genuine) /\ SentOrdered'
  <2> DEFINE new == Packets(ssrc, number, k, parts)
  <2>1. IsPicture(new, ssrc, number, IF sent = <<>> THEN 1 ELSE LastSent.picture + 1)
    BY <1>0, <1>1, PacketsKnown
  <2>2. sent' = sent \o new /\ ssrc \in Nat
    BY <1>1, SpaceKnown
  <2> HIDE DEF new
  <2>3. SentOrdered'
    BY <1>0, <1>1, <2>1, <2>2, OrderGrows DEF PicturesInvariant
  <2> QED
    BY <2>1, <2>2, <2>3 DEF IsPicture
<1>2. CASE SendPicture(key, parts)
  <2>1. /\ sent # <<>> /\ LastSent.ssrc \in 1..MaxStreams /\ LastSent.number + 1 \in Nat
        /\ sent' = sent \o Packets(LastSent.ssrc, LastSent.number + 1, key, parts)
    BY <1>0, <1>2, GenuineKnown DEF SendPicture
  <2> QED
    BY <1>1, <2>1
<1>3. CASE StartStream(parts)
  <2> DEFINE ssrc == IF sent = <<>> THEN 1 ELSE LastSent.ssrc + 1
  <2>1. /\ ssrc \in 1..MaxStreams /\ FirstNumber \in Nat
        /\ sent # <<>> => ssrc > LastSent.ssrc
    BY <1>0, <1>3, GenuineKnown, ReceiveAssumption, SequenceAssumption DEF StartStream
  <2>2. sent' = sent \o Packets(ssrc, FirstNumber, TRUE, parts)
    BY <1>3 DEF StartStream
  <2> HIDE DEF ssrc
  <2> QED
    BY <1>1, <2>1, <2>2
<1> QED
  BY <1>2, <1>3

LEMMA PicturesSent ==
    ASSUME ReceiveInvariant, PicturesInvariant,
           NEW key \in BOOLEAN, NEW parts \in KeyParts \cup DeltaParts,
           key \/ parts \in DeltaParts, SendPicture(key, parts) \/ StartStream(parts)
    PROVE  PicturesInvariant'
<1>1. sent \in Seq(Genuine) /\ (sent # <<>> => LastSent \in Genuine)
  BY DEF ReceiveInvariant, LastSent
<1>2. PICK new : sent' = sent \o new /\ new \in Seq(Genuine) /\ SentOrdered'
  BY NewSent
<1>3. UNCHANGED <<opened, assembler, receive, published>>
  BY DEF SendPicture, StartStream
<1>4. WholeUnits(published.units)'
  BY <1>1, <1>2, <1>3, UnitsStay DEF PicturesInvariant
<1>5. ASSUME AssemblerHolds
      PROVE  AssemblerHolds'
  <2>1. CASE assembler = NewAssembler
    BY <1>3, <2>1 DEF AssemblerHolds
  <2>2. CASE /\ receive.ssrc \in 1..MaxStreams
             /\ Holds(assembler, receive.ssrc, opened[receive.ssrc])
    <3>1. ASSUME NEW a, NEW s, NEW seen, Holds(a, s, seen)
          PROVE  Holds(a, s, seen)'
      BY <1>1, <1>2, <3>1, HoldsStay
    <3>2. Holds(assembler, receive.ssrc, opened[receive.ssrc])'
      BY <1>3, <2>2, <3>1
    <3> QED
      BY <1>3, <2>2, <3>2 DEF AssemblerHolds
  <2> QED
    BY <1>5, <2>1, <2>2 DEF AssemblerHolds
<1> QED
  BY <1>2, <1>3, <1>4, <1>5 DEF PicturesInvariant, Running

\* A packet that is accepted comes neither too late nor after too long a loss.
LEMMA NearAccepted ==
    ASSUME ReceiveInvariant, NoLongLoss, NEW p \in Genuine, ~ Replayed(p),
           opened' = [opened EXCEPT ![p.ssrc] = @ \cup {p.number}]
    PROVE  Near(p.number, opened[p.ssrc]) /\ opened[p.ssrc] \in SUBSET Nat
<1> DEFINE s == p.ssrc
           seen == opened[s]
<1>1. s \in 1..MaxStreams /\ p.number \in Nat
  BY GenuineKnown
<1>2. seen \in SUBSET Nat /\ (seen # {} => HasHighest(seen))
  BY <1>1 DEF ReceiveInvariant
<1>3. SUFFICES ASSUME seen # {}
               PROVE  /\ \E h \in seen : (\A m \in seen : m <= h) /\ h - p.number < ReplayWindow
                      /\ \E m \in seen : p.number <= m + (Half - Window)
  BY <1>2 DEF Near
<1>4. Highest(s) \in seen /\ \A m \in seen : m <= Highest(s)
  BY <1>2, <1>3 DEF HasHighest, Highest
<1>5. p.number \notin seen /\ ~ (Highest(s) - p.number >= ReplayWindow)
  BY <1>3 DEF Replayed
<1>6. Highest(s) - p.number < ReplayWindow
  <2>1. PICK h \in Nat, n \in Nat : h = Highest(s) /\ n = p.number
    BY <1>1, <1>2, <1>4
  <2>2. ~ (h - n >= ReplayWindow)
    BY <1>5, <2>1
  <2>3. h - n < ReplayWindow
    BY <2>2, SpaceKnown
  <2> QED
    BY <2>1, <2>3
<1>7. p.number \in opened'[s] \ opened[s]
  BY <1>1, <1>5 DEF ReceiveInvariant
<1> QED
  BY <1>1, <1>3, <1>4, <1>6, <1>7 DEF NoLongLoss

LEMMA PublishedWhole ==
    ASSUME sent \in Seq(Genuine), sent' = sent,
           NEW units, WholeUnits(units), WholeUnits(published.units), Published(units)
    PROVE  WholeUnits(published.units)'
<1>1. published'.units = units \/ published' = published
  BY DEF Published
<1>2. WholeUnits(units)' /\ \A x : WholeUnits(x) => WholeUnits(x)'
  BY NothingSent
<1> QED
  BY <1>1, <1>2

\* What AcceptRtp does with the result of push.
Outcome(r, push, v) ==
    CASE push.error = "no" ->
                /\ receive' = v.receive
                /\ assembler' = IF v.full THEN NewAssembler ELSE push.a
                /\ Published(v.units)
      [] push.error = "ReorderWindowExceeded" ->
                /\ receive' = [r EXCEPT !.request = TRUE]
                /\ assembler' = push.a
                /\ UNCHANGED <<published, asked>>
      [] Tolerated(r, push.error) ->
                /\ receive' = r /\ assembler' = NewAssembler
                /\ UNCHANGED <<published, asked>>
      [] OTHER ->
                /\ receive' = [r EXCEPT !.failed = push.error]
                /\ assembler' = push.a
                /\ UNCHANGED <<published, asked>>

LEMMA OutcomeKnown ==
    ASSUME NEW r, NEW push, NEW v, Outcome(r, push, v)
    PROVE  /\ push.error = "no" =>
                /\ receive' = v.receive
                /\ assembler' = IF v.full THEN NewAssembler ELSE push.a
                /\ Published(v.units)
           /\ push.error = "ReorderWindowExceeded" =>
                /\ receive' = [r EXCEPT !.request = TRUE] /\ assembler' = push.a
                /\ published' = published /\ asked' = asked
           /\ push.error \notin {"no", "ReorderWindowExceeded"} =>
                /\ published' = published /\ asked' = asked
                /\ \/ receive' = r /\ assembler' = NewAssembler /\ Awaits(r)
                   \/ receive' = [r EXCEPT !.failed = push.error]
<1>1. CASE push.error = "no"
  BY <1>1 DEF Outcome, Tolerated
<1>2. CASE push.error = "ReorderWindowExceeded"
  BY <1>2 DEF Outcome, Tolerated
<1>3. CASE push.error \notin {"no", "ReorderWindowExceeded"} /\ Tolerated(r, push.error)
  BY <1>3 DEF Outcome, Tolerated, Awaits
<1>4. CASE push.error \notin {"no", "ReorderWindowExceeded"} /\ ~ Tolerated(r, push.error)
  BY <1>4 DEF Outcome
<1> QED
  BY <1>1, <1>2, <1>3, <1>4

LEMMA PicturesAccepted ==
    ASSUME ReceiveInvariant, PicturesInvariant, Running,
           NEW j \in 1..Len(sent), NEW room \in Int, NEW p, p = sent[j],
           NEW s, s = p.ssrc, NEW all, all = opened[s] \cup {p.number},
           Near(p.number, opened[s]), opened[s] \in SUBSET Nat,
           opened' = [opened EXCEPT ![s] = all],
           sent' = sent, AcceptRtp(p, room)
    PROVE  PicturesInvariant'
<1> DEFINE switches == receive.ssrc \notin {0, s}
           r == IF switches THEN Switched(s) ELSE [receive EXCEPT !.ssrc = s]
           base == IF switches THEN NewAssembler ELSE assembler
           push == Push(base, p)
           v == Accepted(r, push.units, room)
<1>1. sent \in Seq(Genuine) /\ SentOrdered /\ p \in Genuine /\ s \in 1..MaxStreams /\ s \in Nat
  <2>1. sent \in Seq(Genuine) /\ p \in Genuine
    BY DEF ReceiveInvariant
  <2> QED
    BY <2>1, GenuineKnown DEF PicturesInvariant
<1>2. /\ push.error = "no" =>
           /\ receive' = v.receive
           /\ assembler' = IF v.full THEN NewAssembler ELSE push.a
           /\ Published(v.units)
      /\ push.error = "ReorderWindowExceeded" =>
           receive' = [r EXCEPT !.request = TRUE] /\ assembler' = push.a
           /\ published' = published
      /\ push.error \notin {"no", "ReorderWindowExceeded"} =>
           /\ published' = published
           /\ \/ receive' = r /\ assembler' = NewAssembler
              \/ receive' = [r EXCEPT !.failed = push.error]
  <2>1. Outcome(r, push, v)
    BY DEF AcceptRtp, Outcome
  <2> HIDE DEF r, push, v
  <2> QED
    BY <2>1, OutcomeKnown
<1>3. receive \in Receives /\ (receive.ssrc = 0 => assembler = NewAssembler) /\ AssemblerHolds
  BY DEF PicturesInvariant
<1>4. opened'[s] = all /\ SentOrdered'
  <2>1. SentOrdered'
    BY <1>1, NothingSent
  <2>2. opened'[s] = all
    BY <1>1 DEF ReceiveInvariant
  <2> QED
    BY <2>1, <2>2
<1>5. r \in Receives /\ r.ssrc = s
  <2>1. Switched(s) \in Receives /\ Switched(s).ssrc = s
    BY <1>1, <1>3 DEF Switched, Receives
  <2>2. [receive EXCEPT !.ssrc = s] \in Receives /\ [receive EXCEPT !.ssrc = s].ssrc = s
    BY <1>1, <1>3 DEF Receives
  <2> QED
    BY <2>1, <2>2
<1>6. base = NewAssembler \/ Holds(base, s, opened[s])
  BY <1>3 DEF AssemblerHolds
<1> HIDE DEF switches, r, base
<1>7. /\ push.error = "no" => WholeUnits(push.units) /\ Holds(push.a, s, all)
      /\ push.error = "ReorderWindowExceeded" => Holds(push.a, s, all)
  BY <1>1, <1>6, AnyPushed
<1> HIDE DEF push
<1>8. \A a : Holds(a, s, all) => Holds(a, s, all)'
  BY <1>1, NothingSent
<1>9. ASSUME receive' \in Receives, receive'.ssrc = s, WholeUnits(published.units)',
             assembler' = NewAssembler \/ (assembler' = push.a /\ Holds(push.a, s, all))
      PROVE  PicturesInvariant'
  <2>1. AssemblerHolds'
    <3>1. CASE assembler' = NewAssembler
      BY <3>1 DEF AssemblerHolds
    <3>2. CASE assembler' = push.a /\ Holds(push.a, s, all)
      <4>1. Holds(assembler, receive.ssrc, opened[receive.ssrc])'
        BY <1>4, <1>8, <1>9, <3>2
      <4> QED
        BY <1>1, <1>9, <4>1 DEF AssemblerHolds
    <3> QED
      BY <1>9, <3>1, <3>2
  <2>2. receive'.ssrc # 0
    BY <1>1, <1>9
  <2> QED
    BY <1>4, <1>9, <2>1, <2>2 DEF PicturesInvariant
<1>10. WholeUnits(published.units) /\ (published' = published => WholeUnits(published.units)')
  <2>1. WholeUnits(published.units)
    BY DEF PicturesInvariant
  <2>2. \A x : WholeUnits(x) => WholeUnits(x)'
    BY <1>1, NothingSent
  <2> QED
    BY <2>1, <2>2
<1>11. CASE push.error = "no"
  <2>1. WholeUnits(push.units) /\ Holds(push.a, s, all)
    BY <1>7, <1>11
  <2>2. v.receive \in Receives /\ v.receive.ssrc = s /\ WholeUnits(v.units)
    <3>1. Publishes(v, s)
      BY <1>5, <2>1, AcceptedKnown
    <3> HIDE DEF v
    <3> QED
      BY <3>1 DEF Publishes, Views
  <2> HIDE DEF v
  <2>3. WholeUnits(published.units)'
    BY <1>1, <1>2, <1>10, <1>11, <2>2, PublishedWhole
  <2> QED
    BY <1>2, <1>9, <1>11, <2>1, <2>2, <2>3
<1>12. CASE push.error = "ReorderWindowExceeded"
  <2>1. Holds(push.a, s, all)
    BY <1>7, <1>12
  <2>2. [r EXCEPT !.request = TRUE] \in Receives /\ [r EXCEPT !.request = TRUE].ssrc = s
    BY <1>5 DEF Receives
  <2> QED
    BY <1>2, <1>9, <1>10, <1>12, <2>1, <2>2
<1>13. CASE push.error \notin {"no", "ReorderWindowExceeded"}
  <2>1. CASE receive' = r /\ assembler' = NewAssembler
    BY <1>2, <1>5, <1>9, <1>10, <1>13, <2>1
  <2>2. CASE receive' = [r EXCEPT !.failed = push.error]
    <3>1. receive'.failed # "no"
      BY <1>5, <1>13, <2>2 DEF Receives
    <3> QED
      BY <1>2, <1>4, <1>10, <1>13, <3>1 DEF PicturesInvariant, Running
  <2> QED
    BY <1>2, <1>13, <2>1, <2>2
<1> QED
  BY <1>11, <1>12, <1>13

LEMMA PicturesDelivered ==
    ASSUME ReceiveInvariant, PicturesInvariant, NoLongLoss,
           NEW i \in InTheAir, NEW room \in Rooms, Deliver(sent[i], room)
    PROVE  PicturesInvariant'
<1> DEFINE p == sent[i]
<1>1. /\ Running /\ ~ Replayed(p) /\ sent' = sent
      /\ opened' = [opened EXCEPT ![p.ssrc] = @ \cup {p.number}]
      /\ \/ Ignores(p) /\ UNCHANGED <<assembler, receive, published>>
         \/ AcceptRtp(p, room)
  BY DEF Deliver
<1>2. i \in 1..Len(sent) /\ p \in Genuine /\ room \in Int
  <2>1. sent \in Seq(Genuine)
    BY DEF ReceiveInvariant
  <2>2. i \in 1..Len(sent) /\ p \in Genuine
    BY <2>1 DEF InTheAir
  <2> QED
    BY <2>2, SpaceKnown DEF Rooms
<1>3. Near(p.number, opened[p.ssrc]) /\ opened[p.ssrc] \in SUBSET Nat
  BY <1>1, <1>2, NearAccepted
<1>4. CASE AcceptRtp(p, room)
  BY <1>1, <1>2, <1>3, <1>4, PicturesAccepted
<1>5. CASE Ignores(p) /\ UNCHANGED <<assembler, receive, published>>
  <2>1. receive.ssrc # p.ssrc
    BY <1>5 DEF Ignores
  <2>2. receive.ssrc \in 1..MaxStreams => opened'[receive.ssrc] = opened[receive.ssrc]
    BY <1>1, <1>2, <2>1, GenuineKnown DEF ReceiveInvariant
  <2>3. /\ SentOrdered => SentOrdered'
        /\ \A units : WholeUnits(units) => WholeUnits(units)'
        /\ \A a, s, seen : Holds(a, s, seen) => Holds(a, s, seen)'
    BY <1>1, NothingSent DEF ReceiveInvariant
  <2>4. AssemblerHolds => AssemblerHolds'
    <3>1. CASE assembler = NewAssembler
      BY <1>5, <3>1 DEF AssemblerHolds
    <3>2. CASE /\ receive.ssrc \in 1..MaxStreams
               /\ Holds(assembler, receive.ssrc, opened[receive.ssrc])
      <4>1. Holds(assembler, receive.ssrc, opened[receive.ssrc])'
        BY <1>5, <2>2, <2>3, <3>2
      <4> QED
        BY <1>5, <3>2, <4>1 DEF AssemblerHolds
    <3> QED
      BY <3>1, <3>2 DEF AssemblerHolds
  <2>5. WholeUnits(published.units)' /\ SentOrdered'
    BY <1>5, <2>3 DEF PicturesInvariant
  <2> QED
    BY <1>5, <2>4, <2>5 DEF PicturesInvariant, Running
<1> QED
  BY <1>1, <1>4, <1>5

LEMMA PicturesStep ==
    ReceiveInvariant /\ PicturesInvariant /\ [Next]_vars /\ [NoLongLoss]_vars
    => PicturesInvariant'
<1> SUFFICES ASSUME ReceiveInvariant, PicturesInvariant, [Next]_vars, [NoLongLoss]_vars
             PROVE  PicturesInvariant'
  OBVIOUS
<1>1. ASSUME NEW parts \in KeyParts, StartStream(parts) \/ SendPicture(TRUE, parts)
      PROVE  PicturesInvariant'
  BY <1>1, PicturesSent
<1>2. ASSUME NEW parts \in DeltaParts, SendPicture(FALSE, parts)
      PROVE  PicturesInvariant'
  BY <1>2, PicturesSent
<1>3. ASSUME sent' = sent, opened' = opened, assembler' = assembler, published' = published,
             receive' \in Receives \/ receive' = receive, receive'.ssrc = receive.ssrc,
             Running \/ receive' = receive
      PROVE  PicturesInvariant'
  <2>3. /\ SentOrdered => SentOrdered'
        /\ \A units : WholeUnits(units) => WholeUnits(units)'
        /\ \A a, s, seen : Holds(a, s, seen) => Holds(a, s, seen)'
    BY <1>3, NothingSent DEF ReceiveInvariant
  <2>1. WholeUnits(published.units)' /\ SentOrdered'
    BY <1>3, <2>3 DEF PicturesInvariant
  <2>2. AssemblerHolds => AssemblerHolds'
    <3>1. CASE assembler = NewAssembler
      BY <1>3, <3>1 DEF AssemblerHolds
    <3>2. CASE /\ receive.ssrc \in 1..MaxStreams
               /\ Holds(assembler, receive.ssrc, opened[receive.ssrc])
      <4>1. Holds(assembler, receive.ssrc, opened[receive.ssrc])'
        BY <1>3, <2>3, <3>2
      <4> QED
        BY <1>3, <3>2, <4>1 DEF AssemblerHolds
    <3> QED
      BY <3>1, <3>2 DEF AssemblerHolds
  <2> QED
    BY <1>3, <2>1, <2>2 DEF PicturesInvariant, Running
<1>4. ASSUME NEW i \in InTheAir, NEW room \in Rooms, Deliver(sent[i], room)
      PROVE  PicturesInvariant'
  <2>1. CASE NoLongLoss
    BY <1>4, <2>1, PicturesDelivered
  <2>2. CASE UNCHANGED vars
    BY <1>3, <2>2 DEF vars
  <2> QED
    BY <2>1, <2>2
<1>5. CASE Report
  <2>1. /\ Running /\ receive \in Receives /\ receive' = [receive EXCEPT !.request = FALSE]
        /\ UNCHANGED <<sent, opened, assembler, published>>
    BY <1>5 DEF Report, PicturesInvariant
  <2>2. receive' \in Receives /\ receive'.ssrc = receive.ssrc
    BY <2>1 DEF Receives
  <2> QED
    BY <1>3, <2>1, <2>2
<1>6. CASE UNCHANGED vars
  BY <1>3, <1>6 DEF vars
<1> QED
  BY <1>1, <1>2, <1>4, <1>5, <1>6 DEF Next

LEMMA PicturesInit == Init => ReceiveInvariant /\ PicturesInvariant
<1> SUFFICES ASSUME Init PROVE ReceiveInvariant /\ PicturesInvariant
  OBVIOUS
<1>1. sent = <<>> /\ assembler = NewAssembler /\ published.units = <<>>
  BY DEF Init
<1>2. receive \in Receives
  BY DEF Init, Receives
<1>3. SentOrdered
  <2>1. 1..Len(<<>>) = {}
    OBVIOUS
  <2> QED
    BY <1>1, <2>1 DEF SentOrdered
<1>4. ReceiveInvariant
  BY DEF Init, ReceiveInvariant
<1> QED
  BY <1>1, <1>2, <1>3, <1>4, NoUnits DEF PicturesInvariant, AssemblerHolds

-----------------------------------------------------------------------------
(* What is shown, step by step *)

\* The body of ReferencesKept.
KeepsReferences ==
    \A k \in DOMAIN published'.units :
        LET p == published'.units[k].parts[1] IN
        /\ p.key \/ Before(k)' = [ssrc |-> p.ssrc, picture |-> p.picture - 1]
        /\ (k = 1 => ~ receive.backpressured) /\ Before(k)'.ssrc = p.ssrc
           => Before(k)'.picture < p.picture

LEMMA UnitsKeepReferences ==
    ASSUME sent \in Seq(Genuine), SentOrdered, WholeUnits(published.units),
           published.units = <<>> => published.before.ssrc = 0,
           NEW given \in Seq(Units), NEW s \in Nat \ {0},
           \A k \in 1..Len(given) : OfStream(given[k], s),
           given # <<>>, Published(given),
           Continues(given, published.units, s, receive.backpressured)
    PROVE  KeepsReferences
<1> DEFINE last == First(published.units[Len(published.units)])
           p == First(given[1])
<1>1. /\ published'.units = given
      /\ published'.before = IF published.units = <<>> THEN published.before
                             ELSE [ssrc |-> last.ssrc, picture |-> last.picture]
  BY DEF Published, First
<1>0. /\ ~ p.key => /\ published.units # <<>> /\ last.ssrc = s
                    /\ p.picture = last.picture + 1
      /\ published.units # <<>> /\ ~ receive.backpressured /\ last.ssrc = s =>
           last.picture < p.picture
      /\ \A k \in 2..Len(given) :
           /\ First(given[k]).ssrc = First(given[k - 1]).ssrc
           /\ First(given[k]).picture = First(given[k - 1]).picture + 1
  BY DEF Continues
<1>2. SUFFICES ASSUME NEW k \in 1..Len(given)
               PROVE  LET q == First(given[k]) IN
                      /\ q.key \/ Before(k)' = [ssrc |-> q.ssrc, picture |-> q.picture - 1]
                      /\ (k = 1 => ~ receive.backpressured) /\ Before(k)'.ssrc = q.ssrc
                         => Before(k)'.picture < q.picture
  <2>1. DOMAIN given = 1..Len(given)
    OBVIOUS
  <2> QED
    BY <1>1, <2>1, Zenon DEF KeepsReferences, First
<1>3. Before(k)' = IF k = 1 THEN published'.before
                   ELSE LET first == First(given[k - 1])
                        IN  [ssrc |-> first.ssrc, picture |-> first.picture]
  BY <1>1 DEF Before, First
<1>4. \A i \in 1..Len(given) : First(given[i]).ssrc = s /\ First(given[i]).picture \in Nat
  BY GenuineKnown DEF OfStream
<1>5. CASE k = 1
  <2>1. First(given[k]) = p /\ p.ssrc = s /\ Before(k)' = published'.before
    BY <1>3, <1>4, <1>5
  <2>2. ASSUME ~ p.key
        PROVE  Before(k)' = [ssrc |-> p.ssrc, picture |-> p.picture - 1]
    <3>1. Before(k)' = [ssrc |-> last.ssrc, picture |-> last.picture] /\ last.ssrc = s
      BY <1>0, <1>1, <2>1, <2>2
    <3>2. last.picture \in Nat
      <4>1. published.units # <<>>
        BY <1>0, <2>2
      <4>2. /\ Len(published.units) \in 1..Len(published.units)
            /\ Whole(published.units[Len(published.units)].parts)
        BY <4>1, FinalKnown
      <4>3. PICK e \in 1..Len(sent), f \in 1..Len(sent) :
              Ends(published.units[Len(published.units)].parts, e, f)
        BY <4>2, WholeEnds
      <4>4. last = sent[e] /\ sent[e] \in Genuine
        BY <4>3 DEF Ends, First
      <4> QED
        BY <4>4, GenuineKnown
    <3>3. PICK n \in Nat : n = last.picture
      BY <3>2
    <3>4. p.picture = n + 1 /\ p.picture - 1 = n
      BY <1>0, <2>2, <3>3
    <3> QED
      BY <2>1, <3>1, <3>3, <3>4
  <2>3. ASSUME ~ receive.backpressured, Before(k)'.ssrc = p.ssrc
        PROVE  Before(k)'.picture < p.picture
    <3>1. published.units # <<>>
      BY <1>1, <2>1, <2>3
    <3>2. Before(k)' = [ssrc |-> last.ssrc, picture |-> last.picture]
      BY <1>1, <2>1, <3>1
    <3>3. Before(k)'.ssrc = last.ssrc /\ Before(k)'.picture = last.picture
      BY <3>2
    <3> QED
      BY <1>0, <2>1, <2>3, <3>1, <3>3
  <2> QED
    BY <1>5, <2>1, <2>2, <2>3
<1>6. CASE k # 1
  <2>1. k \in 2..Len(given) /\ k - 1 \in 1..Len(given)
    BY <1>6
  <2> DEFINE first == First(given[k - 1])
             q == First(given[k])
  <2>2. Before(k)' = [ssrc |-> first.ssrc, picture |-> first.picture]
    BY <1>3, <1>6
  <2>3. first.ssrc = q.ssrc /\ q.picture = first.picture + 1
    BY <1>0, <2>1
  <2>4. PICK n \in Nat : n = first.picture
    BY <1>4, <2>1
  <2> HIDE DEF first, q
  <2>5. q.picture - 1 = n /\ n < q.picture
    BY <2>3, <2>4
  <2>6. Before(k)' = [ssrc |-> q.ssrc, picture |-> q.picture - 1]
    BY <2>2, <2>3, <2>4, <2>5
  <2>7. Before(k)'.picture < q.picture
    BY <2>2, <2>4, <2>5
  <2> QED
    BY <2>6, <2>7 DEF q
<1> QED
  BY <1>5, <1>6

\* The receive state and the assembler that take a packet of stream s.
LEMMA ShownBase ==
    ASSUME ReceiveInvariant, PicturesInvariant, ShownInvariant, Running,
           NEW s \in 1..MaxStreams, receive.ssrc \notin {0, s} => s \notin receive.retired,
           NEW switches, switches = (receive.ssrc \notin {0, s}),
           NEW r, r = IF switches THEN Switched(s) ELSE [receive EXCEPT !.ssrc = s],
           NEW a, a = IF switches THEN NewAssembler ELSE assembler
    PROVE  /\ r \in Receives /\ r.ssrc = s
           /\ a = NewAssembler \/ Holds(a, s, opened[s])
           /\ Shown(a, r, published.units, asked, opened[s])
           /\ published.units # <<>> /\ FinalOf(published.units).ssrc = s =>
                r.backpressured = receive.backpressured
<1> DEFINE units == published.units
<1>1. receive \in Receives /\ (receive.ssrc = 0 => assembler = NewAssembler) /\ AssemblerHolds
  BY DEF PicturesInvariant
<1>2. Shown(assembler, receive, units, asked, opened[receive.ssrc])
  BY DEF ShownInvariant
<1>3. s \in Nat /\ s # 0
  OBVIOUS
<1>4. Consistent(NewAssembler) /\ ~ Configured(NewAssembler)
  BY NewKnown
<1>5. CASE switches
  <2>1. /\ r \in Receives /\ r.ssrc = s /\ r.replacing
        /\ r.retired = receive.retired \cup {receive.ssrc}
    BY <1>1, <1>3, <1>5 DEF Switched, Receives
  <2>2. a = NewAssembler /\ s \notin receive.retired \cup {receive.ssrc}
    BY <1>5
  <2>3. units # <<>> => FinalOf(units).ssrc \in receive.retired \cup {receive.ssrc}
    BY <1>2 DEF Shown
  <2> HIDE DEF units
  <2>4. Shown(a, r, units, asked, opened[s])
    BY <1>3, <1>4, <2>1, <2>2, <2>3 DEF Shown, Awaits
  <2> QED
    BY <2>1, <2>2, <2>3, <2>4 DEF units
<1>6. CASE ~ switches /\ receive.ssrc = 0
  <2>1. r \in Receives /\ r.ssrc = s /\ r.backpressured = receive.backpressured
    BY <1>1, <1>3, <1>6 DEF Receives
  <2>2. a = NewAssembler /\ units = <<>>
    BY <1>1, <1>2, <1>6 DEF Shown
  <2> HIDE DEF units
  <2>3. Shown(a, r, units, asked, opened[s])
    BY <1>4, <2>2 DEF Shown
  <2> QED
    BY <2>1, <2>2, <2>3 DEF units
<1>7. CASE ~ switches /\ receive.ssrc # 0
  <2>1. receive.ssrc = s
    BY <1>7
  <2>2. r = receive
    BY <1>1, <1>7, <2>1 DEF Receives
  <2> QED
    BY <1>1, <1>2, <1>7, <2>1, <2>2 DEF AssemblerHolds
<1> QED
  BY <1>5, <1>6, <1>7

\* What the server sends changes nothing of it.
LEMMA ShownStays ==
    ASSUME sent \in Seq(Genuine), NEW new \in Seq(Genuine), sent' = sent \o new,
           NEW a, NEW r, NEW units, NEW reported, NEW seen,
           Shown(a, r, units, reported, seen)
    PROVE  Shown(a, r, units, reported, seen)'
<1>1. \A m : Stands(a, r.ssrc, m, seen) => Stands(a, r.ssrc, m, seen)'
  BY StandsStay
<1> QED
  BY <1>1 DEF Shown

LEMMA ShownAccepted ==
    ASSUME ReceiveInvariant, PicturesInvariant, ShownInvariant, Running,
           NEW j \in 1..Len(sent), NEW room \in Int, NEW p, p = sent[j],
           NEW s, s = p.ssrc, NEW all, all = opened[s] \cup {p.number},
           Near(p.number, opened[s]), opened[s] \in SUBSET Nat,
           opened' = [opened EXCEPT ![s] = all],
           sent' = sent, ~ Ignores(p), AcceptRtp(p, room)
    PROVE  ShownInvariant' /\ (published' = published \/ KeepsReferences)
<1> DEFINE switches == receive.ssrc \notin {0, s}
           r == IF switches THEN Switched(s) ELSE [receive EXCEPT !.ssrc = s]
           base == IF switches THEN NewAssembler ELSE assembler
           push == Push(base, p)
           v == Accepted(r, push.units, room)
           units == published.units
<1>1. sent \in Seq(Genuine) /\ SentOrdered /\ p \in Genuine /\ s \in 1..MaxStreams /\ s \in Nat
  <2>1. sent \in Seq(Genuine) /\ p \in Genuine
    BY DEF ReceiveInvariant
  <2> QED
    BY <2>1, GenuineKnown DEF PicturesInvariant
<1>2. Outcome(r, push, v)
  BY DEF AcceptRtp, Outcome
<1>3. /\ WholeUnits(units) /\ (units = <<>> => published.before.ssrc = 0)
      /\ opened'[s] = all
  <2>1. opened'[s] = all
    BY <1>1 DEF ReceiveInvariant
  <2> QED
    BY <2>1 DEF PicturesInvariant, ShownInvariant
<1>4. /\ r \in Receives /\ r.ssrc = s
      /\ base = NewAssembler \/ Holds(base, s, opened[s])
      /\ Shown(base, r, units, asked, opened[s])
      /\ units # <<>> /\ FinalOf(units).ssrc = s =>
           r.backpressured = receive.backpressured
  <2>1. receive.ssrc \notin {0, s} => s \notin receive.retired
    BY DEF Ignores
  <2>2. /\ switches = (receive.ssrc \notin {0, s})
        /\ r = IF switches THEN Switched(s) ELSE [receive EXCEPT !.ssrc = s]
        /\ base = IF switches THEN NewAssembler ELSE assembler
    OBVIOUS
  <2> HIDE DEF switches, r, base
  <2> QED
    BY <1>1, <2>1, <2>2, ShownBase, SMTT(30)
<1> HIDE DEF switches, r, base
<1>5. PICK low \in Int :
        /\ Pushed(push, s, low, Configured(base), all)
        /\ Configured(base) /\ ~ Awaits(r) => low = FinalOf(units).number + 1
        /\ units # <<>> /\ ~ r.backpressured /\ FinalOf(units).ssrc = s =>
             FinalOf(units).number < low
  <2>1. push = Push(base, sent[j]) /\ s = sent[j].ssrc /\ all = opened[s] \cup {sent[j].number}
    OBVIOUS
  <2>2. Near(sent[j].number, opened[s])
    OBVIOUS
  <2> HIDE DEF push
  <2> QED
    BY <1>1, <1>3, <1>4, <2>1, <2>2, ShownPushed, Zenon
<1> HIDE DEF push
<1>6. ASSUME NEW b, NEW q, NEW shows, NEW reported, Shown(b, q, shows, reported, all),
             q.ssrc = s, assembler' = b, receive' = q, published'.units = shows,
             asked' = reported, shows = <<>> => published'.before.ssrc = 0
      PROVE  ShownInvariant'
  <2>1. sent' = sent \o <<>> /\ <<>> \in Seq(Genuine)
    BY <1>1
  <2>2. Shown(b, q, shows, reported, all)'
    BY <1>1, <1>6, <2>1, ShownStays
  <2>3. opened'[receive'.ssrc] = all
    BY <1>3, <1>6
  <2>4. Shown(assembler, receive, published.units, asked, opened[receive.ssrc])'
    BY <1>6, <2>2, <2>3
  <2> QED
    BY <1>6, <2>4 DEF ShownInvariant
<1>7. CASE push.error = "no"
  <2>1. /\ receive' = v.receive
        /\ assembler' = IF v.full THEN NewAssembler ELSE push.a
        /\ Published(v.units)
    <3> HIDE DEF v
    <3> QED
      BY <1>2, <1>7, OutcomeKnown
  <2>2. WholeUnits(push.units)
    BY <1>5, <1>7 DEF Pushed
  <2>3. PICK n \in Int :
          /\ Stands(push.a, s, n, all)
          /\ Trail(push.units, s, low, Configured(base), n, Configured(push.a))
    BY <1>5, <1>7 DEF Pushed
  <2>4. /\ \A k \in 1..Len(push.units) : OfStream(push.units[k], s)
        /\ Gapless(push.units)
    BY <2>3 DEF Trail
  <2>5. push.units # <<>> /\ ~ Awaits(r) => push.units[1].keyframe \/ r.configured
    BY <1>4, <2>3 DEF Trail, Shown
  <2>6. Gives(r, push.units, v, Len(push.units))
    BY <1>4, <2>2, <2>4, <2>5, AcceptedGives
  <2> HIDE DEF v
  <2>7. Consistent(push.a)
    BY <2>3 DEF Stands
  <2> DEFINE on == IF v.full THEN NewAssembler ELSE push.a
             shows == IF v.units = <<>> THEN units ELSE v.units
  <2>8. Leads(base, r, units, low, push.a, n, push.units, v)
    BY <1>4, <1>5, <2>2, <2>3, <2>6 DEF Leads
  <2>9. Shown(on, v.receive, shows, asked', all)
    <3>1. r.ssrc \in Nat \ {0} /\ Stands(push.a, r.ssrc, n, all)
      BY <1>1, <1>4, <2>3
    <3>2. asked /\ v.units = <<>> => asked'
      BY <2>1 DEF Published
    <3>3. /\ on = IF v.full THEN NewAssembler ELSE push.a
          /\ shows = IF v.units = <<>> THEN units ELSE v.units
      OBVIOUS
    <3>4. r \in Receives /\ WholeUnits(units) /\ Shown(base, r, units, asked, opened[s])
      BY <1>1, <1>3, <1>4
    <3> HIDE DEF on, shows, units
    <3>5. Accepting(r, base, units, asked, opened[s], all, push.a, n, low, push.units, v,
                    asked', on, shows)
      BY <2>8, <3>1, <3>2, <3>3, <3>4 DEF Accepting
    <3> QED
      BY <1>1, <3>5, ShownGiven
  <2>10. /\ published'.units = shows /\ (shows = <<>> => published'.before.ssrc = 0)
         /\ v.receive.ssrc = s /\ assembler' = on
    <3>1. v.receive.ssrc = s
      BY <1>4, <2>6 DEF Gives, Publishes
    <3> QED
      BY <1>3, <2>1, <3>1 DEF Published
  <2> HIDE DEF on, shows
  <2>11. ShownInvariant'
    BY <1>6, <2>1, <2>9, <2>10
  <2>12. CASE v.units = <<>>
    BY <2>1, <2>11, <2>12 DEF Published
  <2>13. CASE v.units # <<>>
    <3> DEFINE last == First(units[Len(units)])
    <3>1. Continues(v.units, units, r.ssrc, r.backpressured)
      BY <1>1, <1>3, <1>4, <2>8, <2>13, ReferencesGiven
    <3>2. units # <<>> => last.ssrc = FinalOf(units).ssrc
      BY <1>1, <1>3, FinalKnown
    <3>3. Continues(v.units, units, s, receive.backpressured)
      BY <1>4, <3>1, <3>2 DEF Continues
    <3>4. v.units \in Seq(Units) /\ \A k \in 1..Len(v.units) : OfStream(v.units[k], s)
      BY <1>4, <2>6 DEF Gives, Publishes, WholeUnits
    <3>5. s \in Nat \ {0}
      BY <1>1
    <3>6. Published(v.units) /\ v.units # <<>>
      BY <2>1, <2>13
    <3>7. KeepsReferences
      BY <1>1, <1>3, <3>3, <3>4, <3>5, <3>6, UnitsKeepReferences
    <3> QED
      BY <2>11, <3>7
  <2> QED
    BY <2>12, <2>13
<1>8. CASE push.error = "ReorderWindowExceeded"
  <2>1. /\ receive' = [r EXCEPT !.request = TRUE] /\ assembler' = push.a
        /\ published' = published /\ asked' = asked
    <3> HIDE DEF v
    <3> QED
      BY <1>2, <1>8, OutcomeKnown
  <2>2. ~ Configured(push.a) /\ \E n \in Int : low <= n /\ Stands(push.a, s, n, all)
    BY <1>5, <1>8 DEF Pushed
  <2>3. PICK n \in Int : low <= n /\ Stands(push.a, s, n, all)
    BY <2>2
  <2> DEFINE q == [r EXCEPT !.request = TRUE]
  <2>4. Shown(push.a, q, units, asked, all)
    BY <1>1, <1>3, <1>4, <1>5, <2>2, <2>3, ShownExceeded
  <2>5. q.ssrc = s
    BY <1>4 DEF Receives
  <2> HIDE DEF q
  <2>6. receive' = q
    BY <2>1 DEF q
  <2> QED
    BY <1>3, <1>6, <2>1, <2>4, <2>5, <2>6
<1>9. CASE push.error \notin {"no", "ReorderWindowExceeded"}
  <2>1. /\ published' = published /\ asked' = asked
        /\ \/ receive' = r /\ assembler' = NewAssembler /\ Awaits(r)
           \/ receive' = [r EXCEPT !.failed = push.error]
    <3> HIDE DEF v
    <3> QED
      BY <1>2, <1>9, OutcomeKnown
  <2>2. CASE receive' = r /\ assembler' = NewAssembler /\ Awaits(r)
    <3>1. Shown(NewAssembler, r, units, asked, all)
      BY <1>4, <2>2, ShownTolerated
    <3> QED
      BY <1>3, <1>4, <1>6, <2>1, <2>2, <3>1
  <2>3. CASE receive' = [r EXCEPT !.failed = push.error]
    <3>1. receive'.failed # "no"
      BY <1>4, <1>9, <2>3 DEF Receives
    <3> QED
      BY <1>3, <2>1, <3>1 DEF ShownInvariant, Running
  <2> QED
    BY <2>1, <2>2, <2>3
<1> QED
  BY <1>7, <1>8, <1>9

LEMMA ShownDelivered ==
    ASSUME ReceiveInvariant, PicturesInvariant, ShownInvariant, NoLongLoss,
           NEW i \in InTheAir, NEW room \in Rooms, Deliver(sent[i], room)
    PROVE  ShownInvariant' /\ (published' = published \/ KeepsReferences)
<1> DEFINE p == sent[i]
<1>1. /\ Running /\ ~ Replayed(p) /\ sent' = sent
      /\ opened' = [opened EXCEPT ![p.ssrc] = @ \cup {p.number}]
      /\ \/ Ignores(p) /\ UNCHANGED <<assembler, receive, published, asked>>
         \/ ~ Ignores(p) /\ AcceptRtp(p, room)
  BY DEF Deliver
<1>2. i \in 1..Len(sent) /\ p \in Genuine /\ room \in Int /\ sent \in Seq(Genuine)
  <2>1. sent \in Seq(Genuine)
    BY DEF ReceiveInvariant
  <2>2. i \in 1..Len(sent) /\ p \in Genuine
    BY <2>1 DEF InTheAir
  <2> QED
    BY <2>1, <2>2, SpaceKnown DEF Rooms
<1>3. Near(p.number, opened[p.ssrc]) /\ opened[p.ssrc] \in SUBSET Nat
  BY <1>1, <1>2, NearAccepted
<1>4. CASE ~ Ignores(p) /\ AcceptRtp(p, room)
  BY <1>1, <1>2, <1>3, <1>4, ShownAccepted
<1>5. CASE Ignores(p) /\ UNCHANGED <<assembler, receive, published, asked>>
  <2>1. receive.ssrc # p.ssrc
    BY <1>5 DEF Ignores
  <2>2. opened'[receive.ssrc] = opened[receive.ssrc]
    BY <1>1, <1>2, <1>5, <2>1, GenuineKnown DEF ReceiveInvariant, Ignores
  <2>3. sent' = sent \o <<>> /\ <<>> \in Seq(Genuine)
    BY <1>1, <1>2
  <2>4. Shown(assembler, receive, published.units, asked, opened[receive.ssrc])'
    <3>1. Shown(assembler, receive, published.units, asked, opened[receive.ssrc])
      BY <1>1 DEF ShownInvariant
    <3> QED
      BY <1>2, <1>5, <2>2, <2>3, <3>1, ShownStays
  <2> QED
    BY <1>5, <2>4 DEF ShownInvariant
<1> QED
  BY <1>1, <1>4, <1>5

LEMMA ShownStep ==
    ASSUME ReceiveInvariant, PicturesInvariant, ShownInvariant,
           [Next]_vars, [NoLongLoss]_vars
    PROVE  ShownInvariant' /\ (published' = published \/ KeepsReferences)
<1> DEFINE shown == Shown(assembler, receive, published.units, asked, opened[receive.ssrc])
<1>1. sent \in Seq(Genuine) /\ (sent # <<>> => LastSent \in Genuine)
  BY DEF ReceiveInvariant, LastSent
<1>2. ASSUME NEW key \in BOOLEAN, NEW parts \in KeyParts \cup DeltaParts,
             key \/ parts \in DeltaParts, SendPicture(key, parts) \/ StartStream(parts)
      PROVE  ShownInvariant' /\ published' = published
  <2>1. UNCHANGED <<opened, assembler, receive, published, asked>>
    BY <1>2 DEF SendPicture, StartStream
  <2>2. PICK new \in Seq(Genuine) : sent' = sent \o new
    BY <1>1, <1>2, NewSent
  <2>3. shown => shown'
    BY <1>1, <2>1, <2>2, ShownStays
  <2> QED
    BY <2>1, <2>3 DEF ShownInvariant, Running
<1>3. ASSUME NEW i \in InTheAir, NEW room \in Rooms, Deliver(sent[i], room)
      PROVE  ShownInvariant' /\ (published' = published \/ KeepsReferences)
  <2>1. CASE NoLongLoss
    BY <1>3, <2>1, ShownDelivered
  <2>2. CASE UNCHANGED vars
    <3>1. sent' = sent \o <<>> /\ <<>> \in Seq(Genuine)
      BY <1>1, <2>2 DEF vars
    <3>2. shown => shown'
      BY <1>1, <2>2, <3>1, ShownStays DEF vars
    <3> QED
      BY <2>2, <3>2 DEF ShownInvariant, Running, vars
  <2> QED
    BY <2>1, <2>2
<1>4. CASE Report
  <2>1. /\ Running /\ receive \in Receives /\ receive' = [receive EXCEPT !.request = FALSE]
        /\ UNCHANGED <<sent, opened, assembler, published>> /\ asked'
    BY <1>4 DEF Report, PicturesInvariant
  <2>2. /\ receive'.ssrc = receive.ssrc /\ receive'.retired = receive.retired
        /\ receive'.replacing = receive.replacing
        /\ receive'.backpressured = receive.backpressured
        /\ receive'.configured = receive.configured
    BY <2>1 DEF Receives
  <2>3. sent' = sent \o <<>> /\ <<>> \in Seq(Genuine)
    BY <1>1, <2>1
  <2>4. Shown(assembler, receive', published.units, asked', opened[receive.ssrc])
    <3>1. shown
      BY <2>1 DEF ShownInvariant
    <3> QED
      BY <2>1, <2>2, <3>1 DEF Shown, Awaits
  <2>5. Shown(assembler, receive, published.units, asked, opened[receive.ssrc])'
    BY <1>1, <2>1, <2>2, <2>3, <2>4, ShownStays
  <2> QED
    BY <2>1, <2>5 DEF ShownInvariant
<1>5. CASE UNCHANGED vars
  <2>1. sent' = sent \o <<>> /\ <<>> \in Seq(Genuine)
    BY <1>1, <1>5 DEF vars
  <2>2. shown => shown'
    BY <1>1, <1>5, <2>1, ShownStays DEF vars
  <2> QED
    BY <1>5, <2>2 DEF ShownInvariant, Running, vars
<1>6. ASSUME NEW parts \in KeyParts, StartStream(parts) \/ SendPicture(TRUE, parts)
      PROVE  ShownInvariant' /\ published' = published
  BY <1>2, <1>6
<1>7. ASSUME NEW parts \in DeltaParts, SendPicture(FALSE, parts)
      PROVE  ShownInvariant' /\ published' = published
  BY <1>2, <1>7
<1> QED
  BY <1>3, <1>4, <1>5, <1>6, <1>7 DEF Next

\* What is assembled follows the last picture, if nothing is awaited or asked for.
LEMMA ShownFollows ==
    ASSUME ReceiveInvariant, PicturesInvariant, ShownInvariant
    PROVE  NoSilentGap
<1> SUFFICES ASSUME published.units # <<>>, Running, ~ receive.request, ~ asked,
                    ~ receive.replacing
             PROVE  Follows
  BY DEF NoSilentGap
<1>1. sent \in Seq(Genuine) /\ SentOrdered /\ WholeUnits(published.units)
  BY DEF ReceiveInvariant, PicturesInvariant
<1>2. LastPart = FinalOf(published.units)
  BY DEF LastPart, FinalOf, Final
<1> DEFINE a == assembler
           s == receive.ssrc
           seen == opened[s]
<1>3. Configured(a) /\ Consistent(a) /\ Stands(a, s, LastPart.number + 1, seen)
  BY <1>2 DEF ShownInvariant, Shown, Awaits
<1>4. PICK l \in Nat : l = LastPart.number
  BY <1>1, <1>2, FinalKnown
<1>5. a \in Assemblers /\ ~ a.dropping
  BY <1>3 DEF Stands, Consistent
<1>6. PICK n \in Nat : InOrder(a, s, n, seen) /\ l + 1 = n - Len(Parts(a))
  <2>1. Stands(a, s, l + 1, seen)
    BY <1>3, <1>4
  <2> QED
    BY <1>5, <2>1 DEF Stands, Drops
<1>7. Assembling = Parts(a)
  BY DEF Assembling, Parts
<1> DEFINE taken == Len(Parts(a))
<1>8. taken \in Nat
  BY <1>5, AssemblerKnown
<1> HIDE DEF taken
<1>9. n = l + taken + 1
  BY <1>6, <1>8 DEF taken
<1>10. ASSUME NEW i \in 1..taken
       PROVE  Parts(a)[i].number = l + i
  <2>1. Parts(a) # <<>>
    <3>1. Len(<<>>) = 0 /\ taken # 0
      BY <1>8
    <3> QED
      BY <3>1 DEF taken
  <2>2. PICK f \in 1..Len(sent), g \in 1..Len(sent) :
          /\ Stretch(Parts(a), f, g)
          /\ sent[g].ssrc = s /\ sent[g].number = n - 1
          /\ \A k \in f..g : ~ sent[k].marker
    BY <1>6, <2>1 DEF InOrder, Assembled
  <2>3. f <= g /\ Parts(a) = [k \in 1..(g - f + 1) |-> sent[f + k - 1]]
    BY <2>2 DEF Stretch
  <2>4. taken = g - f + 1
    <3>1. g - f + 1 \in Nat /\ \A k \in 1..(g - f + 1) : f + k - 1 \in 1..Len(sent)
      BY <2>3
    <3>2. Parts(a) \in [1..(g - f + 1) -> Genuine]
      BY <1>1, <2>3, <3>1
    <3> QED
      BY <3>1, <3>2 DEF taken
  <2> DEFINE h == f + i - 1
  <2>5. h \in f..g /\ h \in 1..Len(sent) /\ i \in 1..(g - f + 1)
    BY <2>3, <2>4
  <2>6. Parts(a)[i] = sent[h]
    BY <2>3, <2>5
  <2>7. h - g = i - taken
    BY <2>4
  <2> HIDE DEF h
  <2>8. sent[h].ssrc = sent[g].ssrc
    <3>1. CASE h = g
      BY <3>1
    <3>2. CASE h # g
      <4>1. h < g /\ \A k \in h..(g - 1) : k \in f..g
        BY <2>5, <3>2
      <4> QED
        BY <1>1, <2>2, <2>5, <4>1 DEF SentOrdered, Ordered
    <3> QED
      BY <3>1, <3>2
  <2>9. sent[h].number = sent[g].number + (h - g)
    BY <1>1, <2>5, <2>8, NumbersApart
  <2>10. sent[h].number = (n - 1) + (i - taken)
    BY <2>2, <2>7, <2>9
  <2>11. (n - 1) + (i - taken) = l + i
    BY <1>8, <1>9
  <2> QED
    BY <2>6, <2>10, <2>11
<1>11. a.expected = (l + taken + 1) % SequenceSpace
  BY <1>6, <1>9 DEF InOrder
<1> QED
  BY <1>3, <1>4, <1>5, <1>7, <1>10, <1>11 DEF Follows, Configured, taken

LEMMA ShownAlways ==
    Spec /\ [][NoLongLoss]_vars =>
        [](ReceiveInvariant /\ PicturesInvariant /\ ShownInvariant)
<1>1. Init => ReceiveInvariant /\ PicturesInvariant /\ ShownInvariant
  <2> SUFFICES ASSUME Init PROVE ShownInvariant
    BY PicturesInit
  <2>1. /\ assembler = NewAssembler /\ published.units = <<>>
        /\ published.before.ssrc = 0
    BY DEF Init
  <2> QED
    BY <2>1, NewKnown DEF ShownInvariant, Shown
<1>2. /\ ReceiveInvariant /\ PicturesInvariant /\ ShownInvariant
      /\ [Next]_vars /\ [NoLongLoss]_vars
      => (ReceiveInvariant /\ PicturesInvariant /\ ShownInvariant)'
  BY ReceiveStep, PicturesStep, ShownStep
<1> QED
  BY <1>1, <1>2, PTL DEF Spec

(***************************************************************************)
(* What the decoder is given as a picture is one the server sent, whole    *)
(* and in order (hevc_access_unit.rs), in every run in which no stream     *)
(* loses half its sequence space, less the windows, in a row.              *)
(***************************************************************************)
THEOREM PicturesAreWhole == Spec /\ [][NoLongLoss]_vars => []WholePictures
<1>1. Init => ReceiveInvariant /\ PicturesInvariant
  BY PicturesInit
<1>2. /\ ReceiveInvariant /\ PicturesInvariant
      /\ [Next]_vars /\ [NoLongLoss]_vars
      => ReceiveInvariant' /\ PicturesInvariant'
  BY ReceiveStep, PicturesStep
<1>3. ReceiveInvariant /\ PicturesInvariant => WholePictures
  <2> SUFFICES ASSUME ReceiveInvariant, PicturesInvariant, NEW k \in DOMAIN published.units
               PROVE  LET parts == published.units[k].parts IN
                      \E first \in DOMAIN sent :
                        /\ PictureOf(parts[1]) = first..(first + Len(parts) - 1)
                        /\ parts = [i \in 1..Len(parts) |-> sent[first + i - 1]]
    BY DEF WholePictures
  <2>1. Whole(published.units[k].parts)
    BY DEF PicturesInvariant, WholeUnits
  <2> QED
    BY <2>1, WholeIsPicture DEF ReceiveInvariant, PicturesInvariant
<1> QED
  BY <1>1, <1>2, <1>3, PTL DEF Spec

(***************************************************************************)
(* Once pictures are shown none is left out in silence: the assembler      *)
(* (hevc_access_unit.rs) goes on right behind the last one, or the server  *)
(* is asked for a new one (media_runtime.rs), or a new stream begins.      *)
(***************************************************************************)
THEOREM NoGapIsSilent == Spec /\ [][NoLongLoss]_vars => []NoSilentGap
BY ShownAlways, ShownFollows, PTL

(***************************************************************************)
(* A picture that refers to the one before is given right after that one,  *)
(* and no stream is shown backwards while the media port has room          *)
(* (publish_access_unit, high_performance_video.rs).                       *)
(***************************************************************************)
THEOREM ReferencesAreKept == Spec /\ [][NoLongLoss]_vars => ReferencesKept
<1>1. ReceiveInvariant /\ PicturesInvariant /\ ShownInvariant
      /\ [Next]_vars /\ [NoLongLoss]_vars => [KeepsReferences]_published
  BY ShownStep
<1> QED
  BY <1>1, ShownAlways, PTL DEF Spec, ReferencesKept, KeepsReferences
=============================================================================
