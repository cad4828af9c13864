------------------------- MODULE FramePipelineProofs -------------------------
(***************************************************************************)
(* Proofs about the path from the mailbox to the screen, for every limit   *)
(* of the mailbox and every protocol.  First the mailbox by itself: its    *)
(* limits, its ledger and the order of what is popped.  Then the delivery: *)
(* which frame errors can occur, and that the path implements FrameStream. *)
(* Last what the two adapters share in front of it: the wakes of the UI,   *)
(* the room of a recovery, and the pictures on their way to the texture.   *)
(***************************************************************************)
EXTENDS FramePipeline, WellFoundedInduction, SequenceTheorems, FiniteSetTheorems, TLAPS

(***************************************************************************)
(* Every non-empty set of naturals has a least element: the form in which  *)
(* induction is used below.                                                *)
(***************************************************************************)
LEMMA NatMinimum ==
    ASSUME NEW T \in SUBSET Nat, T # {}
    PROVE  \E m \in T : \A k \in T : m <= k
<1> DEFINE Less == OpToRel(<, Nat)
<1>1. IsWellFoundedOn(Less, Nat)
  BY NatLessThanWellFounded
<1>2. ASSUME NEW k \in Nat, NEW m \in Nat, <<k, m>> \notin Less
      PROVE  m <= k
  BY <1>2 DEF OpToRel
<1> HIDE DEF Less
<1>3. PICK m \in T : \A k \in T : ~ (<<k, m>> \in Less)
  BY <1>1, WFMin, Zenon
<1>4. m \in Nat /\ \A k \in T : k \in Nat /\ <<k, m>> \notin Less
  BY <1>3
<1> QED
  BY <1>2, <1>3, <1>4

(***************************************************************************)
(* Induction up to n, for a set of indices.                                *)
(***************************************************************************)
LEMMA UpTo ==
    ASSUME NEW n \in Nat, NEW P, 0 \in P,
           \A i \in 1..n : i - 1 \in P => i \in P
    PROVE  \A i \in 0..n : i \in P
<1> DEFINE Bad == (0..n) \ P
<1>1. SUFFICES ASSUME Bad # {} PROVE FALSE
  OBVIOUS
<1>2. PICK m \in Bad : \A k \in Bad : m <= k
  <2>1. Bad \in SUBSET Nat
    OBVIOUS
  <2> QED
    BY <1>1, <2>1, NatMinimum
<1>3. m \in 1..n /\ m - 1 \in 0..n /\ ~ (m <= m - 1)
  BY <1>2
<1> QED
  BY <1>2, <1>3

-----------------------------------------------------------------------------
(***************************************************************************)
(* The recursive definitions.  tlapm knows a recursive function only as a  *)
(* CHOOSE, so its existence is proved by extending partial solutions.      *)
(***************************************************************************)
TotalBody(q, n, f) ==
    [i \in 0..n |-> IF i = 0 THEN 0 ELSE f[i - 1] + q[i].bytes]

LEMMA TotalExists ==
    ASSUME NEW q \in Seq(Update)
    PROVE  \E f : f = TotalBody(q, Len(q), f)
<1> DEFINE n == Len(q)
           P == {m \in 0..n : \E f : f = TotalBody(q, m, f)}
<1>1. n \in Nat
  OBVIOUS
<1>2. 0 \in P
  <2>1. [i \in 0..0 |-> 0] = TotalBody(q, 0, [i \in 0..0 |-> 0])
    BY DEF TotalBody
  <2> QED
    BY <1>1, <2>1
<1>3. ASSUME NEW m \in 1..n, m - 1 \in P PROVE m \in P
  <2>1. PICK f : f = TotalBody(q, m - 1, f)
    BY <1>3
  <2> DEFINE g == [i \in 0..m |-> IF i = 0 THEN 0 ELSE f[i - 1] + q[i].bytes]
  <2>2. \A i \in 0..(m - 1) : f[i] = g[i]
    BY <2>1 DEF TotalBody
  <2>3. \A i \in 0..m : i # 0 => i - 1 \in 0..(m - 1) /\ i - 1 \in 0..m
    BY <1>1
  <2>4. \A i \in 0..m : g[i] = IF i = 0 THEN 0 ELSE g[i - 1] + q[i].bytes
    BY <2>2, <2>3
  <2>5. g = [i \in 0..m |-> g[i]]
    OBVIOUS
  <2> HIDE DEF g
  <2>6. g = TotalBody(q, m, g)
    BY <2>4, <2>5 DEF TotalBody
  <2> QED
    BY <1>1, <2>6
<1>4. n \in P
  <2> HIDE DEF P, n
  <2>1. \A i \in 0..n : i \in P
    BY <1>1, <1>2, <1>3, UpTo
  <2> QED
    BY <1>1, <2>1
<1> QED
  BY <1>4

(***************************************************************************)
(* What PixelBytesOf computes: the last of the running totals.             *)
(***************************************************************************)
IsTotals(q, f) ==
    /\ f \in [0..Len(q) -> Nat]
    /\ f[0] = 0
    /\ \A i \in 1..Len(q) : f[i] = f[i - 1] + q[i].bytes
    /\ f[Len(q)] = PixelBytesOf(q)

LEMMA TotalsExist ==
    ASSUME NEW q \in Seq(Update)
    PROVE  \E f : IsTotals(q, f)
<1> DEFINE n == Len(q)
           f == CHOOSE f : f = TotalBody(q, n, f)
<1>1. n \in Nat /\ \A i \in 1..n : q[i] \in Update
  OBVIOUS
<1>2. f = TotalBody(q, n, f)
  BY TotalExists
<1>3. PixelBytesOf(q) = f[n]
  BY DEF PixelBytesOf, TotalBody
<1> HIDE DEF f
<1>4. f[0] = 0 /\ \A i \in 1..n : f[i] = f[i - 1] + q[i].bytes
  BY <1>1, <1>2 DEF TotalBody
<1>5. f \in [0..n -> Nat]
  <2> DEFINE P == {i \in 0..n : f[i] \in Nat}
  <2>1. 0 \in P
    BY <1>1, <1>4
  <2>2. ASSUME NEW i \in 1..n, i - 1 \in P PROVE i \in P
    <3>1. f[i] = f[i - 1] + q[i].bytes /\ q[i].bytes \in Nat /\ i \in 0..n
      <4>1. q[i] \in Update
        BY <1>1, Zenon
      <4>2. q[i].bytes \in Nat
        BY <4>1 DEF Update
      <4>3. i \in 0..n
        BY <1>1
      <4> QED
        BY <1>4, <4>2, <4>3, Zenon
    <3>2. f[i - 1] \in Nat
      BY <2>2, Zenon
    <3>3. f[i] \in Nat
      BY <3>1, <3>2
    <3> QED
      BY <3>1, <3>3, Zenon
  <2>3. \A i \in 0..n : i \in P
    <3> HIDE DEF P, n
    <3> QED
      BY <1>1, <2>1, <2>2, UpTo
  <2>4. f = [i \in 0..n |-> f[i]]
    BY <1>2 DEF TotalBody
  <2> HIDE DEF n
  <2> QED
    BY <2>3, <2>4
<1> QED
  BY <1>3, <1>4, <1>5 DEF IsTotals

(***************************************************************************)
(* Two running totals with the same increments keep their distance.        *)
(***************************************************************************)
LEMMA SameIncrements ==
    ASSUME NEW n \in Nat, NEW f \in [0..n -> Nat], NEW g \in [0..n -> Nat], NEW c \in Nat,
           NEW d \in [1..n -> Nat],
           f[0] = g[0] + c,
           \A i \in 1..n : f[i] = f[i - 1] + d[i] /\ g[i] = g[i - 1] + d[i]
    PROVE  f[n] = g[n] + c
<1> DEFINE P == {i \in 0..n : f[i] = g[i] + c}
<1>1. 0 \in P
  OBVIOUS
<1>2. ASSUME NEW i \in 1..n, i - 1 \in P PROVE i \in P
  <2>1. i \in 0..n /\ i - 1 \in 0..n
    OBVIOUS
  <2>2. f[i] \in Nat /\ f[i - 1] \in Nat /\ g[i] \in Nat /\ g[i - 1] \in Nat /\ d[i] \in Nat
    BY <2>1
  <2>3. f[i - 1] = g[i - 1] + c /\ f[i] = f[i - 1] + d[i] /\ g[i] = g[i - 1] + d[i]
    BY <1>2
  <2>4. f[i] = g[i] + c
    BY <2>2, <2>3
  <2> QED
    BY <2>1, <2>4
<1>3. \A i \in 0..n : i \in P
  <2> HIDE DEF P
  <2> QED
    BY <1>1, <1>2, UpTo
<1>4. n \in 0..n
  OBVIOUS
<1> QED
  BY <1>3, <1>4

(***************************************************************************)
(* The ledger's arithmetic: what one push and one pop change.              *)
(***************************************************************************)
LEMMA PixelBytesNat ==
    ASSUME NEW q \in Seq(Update)
    PROVE  PixelBytesOf(q) \in Nat
BY TotalsExist DEF IsTotals

LEMMA PixelBytesEmpty == PixelBytesOf(<<>>) = 0
<1>1. <<>> \in Seq(Update) /\ Len(<<>>) = 0
  OBVIOUS
<1> QED
  BY <1>1, TotalsExist DEF IsTotals

LEMMA PixelBytesAppend ==
    ASSUME NEW q \in Seq(Update), NEW u \in Update
    PROVE  PixelBytesOf(Append(q, u)) = PixelBytesOf(q) + u.bytes
<1> DEFINE n == Len(q)
           r == Append(q, u)
<1>1. /\ n \in Nat /\ r \in Seq(Update) /\ Len(r) = n + 1
      /\ r[n + 1] = u /\ \A i \in 1..n : r[i] = q[i]
  OBVIOUS
<1>2. PICK f : IsTotals(r, f)
  BY <1>1, TotalsExist
<1>3. PICK g : IsTotals(q, g)
  BY TotalsExist
<1> DEFINE h == [i \in 0..n |-> f[i]]
<1>4. h \in [0..n -> Nat] /\ g \in [0..n -> Nat] /\ h[0] = g[0] + 0
  BY <1>1, <1>2, <1>3 DEF IsTotals
<1> DEFINE d == [i \in 1..n |-> q[i].bytes]
<1>5. d \in [1..n -> Nat] /\ \A i \in 1..n : h[i] = h[i - 1] + d[i] /\ g[i] = g[i - 1] + d[i]
  <2>1. ASSUME NEW i \in 1..n
        PROVE  d[i] \in Nat /\ h[i] = h[i - 1] + d[i] /\ g[i] = g[i - 1] + d[i]
    <3>1. i \in 0..n /\ i - 1 \in 0..n /\ i \in 1..(n + 1) /\ q[i] \in Update
      BY <1>1
    <3> QED
      BY <1>1, <1>2, <1>3, <3>1 DEF IsTotals, Update
  <2> QED
    BY <2>1
<1>6. h[n] = g[n]
  <2>1. n \in Nat /\ 0 \in Nat
    BY <1>1
  <2> HIDE DEF h, n, d
  <2>2. h[n] = g[n] + 0
    BY <1>4, <1>5, <2>1, SameIncrements
  <2>3. n \in 0..n
    BY <2>1
  <2>4. g[n] \in Nat
    BY <1>4, <2>3
  <2> QED
    BY <2>2, <2>4
<1>7. f[n + 1] = f[n] + u.bytes /\ f[n] = h[n]
  BY <1>1, <1>2 DEF IsTotals
<1> QED
  BY <1>1, <1>2, <1>3, <1>6, <1>7 DEF IsTotals

LEMMA PixelBytesSingle ==
    ASSUME NEW u \in Update
    PROVE  PixelBytesOf(<<u>>) = u.bytes
<1> DEFINE e == <<>>
<1>1. e \in Seq(Update) /\ <<u>> = Append(e, u) /\ u.bytes \in Nat
  BY DEF Update
<1>2. PixelBytesOf(e) = 0
  BY PixelBytesEmpty
<1> HIDE DEF e
<1>3. PixelBytesOf(Append(e, u)) = PixelBytesOf(e) + u.bytes
  BY <1>1, PixelBytesAppend
<1>4. PixelBytesOf(Append(e, u)) = PixelBytesOf(<<u>>)
  BY <1>1, Zenon
<1>5. 0 + u.bytes = u.bytes
  BY <1>1
<1> QED
  BY <1>2, <1>3, <1>4, <1>5, Zenon

LEMMA PixelBytesTail ==
    ASSUME NEW q \in Seq(Update), q # <<>>
    PROVE  PixelBytesOf(q) = PixelBytesOf(Tail(q)) + Head(q).bytes
<1> DEFINE n == Len(q)
           r == Tail(q)
<1>1. /\ n \in Nat \ {0} /\ r \in Seq(Update) /\ Len(r) = n - 1
      /\ Head(q) = q[1] /\ \A i \in 1..(n - 1) : r[i] = q[i + 1]
      /\ \A i \in 1..n : q[i] \in Update
  OBVIOUS
<1>2. PICK f : IsTotals(q, f)
  BY TotalsExist
<1>3. PICK g : IsTotals(r, g)
  BY <1>1, TotalsExist
<1> DEFINE h == [i \in 0..(n - 1) |-> f[i + 1]]
           c == q[1].bytes
<1>4. c \in Nat
  BY <1>1 DEF Update
<1>5. h \in [0..(n - 1) -> Nat] /\ g \in [0..(n - 1) -> Nat] /\ h[0] = g[0] + c
  <2>1. f[1] = f[0] + q[1].bytes /\ f[0] = 0
    BY <1>1, <1>2 DEF IsTotals
  <2>2. \A i \in 0..(n - 1) : i + 1 \in 0..n
    BY <1>1
  <2>3. f \in [0..n -> Nat] /\ g \in [0..(n - 1) -> Nat] /\ g[0] = 0
    BY <1>1, <1>2, <1>3 DEF IsTotals
  <2>4. h \in [0..(n - 1) -> Nat]
    BY <2>2, <2>3
  <2>5. h[0] = f[1]
    BY <1>1
  <2> QED
    BY <1>4, <2>1, <2>3, <2>4, <2>5
<1> DEFINE d == [i \in 1..(n - 1) |-> q[i + 1].bytes]
<1>6. /\ d \in [1..(n - 1) -> Nat]
      /\ \A i \in 1..(n - 1) : h[i] = h[i - 1] + d[i] /\ g[i] = g[i - 1] + d[i]
  <2>1. ASSUME NEW i \in 1..(n - 1)
        PROVE  d[i] \in Nat /\ h[i] = h[i - 1] + d[i] /\ g[i] = g[i - 1] + d[i]
    <3>1. /\ i \in 0..(n - 1) /\ i - 1 \in 0..(n - 1) /\ i + 1 \in 1..n
          /\ (i + 1) - 1 = i /\ (i - 1) + 1 = i
      BY <1>1
    <3>2. q[i + 1].bytes \in Nat
      BY <1>1, <3>1 DEF Update
    <3> QED
      BY <1>1, <1>2, <1>3, <3>1, <3>2 DEF IsTotals
  <2> QED
    BY <2>1
<1>7. h[n - 1] = g[n - 1] + c /\ n - 1 \in Nat
  <2>1. n - 1 \in Nat /\ c \in Nat
    BY <1>1, <1>4
  <2> HIDE DEF h, n, c, d
  <2> QED
    BY <1>5, <1>6, <2>1, SameIncrements
<1>8. h[n - 1] = f[n]
  BY <1>1
<1> QED
  BY <1>1, <1>2, <1>3, <1>7, <1>8 DEF IsTotals

(***************************************************************************)
(* On a coherent queue retain() keeps the Reset at the head, if it is      *)
(* still there, and nothing else.                                          *)
(***************************************************************************)
KeptBody(q, f) ==
    [i \in 0..Len(q) |->
        IF i = 0 THEN <<>>
        ELSE IF KeptOnOverflow(q[i]) THEN Append(f[i - 1], q[i]) ELSE f[i - 1]]

HeadReset(q) == IF q # <<>> /\ q[1].kind = "Reset" THEN <<q[1]>> ELSE <<>>

LEMMA RetainedIsHeadReset ==
    ASSUME NEW q \in Seq(Update),
           \A i \in 1..Len(q) : MatchesCurrent(q[i]) /\ (q[i].kind = "Reset" => i = 1)
    PROVE  Retained(q) = HeadReset(q)
<1> DEFINE n == Len(q)
           w == [i \in 0..n |-> IF i = 0 THEN <<>> ELSE HeadReset(q)]
           f == CHOOSE f : f = KeptBody(q, f)
<1>1. n \in Nat /\ q \in Seq(Update) /\ (n = 0 <=> q = <<>>) /\ \A i \in 1..n : q[i] \in Update
  OBVIOUS
<1>2. \A i \in 1..n : KeptOnOverflow(q[i]) <=> q[i].kind = "Reset"
  BY DEF KeptOnOverflow
<1>3. \A i \in 1..n : KeptOnOverflow(q[i]) => i = 1
  BY <1>2
<1>4. n # 0 => HeadReset(q) = IF KeptOnOverflow(q[1]) THEN Append(<<>>, q[1]) ELSE <<>>
  BY <1>1, <1>2 DEF HeadReset
<1>5. w = KeptBody(q, w)
  <2>1. ASSUME NEW i \in 0..n
        PROVE  w[i] = IF i = 0 THEN <<>>
                      ELSE IF KeptOnOverflow(q[i]) THEN Append(w[i - 1], q[i]) ELSE w[i - 1]
    <3>1. CASE i = 0
      BY <3>1
    <3>2. CASE i = 1
      <4>1. w[0] = <<>> /\ w[i] = HeadReset(q) /\ i - 1 = 0 /\ n # 0
        BY <1>1, <3>2
      <4> QED
        BY <1>4, <3>2, <4>1
    <3>3. CASE i > 1
      <4>1. w[i] = HeadReset(q) /\ w[i - 1] = HeadReset(q) /\ ~ KeptOnOverflow(q[i])
        BY <1>1, <1>3, <3>3
      <4> QED
        BY <3>3, <4>1
    <3> QED
      BY <1>1, <3>1, <3>2, <3>3
  <2>2. w = [i \in 0..n |-> w[i]]
    OBVIOUS
  <2> HIDE DEF w
  <2> QED
    BY <2>1, <2>2 DEF KeptBody
<1>6. f = KeptBody(q, f)
  BY <1>5
<1>7. Retained(q) = f[n]
  BY DEF Retained, KeptBody
<1> HIDE DEF f
<1>8. f[n] = w[n]
  <2> DEFINE P == {i \in 0..n : f[i] = w[i]}
  <2>1. 0 \in P
    BY <1>1, <1>6 DEF KeptBody
  <2>2. ASSUME NEW i \in 1..n, i - 1 \in P PROVE i \in P
    <3>1. i \in 0..n /\ i # 0 /\ f[i - 1] = w[i - 1]
      BY <1>1, <2>2
    <3>2. f[i] = IF KeptOnOverflow(q[i]) THEN Append(f[i - 1], q[i]) ELSE f[i - 1]
      BY <1>6, <3>1 DEF KeptBody
    <3>3. w[i] = IF KeptOnOverflow(q[i]) THEN Append(w[i - 1], q[i]) ELSE w[i - 1]
      <4> HIDE DEF w
      <4> QED
        BY <1>5, <3>1 DEF KeptBody
    <3> HIDE DEF w, n
    <3> QED
      BY <3>1, <3>2, <3>3
  <2>3. \A i \in 0..n : i \in P
    <3> HIDE DEF P, n
    <3> QED
      BY <1>1, <2>1, <2>2, UpTo
  <2>4. n \in 0..n
    BY <1>1
  <2> HIDE DEF w, n
  <2> QED
    BY <2>3, <2>4
<1>9. w[n] = HeadReset(q)
  BY <1>1 DEF HeadReset
<1> QED
  BY <1>7, <1>8, <1>9

-----------------------------------------------------------------------------
(***************************************************************************)
(* The inductive invariant.  QueueCoherent is what makes the order         *)
(* inductive: it ties the queue to what was popped before it and to the    *)
(* revisions the next push is checked against.                             *)
(***************************************************************************)
MailboxInvariant ==
    TypeInvariant /\ WithinBudget /\ LedgerExact /\ QueueCoherent

(***************************************************************************)
(* What appending to the queue does to its length, entries and newest.     *)
(***************************************************************************)
AppendFacts(u) ==
    /\ Len(queue') = Len(queue) + 1
    /\ PixelBytesOf(queue') = PixelBytesOf(queue) + u.bytes
    /\ Newest' = u
    /\ queue' # <<>>
    /\ \A i \in 1..Len(queue') : i \in 1..Len(queue) \/ i = Len(queue')
    /\ \A i \in 1..Len(queue) : queue'[i] = queue[i]
    /\ queue'[Len(queue')] = u
    /\ Len(queue) \in Nat
    /\ IF queue = <<>> THEN Len(queue') = 1 /\ Newest = lastPopped
       ELSE Len(queue) > 0 /\ Newest = queue[Len(queue)] /\ queue'[1] = queue[1]

LEMMA AppendedQueue ==
    ASSUME NEW u \in Update, queue \in Seq(Update), queue' = Append(queue, u)
    PROVE  AppendFacts(u)
<1>1. PixelBytesOf(queue') = PixelBytesOf(queue) + u.bytes
  BY PixelBytesAppend
<1>2. Newest' = u
  BY DEF Newest
<1> QED
  BY <1>1, <1>2 DEF AppendFacts, Newest

LEMMA InitialInvariant == Init => MailboxInvariant
<1> SUFFICES ASSUME Init PROVE MailboxInvariant
  OBVIOUS
<1> USE DEF Init, NoSurface, FreshSurface, NothingPopped, ResetUpdate
<1>1. TypeInvariant
  BY MailboxAssumption DEF TypeInvariant, Surface, Update
<1>2. WithinBudget
  BY MailboxAssumption DEF WithinBudget
<1>3. LedgerExact
  BY PixelBytesEmpty DEF LedgerExact
<1>4. QueueCoherent
  BY DEF QueueCoherent, Established, MatchesCurrent
<1> QED
  BY <1>1, <1>2, <1>3, <1>4 DEF MailboxInvariant

LEMMA ResetStep ==
    ASSUME MailboxInvariant, NEW u \in Update, u.kind = "Reset", u.bytes = 0, u.revision = 0,
           NEW fits, ResetAccepted(u, fits), EnqueueReset(u), UNCHANGED lastPopped
    PROVE  MailboxInvariant'
<1> USE DEF MailboxInvariant
<1>1. /\ queue' = <<u>> /\ queue' \in Seq(Update) /\ Len(queue') = 1 /\ queue'[1] = u
      /\ queue' # <<>> /\ queuedPixelBytes' = 0 /\ lastPopped' = lastPopped
      /\ current' = FreshSurface(u.session, u.generation)
  BY DEF EnqueueReset
<1>2. TypeInvariant'
  BY <1>1 DEF TypeInvariant, Surface, FreshSurface, Update
<1>3. WithinBudget'
  BY <1>1, MailboxAssumption DEF WithinBudget
<1>4. LedgerExact'
  BY <1>1, PixelBytesSingle DEF LedgerExact
<1>5. QueueCoherent'
  <2>1. Follows(lastPopped, u)
    <3>1. CASE ~ Established
      BY <3>1 DEF QueueCoherent, Follows, IsOlder, ResetAccepted
    <3>2. CASE Established
      <4>1. MatchesCurrent(Newest)
        BY <3>2 DEF QueueCoherent
      <4>2. CASE queue = <<>>
        <5>1. MatchesCurrent(lastPopped)
          BY <4>1, <4>2 DEF Newest
        <5> QED
          BY <3>2, <5>1 DEF MatchesCurrent, Follows, IsOlder, ResetAccepted, TypeInvariant,
                            Update, Surface
      <4>3. CASE queue # <<>>
        <5>1. Follows(lastPopped, queue[1]) /\ MatchesCurrent(queue[1]) /\ queue[1] \in Update
          BY <4>3 DEF QueueCoherent, TypeInvariant
        <5>2. IsOlder(lastPopped, queue[1]) \/ SameSurface(lastPopped, queue[1])
          BY <5>1 DEF Follows
        <5>3. /\ queue[1].session = current.session /\ queue[1].generation = current.generation
              /\ u.generation # 0
              /\ \/ u.session = current.session /\ u.generation > current.generation
                 \/ u.session > current.session
          BY <3>2, <5>1 DEF MatchesCurrent, ResetAccepted
        <5>4. /\ lastPopped.session \in Nat /\ lastPopped.generation \in Nat
              /\ current.session \in Nat /\ current.generation \in Nat
              /\ u.session \in Nat /\ u.generation \in Nat
          BY DEF TypeInvariant, Update, Surface
        <5>5. IsOlder(lastPopped, u)
          BY <5>2, <5>3, <5>4 DEF IsOlder, SameSurface
        <5> QED
          BY <5>3, <5>5 DEF Follows
      <4> QED
        BY <4>2, <4>3
    <3> QED
      BY <3>1, <3>2
  <2>2. Newest' = u
    BY <1>1 DEF Newest
  <2>3. MatchesCurrent(u)' /\ Established'
    BY <1>1 DEF MatchesCurrent, Established, FreshSurface, ResetAccepted
  <2>4. \A i \in 1..Len(queue') : i = 1
    BY <1>1
  <2> QED
    BY <1>1, <2>1, <2>2, <2>3, <2>4 DEF QueueCoherent, FreshSurface
<1> QED
  BY <1>2, <1>3, <1>4, <1>5

(***************************************************************************)
(* What an overflow leaves: the Reset if the consumer has not taken it.    *)
(***************************************************************************)
LEMMA OverflowStep ==
    ASSUME MailboxInvariant, Established, ClearCurrentDamageAndBoundaries, UNCHANGED lastPopped
    PROVE  MailboxInvariant'
<1> USE DEF MailboxInvariant
<1>1. /\ current' = [current EXCEPT !.eligible = 0] /\ lastPopped' = lastPopped
      /\ queue' = Retained(queue) /\ queuedPixelBytes' = PixelBytesOf(queue')
  BY DEF ClearCurrentDamageAndBoundaries
<1>2. queue' = HeadReset(queue)
  BY <1>1, RetainedIsHeadReset DEF QueueCoherent, TypeInvariant
<1>3. \/ queue' = <<>> /\ (queue # <<>> => queue[1].kind # "Reset")
      \/ queue # <<>> /\ queue' = <<queue[1]>> /\ queue[1].kind = "Reset"
  BY <1>2 DEF HeadReset
<1>4. queue' \in Seq(Update) /\ Len(queue') <= 1 /\ \A i \in 1..Len(queue') : i = 1
  <2>1. CASE queue' = <<>>
    BY <2>1
  <2>2. CASE queue # <<>> /\ queue' = <<queue[1]>>
    <3>1. queue[1] \in Update
      BY <2>2 DEF TypeInvariant
    <3> QED
      BY <2>2, <3>1
  <2> QED
    BY <1>3, <2>1, <2>2
<1>5. TypeInvariant'
  BY <1>1, <1>4, PixelBytesNat DEF TypeInvariant, Surface
<1>6. LedgerExact'
  BY <1>1 DEF LedgerExact
<1>7. WithinBudget'
  <2>1. Len(queue') <= EntryLimit
    BY <1>4, MailboxAssumption
  <2>2. CASE queue' = <<>>
    BY <1>1, <2>1, <2>2, PixelBytesEmpty, MailboxAssumption DEF WithinBudget
  <2>3. CASE queue # <<>> /\ queue' = <<queue[1]>>
    <3>1. queue[1] \in Update /\ Head(queue) = queue[1] /\ Tail(queue) \in Seq(Update)
      BY <2>3 DEF TypeInvariant
    <3>2. PixelBytesOf(queue') = queue[1].bytes /\ queue[1].bytes \in Nat
      BY <2>3, <3>1, PixelBytesSingle DEF Update
    <3>3. queuedPixelBytes = PixelBytesOf(Tail(queue)) + queue[1].bytes
      BY <2>3, <3>1, PixelBytesTail DEF LedgerExact, TypeInvariant
    <3>4. PixelBytesOf(Tail(queue)) \in Nat
      BY <3>1, PixelBytesNat
    <3> QED
      BY <1>1, <2>1, <3>1, <3>2, <3>3, <3>4, MailboxAssumption DEF WithinBudget
  <2> QED
    BY <1>3, <2>2, <2>3
<1>8. QueueCoherent'
  <2>1. CASE queue' = <<>>
    <3>1. Newest' = lastPopped
      BY <1>1, <2>1 DEF Newest
    <3>2. MatchesCurrent(lastPopped) /\ lastPopped.revision <= current.lastDamage
      <4>1. CASE queue = <<>>
        BY <4>1 DEF QueueCoherent, Newest
      <4>2. CASE queue # <<>>
        <5>1. /\ Follows(lastPopped, queue[1]) /\ MatchesCurrent(queue[1])
              /\ queue[1].kind # "Reset" /\ queue[1] \in Update /\ lastPopped \in Update
              /\ current \in Surface
          BY <1>3, <2>1, <4>2 DEF QueueCoherent, TypeInvariant
        <5>2. SameSurface(lastPopped, queue[1]) /\ lastPopped.revision <= queue[1].revision
          BY <5>1 DEF Follows, Update
        <5>3. queue[1].revision <= current.lastDamage
          BY <4>2 DEF QueueCoherent, TypeInvariant
        <5> QED
          BY <5>1, <5>2, <5>3 DEF SameSurface, MatchesCurrent, Update, Surface
      <4> QED
        BY <4>1, <4>2
    <3>3. MatchesCurrent(lastPopped)' /\ Established' /\ current'.lastDamage = current.lastDamage
      BY <1>1, <3>2 DEF MatchesCurrent, Established, TypeInvariant, Surface
    <3> QED
      BY <1>1, <2>1, <3>1, <3>2, <3>3 DEF QueueCoherent, TypeInvariant, Surface
  <2>2. CASE queue # <<>> /\ queue' = <<queue[1]>> /\ queue[1].kind = "Reset"
    <3>1. /\ Follows(lastPopped, queue[1]) /\ MatchesCurrent(queue[1]) /\ queue[1] \in Update
          /\ Len(queue') = 1 /\ queue'[1] = queue[1] /\ queue' # <<>>
      BY <2>2 DEF QueueCoherent, TypeInvariant
    <3>2. Newest' = queue[1]
      BY <2>2 DEF Newest
    <3>3. /\ MatchesCurrent(queue[1])' /\ Established'
          /\ current'.lastDamage = current.lastDamage /\ current'.eligible = 0
          /\ current'.lastBoundary = current.lastBoundary
      BY <1>1, <3>1 DEF MatchesCurrent, Established, TypeInvariant, Surface
    <3>4. queue[1].revision <= current.lastDamage
      BY <2>2 DEF QueueCoherent, TypeInvariant
    <3> QED
      BY <1>1, <1>4, <2>2, <3>1, <3>2, <3>3, <3>4 DEF QueueCoherent
  <2> QED
    BY <1>3, <2>1, <2>2
<1> QED
  BY <1>5, <1>6, <1>7, <1>8

(***************************************************************************)
(* Appending an accepted update: what both kinds share.                    *)
(***************************************************************************)
LEMMA NewestTyped ==
    ASSUME TypeInvariant
    PROVE  Newest \in Update
<1>1. CASE queue = <<>>
  BY <1>1 DEF Newest, TypeInvariant
<1>2. CASE queue # <<>>
  <2>1. Len(queue) \in 1..Len(queue)
    BY <1>2 DEF TypeInvariant
  <2> QED
    BY <1>2, <2>1 DEF Newest, TypeInvariant
<1> QED
  BY <1>1, <1>2

LEMMA EnqueuedInBudget ==
    ASSUME MailboxInvariant, NEW u \in Update, ~ Overflows(u), EnqueueCurrent(u)
    PROVE  queue' \in Seq(Update) /\ queuedPixelBytes' \in Nat /\ WithinBudget' /\ LedgerExact'
<1>1. queue' = Append(queue, u) /\ queuedPixelBytes' = queuedPixelBytes + u.bytes
  BY DEF EnqueueCurrent
<1>2. queue \in Seq(Update) /\ queuedPixelBytes \in Nat /\ u.bytes \in Nat
  BY DEF MailboxInvariant, TypeInvariant, Update
<1>3. queue' \in Seq(Update) /\ AppendFacts(u)
  BY <1>1, <1>2, AppendedQueue
<1>4. Len(queue) + 1 <= EntryLimit /\ queuedPixelBytes + u.bytes <= PixelByteLimit
  BY <1>2, MailboxAssumption DEF Overflows
<1>5. queuedPixelBytes = PixelBytesOf(queue)
  BY DEF MailboxInvariant, LedgerExact
<1> QED
  BY <1>1, <1>2, <1>3, <1>4, <1>5 DEF WithinBudget, LedgerExact, AppendFacts

LEMMA EnqueuedInOrder ==
    ASSUME TypeInvariant, QueueCoherent, Established, NEW u \in Update, EnqueueCurrent(u),
           UNCHANGED lastPopped, Follows(Newest, u), u.kind # "Reset",
           MatchesCurrent(u), current'.session = current.session,
           current'.generation = current.generation,
           u.revision = current'.lastDamage, current'.lastDamage >= current.lastDamage,
           current'.lastDamage \in Nat, current'.lastBoundary <= current'.lastDamage,
           current'.eligible # 0 => u.kind = "Damage" /\ u.revision = current'.eligible
    PROVE  QueueCoherent'
<1>1. AppendFacts(u) /\ queue \in Seq(Update) /\ lastPopped' = lastPopped
  BY AppendedQueue DEF EnqueueCurrent, TypeInvariant
<1>2. (queue # <<>> => Follows(lastPopped, queue[1]))'
  BY <1>1 DEF AppendFacts, QueueCoherent
<1>3. ASSUME NEW i \in 1..Len(queue'), i > 1 PROVE Follows(queue'[i - 1], queue'[i])
  <2>1. CASE i \in 1..Len(queue)
    <3>1. i - 1 \in 1..Len(queue)
      BY <1>1, <1>3, <2>1 DEF AppendFacts
    <3> QED
      BY <1>1, <1>3, <2>1, <3>1 DEF AppendFacts, QueueCoherent
  <2>2. CASE i = Len(queue')
    <3>1. queue # <<>> /\ i - 1 = Len(queue) /\ i - 1 \in 1..Len(queue)
      BY <1>1, <1>3, <2>2 DEF AppendFacts
    <3> QED
      BY <1>1, <2>2, <3>1 DEF AppendFacts
  <2> QED
    BY <1>1, <1>3, <2>1, <2>2 DEF AppendFacts
<1>4. ASSUME NEW i \in 1..Len(queue')
      PROVE  /\ MatchesCurrent(queue[i])'
             /\ queue'[i].kind = "Reset" => i = 1
             /\ queue'[i].revision <= current'.lastDamage
  <2>1. CASE i \in 1..Len(queue)
    <3>1. /\ MatchesCurrent(queue[i]) /\ (queue[i].kind = "Reset" => i = 1)
          /\ queue[i].revision <= current.lastDamage
      BY <2>1 DEF QueueCoherent
    <3>2. queue'[i] = queue[i]
      BY <1>1, <2>1 DEF AppendFacts
    <3>3. queue[i].revision \in Nat /\ current.lastDamage \in Nat
      <4>1. queue[i] \in Update /\ current \in Surface
        BY <1>1, <2>1 DEF TypeInvariant
      <4> QED
        BY <4>1 DEF Update, Surface
    <3> QED
      BY <3>1, <3>2, <3>3 DEF MatchesCurrent, Established
  <2>2. CASE i = Len(queue')
    <3>1. queue'[i] = u /\ u.revision \in Nat
      BY <1>1, <2>2 DEF AppendFacts, Update
    <3> QED
      BY <3>1 DEF MatchesCurrent, Established
  <2> QED
    BY <1>1, <1>4, <2>1, <2>2 DEF AppendFacts
<1>5. /\ Newest' = u /\ queue' # <<>> /\ Established' /\ MatchesCurrent(Newest)'
      /\ Newest'.revision <= current'.lastDamage
  BY <1>1 DEF AppendFacts, MatchesCurrent, Established, Update
<1> QED
  BY <1>2, <1>3, <1>4, <1>5 DEF QueueCoherent

LEMMA DamageStep ==
    ASSUME MailboxInvariant, NEW u \in Update, u.kind = "Damage",
           NEW fits, DamageAccepted(u, fits), ~ Overflows(u), EnqueueDamage(u),
           UNCHANGED lastPopped
    PROVE  MailboxInvariant'
<1>1. /\ TypeInvariant /\ QueueCoherent /\ EnqueueCurrent(u)
      /\ current' = [current EXCEPT !.lastDamage = u.revision, !.eligible = u.revision]
  BY DEF MailboxInvariant, EnqueueDamage
<1>2. u.revision \in Nat /\ current \in Surface /\ lastPopped \in Update /\ Newest \in Update
  BY <1>1, NewestTyped DEF TypeInvariant, Update
<1>3. /\ Established /\ MatchesCurrent(u) /\ u.revision > current.lastDamage
      /\ MatchesCurrent(Newest) /\ Newest.revision <= current.lastDamage
  BY <1>1 DEF DamageAccepted, MatchesCurrent, QueueCoherent
<1>4. Follows(Newest, u)
  <2>1. Newest.revision < u.revision
    BY <1>2, <1>3 DEF Update, Surface
  <2> QED
    BY <1>3, <2>1 DEF Follows, SameSurface, MatchesCurrent, Established
<1>5. /\ current' \in Surface /\ current'.lastDamage = u.revision
      /\ current'.eligible = u.revision /\ current'.lastBoundary = current.lastBoundary
      /\ current'.session = current.session /\ current'.generation = current.generation
  BY <1>1, <1>2 DEF Surface
<1>6. current'.lastDamage >= current.lastDamage /\ current'.lastBoundary <= current'.lastDamage
  BY <1>1, <1>2, <1>3, <1>5 DEF QueueCoherent, Surface
<1>7. QueueCoherent'
  BY <1>1, <1>2, <1>3, <1>4, <1>5, <1>6, EnqueuedInOrder
<1>8. TypeInvariant' /\ WithinBudget' /\ LedgerExact'
  BY <1>1, <1>2, <1>5, EnqueuedInBudget DEF TypeInvariant
<1> QED
  BY <1>7, <1>8 DEF MailboxInvariant

LEMMA BoundaryStep ==
    ASSUME MailboxInvariant, NEW u \in Update, u.kind = "Boundary",
           BoundaryAccepted(u), ~ Overflows(u), EnqueueBoundary(u), UNCHANGED lastPopped
    PROVE  MailboxInvariant'
<1>1. /\ TypeInvariant /\ QueueCoherent /\ EnqueueCurrent(u)
      /\ current' = [current EXCEPT !.lastBoundary = u.revision, !.eligible = 0]
  BY DEF MailboxInvariant, EnqueueBoundary
<1>2. u.revision \in Nat /\ current \in Surface /\ lastPopped \in Update /\ Newest \in Update
  BY <1>1, NewestTyped DEF TypeInvariant, Update
<1>3. /\ Established /\ MatchesCurrent(u) /\ u.revision = current.lastDamage
      /\ MatchesCurrent(Newest) /\ Newest.kind = "Damage" /\ Newest.revision = u.revision
  BY <1>1 DEF BoundaryAccepted, MatchesCurrent, QueueCoherent
<1>4. Follows(Newest, u)
  BY <1>3 DEF Follows, SameSurface, MatchesCurrent, Established
<1>5. /\ current' \in Surface /\ current'.lastDamage = current.lastDamage
      /\ current'.eligible = 0 /\ current'.lastBoundary = u.revision
      /\ current'.session = current.session /\ current'.generation = current.generation
  BY <1>1, <1>2 DEF Surface
<1>6. current'.lastDamage >= current.lastDamage /\ current'.lastBoundary <= current'.lastDamage
  BY <1>2, <1>3, <1>5 DEF Surface
<1>7. QueueCoherent'
  BY <1>1, <1>2, <1>3, <1>4, <1>5, <1>6, EnqueuedInOrder
<1>8. TypeInvariant' /\ WithinBudget' /\ LedgerExact'
  BY <1>1, <1>2, <1>5, EnqueuedInBudget DEF TypeInvariant
<1> QED
  BY <1>7, <1>8 DEF MailboxInvariant

LEMMA PopStep ==
    ASSUME MailboxInvariant, Pop
    PROVE  MailboxInvariant' /\ Follows(lastPopped, lastPopped')
<1>1. /\ queue # <<>> /\ queue' = Tail(queue) /\ lastPopped' = Head(queue)
      /\ queuedPixelBytes' = queuedPixelBytes - Head(queue).bytes /\ current' = current
  BY DEF Pop, PopHead
<1>2. TypeInvariant /\ WithinBudget /\ LedgerExact /\ QueueCoherent
  BY DEF MailboxInvariant
<1>3. queue \in Seq(Update) /\ current \in Surface /\ queuedPixelBytes \in Nat
  BY <1>2 DEF TypeInvariant
<1>4. /\ queue' \in Seq(Update) /\ Len(queue') = Len(queue) - 1 /\ lastPopped' = queue[1]
      /\ lastPopped' \in Update /\ Len(queue) \in Nat /\ Len(queue) > 0
      /\ \A i \in 1..Len(queue') : queue'[i] = queue[i + 1] /\ i + 1 \in 1..Len(queue)
  <2>1. Len(queue) \in Nat /\ Len(queue) > 0
    BY <1>1, <1>3
  <2>2. Tail(queue) \in Seq(Update) /\ Len(Tail(queue)) = Len(queue) - 1 /\ Head(queue) = queue[1]
    BY <1>1, <1>3
  <2>3. \A i \in 1..Len(Tail(queue)) : Tail(queue)[i] = queue[i + 1] /\ i + 1 \in 1..Len(queue)
    BY <1>1, <1>3
  <2>4. queue[1] \in Update
    BY <1>3, <2>1
  <2> QED
    BY <1>1, <2>1, <2>2, <2>3, <2>4
<1>5. /\ PixelBytesOf(queue) = PixelBytesOf(queue') + lastPopped'.bytes
      /\ PixelBytesOf(queue') \in Nat /\ lastPopped'.bytes \in Nat
  BY <1>1, <1>3, <1>4, PixelBytesTail, PixelBytesNat DEF Update
<1>6. TypeInvariant'
  BY <1>1, <1>2, <1>3, <1>4, <1>5 DEF TypeInvariant, LedgerExact
<1>7. WithinBudget' /\ LedgerExact'
  <2>1. queuedPixelBytes' = PixelBytesOf(queue') /\ queuedPixelBytes' <= queuedPixelBytes
    BY <1>1, <1>2, <1>3, <1>4, <1>5 DEF LedgerExact
  <2>2. Len(queue') <= EntryLimit /\ queuedPixelBytes' <= PixelByteLimit
    BY <1>2, <1>3, <1>4, <1>6, <2>1, MailboxAssumption DEF WithinBudget, TypeInvariant
  <2> QED
    BY <2>1, <2>2 DEF WithinBudget, LedgerExact
<1>8. Follows(lastPopped, lastPopped')
  BY <1>1, <1>2, <1>4 DEF QueueCoherent
<1>9. QueueCoherent'
  <2>1. (queue # <<>> => Follows(lastPopped, queue[1]))'
    <3>1. SUFFICES ASSUME queue' # <<>> PROVE Follows(lastPopped', queue'[1])
      OBVIOUS
    <3>2. queue'[1] = queue[2] /\ 2 \in 1..Len(queue) /\ 2 > 1 /\ 2 - 1 = 1
      BY <1>4, <3>1
    <3>3. Follows(queue[2 - 1], queue[2])
      BY <1>2, <3>2 DEF QueueCoherent
    <3> QED
      BY <1>4, <3>2, <3>3
  <2>2. ASSUME NEW i \in 1..Len(queue'), i > 1 PROVE Follows(queue'[i - 1], queue'[i])
    <3>1. /\ i - 1 \in 1..Len(queue') /\ (i - 1) + 1 = i /\ i + 1 \in 1..Len(queue)
          /\ i + 1 > 1 /\ (i + 1) - 1 = i
      BY <1>4, <2>2
    <3>2. Follows(queue[(i + 1) - 1], queue[i + 1])
      BY <1>2, <3>1 DEF QueueCoherent
    <3>3. queue'[i - 1] = queue[i] /\ queue'[i] = queue[i + 1]
      BY <1>4, <2>2, <3>1
    <3> QED
      BY <3>1, <3>2, <3>3
  <2>3. ASSUME NEW i \in 1..Len(queue')
        PROVE  /\ MatchesCurrent(queue[i])'
               /\ queue'[i].kind = "Reset" => i = 1
               /\ queue'[i].revision <= current'.lastDamage
    <3>1. queue'[i] = queue[i + 1] /\ i + 1 \in 1..Len(queue) /\ i + 1 # 1
      BY <1>4, <2>3
    <3>2. /\ MatchesCurrent(queue[i + 1]) /\ (queue[i + 1].kind = "Reset" => i + 1 = 1)
          /\ queue[i + 1].revision <= current.lastDamage
      BY <1>2, <3>1 DEF QueueCoherent
    <3> QED
      BY <1>1, <3>1, <3>2 DEF MatchesCurrent, Established
  <2>4. Newest' = Newest
    <3>1. CASE Len(queue) = 1
      <4>1. queue' = <<>>
        BY <1>4, <3>1
      <4> QED
        BY <1>1, <1>4, <3>1, <4>1 DEF Newest
    <3>2. CASE Len(queue) > 1
      <4>1. queue' # <<>> /\ Len(queue') \in 1..Len(queue') /\ Len(queue') + 1 = Len(queue)
        BY <1>4, <3>2
      <4> QED
        BY <1>1, <1>4, <4>1 DEF Newest
    <3> QED
      BY <1>4, <3>1, <3>2
  <2>5. Established
    <3>1. 1 \in 1..Len(queue)
      BY <1>4
    <3> QED
      BY <1>2, <3>1 DEF QueueCoherent, MatchesCurrent
  <2> QED
    BY <1>1, <1>2, <2>1, <2>2, <2>3, <2>4, <2>5
    DEF QueueCoherent, MatchesCurrent, Established
<1> QED
  BY <1>6, <1>7, <1>8, <1>9 DEF MailboxInvariant

-----------------------------------------------------------------------------
LEMMA StutterStep ==
    ASSUME MailboxInvariant, UNCHANGED vars
    PROVE  MailboxInvariant'
BY DEF MailboxInvariant, vars, TypeInvariant, WithinBudget, LedgerExact, QueueCoherent,
       Newest, MatchesCurrent, Established

LEMMA PushStep ==
    ASSUME MailboxInvariant, NEW u \in Update, NEW fits, UNCHANGED lastPopped,
           u.kind = "Reset" => u.bytes = 0 /\ u.revision = 0,
           Push(u, fits)
    PROVE  MailboxInvariant'
<1>1. CASE UNCHANGED mailbox
  BY <1>1, StutterStep DEF vars, mailbox
<1>2. CASE PushReset(u, fits)
  <2>1. u.kind = "Reset" /\ ((ResetAccepted(u, fits) /\ EnqueueReset(u)) \/ UNCHANGED mailbox)
    BY <1>2 DEF PushReset
  <2> QED
    BY <1>1, <2>1, ResetStep
<1>3. CASE PushDamage(u, fits)
  <2>1. CASE DamageAccepted(u, fits) /\ ~ Overflows(u) /\ EnqueueDamage(u)
    BY <1>3, <2>1, DamageStep DEF PushDamage
  <2>2. CASE DamageAccepted(u, fits) /\ ClearCurrentDamageAndBoundaries
    BY <2>2, OverflowStep DEF DamageAccepted, MatchesCurrent
  <2> QED
    BY <1>1, <1>3, <2>1, <2>2 DEF PushDamage
<1>4. CASE PushBoundary(u)
  <2>1. CASE BoundaryAccepted(u) /\ ~ Overflows(u) /\ EnqueueBoundary(u)
    BY <1>4, <2>1, BoundaryStep DEF PushBoundary
  <2>2. CASE BoundaryAccepted(u) /\ ClearCurrentDamageAndBoundaries
    BY <2>2, OverflowStep DEF BoundaryAccepted, MatchesCurrent
  <2> QED
    BY <1>1, <1>4, <2>1, <2>2 DEF PushBoundary
<1> QED
  BY <1>2, <1>3, <1>4 DEF Push

LEMMA InvariantStep ==
    ASSUME MailboxInvariant, [Next]_vars
    PROVE  MailboxInvariant'
<1>1. CASE PublishReset
  <2>1. PICK s \in Sessions, g \in Generations, fits \in BOOLEAN :
           PushReset(ResetUpdate(s, g), fits)
    BY <1>1 DEF PublishReset
  <2> DEFINE u == ResetUpdate(s, g)
  <2>2. u \in Update /\ u.bytes = 0 /\ u.revision = 0
    BY MailboxAssumption DEF ResetUpdate, Update
  <2> QED
    BY <1>1, <2>1, <2>2, PushStep DEF PublishReset, Push
<1>2. CASE PublishDamage
  <2>1. PICK s \in Sessions, g \in Generations, r \in Revisions, b \in PatchBytes,
             p \in Payloads \ FullPayloads, fits \in BOOLEAN :
           PushDamage(DamageUpdate(s, g, r, b, p), fits)
    BY <1>2 DEF PublishDamage
  <2> DEFINE u == DamageUpdate(s, g, r, b, p)
  <2>2. u \in Update /\ u.kind = "Damage"
    BY MailboxAssumption DEF DamageUpdate, Update
  <2> QED
    BY <1>2, <2>1, <2>2, PushStep DEF PublishDamage, Push
<1>3. CASE PublishBoundary
  <2>1. PICK s \in Sessions, g \in Generations, r \in Revisions,
             p \in {NoPayload} \cup FullPayloads : PushBoundary(BoundaryUpdate(s, g, r, p))
    BY <1>3 DEF PublishBoundary
  <2> DEFINE u == BoundaryUpdate(s, g, r, p)
  <2>2. u \in Update /\ u.kind = "Boundary"
    BY MailboxAssumption DEF BoundaryUpdate, Update
  <2> QED
    BY <1>3, <2>1, <2>2, PushStep DEF PublishBoundary, Push
<1>4. CASE Pop
  BY <1>4, PopStep
<1>5. CASE UNCHANGED vars
  BY <1>5, StutterStep
<1> QED
  BY <1>1, <1>2, <1>3, <1>4, <1>5 DEF Next

(***************************************************************************)
(* Every state the mailbox reaches satisfies the inductive invariant.      *)
(***************************************************************************)
THEOREM MailboxInvariance == Spec => []MailboxInvariant
<1>1. Init => MailboxInvariant
  BY InitialInvariant
<1>2. MailboxInvariant /\ [Next]_vars => MailboxInvariant'
  BY InvariantStep
<1> QED
  BY <1>1, <1>2, PTL DEF Spec

(***************************************************************************)
(* The state of the mailbox has its types; in particular the ledger never  *)
(* goes below zero (mailbox.rs:135-142).                                   *)
(***************************************************************************)
THEOREM TypeHolds == Spec => []TypeInvariant
<1>1. MailboxInvariant => TypeInvariant
  BY DEF MailboxInvariant
<1> QED
  BY <1>1, MailboxInvariance, PTL

(***************************************************************************)
(* The mailbox never holds more entries or pixel bytes than its budgets    *)
(* (mailbox.rs:216-240), whatever is pushed.                               *)
(***************************************************************************)
THEOREM BudgetHolds == Spec => []WithinBudget
<1>1. MailboxInvariant => WithinBudget
  BY DEF MailboxInvariant
<1> QED
  BY <1>1, MailboxInvariance, PTL

(***************************************************************************)
(* The byte ledger is exact, so the expect() of pop_enqueued never fires.  *)
(***************************************************************************)
THEOREM LedgerHolds == Spec => []LedgerExact
<1>1. MailboxInvariant => LedgerExact
  BY DEF MailboxInvariant
<1> QED
  BY <1>1, MailboxInvariance, PTL

(***************************************************************************)
(* What is queued continues what was popped.                               *)
(***************************************************************************)
THEOREM CoherenceHolds == Spec => []QueueCoherent
<1>1. MailboxInvariant => QueueCoherent
  BY DEF MailboxInvariant
<1> QED
  BY <1>1, MailboxInvariance, PTL

(***************************************************************************)
(* The consumer sees Reset, damage and boundaries in lifecycle order.      *)
(***************************************************************************)
THEOREM OrderHolds == Spec => DeliveredInOrder
<1>1. MailboxInvariant /\ [Next]_vars => [lastPopped' # lastPopped => Follows(lastPopped, lastPopped')]_vars
  <2>1. SUFFICES ASSUME MailboxInvariant, Next, lastPopped' # lastPopped
                 PROVE  Follows(lastPopped, lastPopped')
    OBVIOUS
  <2>2. Pop
    BY <2>1 DEF Next, PublishReset, PublishDamage, PublishBoundary
  <2> QED
    BY <2>1, <2>2, PopStep
<1> QED
  BY <1>1, MailboxInvariance, PTL DEF Spec, DeliveredInOrder

-----------------------------------------------------------------------------
(***************************************************************************)
(* From the mailbox to the screen.                                         *)
(***************************************************************************)
DeliveryTypes ==
    /\ phase \in {"idle", "draining", "applying"}
    /\ compiler \in Compiler
    /\ transactions \in Seq(Transaction)
    /\ texture \in Texture
    /\ screen \in Receipt

\* Everything in flight belongs to the session of the compiler.
OneSession ==
    /\ Established => current.session = Session
    /\ lastPopped.generation # 0 => lastPopped.session = Session
    /\ lastPopped.kind = "Damage" => lastPopped.revision > 0

(***************************************************************************)
(* The inductive invariant: the mailbox's own, the agreement of compiler,  *)
(* transactions and texture with what was popped, and the receipts.        *)
(***************************************************************************)
DeliveryInvariant ==
    /\ MailboxInvariant
    /\ DeliveryTypes
    /\ OneSession
    /\ OnlyOrderOrContentFails
    /\ LayersAgree
    /\ ReceiptsHonest

-----------------------------------------------------------------------------
(***************************************************************************)
(* What the UI pops next is an update of its session that continues what   *)
(* it popped before.                                                       *)
(***************************************************************************)
LEMMA HeadContinues ==
    ASSUME MailboxInvariant, OneSession, queue # <<>>
    PROVE  /\ Head(queue) \in Update
           /\ Follows(lastPopped, Head(queue))
           /\ Head(queue).session = Session
           /\ lastPopped \in Update
<1>1. queue \in Seq(Update) /\ lastPopped \in Update /\ current \in Surface
  BY DEF MailboxInvariant, TypeInvariant
<1>2. Head(queue) = queue[1] /\ 1 \in 1..Len(queue) /\ queue[1] \in Update
  BY <1>1
<1>3. Follows(lastPopped, queue[1]) /\ MatchesCurrent(queue[1])
  BY <1>2 DEF MailboxInvariant, QueueCoherent
<1> QED
  BY <1>1, <1>2, <1>3 DEF OneSession, MatchesCurrent

(***************************************************************************)
(* CompilerAfter, one kind of update at a time.                            *)
(***************************************************************************)
LEMMA AfterEachKind ==
    ASSUME NEW u \in Update, CompilerAfter(u), u.generation # 0
    PROVE  /\ u.kind = "Reset" =>
                /\ compiler.startup.generation = u.generation
                /\ compiler.pending = NoDamage
                /\ compiler.active.generation < u.generation
           /\ u.kind = "Damage" =>
                \/ /\ compiler.startup.generation = u.generation
                   /\ compiler.pending = NoDamage
                   /\ compiler.active.generation < u.generation
                \/ /\ compiler.startup = NoStartup
                   /\ compiler.active.generation = u.generation
                   /\ compiler.active.revision < u.revision
           /\ u.kind = "Boundary" =>
                /\ compiler.startup = NoStartup
                /\ compiler.pending = NoDamage
                /\ compiler.active = [generation |-> u.generation, revision |-> u.revision]
  BY DEF CompilerAfter, Update

(***************************************************************************)
(* On a stream in mailbox order the compiler fails in two ways only.       *)
(***************************************************************************)
LEMMA CompileErrorsKnown ==
    ASSUME NEW u \in Update, lastPopped \in Update, compiler \in Compiler, OneSession,
           Follows(lastPopped, u), CompilerAfter(lastPopped), u.session = Session
    PROVE  CompileError(u) \in {"None", "RevisionWhilePending", "StartupBoundaryNotFullBaseline"}
<1> USE DEF Update, Compiler, Pending, CompilerAfter, NewCompiler, NoStartup, NoDamage, DamageOf
<1>1. CASE u.kind = "Reset"
  <2>1. u.generation # 0 /\ IsOlder(lastPopped, u)
    BY <1>1 DEF Follows
  <2>2. lastPopped.generation # 0 => lastPopped.generation < u.generation
    BY <2>1 DEF IsOlder, OneSession
  <2>3. compiler.active.generation < u.generation /\ compiler.startup.generation < u.generation
    <3>1. CASE lastPopped.generation = 0
      BY <2>1, <3>1
    <3>2. CASE lastPopped.generation # 0 /\ lastPopped.kind = "Reset"
      BY <2>2, <3>2
    <3>3. CASE lastPopped.generation # 0 /\ lastPopped.kind = "Damage"
      BY <2>1, <2>2, <3>3
    <3>4. CASE lastPopped.generation # 0 /\ lastPopped.kind = "Boundary"
      BY <2>1, <2>2, <3>4
    <3> QED
      BY <3>1, <3>2, <3>3, <3>4
  <2> QED
    BY <1>1, <2>1, <2>3 DEF CompileError, ResetError
<1>2. CASE u.kind = "Damage"
  <2>1. lastPopped.generation # 0 /\ u.generation = lastPopped.generation
        /\ lastPopped.revision < u.revision
    BY <1>2 DEF Follows, SameSurface
  <2>2. IF HasStartup THEN ~ StaleForStartup(u) ELSE HasActive /\ ~ StaleForActive(u)
    <3>1. CASE lastPopped.kind = "Reset"
      BY <2>1, <3>1 DEF HasStartup, HasActive, StaleForStartup, StaleForActive
    <3>2. CASE lastPopped.kind = "Damage"
      BY <2>1, <3>2 DEF HasStartup, HasActive, StaleForStartup, StaleForActive
    <3>3. CASE lastPopped.kind = "Boundary"
      BY <2>1, <3>3 DEF HasStartup, HasActive, StaleForStartup, StaleForActive
    <3> QED
      BY <3>1, <3>2, <3>3
  <2>3. Awaited.revision # u.revision
    <3>1. CASE lastPopped.kind = "Reset"
      BY <2>1, <3>1 DEF HasStartup, Awaited
    <3>2. CASE lastPopped.kind = "Damage"
      BY <2>1, <3>2 DEF HasStartup, Awaited
    <3>3. CASE lastPopped.kind = "Boundary"
      BY <2>1, <3>3 DEF HasStartup, Awaited
    <3> QED
      BY <3>1, <3>2, <3>3
  <2>4. DamageError(u) \in {"None", "RevisionWhilePending"}
    BY <2>2, <2>3 DEF DamageError
  <2> QED
    BY <1>2, <2>4 DEF CompileError
<1>3. CASE u.kind = "Boundary"
  <2>1. /\ lastPopped.kind = "Damage" /\ lastPopped.generation # 0
        /\ u.generation = lastPopped.generation /\ u.revision = lastPopped.revision
        /\ u.revision > 0
    BY <1>3 DEF Follows, SameSurface, OneSession
  <2>2. IF HasStartup THEN u.generation = compiler.startup.generation
        ELSE HasActive /\ ~ StaleForActive(u)
    BY <2>1 DEF HasStartup, HasActive, StaleForActive
  <2>3. Awaited.revision = u.revision /\ Awaited.generation = u.generation
    BY <2>1 DEF HasStartup, Awaited
  <2>4. BoundaryError(u) \in {"None", "StartupBoundaryNotFullBaseline"}
    BY <2>1, <2>2, <2>3 DEF BoundaryError
  <2> QED
    BY <1>3, <2>4 DEF CompileError
<1> QED
  BY <1>1, <1>2, <1>3

(***************************************************************************)
(* An accepted update leaves the compiler where CompilerAfter says, and    *)
(* only a boundary moves the active surface.                               *)
(***************************************************************************)
LEMMA CompiledTracks ==
    ASSUME NEW u \in Update, lastPopped \in Update, compiler \in Compiler, OneSession,
           Follows(lastPopped, u), CompilerAfter(lastPopped), u.session = Session,
           CompileError(u) = "None", compiler' = Compiled(u)
    PROVE  /\ compiler' \in Compiler
           /\ CompilerAfter(u)'
           /\ u.kind # "Boundary" => compiler'.active = compiler.active
           /\ u.kind = "Boundary" =>
                compiler'.active = [generation |-> u.generation, revision |-> u.revision]
           /\ u.generation # 0
<1> USE DEF Update, Compiler, Pending, CompilerAfter, NewCompiler, NoStartup, NoDamage, DamageOf
<1>0. NoPayload \in Payloads
  BY MailboxAssumption
<1>1. CASE u.kind = "Reset"
  <2>1. u.generation # 0 /\ ResetError(u) = "None"
    BY <1>1 DEF Follows, CompileError
  <2>2. compiler.active.generation < u.generation
    BY <2>1 DEF ResetError
  <2>3. compiler' = [compiler EXCEPT !.startup = [generation |-> u.generation, damage |-> NoDamage],
                                     !.pending = NoDamage]
    BY <1>1 DEF Compiled
  <2>4. compiler' \in Compiler
    <3>1. /\ [generation |-> u.generation, damage |-> NoDamage] \in [generation : Nat, damage : Pending]
          /\ NoDamage \in Pending
      BY <1>0
    <3>2. compiler' = [active |-> compiler.active,
                       startup |-> [generation |-> u.generation, damage |-> NoDamage],
                       pending |-> NoDamage]
      BY <2>3
    <3> QED
      BY <3>1, <3>2
  <2>5. CompilerAfter(u)'
    BY <1>1, <2>1, <2>2, <2>3
  <2> QED
    BY <1>1, <2>1, <2>3, <2>4, <2>5
<1>2. CASE u.kind = "Damage"
  <2>1. /\ lastPopped.generation # 0 /\ u.generation = lastPopped.generation
        /\ lastPopped.revision < u.revision
    BY <1>2 DEF Follows, SameSurface
  <2>2. Awaited.revision = 0
    BY <1>2 DEF CompileError, DamageError
  <2>5. lastPopped.kind # "Damage"
    <3>1. lastPopped.kind = "Damage" => Awaited.revision = lastPopped.revision
      BY <2>1 DEF Awaited, HasStartup
    <3> QED
      BY <2>2, <3>1 DEF OneSession
  <2>3. CASE HasStartup
    <3>1. compiler' = [compiler EXCEPT !.startup.damage = DamageOf(u)]
      BY <1>2, <2>3 DEF Compiled
    <3>2. compiler.startup.generation = u.generation /\ compiler.pending = NoDamage
          /\ compiler.active.generation < u.generation
      BY <2>1, <2>3, <2>5, AfterEachKind DEF HasStartup
    <3> QED
      BY <1>2, <2>1, <3>1, <3>2
  <2>4. CASE ~ HasStartup
    <3>1. compiler' = [compiler EXCEPT !.pending = DamageOf(u)]
      BY <1>2, <2>4 DEF Compiled
    <3>2. /\ compiler.startup = NoStartup /\ compiler.active.generation = u.generation
          /\ compiler.active.revision < u.revision
      <4>1. /\ compiler.startup = NoStartup
            /\ compiler.active = [generation |-> u.generation, revision |-> lastPopped.revision]
        BY <2>1, <2>4, <2>5, AfterEachKind DEF HasStartup
      <4> QED
        BY <2>1, <4>1
    <3> QED
      BY <1>2, <2>1, <3>1, <3>2
  <2> QED
    BY <2>3, <2>4
<1>3. CASE u.kind = "Boundary"
  <2>1. /\ lastPopped.kind = "Damage" /\ lastPopped.generation # 0
        /\ u.generation = lastPopped.generation
    BY <1>3 DEF Follows, SameSurface
  <2>2. compiler' = [active |-> [generation |-> u.generation, revision |-> u.revision],
                     startup |-> NoStartup,
                     pending |-> IF HasStartup THEN compiler.pending ELSE NoDamage]
    BY <1>3 DEF Compiled
  <2>3. HasStartup => compiler.pending = NoDamage
    BY <2>1 DEF HasStartup
  <2> QED
    BY <1>0, <1>3, <2>1, <2>2, <2>3
<1> QED
  BY <1>1, <1>2, <1>3

(***************************************************************************)
(* A boundary that compiles emits a transaction that continues the surface *)
(* that was active.                                                        *)
(***************************************************************************)
LEMMA TransactionContinues ==
    ASSUME NEW u \in Update, lastPopped \in Update, compiler \in Compiler, OneSession,
           Follows(lastPopped, u), CompilerAfter(lastPopped), u.session = Session,
           CompileError(u) = "None", u.kind = "Boundary"
    PROVE  /\ TransactionOf(u) \in Transaction
           /\ Continues(compiler.active.generation, compiler.active.revision, TransactionOf(u))
           /\ TransactionOf(u).generation = u.generation
           /\ TransactionOf(u).revision = u.revision
<1> USE DEF Update, Compiler, Pending, CompilerAfter, NoStartup, NoDamage, DamageOf
<1>1. /\ lastPopped.kind = "Damage" /\ lastPopped.generation # 0
      /\ u.generation = lastPopped.generation /\ u.revision = lastPopped.revision
      /\ u.revision > 0
  BY DEF Follows, SameSurface, OneSession
<1>2. /\ Awaited.payload \in Payloads /\ TransactionOf(u) \in Transaction
      /\ TransactionOf(u).generation = u.generation /\ TransactionOf(u).revision = u.revision
      /\ TransactionOf(u).startup = HasStartup /\ TransactionOf(u).full = Full(u)
  BY DEF Awaited, TransactionOf, Transaction, HasStartup, Full
<1>3. CASE HasStartup
  <2>1. Full(u)
    BY <1>3 DEF CompileError, BoundaryError
  <2>2. compiler.active.generation < u.generation
    BY <1>1, <1>3 DEF HasStartup
  <2> QED
    BY <1>1, <1>2, <1>3, <2>1, <2>2 DEF Continues
<1>4. CASE ~ HasStartup
  <2>1. compiler.active.generation = u.generation /\ compiler.active.revision < u.revision
    BY <1>1, <1>4 DEF HasStartup
  <2> QED
    BY <1>1, <1>2, <1>4, <2>1 DEF Continues
<1> QED
  BY <1>3, <1>4

-----------------------------------------------------------------------------
(***************************************************************************)
(* The parts of LayersAgree that are about the compiled transactions.      *)
(***************************************************************************)
Chained ==
    \A i \in 1..Len(transactions) :
        IF i = 1
        THEN Continues(texture.generation, texture.lastBoundary, transactions[1])
        ELSE Continues(transactions[i - 1].generation, transactions[i - 1].revision,
                       transactions[i])

NewestIsActive ==
    compiler.active =
        IF transactions = <<>>
        THEN [generation |-> texture.generation, revision |-> texture.lastBoundary]
        ELSE [generation |-> transactions[Len(transactions)].generation,
              revision |-> transactions[Len(transactions)].revision]

LEMMA AppendTransaction ==
    ASSUME transactions \in Seq(Transaction), texture \in Texture, Chained, NewestIsActive,
           NEW t \in Transaction, UNCHANGED texture, transactions' = Append(transactions, t),
           Continues(compiler.active.generation, compiler.active.revision, t),
           compiler'.active = [generation |-> t.generation, revision |-> t.revision]
    PROVE  /\ transactions' \in Seq(Transaction) /\ transactions' # <<>>
           /\ Chained' /\ NewestIsActive'
<1> DEFINE n == Len(transactions)
<1>1. /\ n \in Nat /\ Len(transactions') = n + 1 /\ transactions' \in Seq(Transaction)
      /\ transactions'[n + 1] = t /\ \A i \in 1..n : transactions'[i] = transactions[i]
      /\ transactions' # <<>> /\ (n = 0 <=> transactions = <<>>) /\ texture' = texture
  OBVIOUS
<1>2. NewestIsActive'
  BY <1>1 DEF NewestIsActive
<1>3. ASSUME NEW i \in 1..(n + 1)
      PROVE  IF i = 1
             THEN Continues(texture.generation, texture.lastBoundary, transactions'[1])
             ELSE Continues(transactions'[i - 1].generation, transactions'[i - 1].revision,
                            transactions'[i])
  <2>1. CASE i \in 1..n
    <3>1. transactions'[i] = transactions[i] /\ (i # 1 => i - 1 \in 1..n)
      BY <1>1, <2>1
    <3>2. i # 1 => transactions'[i - 1] = transactions[i - 1]
      BY <1>1, <3>1
    <3> QED
      BY <1>1, <2>1, <3>1, <3>2 DEF Chained
  <2>2. CASE i = n + 1 /\ n = 0
    BY <1>1, <2>2 DEF NewestIsActive
  <2>3. CASE i = n + 1 /\ n # 0
    <3>1. i - 1 = n /\ i # 1 /\ transactions'[n] = transactions[n]
      BY <1>1, <2>3
    <3>2. Continues(transactions[n].generation, transactions[n].revision, t)
      BY <1>1, <2>3 DEF NewestIsActive
    <3> QED
      BY <1>1, <2>3, <3>1, <3>2
  <2> QED
    BY <1>1, <2>1, <2>2, <2>3
<1>4. Chained'
  BY <1>1, <1>3 DEF Chained
<1> QED
  BY <1>1, <1>2, <1>4

(***************************************************************************)
(* Popping and compiling the head of the mailbox.                          *)
(***************************************************************************)
LEMMA CompileStep ==
    ASSUME DeliveryInvariant, CompileHead
    PROVE  DeliveryInvariant'
<1>1. /\ MailboxInvariant /\ DeliveryTypes /\ OneSession /\ LayersAgree /\ ReceiptsHonest
      /\ Running /\ phase = "draining" /\ Pop /\ queue # <<>> /\ phase' = phase
      /\ texture' = texture /\ screen' = screen
  BY DEF DeliveryInvariant, CompileHead, Pop, PopHead
<1>2. PICK u \in Update : u = Head(queue)
  BY <1>1, HeadContinues
<1>3. /\ lastPopped' = u /\ current' = current /\ MailboxInvariant'
      /\ Follows(lastPopped, u) /\ u.session = Session /\ lastPopped \in Update
  BY <1>1, <1>2, HeadContinues, PopStep DEF Pop, PopHead
<1>4. /\ CompilerAfter(lastPopped) /\ compiler \in Compiler /\ Chained /\ NewestIsActive
      /\ texture.lastDamage = texture.lastBoundary /\ transactions \in Seq(Transaction)
      /\ texture \in Texture
  BY <1>1 DEF LayersAgree, DeliveryTypes, Chained, NewestIsActive
<1>5. CompileError(u) \in {"None", "RevisionWhilePending", "StartupBoundaryNotFullBaseline"}
  BY <1>1, <1>3, <1>4, CompileErrorsKnown
<1>6. OneSession'
  BY <1>1, <1>3 DEF OneSession, Established, Follows, Update
<1>7. ReceiptsHonest'
  BY <1>1 DEF ReceiptsHonest
<1>8. CASE CompileError(u) # "None"
  <2>1. failure' = CompileError(u) /\ transactions' = <<>> /\ compiler' = compiler
    BY <1>2, <1>8 DEF CompileHead
  <2>2. DeliveryTypes' /\ OnlyOrderOrContentFails' /\ LayersAgree'
    <3>1. failure' \in {"RevisionWhilePending", "StartupBoundaryNotFullBaseline"}
      BY <1>5, <1>8, <2>1
    <3>2. OnlyOrderOrContentFails' /\ LayersAgree'
      BY <3>1 DEF OnlyOrderOrContentFails, OrderErrors, LayersAgree, Running
    <3>3. <<>> \in Seq(Transaction)
      OBVIOUS
    <3>4. DeliveryTypes'
      BY <1>1, <2>1, <3>3 DEF DeliveryTypes
    <3> QED
      BY <3>2, <3>4
  <2> QED
    BY <1>3, <1>6, <1>7, <2>2 DEF DeliveryInvariant
<1>9. CASE CompileError(u) = "None"
  <2>1. /\ compiler' = Compiled(u) /\ failure' = failure
        /\ transactions' = IF u.kind = "Boundary" THEN Append(transactions, TransactionOf(u))
                           ELSE transactions
    BY <1>2, <1>9 DEF CompileHead
  <2>2. /\ compiler' \in Compiler /\ CompilerAfter(u)'
        /\ u.kind # "Boundary" => compiler'.active = compiler.active
        /\ u.kind = "Boundary" =>
             compiler'.active = [generation |-> u.generation, revision |-> u.revision]
    BY <1>1, <1>3, <1>4, <1>9, <2>1, CompiledTracks
  <2>3. transactions' \in Seq(Transaction) /\ Chained' /\ NewestIsActive'
    <3>1. CASE u.kind = "Boundary"
      <4>1. PICK t \in Transaction : t = TransactionOf(u)
        BY <1>1, <1>3, <1>4, <1>9, <3>1, TransactionContinues
      <4>2. /\ Continues(compiler.active.generation, compiler.active.revision, t)
            /\ t.generation = u.generation /\ t.revision = u.revision
            /\ transactions' = Append(transactions, t)
        BY <1>1, <1>3, <1>4, <1>9, <2>1, <3>1, <4>1, TransactionContinues
      <4> QED
        BY <1>1, <1>4, <2>2, <3>1, <4>2, AppendTransaction
    <3>2. CASE u.kind # "Boundary"
      BY <1>1, <1>4, <2>1, <2>2, <3>2 DEF Chained, NewestIsActive
    <3> QED
      BY <3>1, <3>2
  <2>4. CompilerAfter(lastPopped)'
    BY <1>3, <2>2 DEF CompilerAfter, DamageOf
  <2>5. LayersAgree'
    BY <1>1, <1>4, <2>3, <2>4 DEF LayersAgree, Chained, NewestIsActive
  <2>6. DeliveryTypes' /\ OnlyOrderOrContentFails'
    BY <1>1, <2>1, <2>2, <2>3 DEF DeliveryInvariant, DeliveryTypes, OnlyOrderOrContentFails, Running
  <2> QED
    BY <1>3, <1>6, <1>7, <2>5, <2>6 DEF DeliveryInvariant
<1> QED
  BY <1>8, <1>9

(***************************************************************************)
(* Publishing changes the mailbox alone.                                   *)
(***************************************************************************)
LEMMA PublishStep ==
    ASSUME DeliveryInvariant, Publish
    PROVE  DeliveryInvariant'
<1>1. /\ phase' = phase /\ compiler' = compiler /\ transactions' = transactions
      /\ texture' = texture /\ screen' = screen /\ failure' = failure
  BY DEF Publish, uiVars
<1>2. lastPopped' = lastPopped
  BY DEF Publish, PublishReset, PublishDamage, PublishBoundary
<1>3. MailboxInvariant'
  BY InvariantStep DEF DeliveryInvariant, Publish, Next
<1>4. Established' => current'.session = Session
  <2>1. Established => current.session = Session
    BY DEF DeliveryInvariant, OneSession
  <2>2. current \in Surface
    BY DEF DeliveryInvariant, MailboxInvariant, TypeInvariant
  <2>3. CASE PublishReset
    <3>1. PICK s \in Sessions, g \in Generations, fits \in BOOLEAN :
             PushReset(ResetUpdate(s, g), fits)
      BY <2>3 DEF PublishReset
    <3>2. s = Session
      BY DeliveryAssumption
    <3> QED
      BY <2>1, <3>1, <3>2 DEF PushReset, EnqueueReset, ResetUpdate, FreshSurface, Established,
                              mailbox
  <2>4. CASE PublishDamage
    <3>1. PICK s \in Sessions, g \in Generations, r \in Revisions, b \in PatchBytes,
               p \in Payloads \ FullPayloads, fits \in BOOLEAN :
             PushDamage(DamageUpdate(s, g, r, b, p), fits)
      BY <2>4 DEF PublishDamage
    <3>2. \/ current' = current
          \/ current' = [current EXCEPT !.lastDamage = r, !.eligible = r]
          \/ current' = [current EXCEPT !.eligible = 0]
      BY <3>1 DEF PushDamage, EnqueueDamage, ClearCurrentDamageAndBoundaries, mailbox, DamageUpdate
    <3> QED
      BY <2>1, <2>2, <3>2 DEF Established, Surface
  <2>5. CASE PublishBoundary
    <3>1. PICK s \in Sessions, g \in Generations, r \in Revisions,
               p \in {NoPayload} \cup FullPayloads : PushBoundary(BoundaryUpdate(s, g, r, p))
      BY <2>5 DEF PublishBoundary
    <3>2. \/ current' = current
          \/ current' = [current EXCEPT !.lastBoundary = r, !.eligible = 0]
          \/ current' = [current EXCEPT !.eligible = 0]
      BY <3>1 DEF PushBoundary, EnqueueBoundary, ClearCurrentDamageAndBoundaries, mailbox,
                  BoundaryUpdate
    <3> QED
      BY <2>1, <2>2, <3>2 DEF Established, Surface
  <2> QED
    BY <2>3, <2>4, <2>5 DEF Publish
<1>5. OneSession'
  BY <1>2, <1>4 DEF DeliveryInvariant, OneSession
<1>6. DeliveryTypes' /\ OnlyOrderOrContentFails' /\ ReceiptsHonest'
  BY <1>1 DEF DeliveryInvariant, DeliveryTypes, OnlyOrderOrContentFails, ReceiptsHonest
<1>7. LayersAgree'
  BY <1>1, <1>2 DEF DeliveryInvariant, LayersAgree, Running, CompilerAfter
<1> QED
  BY <1>3, <1>5, <1>6, <1>7 DEF DeliveryInvariant

(***************************************************************************)
(* Taking and releasing the lock changes the phase alone.                  *)
(***************************************************************************)
LEMMA LockStep ==
    ASSUME DeliveryInvariant, BeginDrain \/ EndDrain
    PROVE  DeliveryInvariant'
<1>1. /\ compiler' = compiler /\ transactions' = transactions /\ texture' = texture
      /\ screen' = screen /\ failure' = failure /\ vars' = vars
      /\ phase' \in {"idle", "draining", "applying"}
      /\ phase' = "applying" => transactions # <<>>
      /\ phase' = "idle" => transactions = <<>>
  BY DEF BeginDrain, EndDrain
<1>2. MailboxInvariant'
  BY <1>1, StutterStep DEF DeliveryInvariant
<1>3. lastPopped' = lastPopped /\ current' = current
  BY <1>1 DEF vars
<1>4. OneSession'
  BY <1>3 DEF DeliveryInvariant, OneSession, Established
<1>5. DeliveryTypes' /\ OnlyOrderOrContentFails' /\ ReceiptsHonest'
  BY <1>1 DEF DeliveryInvariant, DeliveryTypes, OnlyOrderOrContentFails, ReceiptsHonest
<1>6. LayersAgree'
  BY <1>1, <1>3 DEF DeliveryInvariant, LayersAgree, Running, CompilerAfter
<1> QED
  BY <1>2, <1>4, <1>5, <1>6 DEF DeliveryInvariant

(***************************************************************************)
(* The first compiled transaction is in order for the renderer: only for   *)
(* what it carries can it be refused.                                      *)
(***************************************************************************)
LEMMA PlanOutcomes ==
    ASSUME NEW t \in Transaction, texture \in Texture, texture.lastDamage = texture.lastBoundary,
           Continues(texture.generation, texture.lastBoundary, t)
    PROVE  PlanError(t) \in {"None"} \cup ContentErrors
<1>1. CASE t.startup
  BY <1>1 DEF PlanError, Continues, NewTexture, Transaction, Texture, ContentErrors
<1>2. CASE ~ t.startup
  BY <1>2 DEF PlanError, Continues, Transaction, Texture, ContentErrors
<1> QED
  BY <1>1, <1>2 DEF Transaction

LEMMA BatchOutcomes ==
    ASSUME texture \in Texture, texture.lastDamage = texture.lastBoundary,
           Head(transactions) \in Transaction,
           Continues(texture.generation, texture.lastBoundary, Head(transactions))
    PROVE  BatchError \in {"None"} \cup ContentErrors
<1>1. PlanError(Head(transactions)) \in {"None"} \cup ContentErrors
  BY PlanOutcomes
<1> QED
  BY <1>1 DEF BatchError, ContentErrors

\* What Planned does to the texture, field by field.
LEMMA PlannedFields ==
    ASSUME NEW t \in Transaction, texture \in Texture,
           Continues(texture.generation, texture.lastBoundary, t)
    PROVE  /\ Planned(t) \in Texture
           /\ Planned(t).generation = t.generation
           /\ Planned(t).lastDamage = t.revision
           /\ Planned(t).lastBoundary = t.revision
           /\ Planned(t).receipt.generation = t.generation
           /\ Planned(t).receipt.revision = t.revision
           /\ Planned(t).receipt.full <=> Planned(t).unpresentedBaseline
           /\ Planned(t).unpresentedBaseline <=>
                 (~ t.startup /\ texture.unpresentedBaseline) \/ t.full
           /\ Planned(t).baselinePresented <=> ~ t.startup /\ texture.baselinePresented
<1>1. CASE t.startup
  BY <1>1 DEF Planned, NewTexture, NoReceipt, Transaction, Texture, Receipt, Continues
<1>2. CASE ~ t.startup
  BY <1>2 DEF Planned, Transaction, Texture, Receipt, Continues
<1> QED
  BY <1>1, <1>2 DEF Transaction

LEMMA ApplyStep ==
    ASSUME DeliveryInvariant, ApplyHead
    PROVE  DeliveryInvariant'
<1>1. /\ MailboxInvariant /\ DeliveryTypes /\ OneSession /\ LayersAgree /\ ReceiptsHonest
      /\ Running /\ phase = "applying" /\ vars' = vars
      /\ compiler' = compiler /\ screen' = screen
  BY DEF DeliveryInvariant, ApplyHead
<1>2. /\ transactions \in Seq(Transaction) /\ transactions # <<>> /\ texture \in Texture
      /\ Chained /\ NewestIsActive /\ texture.lastDamage = texture.lastBoundary
      /\ CompilerAfter(lastPopped) /\ screen \in Receipt
  BY <1>1 DEF LayersAgree, DeliveryTypes, Chained, NewestIsActive
<1> DEFINE n == Len(transactions)
<1>3. /\ n \in Nat \ {0} /\ Head(transactions) = transactions[1]
      /\ Head(transactions) \in Transaction /\ Tail(transactions) \in Seq(Transaction)
      /\ Len(Tail(transactions)) = n - 1 /\ (n = 1 <=> Tail(transactions) = <<>>)
      /\ \A i \in 1..(n - 1) : Tail(transactions)[i] = transactions[i + 1]
  <2> DEFINE r == Tail(transactions)
  <2>1. /\ n \in Nat \ {0} /\ Head(transactions) = transactions[1]
        /\ Head(transactions) \in Transaction /\ r \in Seq(Transaction) /\ Len(r) = n - 1
        /\ \A i \in 1..(n - 1) : r[i] = transactions[i + 1]
    BY <1>2
  <2>2. r = <<>> <=> Len(r) = 0
    BY <2>1
  <2> HIDE DEF r
  <2>3. n = 1 <=> r = <<>>
    BY <2>1, <2>2
  <2> QED
    BY <2>1, <2>3 DEF r
<1>4. PICK t \in Transaction : t = Head(transactions)
  BY <1>3
<1>5. Continues(texture.generation, texture.lastBoundary, t)
  BY <1>2, <1>3, <1>4 DEF Chained
<1>refused. ASSUME BatchError # "None" PROVE DeliveryInvariant'
  <2>1. BatchError \in ContentErrors
    BY <1>2, <1>4, <1>5, <1>refused, BatchOutcomes
  <2>2. /\ failure' \in ContentErrors /\ transactions' = <<>> /\ texture' = texture
        /\ phase' = "idle"
    BY <1>refused, <2>1 DEF ApplyHead
  <2>3. lastPopped' = lastPopped /\ current' = current /\ MailboxInvariant'
    BY <1>1, StutterStep DEF vars
  <2>4. <<>> \in Seq(Transaction)
    OBVIOUS
  <2>5. OneSession' /\ OnlyOrderOrContentFails' /\ DeliveryTypes' /\ ReceiptsHonest'
    BY <1>1, <2>2, <2>3, <2>4
       DEF OneSession, Established, OnlyOrderOrContentFails, DeliveryTypes, ReceiptsHonest
  <2>6. LayersAgree'
    BY <2>2 DEF LayersAgree, Running, ContentErrors
  <2> QED
    BY <2>3, <2>5, <2>6 DEF DeliveryInvariant
<1>accepted. SUFFICES ASSUME BatchError = "None" PROVE DeliveryInvariant'
  BY <1>refused
<1>6. /\ texture' = Planned(t) /\ transactions' = Tail(transactions)
      /\ phase' = (IF n = 1 THEN "idle" ELSE "applying") /\ failure' = failure
  BY <1>4, <1>accepted DEF ApplyHead
<1>7. /\ texture' \in Texture /\ texture'.generation = t.generation
      /\ texture'.lastDamage = t.revision /\ texture'.lastBoundary = t.revision
      /\ texture'.receipt.generation = t.generation /\ texture'.receipt.revision = t.revision
      /\ texture'.receipt.full <=> texture'.unpresentedBaseline
      /\ texture'.unpresentedBaseline <=>
            (~ t.startup /\ texture.unpresentedBaseline) \/ t.full
      /\ texture'.baselinePresented <=> ~ t.startup /\ texture.baselinePresented
  BY <1>2, <1>5, <1>6, PlannedFields
<1>8. lastPopped' = lastPopped /\ current' = current /\ MailboxInvariant'
  BY <1>1, StutterStep DEF vars
<1>9. OneSession' /\ OnlyOrderOrContentFails' /\ DeliveryTypes'
  BY <1>1, <1>3, <1>6, <1>7, <1>8
     DEF DeliveryInvariant, OneSession, Established, OnlyOrderOrContentFails, DeliveryTypes
<1>10. ReceiptsHonest'
  <2>1. /\ t.generation \in Nat /\ t.revision \in Nat /\ t.startup \in BOOLEAN
        /\ texture.generation \in Nat /\ texture.lastBoundary \in Nat
        /\ texture.receipt.revision \in Nat
        /\ screen.generation \in Nat /\ screen.revision \in Nat /\ t.revision > 0
    BY <1>2, <1>5 DEF Texture, Receipt, Transaction, Continues
  <2>2. CASE t.startup
    <3>1. t.full /\ t.generation > texture.generation /\ screen.generation <= texture.generation
      BY <1>1, <1>5, <2>2 DEF Continues, ReceiptsHonest
    <3>2. /\ texture'.receipt.full /\ texture'.unpresentedBaseline /\ ~ texture'.baselinePresented
          /\ screen.generation < texture'.generation
      BY <1>7, <2>1, <2>2, <3>1
    <3> QED
      BY <1>1, <1>7, <2>1, <2>2, <3>1, <3>2 DEF ReceiptsHonest
  <2>3. CASE ~ t.startup
    <3>1. /\ t.generation = texture.generation /\ texture.generation > 0
          /\ t.revision > texture.lastBoundary
      BY <1>5, <2>3 DEF Continues
    <3>2. screen.generation = texture.generation => screen.revision <= texture.lastBoundary
      BY <1>1 DEF ReceiptsHonest
    <3>3. /\ texture'.generation # 0 => texture'.baselinePresented \/ texture'.unpresentedBaseline
          /\ texture'.receipt.full \/ texture'.baselinePresented
          /\ texture'.baselinePresented <=>
                screen'.generation = texture'.generation /\ texture'.generation # 0
      BY <1>1, <1>7, <2>1, <2>3, <3>1 DEF ReceiptsHonest
    <3> QED
      BY <1>1, <1>7, <2>1, <2>3, <3>1, <3>2, <3>3 DEF ReceiptsHonest
  <2> QED
    BY <2>1, <2>2, <2>3
<1>11. NewestIsActive'
  <2>1. CASE n = 1
    BY <1>1, <1>2, <1>3, <1>4, <1>6, <1>7, <2>1 DEF NewestIsActive
  <2>2. CASE n # 1
    <3>1. /\ transactions' # <<>> /\ Len(transactions') = n - 1
          /\ transactions'[n - 1] = transactions[n]
      BY <1>3, <1>6, <2>2
    <3> QED
      BY <1>1, <1>2, <3>1 DEF NewestIsActive
  <2> QED
    BY <2>1, <2>2
<1>12. Chained'
  <2>1. ASSUME NEW i \in 1..(n - 1)
        PROVE  IF i = 1
               THEN Continues(t.generation, t.revision, transactions'[1])
               ELSE Continues(transactions'[i - 1].generation, transactions'[i - 1].revision,
                              transactions'[i])
    <3>1. /\ i + 1 \in 1..n /\ i + 1 # 1 /\ (i + 1) - 1 = i
          /\ transactions'[i] = transactions[i + 1]
      BY <1>3, <1>6
    <3>2. Continues(transactions[i].generation, transactions[i].revision, transactions[i + 1])
      BY <1>2, <3>1 DEF Chained
    <3>3. i # 1 => transactions'[i - 1] = transactions[i]
      <4>1. i # 1 => i - 1 \in 1..(n - 1) /\ (i - 1) + 1 = i
        BY <1>3
      <4> QED
        BY <1>3, <1>6, <4>1
    <3> QED
      BY <1>3, <1>4, <3>1, <3>2, <3>3
  <2> QED
    BY <1>3, <1>6, <1>7, <2>1 DEF Chained
<1>13. CompilerAfter(lastPopped)'
  BY <1>1, <1>2, <1>8 DEF CompilerAfter
<1>14. LayersAgree'
  BY <1>3, <1>6, <1>7, <1>11, <1>12, <1>13 DEF LayersAgree, Chained, NewestIsActive
<1> QED
  BY <1>8, <1>9, <1>10, <1>14 DEF DeliveryInvariant

LEMMA PresentStep ==
    ASSUME DeliveryInvariant, PresentTexture
    PROVE  DeliveryInvariant'
<1>1. /\ MailboxInvariant /\ DeliveryTypes /\ OneSession /\ LayersAgree /\ ReceiptsHonest
      /\ texture.receipt.revision # 0 /\ texture' = Confirmed /\ screen' = texture.receipt
      /\ vars' = vars /\ phase' = phase /\ compiler' = compiler
      /\ transactions' = transactions /\ failure' = failure
  BY DEF DeliveryInvariant, PresentTexture
<1>2. texture \in Texture /\ screen \in Receipt /\ texture.receipt \in Receipt
  BY <1>1 DEF DeliveryTypes, Texture
<1>3. /\ texture' \in Texture /\ texture'.generation = texture.generation
      /\ texture'.lastDamage = texture.lastDamage /\ texture'.lastBoundary = texture.lastBoundary
      /\ texture'.receipt = NoReceipt
      /\ texture'.unpresentedBaseline <=> texture.unpresentedBaseline /\ ~ texture.receipt.full
      /\ texture'.baselinePresented <=> texture.baselinePresented \/ texture.receipt.full
  BY <1>1, <1>2 DEF Confirmed, Texture, Receipt, NoReceipt
<1>4. lastPopped' = lastPopped /\ current' = current /\ MailboxInvariant'
  BY <1>1, StutterStep DEF vars
<1>5. OneSession' /\ OnlyOrderOrContentFails' /\ DeliveryTypes'
  BY <1>1, <1>2, <1>3, <1>4
     DEF DeliveryInvariant, OneSession, Established, OnlyOrderOrContentFails, DeliveryTypes
<1>6. LayersAgree'
  BY <1>1, <1>3, <1>4 DEF LayersAgree, Running, CompilerAfter
<1>7. ReceiptsHonest'
  <2>1. /\ texture.receipt.generation = texture.generation
        /\ texture.receipt.revision = texture.lastBoundary
        /\ texture.receipt.full \/ texture.baselinePresented
        /\ screen.generation <= texture.generation
        /\ texture.unpresentedBaseline => texture.receipt.full
    BY <1>1 DEF ReceiptsHonest
  <2>2. /\ texture.generation \in Nat /\ texture.lastBoundary \in Nat
    BY <1>2 DEF Texture
  <2>3. texture.generation # 0
    BY <1>1, <1>2, <2>1 DEF ReceiptsHonest, Receipt, Texture
  <2>4. /\ texture'.baselinePresented /\ ~ texture'.unpresentedBaseline
        /\ texture'.receipt.revision = 0
    BY <1>3, <2>1 DEF NoReceipt
  <2>5. screen'.generation = texture'.generation /\ screen'.revision = texture'.lastBoundary
    BY <1>1, <1>3, <2>1
  <2> QED
    BY <1>3, <2>2, <2>3, <2>4, <2>5 DEF ReceiptsHonest
<1> QED
  BY <1>4, <1>5, <1>6, <1>7 DEF DeliveryInvariant

LEMMA DeliveryStutters ==
    ASSUME DeliveryInvariant, UNCHANGED deliveryVars
    PROVE  DeliveryInvariant'
<1>1. UNCHANGED <<vars, uiVars>>
  BY DEF deliveryVars
<1>2. MailboxInvariant' /\ lastPopped' = lastPopped /\ current' = current
  BY <1>1, StutterStep DEF DeliveryInvariant, vars
<1>3. DeliveryTypes' /\ OnlyOrderOrContentFails' /\ ReceiptsHonest'
  BY <1>1 DEF uiVars, DeliveryInvariant, DeliveryTypes, OnlyOrderOrContentFails, ReceiptsHonest
<1>4. OneSession' /\ LayersAgree'
  BY <1>1, <1>2 DEF uiVars, DeliveryInvariant, OneSession, Established, LayersAgree, Running,
                    CompilerAfter
<1> QED
  BY <1>2, <1>3, <1>4 DEF DeliveryInvariant

LEMMA DeliveryStarts == DeliveryInit => DeliveryInvariant
<1> SUFFICES ASSUME DeliveryInit PROVE DeliveryInvariant
  OBVIOUS
<1>1. /\ MailboxInvariant /\ lastPopped = NothingPopped /\ current = NoSurface
      /\ phase = "idle" /\ compiler = NewCompiler /\ transactions = <<>>
      /\ texture = NewTexture(0) /\ screen = NoReceipt /\ failure = "None"
  BY InitialInvariant DEF DeliveryInit, Init
<1>2. DeliveryTypes
  <2>1. NewCompiler \in Compiler
    BY MailboxAssumption DEF NewCompiler, Compiler, NoStartup, NoDamage, Pending
  <2>2. NewTexture(0) \in Texture /\ NoReceipt \in Receipt
    BY DEF NewTexture, Texture, NoReceipt, Receipt
  <2>3. <<>> \in Seq(Transaction)
    OBVIOUS
  <2> QED
    BY <1>1, <2>1, <2>2, <2>3 DEF DeliveryTypes
<1>3. OneSession
  BY <1>1 DEF OneSession, Established, NothingPopped, ResetUpdate, NoSurface, FreshSurface
<1>4. ReceiptsHonest
  BY <1>1 DEF ReceiptsHonest, NewTexture, NoReceipt
<1>5. LayersAgree
  BY <1>1 DEF LayersAgree, CompilerAfter, NothingPopped, ResetUpdate, NewTexture, NewCompiler
<1> QED
  BY <1>1, <1>2, <1>3, <1>4, <1>5 DEF DeliveryInvariant, OnlyOrderOrContentFails

LEMMA DeliveryStep ==
    ASSUME DeliveryInvariant, [DeliveryNext]_deliveryVars
    PROVE  DeliveryInvariant'
  BY PublishStep, LockStep, CompileStep, ApplyStep, PresentStep, DeliveryStutters
     DEF DeliveryNext

-----------------------------------------------------------------------------
(***************************************************************************)
(* Every state on the way from push to screen satisfies the invariant.     *)
(***************************************************************************)
THEOREM DeliveryInvariance == DeliverySpec => []DeliveryInvariant
<1>1. DeliveryInit => DeliveryInvariant
  BY DeliveryStarts
<1>2. DeliveryInvariant /\ [DeliveryNext]_deliveryVars => DeliveryInvariant'
  BY DeliveryStep
<1> QED
  BY <1>1, <1>2, PTL DEF DeliverySpec

(***************************************************************************)
(* Whatever is published, in whatever order with drains and overflows, the *)
(* only frame errors about the order of the stream are                     *)
(* RevisionWhilePending and StartupBoundaryNotFullBaseline; all others are *)
(* about what one update carries: no patches, or a surface of a format or  *)
(* size the renderer does not take (transaction.rs:183-345,                *)
(* remote_texture.rs:317-338, 1084-1405).                                  *)
(***************************************************************************)
THEOREM OnlyOrderOrContent == DeliverySpec => []OnlyOrderOrContentFails
<1>1. DeliveryInvariant => OnlyOrderOrContentFails
  BY DEF DeliveryInvariant
<1> QED
  BY <1>1, DeliveryInvariance, PTL

(***************************************************************************)
(* Compiler, transactions and texture agree with the stream popped so far. *)
(***************************************************************************)
THEOREM LayersHold == DeliverySpec => []LayersAgree
<1>1. DeliveryInvariant => LayersAgree
  BY DEF DeliveryInvariant
<1> QED
  BY <1>1, DeliveryInvariance, PTL

(***************************************************************************)
(* Until a generation's baseline was presented every receipt is full, and  *)
(* the screen never runs ahead of the texture.                             *)
(***************************************************************************)
THEOREM ReceiptsHold == DeliverySpec => []ReceiptsHonest
<1>1. DeliveryInvariant => ReceiptsHonest
  BY DEF DeliveryInvariant
<1> QED
  BY <1>1, DeliveryInvariance, PTL

(***************************************************************************)
(* Applying a transaction starts a generation or advances a revision;      *)
(* presenting the texture is a Present; every other step leaves the        *)
(* texture's position and the screen alone.                                *)
(***************************************************************************)
LEMMA StreamStep ==
    ASSUME DeliveryInvariant, [DeliveryNext]_deliveryVars
    PROVE  [Stream!StreamNext]_(Stream!streamVars)
<1> USE DEF Stream!StreamNext, Stream!streamVars
<1>1. DeliveryTypes /\ ReceiptsHonest /\ texture \in Texture /\ screen \in Receipt
  BY DEF DeliveryInvariant, DeliveryTypes
<1>2. CASE ApplyHead
  <2>1. /\ Running /\ phase = "applying" /\ LayersAgree
    BY <1>2 DEF DeliveryInvariant, ApplyHead
  <2>2. /\ transactions \in Seq(Transaction) /\ transactions # <<>>
        /\ texture.lastDamage = texture.lastBoundary /\ Chained
    BY <1>1, <2>1 DEF LayersAgree, DeliveryTypes, Chained
  <2>3. /\ Head(transactions) = transactions[1] /\ 1 \in 1..Len(transactions)
        /\ transactions[1] \in Transaction
    BY <2>2
  <2>4. PICK t \in Transaction : t = Head(transactions)
    BY <2>3
  <2>5. Continues(texture.generation, texture.lastBoundary, t)
    BY <2>2, <2>3, <2>4 DEF Chained
  <2>refused. CASE BatchError # "None"
    BY <1>2, <2>refused DEF ApplyHead
  <2>accepted. SUFFICES ASSUME BatchError = "None"
                        PROVE  [Stream!StreamNext]_(Stream!streamVars)
    BY <2>refused
  <2>6. texture' = Planned(t) /\ screen' = screen
    BY <1>2, <2>4, <2>accepted DEF ApplyHead
  <2>7. /\ texture'.generation = t.generation /\ texture'.lastBoundary = t.revision
        /\ t.generation \in Nat /\ t.revision \in Nat /\ t.revision > 0
    BY <1>1, <2>5, <2>6, PlannedFields DEF Transaction, Continues
  <2>8. CASE t.startup
    <3>1. t.generation > texture.generation
      BY <2>5, <2>8 DEF Continues
    <3> QED
      BY <2>6, <2>7, <3>1 DEF Stream!Start, Stream!Shown
  <2>9. CASE ~ t.startup
    <3>1. /\ t.generation = texture.generation /\ texture.generation > 0
          /\ t.revision > texture.lastBoundary
      BY <2>5, <2>9 DEF Continues
    <3> QED
      BY <2>6, <2>7, <3>1 DEF Stream!Advance, Stream!Shown
  <2> QED
    BY <2>8, <2>9
<1>3. CASE PresentTexture
  <2>1. /\ texture.receipt.revision # 0 /\ screen' = texture.receipt /\ texture' = Confirmed
    BY <1>3 DEF PresentTexture
  <2>2. texture'.generation = texture.generation /\ texture'.lastBoundary = texture.lastBoundary
    BY <1>1, <2>1 DEF Confirmed, Texture
  <2>3. /\ texture.generation > 0
        /\ texture.receipt.generation = texture.generation
        /\ texture.receipt.revision = texture.lastBoundary
        /\ \/ screen.generation < texture.generation
           \/ screen.generation = texture.generation /\ screen.revision < texture.lastBoundary
    BY <1>1, <2>1 DEF ReceiptsHonest, Texture
  <2>4. screen.generation < texture.generation => texture.receipt.full
    BY <1>1, <2>1 DEF ReceiptsHonest, Texture, Receipt
  <2>5. texture.receipt \in Stream!Screen
    BY <1>1 DEF Texture, Receipt, Stream!Screen
  <2> QED
    BY <2>1, <2>2, <2>3, <2>4, <2>5 DEF Stream!Present
<1>4. CASE Publish \/ BeginDrain \/ EndDrain \/ CompileHead \/ UNCHANGED deliveryVars
  <2>1. texture' = texture /\ screen' = screen
    BY <1>4 DEF Publish, BeginDrain, EndDrain, CompileHead, deliveryVars, uiVars
  <2> QED
    BY <2>1
<1> QED
  BY <1>2, <1>3, <1>4 DEF DeliveryNext

(***************************************************************************)
(* The mailbox, the compiler and the renderer together implement the       *)
(* promise of FrameStream.                                                 *)
(***************************************************************************)
THEOREM DeliveryImplementsStream == DeliverySpec => StreamKept
<1>1. DeliveryInit => Stream!StreamInit
  BY DEF DeliveryInit, Stream!StreamInit, NewTexture, NoReceipt
<1>2. DeliveryInvariant /\ [DeliveryNext]_deliveryVars => [Stream!StreamNext]_(Stream!streamVars)
  BY StreamStep
<1> QED
  BY <1>1, <1>2, DeliveryInvariance, PTL DEF DeliverySpec, StreamKept, Stream!StreamSpec

-----------------------------------------------------------------------------
(***************************************************************************)
(* What the UI cannot overlook: a Wake that is posted exactly when the     *)
(* gate is armed, a call that is still to wake it, or a callback that has  *)
(* not come to the place where it looks.                                   *)
(***************************************************************************)
WakeTypes ==
    /\ armed \in BOOLEAN
    /\ wakes = IF armed THEN 1 ELSE 0
    /\ call \in {"none", "surfaceWake", "reset", "generationWake"}
    /\ callback \in {"none", "Wake", "RedrawRequested"}
    /\ stage \in {"events", "frames", "finish"}
    /\ phase \in {"idle", "draining", "applying"}
    /\ redrawNeeded \in BOOLEAN /\ redrawRequested \in BOOLEAN /\ skipped \in BOOLEAN

CallbackOrder ==
    /\ callback = "none" => stage = "finish" /\ phase = "idle"
    /\ stage # "finish" => phase = "idle"

EventsSeen ==
    events # <<>> => armed \/ call \in {"reset", "generationWake"} \/ stage = "events"

QueueSeen ==
    queue # <<>> =>
      \/ armed
      \/ call \in {"surfaceWake", "generationWake"}
      \/ stage # "finish"
      \/ phase = "draining"

PictureSeen ==
    texture.receipt.revision # 0 =>
      \/ redrawRequested
      \/ ~ Shows \/ skipped
      \/ callback = "RedrawRequested"
      \/ callback = "Wake" /\ stage # "events" /\ redrawNeeded

WakeInvariant ==
    Running => WakeTypes /\ CallbackOrder /\ EventsSeen /\ QueueSeen /\ PictureSeen

-----------------------------------------------------------------------------
(***************************************************************************)
(* What an event of the window leaves alone, and that it leaves the window *)
(* painted, still unpainted or with a redraw to come.                      *)
(***************************************************************************)
LEMMA WindowLeaves ==
    ASSUME WindowStep
    PROVE  /\ Running /\ callback = "none"
           /\ UNCHANGED <<vars, uiVars, runtimeVars, events, wakeVars, callback, stage,
                          redrawNeeded, controller, pixels, skipped>>
<1>1. PICK state, redraw : WindowBecomes(state, redraw)
  BY DEF WindowStep, Occlude, Reveal, Minimize, Resize, ScaleChanges, ScaleSettles
<1> QED
  BY <1>1 DEF WindowBecomes, protocolSide, runtimeVars, vars, mailbox

LEMMA WindowRedraws ==
    ASSUME WindowStep, redrawRequested \in BOOLEAN
    PROVE  /\ redrawRequested' \in BOOLEAN
           /\ redrawRequested => redrawRequested'
           /\ redrawRequested' \/ ~ Shows'
<1> USE DEF WindowBecomes, Shows
<1>1. CASE Occlude \/ Minimize \/ ScaleChanges
  BY <1>1 DEF Occlude, Minimize, ScaleChanges
<1>2. CASE Reveal \/ Resize \/ ScaleSettles
  BY <1>2 DEF Reveal, Resize, ScaleSettles
<1> QED
  BY <1>1, <1>2 DEF WindowStep

(***************************************************************************)
(* What a callback of the UI leaves alone.                                 *)
(***************************************************************************)
LEMMA UiLeaves ==
    ASSUME UiStep
    PROVE  /\ UNCHANGED <<call, runtimeGeneration, poisoned, current>>
           /\ UNCHANGED vars \/ Pop
<1> USE DEF runtimeVars, vars, mailbox
<1>1. CASE HandleWake \/ HandleRedraw \/ ReduceEvents
  BY <1>1 DEF HandleWake, HandleRedraw, ReduceEvents, protocolSide, runtimeVars, mailbox, vars
<1>2. CASE LockMailbox
  BY <1>2 DEF LockMailbox, BeginDrain, runtimeVars, vars
<1>3. CASE CompileUpdate
  BY <1>3 DEF CompileUpdate, CompileHead, Pop, PopHead, runtimeVars
<1>4. CASE UnlockMailbox
  BY <1>4 DEF UnlockMailbox, EndDrain, runtimeVars, vars
<1>5. CASE ApplyTransaction
  BY <1>5 DEF ApplyTransaction, ApplyHead, runtimeVars, vars
<1>6. CASE RequestRedraw
  BY <1>6 DEF RequestRedraw, protocolSide, runtimeVars, mailbox, vars
<1>7. CASE RenderNow
  BY <1>7 DEF RenderNow, RenderPresents, RenderSkips, PresentTexture, runtimeVars, vars
<1>8. CASE WindowStep
  BY <1>8, WindowLeaves
<1> QED
  BY <1>1, <1>2, <1>3, <1>4, <1>5, <1>6, <1>7, <1>8 DEF UiStep

-----------------------------------------------------------------------------
(***************************************************************************)
(* The callbacks of the UI keep the invariant of the wakes.                *)
(***************************************************************************)
LEMMA WakeSides ==
    ASSUME WakeInvariant, Running
    PROVE  /\ WakeTypes /\ CallbackOrder /\ EventsSeen /\ QueueSeen /\ PictureSeen
           /\ armed => wakes = 1
           /\ ~ armed => wakes = 0
BY DEF WakeInvariant, WakeTypes

LEMMA WakesHandled ==
    ASSUME WakeInvariant, HandleWake \/ HandleRedraw
    PROVE  WakeInvariant'
<1>1. /\ Running /\ callback = "none" /\ stage' = "events"
      /\ UNCHANGED <<queue, call, events, phase, texture, failure, redrawNeeded, window, skipped>>
  BY DEF HandleWake, HandleRedraw, protocolSide, mailbox, runtimeVars, uiVars, windowVars
<1>2. /\ WakeTypes /\ CallbackOrder /\ EventsSeen /\ QueueSeen /\ PictureSeen
      /\ (armed => wakes = 1) /\ (~ armed => wakes = 0)
  BY <1>1, WakeSides
<1>3. CallbackOrder' /\ EventsSeen' /\ QueueSeen'
  <2>1. callback' # "none"
    BY DEF HandleWake, HandleRedraw
  <2> QED
    BY <1>1, <1>2, <2>1 DEF CallbackOrder, EventsSeen, QueueSeen
<1>4. CASE HandleWake
  <2>1. /\ wakes > 0 /\ wakes' = wakes - 1 /\ armed' = FALSE /\ callback' = "Wake"
        /\ redrawRequested' = redrawRequested
    BY <1>4 DEF HandleWake
  <2>2. WakeTypes'
    <3>1. wakes' = 0
      BY <1>2, <2>1 DEF WakeTypes
    <3> QED
      BY <1>1, <1>2, <2>1, <3>1 DEF WakeTypes
  <2>3. PictureSeen'
    BY <1>1, <1>2, <2>1 DEF PictureSeen, Shows
  <2> QED
    BY <1>3, <2>2, <2>3 DEF WakeInvariant
<1>5. CASE HandleRedraw
  <2>1. /\ wakes' = wakes /\ armed' = armed /\ callback' = "RedrawRequested"
        /\ redrawRequested' = FALSE
    BY <1>5 DEF HandleRedraw, wakeVars
  <2>2. WakeTypes'
    BY <1>1, <1>2, <2>1 DEF WakeTypes
  <2>3. PictureSeen'
    BY <2>1 DEF PictureSeen
  <2> QED
    BY <1>3, <2>2, <2>3 DEF WakeInvariant
<1> QED
  BY <1>4, <1>5

LEMMA CallbackSteps ==
    ASSUME WakeInvariant, ReduceEvents \/ LockMailbox \/ CompileUpdate \/ UnlockMailbox
    PROVE  WakeInvariant'
<1>1. CASE ReduceEvents
  <2>1. /\ callback # "none" /\ stage = "events" /\ stage' = "frames" /\ events' = <<>>
        /\ redrawNeeded' \in BOOLEAN
        /\ UNCHANGED <<queue, call, armed, wakes, phase, texture, failure, callback,
                       redrawRequested, window, skipped>>
    BY <1>1 DEF ReduceEvents, protocolSide, mailbox, runtimeVars, wakeVars, uiVars,
                windowVars
  <2>2. SUFFICES ASSUME Running' PROVE WakeInvariant'
    BY DEF WakeInvariant
  <2>3. /\ WakeTypes /\ CallbackOrder /\ PictureSeen
    BY <2>1, <2>2, WakeSides DEF Running
  <2>4. WakeTypes'
    BY <2>1, <2>3 DEF WakeTypes
  <2> QED
    BY <2>1, <2>3, <2>4
    DEF WakeInvariant, CallbackOrder, EventsSeen, QueueSeen, PictureSeen, Shows
<1>2. CASE LockMailbox
  <2>1. /\ Running /\ stage = "frames" /\ stage' = "finish" /\ phase' = "draining"
        /\ UNCHANGED <<queue, call, armed, wakes, events, texture, failure, callback,
                       redrawNeeded, redrawRequested, window, skipped>>
    BY <1>2 DEF LockMailbox, BeginDrain, runtimeVars, wakeVars, vars, windowVars
  <2>2. /\ WakeTypes /\ CallbackOrder /\ EventsSeen /\ PictureSeen
    BY <2>1, WakeSides
  <2>3. WakeTypes'
    BY <2>1, <2>2 DEF WakeTypes
  <2> QED
    BY <2>1, <2>2, <2>3
    DEF WakeInvariant, CallbackOrder, EventsSeen, QueueSeen, PictureSeen, Shows
<1>3. CASE CompileUpdate
  <2>1. /\ Running /\ phase = "draining" /\ phase' = phase
        /\ UNCHANGED <<call, armed, wakes, events, texture, callback, stage, redrawNeeded,
                       redrawRequested, window, skipped>>
    BY <1>3 DEF CompileUpdate, CompileHead, runtimeVars, wakeVars, callbackVars, windowVars
  <2>2. /\ WakeTypes /\ CallbackOrder /\ EventsSeen /\ PictureSeen
    BY <2>1, WakeSides
  <2>3. WakeTypes'
    BY <2>1, <2>2 DEF WakeTypes
  <2> QED
    BY <2>1, <2>2, <2>3
    DEF WakeInvariant, CallbackOrder, EventsSeen, QueueSeen, PictureSeen, Shows
<1>4. CASE UnlockMailbox
  <2>1. /\ Running /\ phase = "draining" /\ phase' \in {"idle", "applying"} /\ queue' = <<>>
        /\ UNCHANGED <<call, armed, wakes, events, texture, callback, stage, redrawNeeded,
                       redrawRequested, window, skipped>>
    BY <1>4 DEF UnlockMailbox, EndDrain, runtimeVars, wakeVars, callbackVars, vars,
                windowVars
  <2>2. /\ WakeTypes /\ CallbackOrder /\ EventsSeen /\ PictureSeen
    BY <2>1, WakeSides
  <2>3. WakeTypes'
    BY <2>1, <2>2 DEF WakeTypes
  <2> QED
    BY <2>1, <2>2, <2>3
    DEF WakeInvariant, CallbackOrder, EventsSeen, QueueSeen, PictureSeen, Shows
<1> QED
  BY <1>1, <1>2, <1>3, <1>4

LEMMA PictureSteps ==
    ASSUME WakeInvariant, ApplyTransaction \/ RequestRedraw \/ RenderNow
    PROVE  WakeInvariant'
<1>1. CASE ApplyTransaction
  <2>1. /\ Running /\ phase = "applying" /\ phase' \in {"idle", "applying"}
        /\ redrawNeeded' = TRUE /\ skipped' = FALSE
        /\ UNCHANGED <<queue, call, armed, wakes, events, callback, stage, redrawRequested>>
    BY <1>1 DEF ApplyTransaction, ApplyHead, runtimeVars, wakeVars, vars
  <2>2. /\ WakeTypes /\ CallbackOrder /\ EventsSeen /\ QueueSeen
    BY <2>1, WakeSides
  <2>3. WakeTypes'
    BY <2>1, <2>2 DEF WakeTypes
  <2>4. callback \in {"Wake", "RedrawRequested"} /\ stage = "finish"
    BY <2>1, <2>2 DEF WakeTypes, CallbackOrder
  <2> QED
    BY <2>1, <2>2, <2>3, <2>4
    DEF WakeInvariant, CallbackOrder, EventsSeen, QueueSeen, PictureSeen, Shows
<1>2. CASE RequestRedraw
  <2>1. /\ Running /\ callback = "Wake" /\ stage = "finish" /\ phase = "idle"
        /\ redrawRequested' = (redrawRequested \/ (redrawNeeded /\ "occluded" \notin window))
        /\ redrawNeeded' = FALSE /\ callback' = "none"
        /\ UNCHANGED <<queue, call, armed, wakes, events, texture, stage, phase, window, skipped>>
    BY <1>2 DEF RequestRedraw, protocolSide, mailbox, runtimeVars, wakeVars, uiVars, windowVars
  <2>2. /\ WakeTypes /\ CallbackOrder /\ EventsSeen /\ QueueSeen /\ PictureSeen
    BY <2>1, WakeSides
  <2>3. WakeTypes'
    BY <2>1, <2>2 DEF WakeTypes
  <2> QED
    BY <2>1, <2>2, <2>3
    DEF WakeInvariant, CallbackOrder, EventsSeen, QueueSeen, PictureSeen, Shows
<1>3. CASE RenderNow
  <2>1. /\ Running /\ callback = "RedrawRequested" /\ stage = "finish" /\ phase = "idle"
        /\ redrawNeeded' = FALSE /\ callback' = "none"
        /\ UNCHANGED <<queue, call, armed, wakes, events, stage, phase, window>>
    BY <1>3 DEF RenderNow, RenderPresents, RenderSkips, PresentTexture, runtimeVars, wakeVars,
                vars, uiVars
  <2>2. /\ WakeTypes /\ CallbackOrder /\ EventsSeen /\ QueueSeen
    BY <2>1, WakeSides
  <2>3. /\ PictureSeen'
        /\ redrawRequested' \in BOOLEAN /\ skipped' \in BOOLEAN
    <3>1. CASE RenderPresents
      <4>1. texture'.receipt.revision = 0
        BY <3>1 DEF RenderPresents, PresentTexture, Confirmed, NoReceipt
      <4> QED
        BY <3>1, <4>1 DEF RenderPresents, PictureSeen
    <3>2. CASE RenderSkips
      <4>1. /\ texture' = texture /\ redrawRequested' = redrawRequested
            /\ skipped' = (Shows /\ texture.receipt.revision # 0)
        BY <3>2 DEF RenderSkips, uiVars
      <4>2. Shows' <=> Shows
        BY <2>1 DEF Shows
      <4> QED
        BY <2>2, <4>1, <4>2 DEF PictureSeen, WakeTypes
    <3> QED
      BY <1>3, <3>1, <3>2 DEF RenderNow
  <2>4. WakeTypes'
    BY <2>1, <2>2, <2>3 DEF WakeTypes
  <2> QED
    BY <2>1, <2>2, <2>3, <2>4 DEF WakeInvariant, CallbackOrder, EventsSeen, QueueSeen
<1> QED
  BY <1>1, <1>2, <1>3

LEMMA WindowSteps ==
    ASSUME WakeInvariant, WindowStep
    PROVE  WakeInvariant'
<1>1. /\ Running
      /\ UNCHANGED <<queue, call, armed, wakes, events, callback, stage, phase, redrawNeeded,
                     skipped>>
  BY WindowLeaves DEF vars, uiVars, runtimeVars, wakeVars
<1>2. /\ WakeTypes /\ CallbackOrder /\ EventsSeen /\ QueueSeen
  BY <1>1, WakeSides
<1>3. redrawRequested' \in BOOLEAN /\ (redrawRequested' \/ ~ Shows')
  BY <1>2, WindowRedraws DEF WakeTypes
<1>4. WakeTypes'
  BY <1>1, <1>2, <1>3 DEF WakeTypes
<1> QED
  BY <1>1, <1>2, <1>3, <1>4
  DEF WakeInvariant, CallbackOrder, EventsSeen, QueueSeen, PictureSeen

-----------------------------------------------------------------------------
(***************************************************************************)
(* The steps of the protocol thread keep the invariant of the wakes.       *)
(***************************************************************************)
LEMMA PublishedSeen ==
    ASSUME WakeInvariant, UNCHANGED <<uiSide, armed, wakes>>,
           call' \in {"none", "surfaceWake", "generationWake"},
           call = "none" \/ call' = "generationWake",
           events # <<>> => events' = events, events = <<>> => events' = <<>>,
           call' = "none" => (queue' # <<>> => queue # <<>>)
    PROVE  WakeInvariant'
<1>1. UNCHANGED <<phase, texture, failure, callback, stage, redrawNeeded, redrawRequested,
                 window, skipped>>
  BY DEF uiSide, uiVars, callbackVars, windowVars
<1>2. SUFFICES ASSUME Running PROVE WakeInvariant'
  BY <1>1 DEF WakeInvariant, Running
<1>3. WakeTypes /\ CallbackOrder /\ EventsSeen /\ QueueSeen /\ PictureSeen
  BY <1>2, WakeSides
<1>4. WakeTypes'
  BY <1>1, <1>3 DEF WakeTypes
<1> QED
  BY <1>1, <1>3, <1>4 DEF WakeInvariant, CallbackOrder, EventsSeen, QueueSeen, PictureSeen, Shows

LEMMA Woken ==
    ASSUME WakeInvariant, PostWake, call' = "none", UNCHANGED <<queue, events, uiSide>>
    PROVE  WakeInvariant'
<1>1. UNCHANGED <<phase, texture, failure, callback, stage, redrawNeeded, redrawRequested,
                 window, skipped>>
  BY DEF uiSide, uiVars, callbackVars, windowVars
<1>2. SUFFICES ASSUME Running PROVE WakeInvariant'
  BY <1>1 DEF WakeInvariant, Running
<1>3. /\ WakeTypes /\ CallbackOrder /\ EventsSeen /\ QueueSeen /\ PictureSeen
      /\ (armed => wakes = 1) /\ (~ armed => wakes = 0)
  BY <1>2, WakeSides
<1>4. armed' = TRUE /\ wakes' = 1
  BY <1>3 DEF PostWake, wakeVars, WakeTypes
<1>5. WakeTypes'
  BY <1>1, <1>3, <1>4 DEF WakeTypes
<1> QED
  BY <1>1, <1>3, <1>4, <1>5
  DEF WakeInvariant, CallbackOrder, EventsSeen, QueueSeen, PictureSeen, Shows

\* Nothing is under way when a session begins, and none of it moves by itself.
LEMMA WakeStarts == PipelineInit => WakeInvariant
<1> SUFFICES ASSUME PipelineInit PROVE WakeInvariant
  OBVIOUS
<1>1. /\ queue = <<>> /\ events = <<>> /\ phase = "idle" /\ texture = NewTexture(0)
      /\ call = "none" /\ armed = FALSE /\ wakes = 0 /\ callback = "none"
      /\ stage = "finish" /\ redrawNeeded = FALSE /\ redrawRequested = FALSE
      /\ skipped = FALSE
  BY DEF PipelineInit, DeliveryInit, Init
<1>2. WakeTypes
  BY <1>1 DEF WakeTypes
<1>3. texture.receipt.revision = 0
  BY <1>1 DEF NewTexture, NoReceipt
<1> QED
  BY <1>1, <1>2, <1>3 DEF WakeInvariant, CallbackOrder, EventsSeen, QueueSeen, PictureSeen, Shows

LEMMA EventOpened ==
    ASSUME WakeInvariant, BeginGenerationEvent
    PROVE  WakeInvariant'
<1>1. /\ call = "none" /\ call' = "reset" /\ UNCHANGED <<queue, armed, wakes, uiSide>>
  BY DEF BeginGenerationEvent, mailbox, wakeVars
<1>2. UNCHANGED <<phase, texture, failure, callback, stage, redrawNeeded, redrawRequested,
                 window, skipped>>
  BY <1>1 DEF uiSide, uiVars, callbackVars, windowVars
<1>3. SUFFICES ASSUME Running PROVE WakeInvariant'
  BY <1>2 DEF WakeInvariant, Running
<1>4. WakeTypes /\ CallbackOrder /\ EventsSeen /\ QueueSeen /\ PictureSeen
  BY <1>3, WakeSides
<1>5. WakeTypes'
  BY <1>1, <1>2, <1>4 DEF WakeTypes
<1> QED
  BY <1>1, <1>2, <1>4, <1>5
  DEF WakeInvariant, CallbackOrder, EventsSeen, QueueSeen, PictureSeen, Shows

LEMMA UiKeepsWakes ==
    ASSUME WakeInvariant, UiStep
    PROVE  WakeInvariant'
BY WakesHandled, CallbackSteps, PictureSteps, WindowSteps DEF UiStep

LEMMA WakesStutter ==
    ASSUME WakeInvariant, UNCHANGED pipelineVars
    PROVE  WakeInvariant'
BY DEF pipelineVars, vars, uiVars, runtimeVars, wakeVars, callbackVars, windowVars, WakeInvariant,
       Running, WakeTypes, CallbackOrder, EventsSeen, QueueSeen, PictureSeen, Shows

LEMMA WaitingIsSeen == WakeInvariant => NothingForgotten
<1>1. SUFFICES ASSUME WakeInvariant, Running, callback = "none"
               PROVE  /\ call = "none" /\ (queue # <<>> \/ events # <<>>) => wakes > 0
                      /\ texture.receipt.revision # 0 => redrawRequested \/ ~ Shows \/ skipped
  BY DEF NothingForgotten
<1>2. /\ CallbackOrder /\ EventsSeen /\ QueueSeen /\ PictureSeen /\ (armed => wakes = 1)
  BY <1>1, WakeSides
<1> QED
  BY <1>1, <1>2 DEF CallbackOrder, EventsSeen, QueueSeen, PictureSeen, Shows

-----------------------------------------------------------------------------
(***************************************************************************)
(* What an overflow, a push and a pop do to length, bytes and Resets.      *)
(***************************************************************************)
ResetsEmpty == \A i \in 1..Len(queue) : queue[i].kind = "Reset" => queue[i].bytes = 0

LEMMA Overflowed ==
    ASSUME MailboxInvariant, ResetsEmpty, ClearCurrentDamageAndBoundaries
    PROVE  /\ current' = [current EXCEPT !.eligible = 0]
           /\ Len(queue') <= 1 /\ queuedPixelBytes' = 0
           /\ queue' # <<>> => queue # <<>>
           /\ ResetsEmpty'
<1>1. queue \in Seq(Update)
  BY DEF MailboxInvariant, TypeInvariant
<1>2. queue' = HeadReset(queue) /\ queuedPixelBytes' = PixelBytesOf(queue')
  BY <1>1, RetainedIsHeadReset
  DEF ClearCurrentDamageAndBoundaries, MailboxInvariant, QueueCoherent
<1>3. CASE queue' = <<>>
  BY <1>2, <1>3, PixelBytesEmpty DEF ClearCurrentDamageAndBoundaries, ResetsEmpty
<1>4. CASE queue' # <<>>
  <2>1. /\ queue # <<>> /\ queue[1].kind = "Reset" /\ queue' = <<queue[1]>>
        /\ 1 \in 1..Len(queue)
    BY <1>1, <1>2, <1>4 DEF HeadReset
  <2>2. PICK u \in Update : u = queue[1]
    BY <1>1, <2>1
  <2>3. u.bytes = 0 /\ queue' = <<u>> /\ Len(queue') = 1 /\ queue'[1] = u
    BY <2>1, <2>2 DEF ResetsEmpty
  <2>4. queuedPixelBytes' = 0
    BY <1>2, <2>3, PixelBytesSingle
  <2>5. ResetsEmpty'
    BY <2>3 DEF ResetsEmpty
  <2> QED
    BY <2>1, <2>3, <2>4, <2>5 DEF ClearCurrentDamageAndBoundaries
<1> QED
  BY <1>3, <1>4

LEMMA Enqueued ==
    ASSUME MailboxInvariant, ResetsEmpty, NEW u \in Update, u.kind # "Reset", EnqueueCurrent(u)
    PROVE  /\ Len(queue') = Len(queue) + 1
           /\ queuedPixelBytes' = queuedPixelBytes + u.bytes
           /\ ResetsEmpty'
<1>1. queue \in Seq(Update) /\ queue' = Append(queue, u)
  BY DEF MailboxInvariant, TypeInvariant, EnqueueCurrent
<1>2. /\ Len(queue') = Len(queue) + 1
      /\ \A i \in 1..Len(queue') :
           queue'[i] = u \/ (i \in 1..Len(queue) /\ queue'[i] = queue[i])
  BY <1>1, AppendedQueue, Zenon DEF AppendFacts
<1>3. ResetsEmpty'
  BY <1>2 DEF ResetsEmpty
<1> QED
  BY <1>2, <1>3 DEF EnqueueCurrent

LEMMA Popped ==
    ASSUME MailboxInvariant, ResetsEmpty, Pop
    PROVE  /\ Len(queue') <= Len(queue)
           /\ queuedPixelBytes' <= queuedPixelBytes
           /\ queuedPixelBytes' \in Nat
           /\ ResetsEmpty'
<1>1. /\ queue \in Seq(Update) /\ queue # <<>> /\ queue' = Tail(queue)
      /\ queuedPixelBytes' = queuedPixelBytes - Head(queue).bytes /\ queuedPixelBytes \in Nat
  BY DEF MailboxInvariant, TypeInvariant, Pop, PopHead
<1>2. /\ Len(queue') = Len(queue) - 1 /\ Len(queue) \in Nat
      /\ \A i \in 1..Len(queue') : i + 1 \in 1..Len(queue) /\ queue'[i] = queue[i + 1]
      /\ Head(queue) = queue[1] /\ 1 \in 1..Len(queue)
  BY <1>1
<1>3. Head(queue).bytes \in Nat
  <2>1. PICK u \in Update : u = Head(queue)
    BY <1>1, <1>2
  <2> QED
    BY <2>1 DEF Update
<1>4. queuedPixelBytes' \in Nat
  BY PopStep DEF MailboxInvariant, TypeInvariant
<1>5. ResetsEmpty'
  <2>1. SUFFICES ASSUME NEW i \in 1..Len(queue'), queue'[i].kind = "Reset"
                 PROVE  queue'[i].bytes = 0
    BY DEF ResetsEmpty
  <2>2. PICK k \in 1..Len(queue) : k = i + 1 /\ queue'[i] = queue[k]
    BY <1>2
  <2> QED
    BY <2>1, <2>2 DEF ResetsEmpty
<1> QED
  BY <1>1, <1>2, <1>3, <1>4, <1>5

-----------------------------------------------------------------------------
(***************************************************************************)
(* The bands of a recovery, one after the other, fill the surface.         *)
(***************************************************************************)
BandsTo(k) == UNION {Bands[i] : i \in 1..k}

LEMMA BandsFit ==
    ASSUME NEW k \in 0..Len(Bands)
    PROVE  /\ BandsTo(k) \subseteq Cells /\ IsFiniteSet(BandsTo(k))
           /\ Cardinality(BandsTo(k)) \in Nat
           /\ Cardinality(BandsTo(k)) <= PixelByteLimit
<1>1. Bands \in Seq(SUBSET Cells) /\ IsFiniteSet(Cells) /\ Cardinality(Cells) <= PixelByteLimit
  BY PipelineAssumption
<1>2. BandsTo(k) \subseteq Cells
  <2>1. \A i \in 1..k : i \in 1..Len(Bands)
    BY <1>1
  <2> QED
    BY <1>1, <2>1 DEF BandsTo
<1>3. Cardinality(Cells) \in Nat
  BY <1>1, FS_CardinalityType
<1>4. /\ IsFiniteSet(BandsTo(k)) /\ Cardinality(BandsTo(k)) <= Cardinality(Cells)
  BY <1>1, <1>2, FS_Subset
<1>5. Cardinality(BandsTo(k)) \in Nat
  BY <1>4, FS_CardinalityType
<1> QED
  BY <1>1, <1>2, <1>3, <1>4, <1>5, MailboxAssumption

LEMMA NextBand ==
    ASSUME NEW k \in 0..(Len(Bands) - 1)
    PROVE  /\ Cardinality(BandsTo(k + 1)) = Cardinality(BandsTo(k)) + Cardinality(Bands[k + 1])
           /\ Cardinality(Bands[k + 1]) \in Nat
<1>1. Bands \in Seq(SUBSET Cells) /\ IsFiniteSet(Cells) /\ Len(Bands) \in Nat
  BY PipelineAssumption
<1>2. k + 1 \in 1..Len(Bands) /\ k \in 0..Len(Bands) /\ 1..(k + 1) = (1..k) \cup {k + 1}
  BY <1>1
<1> DEFINE B == Bands[k + 1]
<1>3. B \subseteq Cells /\ IsFiniteSet(B) /\ Cardinality(B) \in Nat
  BY <1>1, <1>2, FS_Subset, FS_CardinalityType
<1>4. IsFiniteSet(BandsTo(k)) /\ Cardinality(BandsTo(k)) \in Nat
  BY <1>2, BandsFit
<1>5. BandsTo(k + 1) = BandsTo(k) \cup B
  BY <1>2 DEF BandsTo
<1>6. BandsTo(k) \cap B = {}
  <2>1. SUFFICES ASSUME NEW c \in B, NEW i \in 1..k, c \in Bands[i] PROVE FALSE
    BY DEF BandsTo
  <2>2. i \in 1..Len(Bands) /\ i # k + 1
    BY <1>1, <1>2
  <2> QED
    BY <1>2, <2>1, <2>2, PipelineAssumption
<1>7. Cardinality(BandsTo(k) \cup B) = Cardinality(BandsTo(k)) + Cardinality(B) - Cardinality({})
  BY <1>3, <1>4, <1>6, FS_Union
<1>8. Cardinality({}) = 0
  BY FS_EmptySet
<1> HIDE DEF B
<1>9. Cardinality(BandsTo(k)) + Cardinality(B) - 0 = Cardinality(BandsTo(k)) + Cardinality(B)
  BY <1>3, <1>4
<1>10. Cardinality(BandsTo(k + 1)) = Cardinality(BandsTo(k)) + Cardinality(B)
  BY <1>5, <1>7, <1>8, <1>9, Zenon
<1> QED
  BY <1>3, <1>10, Zenon DEF B

(***************************************************************************)
(* Why a recovery fits: the overflow left at most a Reset in the queue,    *)
(* and since then nothing was pushed but one damage for each band done and *)
(* one boundary, and bands do not overlap.  Here for the bands still to    *)
(* publish, whether the boundary of the first is due, and the length and   *)
(* the bytes of the queue.                                                 *)
(***************************************************************************)
DoneBefore(bands) == Len(Bands) - Len(bands)
DamagedBefore(bands, due) == IF due THEN DoneBefore(bands) + 1 ELSE DoneBefore(bands)

Room(bands, due, length, bytes) ==
    /\ Len(bands) \in 1..Len(Bands)
    /\ \A i \in 1..Len(bands) : bands[i] = Bands[DoneBefore(bands) + i]
    /\ length <= 1 + DoneBefore(bands) + DamagedBefore(bands, due)
    /\ bytes <= Cardinality(BandsTo(DamagedBefore(bands, due)))

LEMMA Complement == \A m \in Nat : \A n \in 1..m : m - n \in 0..(m - 1)
OBVIOUS

\* The band at hand is the next one to do.
LEMMA RoomFacts ==
    ASSUME NEW bands \in Seq(SUBSET Cells), NEW due \in BOOLEAN, NEW length, NEW bytes,
           Room(bands, due, length, bytes)
    PROVE  /\ Len(Bands) \in Nat /\ Len(bands) \in 1..Len(Bands)
           /\ DoneBefore(bands) \in 0..(Len(Bands) - 1)
           /\ Head(bands) = Bands[DoneBefore(bands) + 1]
           /\ Cardinality(BandsTo(DoneBefore(bands))) \in Nat
           /\ Cardinality(Head(bands)) \in Nat
           /\ Cardinality(BandsTo(DoneBefore(bands) + 1))
                = Cardinality(BandsTo(DoneBefore(bands))) + Cardinality(Head(bands))
           /\ Cardinality(BandsTo(DoneBefore(bands) + 1)) <= PixelByteLimit
           /\ 2 * DoneBefore(bands) + 3 <= EntryLimit
<1>1. Len(Bands) \in Nat
  BY PipelineAssumption
<1>2. /\ Len(bands) \in 1..Len(Bands)
      /\ \A i \in 1..Len(bands) : bands[i] = Bands[DoneBefore(bands) + i]
  BY DEF Room
<1>3. PICK d \in 0..(Len(Bands) - 1) : d = DoneBefore(bands)
  BY <1>1, <1>2, Complement, Zenon DEF DoneBefore
<1>4. d + 1 \in 0..Len(Bands) /\ d \in 0..Len(Bands) /\ d \in Nat
  BY <1>1
<1>5. Head(bands) = Bands[d + 1]
  <2>1. 1 \in 1..Len(bands) /\ Head(bands) = bands[1]
    BY <1>1, <1>2
  <2> QED
    BY <1>2, <1>3, <2>1
<1>6. /\ Cardinality(BandsTo(d)) \in Nat /\ Cardinality(Bands[d + 1]) \in Nat
      /\ Cardinality(BandsTo(d + 1)) = Cardinality(BandsTo(d)) + Cardinality(Bands[d + 1])
      /\ Cardinality(BandsTo(d + 1)) <= PixelByteLimit
  BY <1>4, BandsFit, NextBand
<1>7. 2 * d + 3 <= EntryLimit
  <2>1. 2 * Len(Bands) + 1 <= EntryLimit
    BY PipelineAssumption
  <2> QED
    BY <1>1, <1>3, <2>1, MailboxAssumption
<1> QED
  BY <1>1, <1>2, <1>3, <1>5, <1>6, <1>7

LEMMA RoomForDamage ==
    ASSUME NEW bands \in Seq(SUBSET Cells), Room(bands, FALSE, Len(queue), queuedPixelBytes),
           MailboxInvariant, NEW u, u.bytes = Cardinality(Head(bands))
    PROVE  ~ Overflows(u)
<1>1. PICK d, part, band, full :
        /\ d = DoneBefore(bands) /\ part = Cardinality(BandsTo(d))
        /\ band = Cardinality(Head(bands)) /\ full = Cardinality(BandsTo(d + 1))
  OBVIOUS
<1>2. /\ d \in 0..(Len(Bands) - 1) /\ Len(Bands) \in Nat
      /\ part \in Nat /\ band \in Nat /\ full = part + band
      /\ full <= PixelByteLimit /\ 2 * d + 3 <= EntryLimit
  BY <1>1, RoomFacts, Zenon
<1>3. /\ Len(queue) \in Nat /\ queuedPixelBytes \in Nat
      /\ EntryLimit \in Nat /\ PixelByteLimit \in Nat
  BY MailboxAssumption DEF MailboxInvariant, TypeInvariant
<1>4. Len(queue) <= 1 + d + d /\ queuedPixelBytes <= part
  BY <1>1 DEF Room, DamagedBefore
<1>5. ~ (Len(queue) + 1 > EntryLimit)
  BY <1>2, <1>3, <1>4
<1>6. ~ (queuedPixelBytes + band > PixelByteLimit)
  BY <1>2, <1>3, <1>4
<1> QED
  BY <1>1, <1>5, <1>6, Zenon DEF Overflows

LEMMA RoomForBoundary ==
    ASSUME NEW bands \in Seq(SUBSET Cells), Room(bands, TRUE, Len(queue), queuedPixelBytes),
           MailboxInvariant, NEW u, u.bytes = 0
    PROVE  ~ Overflows(u)
<1>1. PICK d, full : d = DoneBefore(bands) /\ full = Cardinality(BandsTo(d + 1))
  OBVIOUS
<1>2. d \in Nat /\ full <= PixelByteLimit /\ 2 * d + 3 <= EntryLimit /\ full \in Nat
  <2>1. /\ d \in 0..(Len(Bands) - 1) /\ Len(Bands) \in Nat
        /\ full <= PixelByteLimit /\ 2 * d + 3 <= EntryLimit
    BY <1>1, RoomFacts, Zenon
  <2>2. d \in Nat /\ d + 1 \in 0..Len(Bands)
    BY <2>1
  <2> QED
    BY <1>1, <2>1, <2>2, BandsFit, Zenon
<1>3. /\ Len(queue) \in Nat /\ queuedPixelBytes \in Nat
      /\ EntryLimit \in Nat /\ PixelByteLimit \in Nat
  BY MailboxAssumption DEF MailboxInvariant, TypeInvariant
<1>4. Len(queue) <= 1 + d + (d + 1) /\ queuedPixelBytes <= full
  BY <1>1 DEF Room, DamagedBefore
<1>5. ~ (Len(queue) + 1 > EntryLimit)
  BY <1>2, <1>3, <1>4
<1>6. ~ (queuedPixelBytes + u.bytes > PixelByteLimit)
  BY <1>2, <1>3, <1>4
<1> QED
  BY <1>5, <1>6 DEF Overflows

\* A recovery begins, publishes a damage, publishes a boundary.
LEMMA RoomBegins ==
    ASSUME NEW length \in Nat, length <= 1
    PROVE  /\ Bands \in Seq(SUBSET Cells) /\ Bands # <<>> /\ DoneBefore(Bands) = 0
           /\ Room(Bands, FALSE, length, 0)
<1>1. /\ Bands \in Seq(SUBSET Cells) /\ Len(Bands) \in Nat /\ Cells # {}
  BY PipelineAssumption
<1>2. Len(Bands) # 0
  <2>1. SUFFICES ASSUME Len(Bands) = 0 PROVE FALSE
    OBVIOUS
  <2>2. {Bands[i] : i \in 1..Len(Bands)} = {}
    BY <2>1
  <2> QED
    BY <1>1, <2>2, PipelineAssumption
<1>3. DoneBefore(Bands) = 0
  BY <1>1 DEF DoneBefore
<1>4. Cardinality(BandsTo(0)) = 0
  BY FS_EmptySet DEF BandsTo
<1>5. \A i \in 1..Len(Bands) : 0 + i = i
  BY <1>1
<1>6. \A i \in 1..Len(Bands) : Bands[i] = Bands[DoneBefore(Bands) + i]
  BY <1>3, <1>5, Zenon
<1>7. Len(Bands) \in 1..Len(Bands) /\ Bands # <<>>
  BY <1>1, <1>2
<1>8. /\ length <= 1 + DoneBefore(Bands) + DamagedBefore(Bands, FALSE)
      /\ 0 <= Cardinality(BandsTo(DamagedBefore(Bands, FALSE)))
  BY <1>3, <1>4 DEF DamagedBefore
<1> QED
  BY <1>1, <1>3, <1>6, <1>7, <1>8 DEF Room

LEMMA RoomDamaged ==
    ASSUME NEW bands \in Seq(SUBSET Cells), NEW length \in Nat, NEW bytes \in Nat,
           Room(bands, FALSE, length, bytes)
    PROVE  Room(bands, TRUE, length + 1, bytes + Cardinality(Head(bands)))
<1>1. PICK d, part, band, full :
        /\ d = DoneBefore(bands) /\ part = Cardinality(BandsTo(d))
        /\ band = Cardinality(Head(bands)) /\ full = Cardinality(BandsTo(d + 1))
  OBVIOUS
<1>2. /\ d \in 0..(Len(Bands) - 1) /\ Len(Bands) \in Nat
      /\ part \in Nat /\ band \in Nat /\ full = part + band
  BY <1>1, RoomFacts, Zenon
<1>3. length <= 1 + d + d /\ bytes <= part
  BY <1>1 DEF Room, DamagedBefore
<1>4. length + 1 <= 1 + d + (d + 1) /\ bytes + band <= full
  BY <1>2, <1>3
<1> QED
  BY <1>1, <1>4 DEF Room, DamagedBefore

LEMMA RoomBounded ==
    ASSUME NEW bands \in Seq(SUBSET Cells), NEW length \in Nat, NEW bytes \in Nat,
           Room(bands, TRUE, length, bytes), Len(bands) # 1
    PROVE  /\ DoneBefore(Tail(bands)) # 0
           /\ Room(Tail(bands), FALSE, length + 1, bytes)
<1>1. /\ \A i \in 1..Len(bands) : bands[i] = Bands[DoneBefore(bands) + i]
      /\ length <= 1 + DoneBefore(bands) + (DoneBefore(bands) + 1)
      /\ bytes <= Cardinality(BandsTo(DoneBefore(bands) + 1))
      /\ Len(Bands) \in Nat /\ Len(bands) \in 1..Len(Bands) /\ DoneBefore(bands) \in Nat
  <2>1. /\ Len(Bands) \in Nat /\ Len(bands) \in 1..Len(Bands)
        /\ DoneBefore(bands) \in 0..(Len(Bands) - 1)
    BY RoomFacts, Zenon
  <2>2. DoneBefore(bands) \in Nat
    BY <2>1
  <2> QED
    BY <2>1, <2>2 DEF Room, DamagedBefore
<1>2. PICK n \in Nat, m \in Nat, d \in Nat :
        n = Len(bands) /\ m = Len(Bands) /\ d = DoneBefore(bands)
  <2>1. Len(bands) \in Nat /\ Len(Bands) \in Nat /\ DoneBefore(bands) \in Nat
    BY <1>1
  <2> QED
    BY <2>1, Zenon
<1>3. /\ Len(Tail(bands)) = n - 1
      /\ \A i \in 1..(n - 1) : i + 1 \in 1..n /\ Tail(bands)[i] = bands[i + 1]
  BY <1>1, <1>2
<1>4. n - 1 \in 1..m /\ d = m - n
  BY <1>1, <1>2 DEF DoneBefore
<1>5. DoneBefore(Tail(bands)) = d + 1
  <2>1. m - (n - 1) = (m - n) + 1
    BY <1>2
  <2> QED
    BY <1>2, <1>3, <1>4, <2>1, Zenon DEF DoneBefore
<1>6. \A i \in 1..(n - 1) : Tail(bands)[i] = Bands[(d + 1) + i]
  <2>1. SUFFICES ASSUME NEW i \in 1..(n - 1) PROVE Tail(bands)[i] = Bands[(d + 1) + i]
    OBVIOUS
  <2>2. i + 1 \in 1..n /\ Tail(bands)[i] = bands[i + 1]
    BY <1>3
  <2>3. d + (i + 1) = (d + 1) + i
    BY <1>2
  <2> QED
    BY <1>1, <1>2, <2>2, <2>3, Zenon
<1>7. length + 1 <= 1 + (d + 1) + (d + 1)
  BY <1>1, <1>2
<1>8. d + 1 # 0
  BY <1>2
<1>9. /\ Len(Tail(bands)) \in 1..Len(Bands)
      /\ \A i \in 1..Len(Tail(bands)) : Tail(bands)[i] = Bands[DoneBefore(Tail(bands)) + i]
  BY <1>2, <1>3, <1>4, <1>5, <1>6, Zenon
<1>10. DamagedBefore(Tail(bands), FALSE) = d + 1
  BY <1>5 DEF DamagedBefore
<1>11. bytes <= Cardinality(BandsTo(d + 1))
  BY <1>1, <1>2, Zenon
<1> QED
  BY <1>5, <1>7, <1>8, <1>9, <1>10, <1>11, Zenon DEF Room

\* The UI only makes room.
LEMMA RoomDrained ==
    ASSUME NEW bands \in Seq(SUBSET Cells), NEW due \in BOOLEAN,
           NEW length \in Nat, NEW bytes \in Nat, Room(bands, due, length, bytes),
           NEW n \in Nat, NEW m \in Nat, n <= length, m <= bytes
    PROVE  Room(bands, due, n, m)
<1>1. PICK d, k, full :
        d = DoneBefore(bands) /\ k = DamagedBefore(bands, due) /\ full = Cardinality(BandsTo(k))
  OBVIOUS
<1>2. d \in Nat /\ k \in 0..Len(Bands) /\ k \in Nat
  <2>1. Len(Bands) \in Nat /\ DoneBefore(bands) \in 0..(Len(Bands) - 1)
    BY RoomFacts, Zenon
  <2>2. k = IF due THEN d + 1 ELSE d
    BY <1>1, Zenon DEF DamagedBefore
  <2>3. d \in 0..(Len(Bands) - 1)
    BY <1>1, <2>1, Zenon
  <2> QED
    BY <2>1, <2>2, <2>3
<1>3. full \in Nat
  BY <1>1, <1>2, BandsFit
<1>4. length <= 1 + d + k /\ bytes <= full
  BY <1>1 DEF Room
<1>5. n <= 1 + d + k /\ m <= full
  BY <1>2, <1>3, <1>4
<1> QED
  BY <1>1, <1>5 DEF Room

-----------------------------------------------------------------------------
(***************************************************************************)
(* What the texture will show.  A cell's picture is on its way while it is *)
(* in the newest damage of the cell that is queued, popped or compiled, or *)
(* in the texture; a Reset cuts it off from what came before.              *)
(***************************************************************************)
\* Pictures of draws in V only.
Pictures(V) == UNION {[S -> V] : S \in SUBSET Cells}

Covers(u, c) == u.kind = "Damage" /\ c \in DOMAIN u.payload
Whole(u) == u.kind = "Damage" /\ DOMAIN u.payload = Cells

QueuePaints(c, v) ==
    \E i \in 1..Len(queue) :
      /\ Covers(queue[i], c) /\ queue[i].payload[c] = v
      /\ \A k \in 1..Len(queue) : k > i => ~ Covers(queue[k], c)
QueueSkips(c) ==
    \A i \in 1..Len(queue) : ~ Covers(queue[i], c) /\ queue[i].kind # "Reset"

BatchPaints(c, v) ==
    \E i \in 1..Len(transactions) :
      /\ c \in DOMAIN transactions[i].payload /\ transactions[i].payload[c] = v
      /\ \A k \in 1..Len(transactions) : k > i => c \notin DOMAIN transactions[k].payload
BatchSkips(c) == \A i \in 1..Len(transactions) : c \notin DOMAIN transactions[i].payload

Shown(c, v) == BatchPaints(c, v) \/ (BatchSkips(c) /\ pixels[c] = v)

Arrives(c, v) ==
    \/ QueuePaints(c, v)
    \/ /\ QueueSkips(c)
       /\ IF Covers(lastPopped, c) THEN lastPopped.payload[c] = v
          ELSE lastPopped.kind # "Reset" /\ Shown(c, v)

(***************************************************************************)
(* The pending startup of the compiler is gone once the first n updates of *)
(* the queue were compiled.                                                *)
(***************************************************************************)
StartupOver(n) ==
    \/ \E i \in 1..n : queue[i].kind = "Boundary"
    \/ ~ HasStartup /\ \A i \in 1..n : queue[i].kind # "Reset"

Before(i) == IF i = 1 THEN lastPopped ELSE queue[i - 1]

\* A startup is completed by a picture of the whole surface only.
FullIsWhole ==
    \A i \in 1..Len(queue) :
      queue[i].kind = "Boundary" /\ Full(queue[i]) => Whole(Before(i)) \/ StartupOver(i - 1)

BatchWhole(V) ==
    \A i \in 1..Len(transactions) :
      /\ transactions[i].payload \in Pictures(V)
      /\ transactions[i].startup => DOMAIN transactions[i].payload = Cells

\* Damage carries pictures, and a boundary comes behind the damage of its band.
DamageCarries(V) ==
    /\ lastPopped.kind = "Damage" => lastPopped.payload \in Pictures(V)
    /\ \A i \in 1..Len(queue) : queue[i].kind = "Damage" => queue[i].payload \in Pictures(V)

-----------------------------------------------------------------------------
(***************************************************************************)
(* The pipeline is a use of the path from the mailbox to the screen: its   *)
(* steps keep the invariant of that path.                                  *)
(***************************************************************************)
LEMMA PublisherKeepsDelivery ==
    ASSUME DeliveryInvariant, MailboxInvariant', Established' => current'.session = Session,
           UNCHANGED <<uiVars, lastPopped>>
    PROVE  DeliveryInvariant'
<1>1. UNCHANGED <<phase, compiler, transactions, texture, screen, failure, lastPopped>>
  BY DEF uiVars
<1>2. OneSession'
  BY <1>1 DEF DeliveryInvariant, OneSession
<1>3. DeliveryTypes' /\ OnlyOrderOrContentFails' /\ ReceiptsHonest'
  BY <1>1 DEF DeliveryInvariant, DeliveryTypes, OnlyOrderOrContentFails, ReceiptsHonest
<1>4. LayersAgree'
  BY <1>1 DEF DeliveryInvariant, LayersAgree, Running, CompilerAfter
<1> QED
  BY <1>2, <1>3, <1>4 DEF DeliveryInvariant

LEMMA UiKeepsDelivery ==
    ASSUME DeliveryInvariant, UiStep
    PROVE  DeliveryInvariant'
<1>1. CASE HandleWake \/ HandleRedraw \/ ReduceEvents \/ RequestRedraw
  <2>1. UNCHANGED deliveryVars
    BY <1>1 DEF HandleWake, HandleRedraw, ReduceEvents, RequestRedraw, protocolSide, mailbox,
                deliveryVars, vars
  <2> QED
    BY <2>1, DeliveryStutters
<1>2. CASE LockMailbox \/ UnlockMailbox
  BY <1>2, LockStep DEF LockMailbox, UnlockMailbox
<1>3. CASE CompileUpdate
  BY <1>3, CompileStep DEF CompileUpdate
<1>4. CASE ApplyTransaction
  BY <1>4, ApplyStep DEF ApplyTransaction
<1>5. CASE RenderNow
  BY <1>5, PresentStep, DeliveryStutters DEF RenderNow, RenderPresents, RenderSkips, deliveryVars
<1>6. CASE WindowStep
  BY <1>6, WindowLeaves, DeliveryStutters DEF deliveryVars
<1> QED
  BY <1>1, <1>2, <1>3, <1>4, <1>5, <1>6 DEF UiStep

-----------------------------------------------------------------------------
(***************************************************************************)
(* What an update at the end of the queue, and one popped from its head,   *)
(* do to the pictures under way.                                           *)
(***************************************************************************)
LEMMA ArrivalAppended ==
    ASSUME NEW u, AppendFacts(u), u.kind # "Reset", NEW c \in Cells, NEW v,
           UNCHANGED <<lastPopped, transactions, pixels>>,
           (Arrives(c, v) /\ ~ Covers(u, c)) \/ (Covers(u, c) /\ u.payload[c] = v)
    PROVE  Arrives(c, v)'
<1>1. /\ Len(queue') = Len(queue) + 1 /\ Len(queue) \in Nat
      /\ \A i \in 1..Len(queue') : i \in 1..Len(queue) \/ i = Len(queue')
      /\ \A i \in 1..Len(queue) : i \in 1..Len(queue') /\ queue'[i] = queue[i]
      /\ queue'[Len(queue')] = u /\ Len(queue') \in 1..Len(queue')
  BY DEF AppendFacts
<1>2. CASE Covers(u, c) /\ u.payload[c] = v
  <2>1. QueuePaints(c, v)'
    BY <1>1, <1>2 DEF QueuePaints, Covers
  <2> QED
    BY <2>1 DEF Arrives
<1>3. CASE ~ Covers(u, c) /\ QueuePaints(c, v)
  <2>1. PICK i \in 1..Len(queue) :
          /\ Covers(queue[i], c) /\ queue[i].payload[c] = v
          /\ \A k \in 1..Len(queue) : k > i => ~ Covers(queue[k], c)
    BY <1>3 DEF QueuePaints
  <2>2. Covers(queue'[i], c) /\ queue'[i].payload[c] = v
    BY <1>1, <2>1
  <2>3. \A k \in 1..Len(queue') : k > i => ~ Covers(queue'[k], c)
    BY <1>1, <1>3, <2>1
  <2>4. QueuePaints(c, v)'
    BY <1>1, <2>2, <2>3 DEF QueuePaints, Covers
  <2> QED
    BY <2>4 DEF Arrives
<1>4. CASE ~ Covers(u, c) /\ Arrives(c, v) /\ ~ QueuePaints(c, v)
  <2>1. QueueSkips(c)
    BY <1>4 DEF Arrives
  <2>2. QueueSkips(c)'
    BY <1>1, <1>4, <2>1 DEF QueueSkips, Covers
  <2> QED
    BY <1>4, <2>2 DEF Arrives, Covers, Shown, BatchPaints, BatchSkips
<1> QED
  BY <1>2, <1>3, <1>4

LEMMA StartupAppended ==
    ASSUME NEW u, AppendFacts(u), u.kind # "Reset", UNCHANGED compiler
    PROVE  /\ \A n \in 0..Len(queue) : StartupOver(n) => StartupOver(n)'
           /\ StartupOver(Len(queue)) \/ u.kind = "Boundary" => StartupOver(Len(queue))'
<1>1. /\ Len(queue') = Len(queue) + 1 /\ Len(queue) \in Nat
      /\ \A i \in 1..Len(queue) : queue'[i] = queue[i]
      /\ \A i \in 1..Len(queue') : i \in 1..Len(queue) \/ i = Len(queue')
      /\ queue'[Len(queue')] = u /\ Len(queue') \in 1..Len(queue')
  BY DEF AppendFacts
<1>2. ASSUME NEW n \in 0..Len(queue), StartupOver(n) PROVE StartupOver(n)'
  <2>1. \A i \in 1..n : queue'[i] = queue[i]
    BY <1>1
  <2> QED
    BY <1>2, <2>1 DEF StartupOver, HasStartup
<1>3. ASSUME u.kind = "Boundary" PROVE StartupOver(Len(queue))'
  BY <1>1, <1>3 DEF StartupOver
<1>4. ASSUME StartupOver(Len(queue)) PROVE StartupOver(Len(queue))'
  <2>1. CASE \E i \in 1..Len(queue) : queue[i].kind = "Boundary"
    <3>1. \E i \in 1..Len(queue') : queue'[i].kind = "Boundary"
      BY <1>1, <2>1
    <3> QED
      BY <3>1 DEF StartupOver
  <2>2. CASE ~ HasStartup /\ \A i \in 1..Len(queue) : queue[i].kind # "Reset"
    <3>1. \A i \in 1..Len(queue') : queue'[i].kind # "Reset"
      BY <1>1, <2>2
    <3> QED
      BY <2>2, <3>1 DEF StartupOver, HasStartup
  <2> QED
    BY <1>4, <2>1, <2>2 DEF StartupOver
<1> QED
  BY <1>2, <1>3, <1>4

LEMMA WholeAppended ==
    ASSUME NEW u, AppendFacts(u), u.kind # "Reset", UNCHANGED <<compiler, lastPopped>>,
           FullIsWhole,
           u.kind = "Boundary" /\ Full(u) => Whole(Newest) \/ StartupOver(Len(queue))
    PROVE  FullIsWhole'
<1>1. /\ Len(queue') = Len(queue) + 1 /\ Len(queue) \in Nat
      /\ \A i \in 1..Len(queue) : queue'[i] = queue[i]
      /\ \A i \in 1..Len(queue') : i \in 1..Len(queue) \/ i = Len(queue')
      /\ queue'[Len(queue')] = u
      /\ IF queue = <<>> THEN Len(queue') = 1 /\ Newest = lastPopped
         ELSE Len(queue) > 0 /\ Newest = queue[Len(queue)]
  BY DEF AppendFacts
<1>2. \A n \in 0..Len(queue) : StartupOver(n) => StartupOver(n)'
  BY StartupAppended
<1>3. SUFFICES ASSUME NEW i \in 1..Len(queue'), queue'[i].kind = "Boundary", Full(queue'[i])
               PROVE  Whole(Before(i))' \/ StartupOver(i - 1)'
  BY DEF FullIsWhole, Full
<1>4. i - 1 \in 0..Len(queue) /\ (i # 1 => i - 1 \in 1..Len(queue))
  BY <1>1
<1>5. Before(i)' = IF i = 1 THEN lastPopped ELSE queue[i - 1]
  BY <1>1, <1>4 DEF Before
<1>6. CASE i \in 1..Len(queue)
  <2>1. queue'[i] = queue[i] /\ Before(i)' = Before(i)
    BY <1>1, <1>5, <1>6 DEF Before
  <2>2. Whole(Before(i)) \/ StartupOver(i - 1)
    BY <1>3, <1>6, <2>1 DEF FullIsWhole
  <2> QED
    BY <1>2, <1>4, <2>1, <2>2 DEF Whole
<1>7. CASE i = Len(queue')
  <2>1. Before(i)' = Newest
    BY <1>1, <1>5, <1>7
  <2>2. Whole(Newest) \/ StartupOver(i - 1)
    BY <1>1, <1>3, <1>7
  <2> QED
    BY <1>2, <1>4, <2>1, <2>2 DEF Whole
<1> QED
  BY <1>1, <1>6, <1>7

(***************************************************************************)
(* What the compiler makes of the head of the queue when it accepts it.    *)
(***************************************************************************)
LEMMA HeadCompiled ==
    ASSUME DeliveryInvariant, CompileHead, Running'
    PROVE  /\ Running /\ queue # <<>> /\ lastPopped' = queue[1]
           /\ Len(queue) \in Nat \ {0} /\ Len(queue') = Len(queue) - 1
           /\ \A i \in 1..Len(queue') : i + 1 \in 1..Len(queue) /\ queue'[i] = queue[i + 1]
           /\ \A i \in 1..Len(queue) : i # 1 => queue[i].kind # "Reset"
           /\ queue[1].kind = "Reset" => transactions' = transactions
           /\ queue[1].kind = "Damage" =>
                /\ transactions' = transactions /\ lastPopped.kind # "Damage"
                /\ HasStartup' <=> HasStartup
           /\ queue[1].kind = "Boundary" =>
                /\ lastPopped.kind = "Damage" /\ ~ HasStartup'
                /\ transactions' = Append(transactions, TransactionOf(queue[1]))
                /\ TransactionOf(queue[1]).payload = lastPopped.payload
                /\ HasStartup => Full(queue[1])
           /\ queue[1].kind \in {"Reset", "Damage", "Boundary"}
<1>1. /\ MailboxInvariant /\ OneSession /\ LayersAgree /\ Running /\ Pop
      /\ compiler \in Compiler /\ queue \in Seq(Update) /\ queue # <<>>
      /\ lastPopped \in Update
  BY DEF DeliveryInvariant, MailboxInvariant, TypeInvariant, DeliveryTypes, CompileHead, Pop,
         PopHead
<1>2. CompilerAfter(lastPopped)
  BY <1>1 DEF LayersAgree
<1>3. PICK u \in Update : u = Head(queue) /\ u = queue[1]
  BY <1>1
<1>4. Follows(lastPopped, u) /\ u.session = Session
  BY <1>1, <1>3, HeadContinues
<1>5. /\ CompileError(u) = "None" /\ compiler' = Compiled(u)
      /\ transactions' = IF u.kind = "Boundary" THEN Append(transactions, TransactionOf(u))
                         ELSE transactions
  BY <1>3 DEF CompileHead, Running
<1>6. /\ lastPopped' = u /\ queue' = Tail(queue)
  BY <1>1, <1>3 DEF Pop, PopHead
<1>7. /\ Len(queue) \in Nat \ {0} /\ Len(queue') = Len(queue) - 1
      /\ \A i \in 1..Len(queue') : i + 1 \in 1..Len(queue) /\ queue'[i] = queue[i + 1]
  BY <1>1, <1>6
<1>8. \A i \in 1..Len(queue) : i # 1 => queue[i].kind # "Reset"
  BY <1>1 DEF MailboxInvariant, QueueCoherent
<1>9. CASE u.kind = "Damage"
  <2>1. lastPopped.kind # "Damage"
    <3>1. SUFFICES ASSUME lastPopped.kind = "Damage" PROVE FALSE
      OBVIOUS
    <3>2. lastPopped.revision > 0 /\ lastPopped.generation # 0 /\ lastPopped.revision \in Nat
      BY <1>1, <1>4, <1>9, <3>1 DEF OneSession, Follows, Update
    <3>3. Awaited.revision = lastPopped.revision
      BY <1>2, <3>1, <3>2 DEF CompilerAfter, Awaited, HasStartup, DamageOf, NoStartup
    <3>4. DamageError(u) = "None"
      BY <1>4, <1>5, <1>9 DEF CompileError
    <3> QED
      BY <3>2, <3>3, <3>4 DEF DamageError
  <2>2. HasStartup' <=> HasStartup
    BY <1>1, <1>5, <1>9 DEF Compiled, HasStartup, Compiler
  <2> QED
    BY <1>1, <1>3, <1>5, <1>6, <1>7, <1>8, <1>9, <2>1, <2>2
<1>10. CASE u.kind = "Boundary"
  <2>1. lastPopped.kind = "Damage" /\ lastPopped.generation # 0
    BY <1>4, <1>10 DEF Follows
  <2>2. Awaited.payload = lastPopped.payload
    BY <1>2, <2>1 DEF CompilerAfter, Awaited, HasStartup, DamageOf, NoStartup
  <2>3. TransactionOf(u).payload = lastPopped.payload
    BY <2>2 DEF TransactionOf
  <2>4. ~ HasStartup'
    BY <1>5, <1>10 DEF Compiled, HasStartup, NoStartup
  <2>5. HasStartup => Full(u)
    BY <1>4, <1>5, <1>10 DEF CompileError, BoundaryError
  <2> QED
    BY <1>1, <1>3, <1>5, <1>6, <1>7, <1>8, <1>10, <2>1, <2>3, <2>4, <2>5
<1>11. CASE u.kind = "Reset"
  BY <1>1, <1>3, <1>5, <1>6, <1>7, <1>8, <1>11
<1> QED
  BY <1>9, <1>10, <1>11 DEF Update

LEMMA StartupPopped ==
    ASSUME DeliveryInvariant, CompileHead, Running', NEW n \in 1..Len(queue), StartupOver(n)
    PROVE  StartupOver(n - 1)'
<1>1. /\ Len(queue) \in Nat \ {0} /\ Len(queue') = Len(queue) - 1
      /\ \A i \in 1..Len(queue') : i + 1 \in 1..Len(queue) /\ queue'[i] = queue[i + 1]
      /\ \A i \in 1..Len(queue) : i # 1 => queue[i].kind # "Reset"
      /\ queue[1].kind = "Damage" => (HasStartup' <=> HasStartup)
      /\ queue[1].kind = "Boundary" => ~ HasStartup'
      /\ queue[1].kind \in {"Reset", "Damage", "Boundary"}
  BY HeadCompiled
<1>2. \A i \in 1..(n - 1) : i \in 1..Len(queue') /\ i + 1 # 1
  BY <1>1
<1>3. \A i \in 1..(n - 1) : queue'[i] = queue[i + 1] /\ queue'[i].kind # "Reset"
  BY <1>1, <1>2
<1>4. CASE \E i \in 1..n : i # 1 /\ queue[i].kind = "Boundary"
  <2>1. PICK i \in 1..n : i # 1 /\ queue[i].kind = "Boundary"
    BY <1>4
  <2>2. i - 1 \in 1..(n - 1) /\ (i - 1) + 1 = i
    BY <1>1, <2>1
  <2>3. queue'[i - 1].kind = "Boundary"
    BY <1>3, <2>1, <2>2
  <2> QED
    BY <2>2, <2>3 DEF StartupOver
<1>5. CASE queue[1].kind = "Boundary" \/ (~ HasStartup /\ queue[1].kind # "Reset")
  <2>1. ~ HasStartup'
    BY <1>1, <1>5
  <2> QED
    BY <1>3, <2>1 DEF StartupOver
<1>6. 1 \in 1..n
  BY <1>1
<1>7. CASE \E i \in 1..n : queue[i].kind = "Boundary"
  BY <1>4, <1>5, <1>7, Zenon
<1>8. CASE ~ HasStartup /\ \A i \in 1..n : queue[i].kind # "Reset"
  BY <1>5, <1>6, <1>8, Zenon
<1> QED
  BY <1>7, <1>8, Zenon DEF StartupOver

LEMMA WholePopped ==
    ASSUME DeliveryInvariant, CompileHead, Running', FullIsWhole
    PROVE  FullIsWhole'
<1>1. /\ Len(queue) \in Nat \ {0} /\ Len(queue') = Len(queue) - 1
      /\ \A i \in 1..Len(queue') : i + 1 \in 1..Len(queue) /\ queue'[i] = queue[i + 1]
      /\ lastPopped' = queue[1]
  BY HeadCompiled
<1>2. SUFFICES ASSUME NEW i \in 1..Len(queue'), queue'[i].kind = "Boundary", Full(queue'[i])
               PROVE  Whole(Before(i))' \/ StartupOver(i - 1)'
  BY DEF FullIsWhole, Full
<1>3. i + 1 \in 1..Len(queue) /\ i \in 1..Len(queue) /\ i + 1 # 1 /\ (i + 1) - 1 = i
  BY <1>1
<1>4. Whole(Before(i + 1)) \/ StartupOver((i + 1) - 1)
  BY <1>1, <1>2, <1>3 DEF FullIsWhole
<1>5. Before(i + 1) = queue[i]
  BY <1>3 DEF Before
<1>6. Before(i)' = queue[i]
  <2>1. CASE i = 1
    BY <1>1, <2>1 DEF Before
  <2>2. CASE i # 1
    <3>1. i - 1 \in 1..Len(queue') /\ (i - 1) + 1 = i
      BY <1>1, <2>2
    <3>2. queue'[i - 1] = queue[i]
      BY <1>1, <3>1
    <3> QED
      BY <2>2, <3>2 DEF Before
  <2> QED
    BY <2>1, <2>2
<1>7. StartupOver(i) => StartupOver(i - 1)'
  BY <1>3, StartupPopped
<1> QED
  BY <1>3, <1>4, <1>5, <1>6, <1>7 DEF Whole

LEMMA BatchCompiled ==
    ASSUME NEW V, DeliveryInvariant, CompileHead, Running', FullIsWhole, BatchWhole(V),
           lastPopped.kind = "Damage" => lastPopped.payload \in Pictures(V)
    PROVE  BatchWhole(V)'
<1>1. /\ Len(queue) \in Nat \ {0} /\ queue[1].kind \in {"Reset", "Damage", "Boundary"}
      /\ queue[1].kind # "Boundary" => transactions' = transactions
      /\ queue[1].kind = "Boundary" =>
           /\ lastPopped.kind = "Damage"
           /\ transactions' = Append(transactions, TransactionOf(queue[1]))
           /\ TransactionOf(queue[1]).payload = lastPopped.payload
           /\ HasStartup => Full(queue[1])
  BY HeadCompiled
<1>2. transactions \in Seq(Transaction)
  BY DEF DeliveryInvariant, DeliveryTypes
<1>3. CASE queue[1].kind = "Boundary"
  <2> DEFINE t == TransactionOf(queue[1])
  <2>1. t.startup => Whole(lastPopped)
    <3>1. SUFFICES ASSUME t.startup PROVE Whole(lastPopped)
      OBVIOUS
    <3>2. HasStartup
      BY <3>1 DEF TransactionOf
    <3>3. 1 \in 1..Len(queue) /\ 1 - 1 = 0
      BY <1>1
    <3>4. Whole(Before(1)) \/ StartupOver(0)
      BY <1>1, <1>3, <3>2, <3>3 DEF FullIsWhole
    <3>5. ~ StartupOver(0)
      BY <3>2 DEF StartupOver
    <3> QED
      BY <3>4, <3>5 DEF Before
  <2>2. t.payload \in Pictures(V) /\ (t.startup => DOMAIN t.payload = Cells)
    BY <1>1, <1>3, <2>1 DEF Whole
  <2>3. transactions' = Append(transactions, t)
    BY <1>1, <1>3
  <2> HIDE DEF t
  <2>4. /\ \A i \in 1..Len(transactions') : i \in 1..Len(transactions) \/ i = Len(transactions')
        /\ \A i \in 1..Len(transactions) : transactions'[i] = transactions[i]
        /\ transactions'[Len(transactions')] = t
    BY <1>2, <2>3
  <2> QED
    BY <2>2, <2>4 DEF BatchWhole
<1>4. CASE queue[1].kind # "Boundary"
  BY <1>1, <1>4 DEF BatchWhole
<1> QED
  BY <1>3, <1>4

LEMMA ArrivalPopped ==
    ASSUME DeliveryInvariant, CompileHead, Running', UNCHANGED pixels,
           NEW c \in Cells, NEW v, Arrives(c, v)
    PROVE  Arrives(c, v)'
<1>1. /\ Len(queue) \in Nat \ {0} /\ Len(queue') = Len(queue) - 1
      /\ \A i \in 1..Len(queue') : i + 1 \in 1..Len(queue) /\ queue'[i] = queue[i + 1]
      /\ \A i \in 1..Len(queue) : i # 1 => queue[i].kind # "Reset"
      /\ lastPopped' = queue[1]
      /\ queue[1].kind \in {"Reset", "Damage", "Boundary"}
      /\ queue[1].kind # "Boundary" => transactions' = transactions
      /\ queue[1].kind = "Damage" => lastPopped.kind # "Damage"
      /\ queue[1].kind = "Boundary" =>
           /\ lastPopped.kind = "Damage"
           /\ transactions' = Append(transactions, TransactionOf(queue[1]))
           /\ TransactionOf(queue[1]).payload = lastPopped.payload
  BY HeadCompiled
<1>2. transactions \in Seq(Transaction)
  BY DEF DeliveryInvariant, DeliveryTypes
<1>3. CASE QueuePaints(c, v)
  <2>1. PICK i \in 1..Len(queue) :
          /\ Covers(queue[i], c) /\ queue[i].payload[c] = v
          /\ \A k \in 1..Len(queue) : k > i => ~ Covers(queue[k], c)
    BY <1>3 DEF QueuePaints
  <2>2. CASE i = 1
    <3>1. ASSUME NEW k \in 1..Len(queue')
          PROVE  ~ Covers(queue'[k], c) /\ queue'[k].kind # "Reset"
      <4>1. k + 1 \in 1..Len(queue) /\ queue'[k] = queue[k + 1] /\ k + 1 > i /\ k + 1 # 1
        BY <1>1, <2>2
      <4> QED
        BY <1>1, <2>1, <4>1
    <3>2. QueueSkips(c)'
      BY <3>1 DEF QueueSkips, Covers
    <3>3. Covers(lastPopped', c) /\ lastPopped'.payload[c] = v
      BY <1>1, <2>1, <2>2
    <3> QED
      BY <3>2, <3>3 DEF Arrives, Covers
  <2>3. CASE i # 1
    <3>1. i - 1 \in 1..Len(queue') /\ (i - 1) + 1 = i
      BY <1>1, <2>3
    <3>2. Covers(queue'[i - 1], c) /\ queue'[i - 1].payload[c] = v
      BY <1>1, <2>1, <3>1
    <3>3. ASSUME NEW k \in 1..Len(queue'), k > i - 1 PROVE ~ Covers(queue'[k], c)
      <4>1. k + 1 \in 1..Len(queue) /\ queue'[k] = queue[k + 1] /\ k + 1 > i
        BY <1>1, <3>3
      <4> QED
        BY <2>1, <4>1
    <3>4. QueuePaints(c, v)'
      BY <3>1, <3>2, <3>3 DEF QueuePaints, Covers
    <3> QED
      BY <3>4 DEF Arrives
  <2> QED
    BY <2>2, <2>3
<1>4. CASE ~ QueuePaints(c, v)
  <2>1. /\ QueueSkips(c) /\ 1 \in 1..Len(queue)
        /\ IF Covers(lastPopped, c) THEN lastPopped.payload[c] = v
           ELSE lastPopped.kind # "Reset" /\ Shown(c, v)
    BY <1>1, <1>4 DEF Arrives
  <2>2. ~ Covers(queue[1], c) /\ queue[1].kind # "Reset"
    BY <2>1 DEF QueueSkips
  <2>3. QueueSkips(c)'
    <3>1. \A k \in 1..Len(queue') : ~ Covers(queue'[k], c) /\ queue'[k].kind # "Reset"
      BY <1>1, <2>1 DEF QueueSkips
    <3> QED
      BY <3>1 DEF QueueSkips, Covers
  <2>4. Shown(c, v)'
    <3>1. CASE queue[1].kind = "Damage"
      BY <1>1, <2>1, <3>1 DEF Covers, Shown, BatchPaints, BatchSkips
    <3>2. CASE queue[1].kind = "Boundary"
      <4>1. PICK t : t = TransactionOf(queue[1])
        OBVIOUS
      <4>2. /\ transactions' = Append(transactions, t) /\ t.payload = lastPopped.payload
            /\ lastPopped.kind = "Damage"
        BY <1>1, <3>2, <4>1
      <4>3. /\ \A i \in 1..Len(transactions') :
                 i \in 1..Len(transactions) \/ i = Len(transactions')
            /\ \A i \in 1..Len(transactions) :
                 transactions'[i] = transactions[i] /\ i \in 1..Len(transactions')
            /\ transactions'[Len(transactions')] = t
            /\ Len(transactions') \in 1..Len(transactions') /\ Len(transactions) \in Nat
            /\ Len(transactions') = Len(transactions) + 1
        BY <1>2, <4>2
      <4>4. CASE Covers(lastPopped, c)
        <5>1. c \in DOMAIN t.payload /\ t.payload[c] = v
          BY <2>1, <4>2, <4>4 DEF Covers
        <5>2. BatchPaints(c, v)'
          BY <4>3, <5>1 DEF BatchPaints
        <5> QED
          BY <5>2 DEF Shown
      <4>5. CASE ~ Covers(lastPopped, c)
        <5>1. c \notin DOMAIN t.payload /\ Shown(c, v)
          BY <2>1, <4>2, <4>5 DEF Covers
        <5>2. BatchPaints(c, v) => BatchPaints(c, v)'
          BY <4>3, <5>1 DEF BatchPaints
        <5>3. BatchSkips(c) => BatchSkips(c)'
          BY <4>3, <5>1 DEF BatchSkips
        <5> QED
          BY <5>1, <5>2, <5>3 DEF Shown
      <4> QED
        BY <4>4, <4>5
    <3> QED
      BY <1>1, <2>2, <3>1, <3>2
  <2> QED
    BY <1>1, <2>2, <2>3, <2>4 DEF Arrives, Covers
<1> QED
  BY <1>3, <1>4

(***************************************************************************)
(* What a transaction paints that the renderer's planner accepts.          *)
(***************************************************************************)
LEMMA PictureFacts ==
    ASSUME NEW V, NEW p \in Pictures(V)
    PROVE  DOMAIN p \subseteq Cells /\ \A c \in DOMAIN p : p[c] \in V
BY DEF Pictures

LEMMA HeadApplied ==
    ASSUME NEW V, 0 \notin V, DeliveryInvariant, ApplyTransaction, BatchError = "None",
           BatchWhole(V), StartupPaintsEverything, pixels \in [Cells -> V \cup {0}]
    PROVE  /\ pixels' \in [Cells -> V \cup {0}]
           /\ BatchWhole(V)' /\ StartupPaintsEverything'
           /\ \A c \in Cells : \A v : Shown(c, v) => Shown(c, v)'
<1>1. /\ LayersAgree /\ Running /\ ApplyHead /\ phase = "applying"
      /\ transactions \in Seq(Transaction) /\ texture \in Texture
  BY DEF DeliveryInvariant, DeliveryTypes, ApplyTransaction, ApplyHead
<1>2. /\ transactions # <<>> /\ texture.lastDamage = texture.lastBoundary /\ Chained
  BY <1>1 DEF LayersAgree, Chained
<1>3. PICK t \in Transaction : t = Head(transactions) /\ t = transactions[1]
  BY <1>1, <1>2
<1>4. /\ Len(transactions) \in Nat \ {0} /\ 1 \in 1..Len(transactions)
      /\ Len(Tail(transactions)) = Len(transactions) - 1
      /\ \A i \in 1..Len(Tail(transactions)) :
           i + 1 \in 1..Len(transactions) /\ Tail(transactions)[i] = transactions[i + 1]
  BY <1>1, <1>2
<1>5. Continues(texture.generation, texture.lastBoundary, t)
  BY <1>2, <1>3, <1>4 DEF Chained
<1>7. /\ transactions' = Tail(transactions) /\ texture' = Planned(t) /\ failure' = failure
      /\ pixels' = PaintedBy(t)
  BY <1>1, <1>3 DEF ApplyTransaction, ApplyHead
<1>8. /\ t.payload \in Pictures(V) /\ (t.startup => DOMAIN t.payload = Cells)
      /\ \A c \in DOMAIN t.payload : t.payload[c] \in V /\ t.payload[c] # 0
  BY <1>3, <1>4, PictureFacts DEF BatchWhole
<1>9. /\ pixels' \in [Cells -> V \cup {0}]
      /\ \A c \in Cells :
           pixels'[c] = IF c \in DOMAIN t.payload THEN t.payload[c] ELSE pixels[c]
  BY <1>7, <1>8 DEF PaintedBy
<1>10. BatchWhole(V)'
  BY <1>4, <1>7 DEF BatchWhole
<1>11. StartupPaintsEverything'
  <2>1. SUFFICES ASSUME texture'.generation # 0, NEW c \in Cells PROVE pixels'[c] # 0
    BY DEF StartupPaintsEverything
  <2>2. texture'.generation = t.generation
    BY <1>1, <1>5, <1>7, PlannedFields
  <2>3. CASE c \in DOMAIN t.payload
    BY <1>8, <1>9, <2>3
  <2>4. CASE c \notin DOMAIN t.payload
    <3>1. texture.generation # 0
      BY <1>5, <1>8, <2>1, <2>2, <2>4 DEF Continues
    <3> QED
      BY <1>1, <1>9, <2>4, <3>1 DEF StartupPaintsEverything
  <2> QED
    BY <2>3, <2>4
<1>12. ASSUME NEW c \in Cells, NEW v, Shown(c, v) PROVE Shown(c, v)'
  <2>1. CASE BatchPaints(c, v)
    <3>1. PICK i \in 1..Len(transactions) :
            /\ c \in DOMAIN transactions[i].payload /\ transactions[i].payload[c] = v
            /\ \A k \in 1..Len(transactions) : k > i => c \notin DOMAIN transactions[k].payload
      BY <2>1 DEF BatchPaints
    <3>2. CASE i = 1
      <4>1. pixels'[c] = v
        BY <1>3, <1>9, <3>1, <3>2
      <4>2. ASSUME NEW k \in 1..Len(Tail(transactions))
            PROVE  c \notin DOMAIN Tail(transactions)[k].payload
        BY <1>4, <3>1, <3>2
      <4> QED
        BY <1>7, <4>1, <4>2 DEF Shown, BatchSkips
    <3>3. CASE i # 1
      <4>1. i - 1 \in 1..Len(Tail(transactions)) /\ (i - 1) + 1 = i
        BY <1>4, <3>3
      <4>2. ASSUME NEW k \in 1..Len(Tail(transactions)), k > i - 1
            PROVE  c \notin DOMAIN Tail(transactions)[k].payload
        <5>1. k + 1 \in 1..Len(transactions) /\ k + 1 > i
              /\ Tail(transactions)[k] = transactions[k + 1]
          BY <1>4, <4>2
        <5> QED
          BY <3>1, <5>1
      <4>3. Tail(transactions)[i - 1] = transactions[i]
        BY <1>4, <4>1
      <4>4. BatchPaints(c, v)'
        BY <1>7, <3>1, <4>1, <4>2, <4>3 DEF BatchPaints
      <4> QED
        BY <4>4 DEF Shown
    <3> QED
      BY <3>2, <3>3
  <2>2. CASE BatchSkips(c) /\ pixels[c] = v
    <3>1. c \notin DOMAIN t.payload
      BY <1>3, <1>4, <2>2 DEF BatchSkips
    <3>2. pixels'[c] = v
      BY <1>9, <2>2, <3>1
    <3>3. BatchSkips(c)'
      BY <1>4, <1>7, <2>2 DEF BatchSkips
    <3> QED
      BY <3>2, <3>3 DEF Shown
  <2> QED
    BY <1>12, <2>1, <2>2 DEF Shown
<1> QED
  BY <1>9, <1>10, <1>11, <1>12

LEMMA NewestStays ==
    ASSUME NEW V, MailboxInvariant, Pop, DamageCarries(V)
    PROVE  Newest' = Newest /\ DamageCarries(V)'
<1>1. /\ queue \in Seq(Update) /\ queue # <<>> /\ queue' = Tail(queue)
      /\ lastPopped' = Head(queue)
  BY DEF MailboxInvariant, TypeInvariant, Pop, PopHead
<1>2. /\ Len(queue) \in Nat \ {0} /\ 1 \in 1..Len(queue) /\ lastPopped' = queue[1]
      /\ Len(queue') = Len(queue) - 1
      /\ \A i \in 1..Len(queue') : i + 1 \in 1..Len(queue) /\ queue'[i] = queue[i + 1]
      /\ (queue' = <<>>) <=> (Len(queue') = 0)
  <2> DEFINE r == Tail(queue)
  <2>1. /\ Len(queue) \in Nat \ {0} /\ 1 \in 1..Len(queue) /\ Head(queue) = queue[1]
        /\ r \in Seq(Update) /\ Len(r) = Len(queue) - 1
        /\ \A i \in 1..Len(r) : i + 1 \in 1..Len(queue) /\ r[i] = queue[i + 1]
    BY <1>1
  <2> HIDE DEF r
  <2>2. (r = <<>>) <=> (Len(r) = 0)
    <3>1. r \in Seq(Update)
      BY <2>1
    <3> QED
      BY <3>1
  <2>3. queue' = r
    BY <1>1 DEF r
  <2> QED
    BY <1>1, <2>1, <2>2, <2>3
<1>3. Newest' = Newest
  <2>1. CASE Len(queue') = 0
    BY <1>1, <1>2, <2>1 DEF Newest
  <2>2. CASE Len(queue') # 0
    <3>1. Len(queue') \in 1..Len(queue') /\ Len(queue') + 1 = Len(queue)
      BY <1>2, <2>2
    <3>2. queue'[Len(queue')] = queue[Len(queue)]
      BY <1>2, <3>1
    <3> QED
      BY <1>1, <1>2, <2>2, <3>2 DEF Newest
  <2> QED
    BY <2>1, <2>2
<1>4. DamageCarries(V)'
  <2>1. lastPopped'.kind = "Damage" => lastPopped'.payload \in Pictures(V)
    BY <1>2 DEF DamageCarries
  <2>2. ASSUME NEW i \in 1..Len(queue'), queue'[i].kind = "Damage"
        PROVE  queue'[i].payload \in Pictures(V)
    BY <1>2, <2>2 DEF DamageCarries
  <2> QED
    BY <2>1, <2>2 DEF DamageCarries, Pictures
<1> QED
  BY <1>3, <1>4

=============================================================================
