---------------------------- MODULE FrameMailbox ----------------------------
(***************************************************************************)
(* The bounded mailbox of frd-frame (crates/frd-frame/src/mailbox.rs)      *)
(* through which a protocol thread hands surface updates to the UI thread. *)
(* A Reset starts a generation of a session; inside it every Damage of     *)
(* revision r is completed by one FrameBoundary of the same revision.      *)
(*                                                                         *)
(* The mailbox looks at the byte count of a patch and at whether it fits   *)
(* the current surface (validate_patch); what else an update carries (its  *)
(* pixels, its completeness) is a payload handed on unseen.  enqueued_at   *)
(* is left out.  The mailbox is used under one mutex, so every operation   *)
(* is one step.                                                            *)
(***************************************************************************)
EXTENDS Integers, Sequences

CONSTANTS
    EntryLimit,      \* most entries the queue may hold
    PixelByteLimit,  \* most pixel bytes the queue may hold
    Sessions,        \* session identifiers a caller may use
    Generations,     \* generation numbers a caller may use
    Revisions,       \* revision numbers a caller may use
    PatchBytes,      \* sizes, in bytes, of the patches of one Damage
    Payloads,        \* what an update may carry
    NoPayload,       \* the payload of a Reset, and of an incremental boundary
    FullPayloads,    \* the payloads of a boundary whose completeness is FullBaseline
    NoPatches        \* the payload of a Damage that carries no patch

ASSUME MailboxAssumption ==
    /\ EntryLimit \in Nat \ {0}
    /\ PixelByteLimit \in Nat
    /\ Sessions \subseteq Nat
    /\ Generations \subseteq Nat
    /\ Revisions \subseteq Nat
    /\ PatchBytes \subseteq Nat
    /\ NoPayload \in Payloads
    /\ FullPayloads \subseteq Payloads
    /\ NoPatches \in Payloads /\ NoPatches # NoPayload

VARIABLES
    queue,             \* the queued updates, oldest first
    queuedPixelBytes,  \* the ledger of their pixel bytes
    current,           \* the lifecycle state of the established surface
    lastPopped         \* history: the update the consumer took last

mailbox == <<queue, queuedPixelBytes, current>>
vars == <<queue, queuedPixelBytes, current, lastPopped>>

-----------------------------------------------------------------------------
(***************************************************************************)
(* Updates.  Generation zero is never established, so it stands for "none" *)
(* in current and in lastPopped; revision zero is never accepted, so it    *)
(* stands for None in current.eligible.                                    *)
(***************************************************************************)
Update ==
    [kind : {"Reset", "Damage", "Boundary"}, session : Nat, generation : Nat,
     revision : Nat, bytes : Nat, payload : Payloads]

Surface ==
    [session : Nat, generation : Nat, lastDamage : Nat, lastBoundary : Nat,
     eligible : Nat]

ResetUpdate(s, g) ==
    [kind |-> "Reset", session |-> s, generation |-> g, revision |-> 0, bytes |-> 0,
     payload |-> NoPayload]
DamageUpdate(s, g, r, b, p) ==
    [kind |-> "Damage", session |-> s, generation |-> g, revision |-> r, bytes |-> b,
     payload |-> p]
BoundaryUpdate(s, g, r, p) ==
    [kind |-> "Boundary", session |-> s, generation |-> g, revision |-> r, bytes |-> 0,
     payload |-> p]

FreshSurface(s, g) ==
    [session |-> s, generation |-> g, lastDamage |-> 0, lastBoundary |-> 0,
     eligible |-> 0]

\* The pixel bytes of a sequence of updates.
PixelBytesOf(q) ==
    LET total[i \in 0..Len(q)] ==
            IF i = 0 THEN 0 ELSE total[i - 1] + q[i].bytes
    IN  total[Len(q)]

-----------------------------------------------------------------------------
Established == current.generation # 0

MatchesCurrent(u) ==
    /\ Established
    /\ u.session = current.session
    /\ u.generation = current.generation

\* MUTANT: a reset may begin the current generation again.
ResetAcceptsSame(u, fits) ==
    /\ u.generation # 0
    /\ fits
    /\ Established =>
         \/ u.session = current.session /\ u.generation >= current.generation
         \/ u.session > current.session

ResetAccepted(u, fits) ==
    /\ u.generation # 0
    /\ fits
    /\ Established =>
         \/ u.session = current.session /\ u.generation > current.generation
         \/ u.session > current.session

DamageAccepted(u, fits) ==
    /\ MatchesCurrent(u)
    /\ u.revision # 0
    /\ u.revision > current.lastDamage
    /\ fits

BoundaryAccepted(u) ==
    /\ MatchesCurrent(u)
    /\ u.revision # 0
    /\ u.revision = current.lastDamage
    /\ current.eligible = u.revision
    /\ u.revision > current.lastBoundary

Accepted(u, fits) ==
    CASE u.kind = "Reset"    -> ResetAccepted(u, fits)
      [] u.kind = "Damage"   -> DamageAccepted(u, fits)
      [] u.kind = "Boundary" -> BoundaryAccepted(u)

\* MUTANT: the entry limit tested before the entry is counted.
OverflowsOneLate(u) ==
    \/ Len(queue) > EntryLimit
    \/ queuedPixelBytes + u.bytes > PixelByteLimit

Overflows(u) ==
    \/ Len(queue) + 1 > EntryLimit
    \/ queuedPixelBytes + u.bytes > PixelByteLimit

(***************************************************************************)
(* What push reports for update u.  "fits" is what validate_patch finds    *)
(* for a Damage and, for a Reset, that the size is not empty.              *)
(***************************************************************************)
PushOutcome(u, fits) ==
    CASE ~ Accepted(u, fits)                -> "Rejected"
      [] u.kind # "Reset" /\ Overflows(u)   -> "NeedsFullSnapshot"
      [] OTHER                              -> "Queued"

\* MUTANT: overflow clears the whole queue, a queued Reset with it.
NothingKept(e) == ~ MatchesCurrent(e)

\* clear_current_damage_and_boundaries
KeptOnOverflow(e) == e.kind = "Reset" \/ ~ MatchesCurrent(e)

\* VecDeque::retain
Retained(q) ==
    LET kept[i \in 0..Len(q)] ==
            IF i = 0 THEN <<>>
            ELSE IF KeptOnOverflow(q[i]) THEN Append(kept[i - 1], q[i]) ELSE kept[i - 1]
    IN  kept[Len(q)]

ClearCurrentDamageAndBoundaries ==
    /\ queue' = Retained(queue)
    /\ queuedPixelBytes' = PixelBytesOf(queue')
    /\ current' = [current EXCEPT !.eligible = 0]

\* A reset replaces whatever is queued and starts from revision zero.
EnqueueReset(u) ==
    /\ current' = FreshSurface(u.session, u.generation)
    /\ queue' = <<u>>
    /\ queuedPixelBytes' = 0

EnqueueCurrent(u) ==
    /\ queue' = Append(queue, u)
    /\ queuedPixelBytes' = queuedPixelBytes + u.bytes

EnqueueDamage(u) ==
    /\ EnqueueCurrent(u)
    /\ current' = [current EXCEPT !.lastDamage = u.revision, !.eligible = u.revision]

EnqueueBoundary(u) ==
    /\ EnqueueCurrent(u)
    /\ current' = [current EXCEPT !.lastBoundary = u.revision, !.eligible = 0]

\* FrameMailbox::push, for each kind of update; each returns PushOutcome.
PushReset(u, fits) ==
    /\ u.kind = "Reset"
    /\ IF ResetAccepted(u, fits) THEN EnqueueReset(u) ELSE UNCHANGED mailbox

PushDamage(u, fits) ==
    /\ u.kind = "Damage"
    /\ \/ ~ DamageAccepted(u, fits) /\ UNCHANGED mailbox
       \/ DamageAccepted(u, fits) /\ Overflows(u) /\ ClearCurrentDamageAndBoundaries
       \/ DamageAccepted(u, fits) /\ ~ Overflows(u) /\ EnqueueDamage(u)

PushBoundary(u) ==
    /\ u.kind = "Boundary"
    /\ \/ ~ BoundaryAccepted(u) /\ UNCHANGED mailbox
       \/ BoundaryAccepted(u) /\ Overflows(u) /\ ClearCurrentDamageAndBoundaries
       \/ BoundaryAccepted(u) /\ ~ Overflows(u) /\ EnqueueBoundary(u)

\* Any push; what a composed specification uses.
Push(u, fits) == PushReset(u, fits) \/ PushDamage(u, fits) \/ PushBoundary(u)

\* pop_enqueued; its expect() is the property LedgerExact.
PopHead ==
    /\ queue # <<>>
    /\ queue' = Tail(queue)
    /\ queuedPixelBytes' = queuedPixelBytes - Head(queue).bytes
    /\ UNCHANGED current

-----------------------------------------------------------------------------
NoSurface == FreshSurface(0, 0)
NothingPopped == ResetUpdate(0, 0)

\* FrameMailbox::new
Init ==
    /\ queue = <<>>
    /\ queuedPixelBytes = 0
    /\ current = NoSurface
    /\ lastPopped = NothingPopped

\* Any caller, well behaved or not; a Damage without patches has no bytes.
PublishReset ==
    /\ \E s \in Sessions, g \in Generations, fits \in BOOLEAN :
          PushReset(ResetUpdate(s, g), fits)
    /\ UNCHANGED lastPopped

PublishDamage ==
    /\ \E s \in Sessions, g \in Generations, r \in Revisions, b \in PatchBytes,
          p \in Payloads \ FullPayloads, fits \in BOOLEAN :
          /\ (p = NoPatches) <=> (b = 0)
          /\ PushDamage(DamageUpdate(s, g, r, b, p), fits)
    /\ UNCHANGED lastPopped

PublishBoundary ==
    /\ \E s \in Sessions, g \in Generations, r \in Revisions,
          p \in {NoPayload} \cup FullPayloads :
          PushBoundary(BoundaryUpdate(s, g, r, p))
    /\ UNCHANGED lastPopped

Pop ==
    /\ PopHead
    /\ lastPopped' = Head(queue)

Next == PublishReset \/ PublishDamage \/ PublishBoundary \/ Pop

Spec == Init /\ [][Next]_vars

-----------------------------------------------------------------------------
(***************************************************************************)
(* The queue, the ledger, the lifecycle state and the history have their   *)
(* types (mailbox.rs:20-40).                                               *)
(***************************************************************************)
TypeInvariant ==
    /\ queue \in Seq(Update)
    /\ queuedPixelBytes \in Nat
    /\ current \in Surface
    /\ lastPopped \in Update

(***************************************************************************)
(* Neither budget is ever exceeded, whatever is pushed: an update that     *)
(* does not fit empties the queue instead of growing it (push_current).    *)
(***************************************************************************)
WithinBudget ==
    /\ Len(queue) <= EntryLimit
    /\ queuedPixelBytes <= PixelByteLimit

(***************************************************************************)
(* The ledger is the pixel bytes of what is queued after every push,       *)
(* overflow, reset and pop, so the checked subtraction of pop_enqueued     *)
(* cannot fail ("frame mailbox pixel byte accounting inconsistent").       *)
(***************************************************************************)
LedgerExact == queuedPixelBytes = PixelBytesOf(queue)

(***************************************************************************)
(* b may be the next update a consumer sees after a.                       *)
(***************************************************************************)
SameSurface(a, b) == a.session = b.session /\ a.generation = b.generation

IsOlder(a, b) ==
    \/ a.generation = 0
    \/ a.session = b.session /\ a.generation < b.generation
    \/ a.session < b.session

Follows(a, b) ==
    \/ b.kind = "Reset" /\ b.generation # 0 /\ IsOlder(a, b)
    \/ /\ b.kind = "Damage"
       /\ a.generation # 0 /\ SameSurface(a, b) /\ a.revision < b.revision
    \/ /\ b.kind = "Boundary" /\ a.kind = "Damage"
       /\ a.generation # 0 /\ SameSurface(a, b) /\ a.revision = b.revision

(***************************************************************************)
(* The consumer sees a generation's Reset before anything else of it, then *)
(* damage of strictly increasing revisions, and a boundary only directly   *)
(* after its own damage, across any overflow, late push of an older        *)
(* session or generation, and any interleaving of pushes with pops.        *)
(***************************************************************************)
DeliveredInOrder ==
    [][lastPopped' # lastPopped => Follows(lastPopped, lastPopped')]_vars

(***************************************************************************)
(* The reason for it, and the inductive invariant of its proof: whatever   *)
(* is queued continues the order in which the consumer took the updates,   *)
(* and the lifecycle state describes the last of them.                     *)
(***************************************************************************)
Newest == IF queue = <<>> THEN lastPopped ELSE queue[Len(queue)]

QueueCoherent ==
    /\ queue # <<>> => Follows(lastPopped, queue[1])
    /\ \A i \in 1..Len(queue) : i > 1 => Follows(queue[i - 1], queue[i])
    /\ \A i \in 1..Len(queue) :
          /\ MatchesCurrent(queue[i])
          /\ queue[i].kind = "Reset" => i = 1
          /\ queue[i].revision <= current.lastDamage
    /\ Established => MatchesCurrent(Newest) /\ Newest.revision <= current.lastDamage
    /\ ~ Established => lastPopped.generation = 0 /\ queue = <<>>
    /\ current.lastBoundary <= current.lastDamage
    /\ current.eligible # 0 =>
          Newest.kind = "Damage" /\ Newest.revision = current.eligible

=============================================================================
