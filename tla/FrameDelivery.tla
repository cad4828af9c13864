---------------------------- MODULE FrameDelivery ----------------------------
(***************************************************************************)
(* From the mailbox to the screen: the UI thread drains the mailbox of the *)
(* active session, compiles what it drained into transactions              *)
(* (frd-frame/src/transaction.rs), applies them to the remote texture      *)
(* (frd-render-wgpu/src/remote_texture.rs) and presents the texture.       *)
(*                                                                         *)
(* The mailbox lock is held while it is emptied, so nothing is published   *)
(* during the drain.  The compiler runs after the lock is released but     *)
(* touches nothing shared: it is modelled in the step that pops.  A frame  *)
(* error is fatal for the session: failure stays set and the UI stops.     *)
(***************************************************************************)
EXTENDS FrameMailbox

CONSTANTS
    Session,       \* the session this mailbox and this compiler belong to
    \* the generations whose Reset asks for
    ForeignFormat, \* a pixel format other than Bgrx8UnormSrgb
    OverBudget,    \* a texture of more than MAX_REMOTE_TEXTURE_BYTES
    TooLarge       \* a side longer than the device's max_texture_dimension_2d

ASSUME DeliveryAssumption ==
    /\ Sessions = {Session}
    /\ ForeignFormat \subseteq Nat /\ OverBudget \subseteq Nat /\ TooLarge \subseteq Nat

VARIABLES
    phase,         \* what the UI thread does: "idle", "draining", "applying"
    compiler,      \* FrameTransactionCompiler
    transactions,  \* compiled by this drain and not yet applied
    texture,       \* RemoteUpdateState
    screen,        \* the receipt confirmed last
    failure        \* the frame error that ended the session, or "None"

uiVars == <<phase, compiler, transactions, texture, screen, failure>>
deliveryVars == <<vars, uiVars>>

-----------------------------------------------------------------------------
(***************************************************************************)
(* The transaction compiler.  Generation 0 stands for no active surface    *)
(* and no pending startup, revision 0 for no pending damage.               *)
(***************************************************************************)
Pending == [generation : Nat, revision : Nat, payload : Payloads]

Compiler ==
    [active  : [generation : Nat, revision : Nat],
     startup : [generation : Nat, damage : Pending],
     pending : Pending]

NoDamage == [generation |-> 0, revision |-> 0, payload |-> NoPayload]
NoStartup == [generation |-> 0, damage |-> NoDamage]
NewCompiler ==
    [active |-> [generation |-> 0, revision |-> 0], startup |-> NoStartup,
     pending |-> NoDamage]

DamageOf(u) ==
    [generation |-> u.generation, revision |-> u.revision, payload |-> u.payload]

Full(u) == u.payload \in FullPayloads

HasStartup == compiler.startup.generation # 0
HasActive == compiler.active.generation # 0

\* The damage a boundary has to complete.
Awaited == IF HasStartup THEN compiler.startup.damage ELSE compiler.pending

\* compile_reset; a generation of 0 never leaves the mailbox either.
ResetError(u) ==
    CASE u.generation = 0 -> "InvalidReset"
      [] u.generation <= compiler.active.generation
         \/ u.generation <= compiler.startup.generation -> "StaleReset"
      [] OTHER -> "None"

\* The update belongs to neither the pending startup nor the active surface.
StaleForStartup(u) == u.generation # compiler.startup.generation \/ u.revision = 0
StaleForActive(u) ==
    \/ u.generation # compiler.active.generation
    \/ u.revision = 0
    \/ u.revision <= compiler.active.revision

\* compile_damage
DamageError(u) ==
    CASE HasStartup /\ StaleForStartup(u)         -> "StaleUpdate"
      [] ~ HasStartup /\ ~ HasActive              -> "UpdateBeforeReset"
      [] ~ HasStartup /\ HasActive /\ StaleForActive(u) -> "StaleUpdate"
      [] OTHER ->
           IF Awaited.revision = 0 THEN "None"
           ELSE IF Awaited.revision = u.revision THEN "DuplicateDamage"
           ELSE "RevisionWhilePending"

\* compile_boundary
BoundaryError(u) ==
    CASE HasStartup /\ u.generation # compiler.startup.generation -> "StaleUpdate"
      [] ~ HasStartup /\ ~ HasActive                    -> "UpdateBeforeReset"
      [] ~ HasStartup /\ HasActive /\ StaleForActive(u) -> "StaleUpdate"
      [] OTHER ->
           IF Awaited.revision = 0 THEN "BoundaryWithoutDamage"
           ELSE IF u.revision # Awaited.revision \/ u.generation # Awaited.generation
             THEN "BoundaryMismatch"
           ELSE IF HasStartup /\ ~ Full(u) THEN "StartupBoundaryNotFullBaseline"
           ELSE "None"

CompileError(u) ==
    CASE u.session # Session   -> "ForeignSession"
      [] OTHER ->
           CASE u.kind = "Reset"    -> ResetError(u)
             [] u.kind = "Damage"   -> DamageError(u)
             [] u.kind = "Boundary" -> BoundaryError(u)

\* MUTANT: a reset keeps the damage that waits for its boundary.
CompiledKeepsPending(u) ==
    CASE u.kind = "Reset" ->
           [compiler EXCEPT !.startup = [generation |-> u.generation, damage |-> NoDamage]]
      [] u.kind = "Damage" /\ HasStartup -> [compiler EXCEPT !.startup.damage = DamageOf(u)]
      [] u.kind = "Damage" /\ ~ HasStartup -> [compiler EXCEPT !.pending = DamageOf(u)]
      [] u.kind = "Boundary" ->
           [compiler EXCEPT !.active = [generation |-> u.generation, revision |-> u.revision],
                            !.startup = NoStartup]

(***************************************************************************)
(* The compiler after an update it accepts.  A boundary takes the pending  *)
(* startup if there is one, and the pending damage otherwise.              *)
(***************************************************************************)
Compiled(u) ==
    CASE u.kind = "Reset" ->
           [compiler EXCEPT !.startup = [generation |-> u.generation, damage |-> NoDamage],
                            !.pending = NoDamage]
      [] u.kind = "Damage" /\ HasStartup -> [compiler EXCEPT !.startup.damage = DamageOf(u)]
      [] u.kind = "Damage" /\ ~ HasStartup -> [compiler EXCEPT !.pending = DamageOf(u)]
      [] u.kind = "Boundary" ->
           [active |-> [generation |-> u.generation, revision |-> u.revision],
            startup |-> NoStartup,
            pending |-> IF HasStartup THEN compiler.pending ELSE NoDamage]

\* FrameTransaction::Startup and ::Revision
Transaction ==
    [startup : BOOLEAN, generation : Nat, revision : Nat, payload : Payloads, full : BOOLEAN]

TransactionOf(u) ==
    [startup |-> HasStartup, generation |-> u.generation, revision |-> u.revision,
     payload |-> Awaited.payload, full |-> Full(u)]

-----------------------------------------------------------------------------
(***************************************************************************)
(* The renderer's metadata.  Generation 0: no surface was reset; a receipt *)
(* of revision 0: nothing to present.                                      *)
(***************************************************************************)
Receipt == [generation : Nat, revision : Nat, full : BOOLEAN]

Texture ==
    [generation : Nat, lastDamage : Nat, lastBoundary : Nat, receipt : Receipt,
     unpresentedBaseline : BOOLEAN, baselinePresented : BOOLEAN]

NoReceipt == [generation |-> 0, revision |-> 0, full |-> FALSE]
NewTexture(g) ==
    [generation |-> g, lastDamage |-> 0, lastBoundary |-> 0, receipt |-> NoReceipt,
     unpresentedBaseline |-> FALSE, baselinePresented |-> FALSE]

(***************************************************************************)
(* plan_reset, plan_damage and plan_boundary for the updates of one        *)
(* transaction: what is out of order in the stream, and what the renderer  *)
(* cannot hold.  A patch that does not fit its surface is refused by the   *)
(* mailbox with the same validate_patch, so InvalidPatch is a Damage       *)
(* without patches, which the mailbox does not look for.                   *)
(***************************************************************************)
PlanError(t) ==
    LET base == IF t.startup THEN NewTexture(t.generation) ELSE texture
    IN  CASE t.startup /\ ~ t.full                          -> "BoundaryWithoutMatchingDamage"
          [] ~ t.startup /\ texture.generation = 0          -> "ResetRequired"
          [] base.generation \in ForeignFormat              -> "UnsupportedPixelFormat"
          [] t.startup /\ t.generation = 0                  -> "InvalidGeometry"
          [] t.startup /\ t.generation \in OverBudget       -> "TextureBudgetExceeded"
          [] t.startup /\ t.generation <= texture.generation -> "StaleUpdate"
          [] t.generation # base.generation                 -> "StaleUpdate"
          [] t.revision <= base.lastDamage                  -> "NonMonotonicRevision"
          [] t.payload = NoPatches                          -> "InvalidPatch"
          [] t.revision <= base.lastBoundary                -> "BoundaryWithoutMatchingDamage"
          [] OTHER                                          -> "None"

\* apply_update_batch looks at the size of every startup before it plans any.
BatchError ==
    IF \E i \in 1..Len(transactions) :
          transactions[i].startup /\ transactions[i].generation \in TooLarge
    THEN "TextureDimensionUnsupported"
    ELSE PlanError(Head(transactions))

\* MUTANT: the receipt carries the completeness of its own boundary.
PlannedReceiptOnly(t) ==
    LET base == IF t.startup THEN NewTexture(t.generation) ELSE texture
    IN  [base EXCEPT !.lastDamage = t.revision, !.lastBoundary = t.revision,
                     !.receipt = [generation |-> t.generation, revision |-> t.revision,
                                  full |-> t.full],
                     !.unpresentedBaseline = base.unpresentedBaseline \/ t.full]

(***************************************************************************)
(* commit_metadata for one transaction.  As long as a full baseline waits  *)
(* to be presented, every receipt says FullBaseline.                       *)
(***************************************************************************)
Planned(t) ==
    LET base == IF t.startup THEN NewTexture(t.generation) ELSE texture
        full == base.unpresentedBaseline \/ t.full
    IN  [base EXCEPT !.lastDamage = t.revision, !.lastBoundary = t.revision,
                     !.receipt = [generation |-> t.generation, revision |-> t.revision,
                                  full |-> full],
                     !.unpresentedBaseline = full]

\* MUTANT: a presented baseline still waits to be presented.
ConfirmedStillWaiting ==
    [texture EXCEPT !.receipt = NoReceipt,
                    !.baselinePresented = texture.baselinePresented \/ texture.receipt.full]

\* confirm_presented
Confirmed ==
    [texture EXCEPT !.receipt = NoReceipt,
                    !.unpresentedBaseline = texture.unpresentedBaseline /\ ~ texture.receipt.full,
                    !.baselinePresented = texture.baselinePresented \/ texture.receipt.full]

-----------------------------------------------------------------------------
Running == failure = "None"

DeliveryInit ==
    /\ Init
    /\ phase = "idle"
    /\ compiler = NewCompiler
    /\ transactions = <<>>
    /\ texture = NewTexture(0)
    /\ screen = NoReceipt
    /\ failure = "None"

\* Any update of this session, published while the UI does not hold the lock.
\* A batch that failed has left the mailbox: nothing of it is read any more.
Publish ==
    /\ Running => phase # "draining"
    /\ PublishReset \/ PublishDamage \/ PublishBoundary
    /\ UNCHANGED uiVars

\* The UI takes the lock.
BeginDrain ==
    /\ Running /\ phase = "idle"
    /\ phase' = "draining"
    /\ UNCHANGED <<vars, compiler, transactions, texture, screen, failure>>

\* The UI pops one update and compiles it.
CompileHead ==
    /\ Running /\ phase = "draining"
    /\ Pop
    /\ LET u == Head(queue)
           error == CompileError(u)
       IN  IF error = "None"
           THEN /\ compiler' = Compiled(u)
                /\ transactions' = IF u.kind = "Boundary"
                                   THEN Append(transactions, TransactionOf(u))
                                   ELSE transactions
                /\ UNCHANGED failure
           ELSE /\ failure' = error
                /\ transactions' = <<>>
                /\ UNCHANGED compiler
    /\ UNCHANGED <<phase, texture, screen>>

\* The mailbox is empty: the lock is released.
EndDrain ==
    /\ Running /\ phase = "draining"
    /\ queue = <<>>
    /\ phase' = IF transactions = <<>> THEN "idle" ELSE "applying"
    /\ UNCHANGED <<vars, compiler, transactions, texture, screen, failure>>

\* One transaction of apply_update_batch; the last one ends the drain.  A batch
\* that fails is not installed and the session ends: texture means nothing then.
ApplyHead ==
    /\ Running /\ phase = "applying"
    /\ IF BatchError = "None"
       THEN /\ texture' = Planned(Head(transactions))
            /\ transactions' = Tail(transactions)
            /\ phase' = IF Len(transactions) = 1 THEN "idle" ELSE "applying"
            /\ UNCHANGED failure
       ELSE /\ failure' = BatchError
            /\ transactions' = <<>>
            /\ phase' = "idle"
            /\ UNCHANGED texture
    /\ UNCHANGED <<vars, compiler, screen>>

\* render_now: the pending receipt is presented and confirmed.
PresentTexture ==
    /\ Running /\ phase = "idle"
    /\ texture.receipt.revision # 0
    /\ texture' = Confirmed
    /\ screen' = texture.receipt
    /\ UNCHANGED <<vars, phase, compiler, transactions, failure>>

DeliveryNext ==
    \/ Publish
    \/ BeginDrain
    \/ CompileHead
    \/ EndDrain
    \/ ApplyHead
    \/ PresentTexture

DeliverySpec == DeliveryInit /\ [][DeliveryNext]_deliveryVars

-----------------------------------------------------------------------------
(***************************************************************************)
(* Of all the errors of the compiler and of the renderer's planner, those  *)
(* that say the stream is out of order can end a session in two ways only, *)
(* whatever a protocol publishes and however its publications interleave   *)
(* with drains and overflows: a damage that follows a damage whose         *)
(* boundary was dropped, and a first boundary after a reset that is not a  *)
(* full baseline.  Any other failure is about what was published: a damage *)
(* without patches, or a surface the renderer cannot hold.                 *)
(***************************************************************************)
OrderErrors == {"RevisionWhilePending", "StartupBoundaryNotFullBaseline"}
ContentErrors ==
    {"InvalidPatch", "UnsupportedPixelFormat", "TextureBudgetExceeded",
     "TextureDimensionUnsupported"}

OnlyOrderOrContentFails == failure \in {"None"} \cup OrderErrors \cup ContentErrors

(***************************************************************************)
(* The three layers agree on where the stream is: the compiler's buffers   *)
(* are those that the last popped update leaves, the compiled transactions *)
(* run on from the texture, and the last of them is the active surface.    *)
(***************************************************************************)
CompilerAfter(u) ==
    /\ u.generation = 0 => compiler = NewCompiler
    /\ u.generation # 0 /\ u.kind = "Reset" =>
           /\ compiler.startup = [generation |-> u.generation, damage |-> NoDamage]
           /\ compiler.pending = NoDamage
           /\ compiler.active.generation < u.generation
    /\ u.generation # 0 /\ u.kind = "Damage" =>
           \/ /\ compiler.startup = [generation |-> u.generation, damage |-> DamageOf(u)]
              /\ compiler.pending = NoDamage
              /\ compiler.active.generation < u.generation
           \/ /\ compiler.startup = NoStartup
              /\ compiler.pending = DamageOf(u)
              /\ compiler.active.generation = u.generation
              /\ compiler.active.revision < u.revision
    /\ u.generation # 0 /\ u.kind = "Boundary" =>
           /\ compiler.startup = NoStartup
           /\ compiler.pending = NoDamage
           /\ compiler.active = [generation |-> u.generation, revision |-> u.revision]

\* t continues a surface that is at generation g and revision r.
Continues(g, r, t) ==
    /\ t.revision > 0
    /\ \/ t.startup /\ t.full /\ t.generation > g
       \/ ~ t.startup /\ t.generation = g /\ g > 0 /\ t.revision > r

LayersAgree ==
    Running =>
      /\ CompilerAfter(lastPopped)
      /\ texture.lastDamage = texture.lastBoundary
      /\ \A i \in 1..Len(transactions) :
           IF i = 1
           THEN Continues(texture.generation, texture.lastBoundary, transactions[1])
           ELSE Continues(transactions[i - 1].generation, transactions[i - 1].revision,
                          transactions[i])
      /\ compiler.active =
           IF transactions = <<>>
           THEN [generation |-> texture.generation, revision |-> texture.lastBoundary]
           ELSE [generation |-> transactions[Len(transactions)].generation,
                 revision |-> transactions[Len(transactions)].revision]
      /\ (phase = "applying") => transactions # <<>>
      /\ (phase = "idle") => transactions = <<>>

(***************************************************************************)
(* A receipt is for what the texture holds, the screen never runs ahead of *)
(* the texture, and until the baseline of a generation was presented every *)
(* receipt of it is a full one.                                            *)
(***************************************************************************)
ReceiptsHonest ==
    /\ texture.receipt.revision # 0 =>
         /\ texture.generation # 0
         /\ texture.receipt.generation = texture.generation
         /\ texture.receipt.revision = texture.lastBoundary
         /\ texture.receipt.full \/ texture.baselinePresented
         /\ \/ screen.generation < texture.generation
            \/ screen.generation = texture.generation /\ screen.revision < texture.lastBoundary
    /\ screen.generation <= texture.generation
    /\ screen.generation = texture.generation => screen.revision <= texture.lastBoundary
    /\ texture.baselinePresented <=> screen.generation = texture.generation /\ texture.generation # 0
    /\ texture.unpresentedBaseline =>
         texture.receipt.revision # 0 /\ texture.receipt.full
    /\ texture.generation # 0 => texture.baselinePresented \/ texture.unpresentedBaseline

(***************************************************************************)
(* The whole path from push to screen is the stream the viewer is promised.*)
(***************************************************************************)
Stream == INSTANCE FrameStream WITH
    shown  <- [generation |-> texture.generation, revision |-> texture.lastBoundary],
    screen <- screen

StreamKept == Stream!StreamSpec

=============================================================================
