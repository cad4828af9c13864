------------------------ MODULE SavedProfilesProofs ------------------------
(***************************************************************************)
(* What is saved was accepted (SavedProven), staged secrets end            *)
(* (StagedEnds), deleting leaves no orphan (NoOrphans) and the warnings    *)
(* are honest (WarningsHonest), for all keys, passwords and sessions.      *)
(*                                                                         *)
(* The inductive invariant says, for every step of a save, what the stores *)
(* hold then: the whole argument is in Stage.                              *)
(***************************************************************************)
EXTENDS SavedProfiles, TLAPS

Secrets == Passwords \cup {Nothing}
Logins == [key : Keys, password : Passwords]
RememberSteps == {"load", "write", "drop", "publish", "undo", "restage", "discard"}
DeleteSteps == {"forget", "unlist"}

Controllers ==
    [session : 0..MaxSessions,
     phase : {"Vacant", "Connecting", "Active", "Disconnecting", "CleanupPending"},
     page : {"ConnectionForm", "Connecting", "AwaitingFirstFrame", "Disconnecting", "Failed"},
     pending : [session : 0..MaxSessions, action : {"none", "Remember", "Delete"}],
     warning : {"none", "SaveFailed", "CredentialDeleteFailed", "MetadataDeleteFailed"}]
Saves ==
    [step : {"idle"} \cup RememberSteps \cup DeleteSteps, previous : Secrets,
     undoing : BOOLEAN, before : [password : Secrets, listed : BOOLEAN],
     refusals : SUBSET {"delete", "restore"}]

TypeOK ==
    /\ vault \in [Keys -> Secrets] /\ staged \in [Sessions -> Secrets]
    /\ listed \subseteq Keys /\ up \in BOOLEAN
    /\ controller \in Controllers /\ login \in Logins /\ save \in Saves
    /\ asked \in 0..MaxSessions /\ proven \subseteq Logins
    /\ refused \subseteq Sessions /\ torn \subseteq Keys

(***************************************************************************)
(* A profile is pending for the current session only, while it connects;   *)
(* a save is under way for what is pending only, once it is proven.        *)
(***************************************************************************)
Remembers == controller.pending.action = "Remember"
Deletes == controller.pending.action = "Delete"
Pending ==
    /\ ~ up => controller = NoSession /\ save = NoSave
    /\ controller.pending.session = 0 <=> controller.pending.action = "none"
    /\ controller.pending.session # 0 =>
        /\ controller.pending.session = controller.session
        /\ controller.phase = "Connecting" /\ controller.warning = "none"
    /\ controller.phase = "Connecting" => controller.session # 0 /\ controller.warning = "none"
    /\ controller.session <= asked
    /\ save.step # "idle" =>
        /\ login \in proven
        /\ save.step \in RememberSteps => Remembers
        /\ save.step \in DeleteSteps => Deletes

(***************************************************************************)
(* A secret is staged for the current session, until it is committed, and  *)
(* besides where the vault refused to delete it.                           *)
(***************************************************************************)
Expected == IF save.step # "idle" /\ save.undoing THEN save.previous ELSE login.password
StagedSecrets ==
    \A s \in Sessions : staged[s] # Nothing =>
        /\ s <= asked
        /\ up => \/ s \in refused /\ s # controller.pending.session
                 \/ /\ s = controller.pending.session /\ Remembers
                    /\ save.step # "publish" /\ staged[s] = Expected

(***************************************************************************)
(* What the stores hold at each step of a save.                            *)
(***************************************************************************)
AsBefore == Kept = save.before
Knows == save.previous = save.before.password /\ (login.key \in listed <=> save.before.listed)
BeforeOrNew == vault[login.key] \in {save.before.password, login.password}
Deleted == IF Undeleted THEN BeforeOrNew ELSE vault[login.key] = Nothing
Stage ==
    /\ save.step \in {"load", "drop", "publish", "undo"} /\ ~ save.undoing => save.refusals = {}
    /\ save.step \in {"write", "restage", "drop"} => ~ Unrestored
    /\ save.step = "load" => AsBefore /\ ~ save.undoing /\ save.previous = Nothing
    /\ save.step = "write" =>
        /\ Knows
        /\ IF save.undoing THEN Deleted ELSE AsBefore /\ save.refusals = {}
    /\ save.step = "drop" =>
        Knows /\ vault[login.key] = (IF save.undoing THEN save.previous ELSE login.password)
    /\ save.step = "publish" => Knows /\ ~ save.undoing /\ vault[login.key] = login.password
    /\ save.step = "undo" => Knows /\ ~ save.undoing /\ BeforeOrNew
    /\ save.step = "restage" => Knows /\ ~ save.undoing /\ save.previous # Nothing /\ Deleted
    /\ save.step = "discard" =>
        LeftBySave(vault[login.key]) /\ (login.key \in listed <=> save.before.listed)
    /\ save.step = "forget" => AsBefore
    /\ save.step = "unlist" => vault[login.key] = Nothing /\ login.key \in listed
    /\ save.step # "idle" /\ save.undoing => save.previous # Nothing
    /\ up /\ Deletes => login.key \in listed

\* What was there before a save is proven, and listed unless something is torn.
Past ==
    save.step # "idle" /\ save.previous # Nothing =>
        /\ [key |-> login.key, password |-> save.previous] \in proven
        /\ login.key \in listed \cup torn

Exposed(k) ==
    save.step \in {"drop", "publish", "undo"} /\ ~ save.undoing /\ k = login.key
Orphans ==
    \A k \in Keys : vault[k] # Nothing => k \in listed \/ k \in torn \/ Exposed(k)

IInv == TypeOK /\ Pending /\ StagedSecrets /\ Stage /\ Past /\ Orphans /\ SavedProven
LEMMA TakenNone ==
    ASSUME IInv
    PROVE  Taken = NoPending
BY DEF IInv, TypeOK, Pending, Taken, NoPending, Controllers

LEMMA UnboundParts ==
    ASSUME IInv
    PROVE  /\ Unbound \in Controllers
           /\ Unbound.session = controller.session /\ Unbound.phase = controller.phase
           /\ Unbound.page = controller.page /\ Unbound.pending = NoPending
           /\ Unbound.warning = "none"
<1>1. NoPending \in [session : 0..MaxSessions, action : {"none", "Remember", "Delete"}]
  BY ProfileAssumption DEF NoPending
<1>2. controller \in Controllers
  BY DEF IInv, TypeOK
<1> QED
  BY <1>1, <1>2, TakenNone DEF Unbound, Controllers

LEMMA ReadyParts ==
    ASSUME IInv,
           NEW w \in {"none", "SaveFailed", "CredentialDeleteFailed", "MetadataDeleteFailed"}
    PROVE  /\ ReadyPage(w) \in Controllers
           /\ ReadyPage(w).session = controller.session
           /\ ReadyPage(w).phase =
                (IF controller.phase = "Connecting" THEN "Active" ELSE controller.phase)
           /\ ReadyPage(w).page = "AwaitingFirstFrame" /\ ReadyPage(w).pending = NoPending
           /\ ReadyPage(w).warning = (IF w = "none" THEN controller.warning ELSE w)
<1>1. NoPending \in [session : 0..MaxSessions, action : {"none", "Remember", "Delete"}]
  BY ProfileAssumption DEF NoPending
<1>2. controller \in Controllers
  BY DEF IInv, TypeOK
<1> QED
  BY <1>1, <1>2, TakenNone DEF ReadyPage, Controllers
\* The end of a save.
Done ==
    /\ save'.step = "idle" /\ controller'.session = controller.session
    /\ controller'.pending = NoPending /\ controller'.phase = "Active"

LEMMA SavingSession ==
    ASSUME IInv, save.step # "idle"
    PROVE  controller.session \in Sessions /\ login.key \in Keys
<1>1. controller.session = controller.pending.session /\ controller.session # 0
  BY DEF IInv, Pending, RememberSteps, DeleteSteps, Remembers, Deletes, TypeOK, Saves
<1>2. controller.session \in 0..MaxSessions /\ MaxSessions \in Nat
  BY ProfileAssumption DEF IInv, TypeOK, Controllers
<1>3. controller.session \in Sessions
  BY <1>1, <1>2 DEF Sessions
<1> QED
  BY <1>3 DEF IInv, TypeOK, Logins


LEMMA LeavesKept ==
    ASSUME IInv, Idle, NEW c \in Controllers, Leaves(c),
           c.pending = NoPending, c.session <= asked, c.warning = "none", c.phase # "Connecting"
    PROVE  IInv'
<1>0. /\ up /\ save.step = "idle" /\ DiscardPending /\ controller' = c
      /\ UNCHANGED <<vault, listed, up, login, save, asked, proven, torn>>
  BY DEF Leaves, Idle
<1>1. TypeOK'
  <2>1. staged' \in [Sessions -> Secrets]
    BY <1>0 DEF IInv, TypeOK, DiscardPending, Secrets
  <2>2. refused' \subseteq Sessions
    <3>1. controller.pending.session \in 0..MaxSessions
      BY DEF IInv, TypeOK, Controllers
    <3>2. controller.pending.session # 0 => controller.pending.session \in Sessions
      BY <3>1, ProfileAssumption DEF Sessions
    <3> QED
      BY <1>0, <3>2 DEF IInv, TypeOK, DiscardPending
  <2> QED
    BY <1>0, <2>1, <2>2 DEF IInv, TypeOK
<1>2. Pending'
  BY <1>0 DEF IInv, Pending, NoPending, Remembers, Deletes
<1>3. StagedSecrets'
  <2> SUFFICES ASSUME NEW s \in Sessions, staged'[s] # Nothing
               PROVE  s <= asked /\ s \in refused' /\ s # 0
    BY <1>0 DEF StagedSecrets, NoPending
  <2>1. s # 0
    BY ProfileAssumption DEF Sessions
  <2>2. staged[s] # Nothing /\ staged'[s] = staged[s] /\ refused \subseteq refused'
    BY <1>0 DEF IInv, TypeOK, DiscardPending
  <2>3. s \in refused \/ s = controller.pending.session
    BY <1>0, <2>2 DEF IInv, StagedSecrets
  <2>4. s = controller.pending.session => s \in refused'
    BY <1>0, <2>1, <2>2 DEF IInv, TypeOK, Pending, DiscardPending
  <2> QED
    BY <2>1, <2>2, <2>3, <2>4 DEF IInv, StagedSecrets
<1>4. Stage' /\ Past' /\ Orphans' /\ SavedProven'
  BY <1>0 DEF IInv, Stage, Deleted, BeforeOrNew, LeftBySave, Undeleted, Unrestored,
     Past, Orphans, Exposed, SavedProven, Deletes, NoPending,
     AsBefore, Knows, Kept
<1> QED
  BY <1>1, <1>2, <1>3, <1>4 DEF IInv

LEMMA DisconnectKept ==
    ASSUME IInv, Disconnect
    PROVE  IInv'
BY UnboundParts, LeavesKept DEF Disconnect, Controllers, IInv, Pending

LEMMA EndsKept ==
    ASSUME IInv, NEW page \in {"Failed", "Disconnecting"}, Ends(page)
    PROVE  IInv'
BY UnboundParts, LeavesKept DEF Ends, Controllers, IInv, Pending

LEMMA RollBackKept ==
    ASSUME IInv, RollBack
    PROVE  IInv'
<1>1. 0 \in 0..MaxSessions /\ 0 <= asked
  BY ProfileAssumption DEF IInv, TypeOK
<1> QED
  BY <1>1, UnboundParts, LeavesKept DEF RollBack, Controllers

LEMMA ShowsKept ==
    ASSUME IInv, Idle, NEW c \in Controllers, Shows(c), c.pending = controller.pending,
           \/ /\ c.session = controller.session /\ c.phase = controller.phase
              /\ c.warning = controller.warning
           \/ c.session = 0 /\ c.phase = "Vacant" /\ controller.phase # "Connecting"
    PROVE  IInv'
<1>0. /\ up /\ save.step = "idle" /\ controller' = c
      /\ UNCHANGED <<vault, staged, listed, up, login, save, asked, proven, refused, torn>>
  BY DEF Shows, Idle, stores, history
<1>1. TypeOK'
  BY <1>0 DEF IInv, TypeOK
<1>2. Pending'
  BY <1>0 DEF IInv, TypeOK, Pending, Remembers, Deletes
<1>3. StagedSecrets'
  BY <1>0 DEF IInv, StagedSecrets, Expected, Remembers
<1>4. Stage' /\ Past' /\ Orphans' /\ SavedProven'
  BY <1>0 DEF IInv, Stage, Deleted, BeforeOrNew, LeftBySave, Undeleted, Unrestored,
     Past, Orphans, Exposed, SavedProven, Deletes, AsBefore, Knows,
     Kept
<1> QED
  BY <1>1, <1>2, <1>3, <1>4 DEF IInv

LEMMA PagesKept ==
    ASSUME IInv, FinishCleanup \/ ReturnToConnection \/ GenerationChanged
    PROVE  IInv'
<1>1. controller \in Controllers /\ 0 \in 0..MaxSessions
  BY ProfileAssumption DEF IInv, TypeOK
<1>2. CASE FinishCleanup
  BY <1>1, <1>2, ShowsKept DEF FinishCleanup, InSlot, Controllers
<1>3. CASE ReturnToConnection
  BY <1>1, <1>3, ShowsKept DEF ReturnToConnection, Controllers
<1>4. CASE GenerationChanged
  BY <1>1, <1>4, ShowsKept DEF GenerationChanged, Controllers
<1> QED
  BY <1>2, <1>3, <1>4

LEMMA FinishParts ==
    ASSUME IInv, save.step # "idle",
           NEW w \in {"none", "SaveFailed", "CredentialDeleteFailed", "MetadataDeleteFailed"},
           Finish(w)
    PROVE  Done /\ save' \in Saves /\ controller' \in Controllers
<1>1. controller.phase = "Connecting"
  BY DEF IInv, TypeOK, Pending, Saves, RememberSteps, DeleteSteps, Remembers, Deletes
<1>2. controller' = ReadyPage(w) /\ save' = [save EXCEPT !.step = "idle"]
  BY DEF Finish
<1>3. save' \in Saves /\ save'.step = "idle"
  BY <1>2 DEF IInv, TypeOK, Saves
<1> QED
  BY <1>1, <1>2, <1>3, ReadyParts DEF Done

LEMMA ConnectKept ==
    ASSUME IInv, \E k \in Keys, p \in Passwords : Connect(k, p)
    PROVE  IInv'
<1>0. /\ up /\ save.step = "idle" /\ controller.phase = "Vacant"
      /\ asked' \in 1..MaxSessions /\ asked' = asked + 1
      /\ UNCHANGED <<vault, listed, up, save, proven, refused, torn>>
      /\ login' \in Logins
      /\ \/ /\ controller'.session = asked' /\ controller'.phase = "Connecting"
            /\ controller'.warning = "none"
            /\ \/ /\ controller'.pending = [session |-> asked', action |-> "Remember"]
                  /\ staged' = [staged EXCEPT ![asked'] = login'.password]
               \/ /\ controller'.pending = [session |-> asked', action |-> "Delete"]
                  /\ login'.key \in listed /\ staged' = staged
               \/ controller'.pending = NoPending /\ staged' = staged
         \/ UNCHANGED <<controller, staged>>
      /\ controller' \in Controllers
  <2> PICK k \in Keys, p \in Passwords : Connect(k, p)
    OBVIOUS
  <2>1. /\ asked \in 0..MaxSessions /\ MaxSessions \in Nat
        /\ asked < MaxSessions /\ asked' = asked + 1
    BY ProfileAssumption DEF IInv, TypeOK, Connect
  <2>2. asked' \in 1..MaxSessions /\ asked' \in 0..MaxSessions /\ 0 \in 0..MaxSessions
    BY <2>1
  <2>3. NoSession \in Controllers
    BY <2>2 DEF NoSession, NoPending, Controllers
  <2>4. ASSUME NEW a \in {"none", "Remember", "Delete"}, Connects(a)
        PROVE  controller' \in Controllers
    <3> DEFINE q == IF a = "none" THEN NoPending ELSE [session |-> asked', action |-> a]
    <3>1. q \in [session : 0..MaxSessions, action : {"none", "Remember", "Delete"}]
      BY <2>2 DEF NoPending
    <3>2. controller' = [NoSession EXCEPT !.session = asked', !.phase = "Connecting",
                                          !.page = "Connecting", !.pending = q]
      BY <2>4 DEF Connects
    <3> HIDE DEF q
    <3> QED
      BY <2>2, <2>3, <3>1, <3>2 DEF Controllers
  <2>5. controller' \in Controllers
    BY <2>4 DEF Connect, IInv, TypeOK
  <2> QED
    BY <2>2, <2>5 DEF IInv, TypeOK, Connect, Connects, NoSession, NoPending, Idle, Logins
<1>1. TypeOK'
  <2>1. asked' \in Sessions /\ asked' \in 0..MaxSessions
    BY <1>0, ProfileAssumption DEF Sessions
  <2>2. staged' \in [Sessions -> Secrets]
    BY <1>0, <2>1 DEF IInv, TypeOK, Secrets, Logins
  <2> QED
    BY <1>0, <2>1, <2>2 DEF IInv, TypeOK
<1>2. Pending'
  BY <1>0, <1>1 DEF IInv, Pending, Remembers, Deletes, NoPending, TypeOK, RememberSteps,
     DeleteSteps, Saves, Controllers, Secrets, Sessions, Logins
<1>3. StagedSecrets'
  BY <1>0, <1>1 DEF IInv, StagedSecrets, Expected, Remembers, NoPending, Pending, Deletes,
     Stage, TypeOK, RememberSteps, DeleteSteps, Saves, Controllers, Secrets, Sessions,
     Logins
<1>4. Stage'
  BY <1>0 DEF IInv, Stage, Deleted, BeforeOrNew, LeftBySave, Undeleted, Unrestored,
     AsBefore, Knows, Kept, Deletes, NoPending, Pending, Remembers,
     StagedSecrets, Expected
<1>5. Past'
  BY <1>0 DEF IInv, Past, NoPending
<1>6. Orphans'
  BY <1>0 DEF IInv, Orphans, Exposed, NoPending
<1>7. SavedProven'
  BY <1>0 DEF IInv, SavedProven, NoPending
<1> QED
  BY <1>1, <1>2, <1>3, <1>4, <1>5, <1>6, <1>7 DEF IInv

LEMMA TransportReadyKept ==
    ASSUME IInv, TransportReady
    PROVE  IInv'
<1>0. /\ up /\ save.step = "idle" /\ controller.phase = "Connecting"
      /\ UNCHANGED <<stores, up, login, asked, refused, torn>>
      /\ proven' = proven \cup {login}
      /\ \/ /\ controller' = controller /\ save'.before = Kept
            /\ save'.previous = Nothing /\ ~ save'.undoing /\ save'.refusals = {}
            /\ \/ Remembers /\ save'.step = "load"
               \/ Deletes /\ save'.step = "forget"
         \/ /\ save' = save /\ controller' \in Controllers /\ controller.pending.session = 0
            /\ controller'.session = controller.session /\ controller'.phase = "Active"
            /\ controller'.pending = NoPending /\ controller'.warning = controller.warning
      /\ save' \in Saves
  <2>1. login.key \in Keys /\ Kept \in [password : Secrets, listed : BOOLEAN]
    BY DEF IInv, TypeOK, Logins, Kept
  <2>2. NoSave \in Saves
    BY DEF NoSave, Saves, Secrets
  <2>3. CASE controller.pending.session = controller.session
    <3>1. Remembers \/ Deletes
      BY <2>3 DEF IInv, TypeOK, Pending, Remembers, Deletes, Controllers, TransportReady,
         InSlot
    <3> DEFINE first == IF Remembers THEN "load" ELSE "forget"
    <3>2. save' = [NoSave EXCEPT !.step = first, !.before = Kept]
      BY <2>3, <3>1 DEF TransportReady, FirstStep, Remembers, Deletes
    <3>3. first \in RememberSteps \cup DeleteSteps
      BY DEF RememberSteps, DeleteSteps
    <3>4. /\ save' \in Saves /\ save'.step = first /\ save'.before = Kept
          /\ save'.previous = Nothing /\ ~ save'.undoing /\ save'.refusals = {}
      <4> HIDE DEF first
      <4> QED
        BY <2>1, <2>2, <3>2, <3>3 DEF Saves, NoSave
    <3> QED
      BY <2>3, <3>1, <3>4 DEF TransportReady, Idle, InSlot, Remembers, Deletes
  <2>4. CASE controller.pending.session # controller.session
    BY <2>4, ReadyParts DEF IInv, TypeOK, Pending, TransportReady, Idle, InSlot, Controllers
  <2> QED
    BY <2>3, <2>4
<1>1. TypeOK'
  BY <1>0, ProfileAssumption DEF IInv, TypeOK, Secrets, Logins, Controllers, Saves,
     RememberSteps, DeleteSteps, Sessions, stores, history
<1>2. Pending'
  BY <1>0 DEF IInv, Pending, Remembers, Deletes, stores, NoPending, Kept, TypeOK,
     RememberSteps, DeleteSteps
<1>3. StagedSecrets'
  BY <1>0 DEF IInv, StagedSecrets, Expected, Remembers, stores, NoPending, Kept, Pending,
     Deletes, Stage
<1>4. Stage'
  BY <1>0 DEF IInv, Stage, Deleted, BeforeOrNew, LeftBySave, Undeleted, Unrestored,
     AsBefore, Knows, Kept, Deletes, stores, NoPending
<1>5. Past'
  BY <1>0 DEF IInv, Past, stores, NoPending, Kept
<1>6. Orphans'
  BY <1>0 DEF IInv, Orphans, Exposed, stores, NoPending, Kept
<1>7. SavedProven'
  BY <1>0 DEF IInv, SavedProven, stores, NoPending, Kept
<1> QED
  BY <1>1, <1>2, <1>3, <1>4, <1>5, <1>6, <1>7 DEF IInv

LEMMA LoadPreviousKept ==
    ASSUME IInv, LoadPrevious
    PROVE  IInv'
<1>0. /\ up /\ save.step = "load" /\ UNCHANGED <<stores, up, controller, login, history>>
      /\ save'.undoing = save.undoing /\ save'.before = save.before
      /\ save'.refusals = save.refusals
      /\ \/ save'.step = "write" /\ save'.previous = vault[login.key]
         \/ save'.step = "discard" /\ save'.previous = save.previous
      /\ save' \in Saves
  BY ZenonT(60) DEF LoadPrevious, TypeOK, IInv, Saves, RememberSteps, DeleteSteps, Logins,
     Secrets, stores, history, At, Goto
<1>1. TypeOK'
  BY <1>0, ProfileAssumption DEF IInv, TypeOK, Secrets, Logins, Controllers, Saves,
     RememberSteps, DeleteSteps, Sessions, stores, history
<1>2. Pending'
  BY <1>0 DEF IInv, Pending, Remembers, Deletes, stores, history, TypeOK, RememberSteps,
     DeleteSteps
<1>3. StagedSecrets'
  BY <1>0 DEF IInv, StagedSecrets, Expected, Remembers, stores, history, Pending, Deletes,
     Stage
<1>4. Stage'
  BY <1>0, <1>1 DEF IInv, Stage, Deleted, BeforeOrNew, LeftBySave, Undeleted, Unrestored,
     AsBefore, Knows, Kept, Deletes, stores, history, Pending,
     Remembers, StagedSecrets, Expected, TypeOK, RememberSteps, DeleteSteps, Saves,
     Controllers, Secrets, Sessions, Logins, NoPending
<1>5. Past'
  BY <1>0, <1>1 DEF IInv, Past, stores, history, Pending, Remembers, Deletes, Orphans,
     Exposed, SavedProven, Stage, TypeOK, RememberSteps, DeleteSteps, Saves, Controllers,
     Secrets, Sessions, Logins, NoPending
<1>6. Orphans'
  BY <1>0 DEF IInv, Orphans, Exposed, stores, history
<1>7. SavedProven'
  BY <1>0 DEF IInv, SavedProven, stores, history
<1> QED
  BY <1>1, <1>2, <1>3, <1>4, <1>5, <1>6, <1>7 DEF IInv

LEMMA CommitWriteKept ==
    ASSUME IInv, CommitWrite
    PROVE  IInv'
<1>0. /\ up /\ save.step = "write"
      /\ UNCHANGED <<staged, listed, up, controller, login, history>>
      /\ save'.undoing = save.undoing /\ save'.before = save.before
      /\ save'.previous = save.previous
      /\ \/ /\ save'.step = "drop" /\ staged[controller.session] # Nothing
            /\ vault' = [vault EXCEPT ![login.key] = staged[controller.session]]
            /\ save'.refusals = save.refusals
         \/ /\ save'.step = "undo" /\ ~ save.undoing /\ vault' = vault
            /\ save'.refusals = save.refusals
         \/ /\ save'.step = "discard" /\ save.undoing /\ vault' = vault
            /\ save'.refusals = save.refusals \cup {"restore"}
      /\ save' \in Saves
  <2>1. save \in Saves
    BY DEF IInv, TypeOK
  <2>2. /\ up /\ save.step = "write" /\ UNCHANGED <<staged, listed, up, login, history>>
    BY DEF CommitWrite, At
  <2>3. CASE /\ staged[controller.session] # Nothing
             /\ vault' = [vault EXCEPT ![login.key] = staged[controller.session]]
             /\ Goto("drop")
    <3>1. /\ save' \in Saves /\ save'.undoing = save.undoing /\ save'.before = save.before
          /\ save'.previous = save.previous /\ save'.step = "drop"
          /\ save'.refusals = save.refusals /\ controller' = controller
      BY <2>1, <2>3 DEF Goto, Saves, RememberSteps
    <3> QED
      BY <2>2, <2>3, <3>1
  <2>4. CASE /\ save' = [save EXCEPT !.step = CommitFailed,
                             !.refusals = IF save.undoing THEN @ \cup {"restore"} ELSE @]
             /\ UNCHANGED <<vault, controller>>
    <3>1. /\ save' \in Saves /\ save'.undoing = save.undoing /\ save'.before = save.before
          /\ save'.previous = save.previous /\ save'.step = CommitFailed
          /\ save'.refusals =
               IF save.undoing THEN save.refusals \cup {"restore"} ELSE save.refusals
      BY <2>1, <2>4 DEF CommitFailed, Saves, RememberSteps
    <3> QED
      BY <2>2, <2>4, <3>1 DEF CommitFailed
  <2> QED
    BY <2>3, <2>4 DEF CommitWrite
<1>1. TypeOK'
  <2>1. login.key \in Keys /\ vault' \in [Keys -> Secrets]
    <3>1. controller.session \in Sessions
      BY <1>0, SavingSession
    <3> QED
      BY <1>0, <3>1 DEF IInv, TypeOK, Logins
  <2> QED
    BY <1>0, <2>1 DEF IInv, TypeOK, stores, history
<1>2. Pending'
  BY <1>0 DEF IInv, Pending, Remembers, Deletes, history, TypeOK, RememberSteps, DeleteSteps
<1>3. StagedSecrets'
  BY <1>0 DEF IInv, StagedSecrets, Expected, Remembers, history
<1>4. Stage'
  BY <1>0, <1>1 DEF IInv, Stage, Deleted, BeforeOrNew, LeftBySave, Undeleted, Unrestored,
     AsBefore, Knows, Kept, Deletes, history, Pending,
     Remembers, StagedSecrets, Expected, TypeOK, RememberSteps, DeleteSteps, Saves,
     Controllers, Secrets, Sessions, Logins, NoPending
<1>5. Past'
  BY <1>0 DEF IInv, Past, history
<1>6. Orphans'
  BY <1>0 DEF IInv, Orphans, Exposed, history, Pending, Remembers, Deletes, Past, Stage,
     Knows, Kept, AsBefore, TypeOK, RememberSteps, DeleteSteps
<1>7. SavedProven'
  BY <1>0, <1>1 DEF IInv, SavedProven, history, Pending, Remembers, Deletes, Past,
     StagedSecrets, Expected, Stage, TypeOK, RememberSteps, DeleteSteps, Saves,
     Controllers, Secrets, Sessions, Logins, NoPending
<1> QED
  BY <1>1, <1>2, <1>3, <1>4, <1>5, <1>6, <1>7 DEF IInv

LEMMA CommitDropKept ==
    ASSUME IInv, CommitDrop
    PROVE  IInv'
<1>0. /\ up /\ save.step = "drop"
      /\ UNCHANGED <<vault, listed, up, controller, login, history>>
      /\ save'.undoing = save.undoing /\ save'.before = save.before
      /\ save'.previous = save.previous /\ save'.refusals = save.refusals
      /\ \/ /\ save'.step = (IF save.undoing THEN "discard" ELSE "publish")
            /\ staged' = [staged EXCEPT ![controller.session] = Nothing]
         \/ /\ save'.step = (IF save.undoing THEN "discard" ELSE "undo")
            /\ staged' = staged
      /\ save' \in Saves
  <2>1. /\ save'.undoing = save.undoing /\ save'.before = save.before
        /\ save'.previous = save.previous /\ save'.refusals = save.refusals /\ save' \in Saves
    BY DEF CommitDrop, CommitFailed, IInv, TypeOK, Saves, RememberSteps, At, Goto
  <2> QED
    BY <2>1 DEF CommitDrop, CommitFailed, IInv, TypeOK, Saves, At, Goto, history
<1>1. TypeOK'
  <2>1. staged' \in [Sessions -> Secrets]
    BY <1>0, SavingSession DEF IInv, TypeOK, Secrets
  <2> QED
    BY <1>0, <2>1 DEF IInv, TypeOK, history
<1>2. Pending'
  BY <1>0 DEF IInv, Pending, Remembers, Deletes, history, TypeOK, RememberSteps, DeleteSteps
<1>3. StagedSecrets'
  BY <1>0 DEF IInv, StagedSecrets, Expected, Remembers, history, Pending, Deletes, Stage,
     TypeOK, RememberSteps, DeleteSteps
<1>4. Stage'
  BY <1>0, <1>1 DEF IInv, Stage, Deleted, BeforeOrNew, LeftBySave, Undeleted, Unrestored,
     AsBefore, Knows, Kept, Deletes, history, Pending,
     Remembers, StagedSecrets, Expected, TypeOK, RememberSteps, DeleteSteps, Saves,
     Controllers, Secrets, Sessions, Logins, NoPending
<1>5. Past'
  BY <1>0 DEF IInv, Past, history
<1>6. Orphans'
  BY <1>0 DEF IInv, Orphans, Exposed, history
<1>7. SavedProven'
  BY <1>0 DEF IInv, SavedProven, history
<1> QED
  BY <1>1, <1>2, <1>3, <1>4, <1>5, <1>6, <1>7 DEF IInv

LEMMA PublishKept ==
    ASSUME IInv, Publish
    PROVE  IInv'
<1>0. /\ up /\ save.step = "publish" /\ UNCHANGED <<vault, staged, up, login, history>>
      /\ \/ Done /\ listed' = listed \cup {login.key}
         \/ /\ save'.step = "undo" /\ UNCHANGED <<listed, controller>>
            /\ save'.refusals = save.refusals /\ save'.undoing = save.undoing /\ save'.before = save.before
            /\ save'.previous = save.previous
      /\ save' \in Saves /\ controller' \in Controllers
  BY FinishParts DEF Publish, IInv, TypeOK, Saves, RememberSteps, DeleteSteps, At, Goto,
     Done, stores, history
<1>1. TypeOK'
  BY <1>0, ProfileAssumption DEF IInv, TypeOK, Secrets, Logins, Controllers, Saves,
     RememberSteps, DeleteSteps, Sessions, stores, history
<1>2. Pending'
  BY <1>0, <1>1 DEF IInv, Pending, Remembers, Deletes, history, Done, TypeOK,
     RememberSteps, DeleteSteps, Saves, Controllers, Secrets, Sessions, Logins, NoPending
<1>3. StagedSecrets'
  BY <1>0, <1>1 DEF IInv, StagedSecrets, Expected, Remembers, history, Done, Pending,
     Deletes, Stage, TypeOK, RememberSteps, DeleteSteps, Saves, Controllers, Secrets,
     Sessions, Logins, NoPending
<1>4. Stage'
  BY <1>0 DEF IInv, Stage, Deleted, BeforeOrNew, LeftBySave, Undeleted, Unrestored,
     AsBefore, Knows, Kept, Deletes, history, Done
<1>5. Past'
  BY <1>0 DEF IInv, Past, history, Done
<1>6. Orphans'
  BY <1>0 DEF IInv, Orphans, Exposed, history, Done
<1>7. SavedProven'
  BY <1>0 DEF IInv, SavedProven, history, Done
<1> QED
  BY <1>1, <1>2, <1>3, <1>4, <1>5, <1>6, <1>7 DEF IInv

LEMMA UndoDeleteKept ==
    ASSUME IInv, UndoDelete
    PROVE  IInv'
<1>0. /\ up /\ save.step = "undo"
      /\ UNCHANGED <<staged, listed, up, controller, login, asked, proven, refused>>
      /\ save'.undoing = save.undoing /\ save'.before = save.before
      /\ save'.previous = save.previous
      /\ \/ /\ vault' = [vault EXCEPT ![login.key] = Nothing] /\ torn' = torn
            /\ save'.step = IF save.previous = Nothing THEN "discard" ELSE "restage"
            /\ save'.refusals = save.refusals
         \/ /\ vault' = vault /\ save'.refusals = {"delete"}
            /\ \/ /\ save.previous = Nothing /\ save'.step = "discard"
                  /\ torn' = torn \cup {login.key}
               \/ save.previous # Nothing /\ save'.step = "restage" /\ torn' = torn
      /\ save' \in Saves
  <2>1. /\ save'.undoing = save.undoing /\ save'.before = save.before
        /\ save'.previous = save.previous /\ save' \in Saves
    BY ZenonT(60) DEF UndoDelete, IInv, TypeOK, Saves, RememberSteps, At, Goto
  <2> QED
    BY <2>1 DEF UndoDelete, IInv, TypeOK, Saves, At, Goto
<1>1. TypeOK'
  BY <1>0, ProfileAssumption DEF IInv, TypeOK, Secrets, Logins, Controllers, Saves,
     RememberSteps, DeleteSteps, Sessions, stores, history
<1>2. Pending'
  BY <1>0 DEF IInv, Pending, Remembers, Deletes, TypeOK, RememberSteps, DeleteSteps
<1>3. StagedSecrets'
  BY <1>0 DEF IInv, StagedSecrets, Expected, Remembers
<1>4. Stage'
  BY <1>0, <1>1 DEF IInv, Stage, Deleted, BeforeOrNew, LeftBySave, Undeleted, Unrestored,
     AsBefore, Knows, Kept, Deletes, Pending, Remembers,
     StagedSecrets, Expected, TypeOK, RememberSteps, DeleteSteps, Saves, Controllers,
     Secrets, Sessions, Logins, NoPending
<1>5. Past'
  BY <1>0 DEF IInv, Past
<1>6. Orphans'
  BY <1>0 DEF IInv, Orphans, Exposed, Pending, Remembers, Deletes, Past, Stage, Knows,
     Kept, AsBefore, TypeOK, RememberSteps, DeleteSteps
<1>7. SavedProven'
  BY <1>0 DEF IInv, SavedProven, Pending, Remembers, Deletes, Past, StagedSecrets,
     Expected, Stage, TypeOK, RememberSteps, DeleteSteps
<1> QED
  BY <1>1, <1>2, <1>3, <1>4, <1>5, <1>6, <1>7 DEF IInv

LEMMA UndoStageKept ==
    ASSUME IInv, UndoStage
    PROVE  IInv'
<1>0. /\ up /\ save.step = "restage"
      /\ UNCHANGED <<vault, listed, up, controller, login, history>>
      /\ save'.before = save.before /\ save'.previous = save.previous
      /\ \/ /\ save'.step = "write" /\ save'.undoing /\ save'.refusals = save.refusals
            /\ staged' = [staged EXCEPT ![controller.session] = save.previous]
         \/ /\ save'.step = "discard" /\ save'.undoing = save.undoing
            /\ save'.refusals = save.refusals \cup {"restore"}
            /\ staged' = staged
      /\ save' \in Saves
  <2>1. save \in Saves
    BY DEF IInv, TypeOK
  <2>2. CASE /\ staged' = [staged EXCEPT ![controller.session] = save.previous]
             /\ save' = [save EXCEPT !.step = "write", !.undoing = TRUE]
    <3>1. /\ save' \in Saves /\ save'.before = save.before /\ save'.previous = save.previous
          /\ save'.step = "write" /\ save'.undoing /\ save'.refusals = save.refusals
      BY <2>1, <2>2 DEF Saves, RememberSteps
    <3> QED
      BY <2>2, <3>1 DEF UndoStage, At, history
  <2>3. CASE /\ staged' = staged
             /\ save' = [save EXCEPT !.step = "discard", !.refusals = @ \cup {"restore"}]
    <3>1. /\ save' \in Saves /\ save'.before = save.before /\ save'.previous = save.previous
          /\ save'.step = "discard" /\ save'.undoing = save.undoing
          /\ save'.refusals = save.refusals \cup {"restore"}
      BY <2>1, <2>3 DEF Saves, RememberSteps
    <3> QED
      BY <2>3, <3>1 DEF UndoStage, At, history
  <2> QED
    BY <2>2, <2>3 DEF UndoStage
<1>1. TypeOK'
  <2>1. controller.session \in Sessions /\ save.previous \in Secrets
    BY <1>0, SavingSession DEF IInv, TypeOK, Saves
  <2>2. staged' \in [Sessions -> Secrets]
    BY <1>0, <2>1 DEF IInv, TypeOK
  <2> QED
    BY <1>0, <2>2 DEF IInv, TypeOK, history
<1>2. Pending'
  BY <1>0 DEF IInv, Pending, Remembers, Deletes, history, TypeOK, RememberSteps, DeleteSteps
<1>3. StagedSecrets'
  BY <1>0, <1>1 DEF IInv, StagedSecrets, Expected, Remembers, history, Pending, Deletes,
     Stage, TypeOK, RememberSteps, DeleteSteps, Saves, Controllers, Secrets, Sessions,
     Logins, NoPending
<1>4. Stage'
  <2>1. /\ Knows' /\ ~ save.undoing /\ save.previous # Nothing /\ Deleted /\ ~ Unrestored
        /\ (up /\ Deletes => login.key \in listed)'
    BY <1>0 DEF IInv, Stage, Knows, Deletes, history
  <2>2. CASE save'.step = "write" /\ save'.undoing /\ save'.refusals = save.refusals
    <3>1. Deleted' /\ ~ Unrestored'
      BY <1>0, <2>1, <2>2 DEF Deleted, BeforeOrNew, Undeleted, Unrestored
    <3> QED
      BY <1>0, <2>1, <2>2, <3>1 DEF Stage
  <2>3. CASE /\ save'.step = "discard" /\ save'.undoing = save.undoing
             /\ save'.refusals = save.refusals \cup {"restore"}
    <3>1. Unrestored' /\ (Undeleted' <=> Undeleted)
      BY <2>3 DEF Undeleted, Unrestored
    <3>2. LeftBySave(vault[login.key])'
      BY <1>0, <2>1, <3>1 DEF LeftBySave, Deleted, BeforeOrNew
    <3> QED
      BY <1>0, <2>1, <2>3, <3>2 DEF Stage, Knows
  <2> QED
    BY <1>0, <2>2, <2>3
<1>5. Past'
  BY <1>0 DEF IInv, Past, history
<1>6. Orphans'
  BY <1>0 DEF IInv, Orphans, Exposed, history
<1>7. SavedProven'
  BY <1>0 DEF IInv, SavedProven, history
<1> QED
  BY <1>1, <1>2, <1>3, <1>4, <1>5, <1>6, <1>7 DEF IInv

LEMMA DiscardStagedKept ==
    ASSUME IInv, DiscardStaged
    PROVE  IInv'
<1>0. /\ up /\ save.step = "discard" /\ Done
      /\ UNCHANGED <<vault, listed, up, login, asked, proven, torn>>
      /\ \/ staged' = [staged EXCEPT ![controller.session] = Nothing] /\ refused' = refused
         \/ refused' = refused \cup {controller.session} /\ staged' = staged
      /\ save' \in Saves /\ controller' \in Controllers
  <2>1. Done /\ save' \in Saves /\ controller' \in Controllers
    BY FinishParts DEF DiscardStaged, At
  <2> QED
    BY <2>1 DEF DiscardStaged, At
<1>1. TypeOK'
  <2>1. staged' \in [Sessions -> Secrets] /\ refused' \subseteq Sessions
    BY <1>0, SavingSession DEF IInv, TypeOK, Secrets
  <2> QED
    BY <1>0, <2>1 DEF IInv, TypeOK, Done
<1>2. Pending'
  BY <1>0, <1>1 DEF IInv, Pending, Remembers, Deletes, Done, TypeOK, RememberSteps,
     DeleteSteps, Saves, Controllers, Secrets, Sessions, Logins, NoPending
<1>3. StagedSecrets'
  BY <1>0, <1>1 DEF IInv, StagedSecrets, Expected, Remembers, Done, Pending, Deletes,
     Stage, TypeOK, RememberSteps, DeleteSteps, Saves, Controllers, Secrets, Sessions,
     Logins, NoPending
<1>4. Stage'
  BY <1>0, <1>1 DEF IInv, Stage, Deleted, BeforeOrNew, LeftBySave, Undeleted, Unrestored,
     AsBefore, Knows, Kept, Deletes, Done, Pending, Remembers,
     StagedSecrets, Expected, TypeOK, RememberSteps, DeleteSteps, Saves, Controllers,
     Secrets, Sessions, Logins, NoPending
<1>5. Past'
  BY <1>0 DEF IInv, Past, Done
<1>6. Orphans'
  BY <1>0 DEF IInv, Orphans, Exposed, Done
<1>7. SavedProven'
  BY <1>0 DEF IInv, SavedProven, Done
<1> QED
  BY <1>1, <1>2, <1>3, <1>4, <1>5, <1>6, <1>7 DEF IInv

LEMMA ForgetKept ==
    ASSUME IInv, Forget
    PROVE  IInv'
<1>0. /\ up /\ save.step = "forget" /\ UNCHANGED <<staged, listed, up, login, history>>
      /\ \/ Done /\ vault' = vault
         \/ /\ save'.step = "unlist" /\ controller' = controller
            /\ vault' = [vault EXCEPT ![login.key] = Nothing]
            /\ save'.undoing = save.undoing /\ save'.before = save.before
            /\ save'.previous = save.previous
      /\ save' \in Saves /\ controller' \in Controllers
  BY FinishParts DEF Forget, IInv, TypeOK, Saves, RememberSteps, DeleteSteps, At, Goto,
     Done, stores, history
<1>1. TypeOK'
  BY <1>0, ProfileAssumption, ZenonT(60) DEF IInv, TypeOK, Secrets, Logins, Controllers, Saves,
     RememberSteps, DeleteSteps, Sessions, stores, history
<1>2. Pending'
  BY <1>0, <1>1 DEF IInv, Pending, Remembers, Deletes, history, Done, TypeOK,
     RememberSteps, DeleteSteps, Saves, Controllers, Secrets, Sessions, Logins, NoPending
<1>3. StagedSecrets'
  BY <1>0, <1>1 DEF IInv, StagedSecrets, Expected, Remembers, history, Done, Pending,
     Deletes, Stage, TypeOK, RememberSteps, DeleteSteps, Saves, Controllers, Secrets,
     Sessions, Logins, NoPending
<1>4. Stage'
  BY <1>0 DEF IInv, Stage, Deleted, BeforeOrNew, LeftBySave, Undeleted, Unrestored,
     AsBefore, Knows, Kept, Deletes, history, Done, Pending,
     Remembers, StagedSecrets, Expected, TypeOK, RememberSteps, DeleteSteps
<1>5. Past'
  BY <1>0 DEF IInv, Past, history, Done
<1>6. Orphans'
  BY <1>0 DEF IInv, Orphans, Exposed, history, Done, Pending, Remembers, Deletes, Past,
     Stage, Knows, Kept, AsBefore, TypeOK, RememberSteps, DeleteSteps
<1>7. SavedProven'
  BY <1>0 DEF IInv, SavedProven, history, Done, Pending, Remembers, Deletes, Past,
     StagedSecrets, Expected, Stage, TypeOK, RememberSteps, DeleteSteps
<1> QED
  BY <1>1, <1>2, <1>3, <1>4, <1>5, <1>6, <1>7 DEF IInv

LEMMA UnlistKept ==
    ASSUME IInv, Unlist
    PROVE  IInv'
<1>0. /\ up /\ save.step = "unlist" /\ UNCHANGED <<vault, staged, up, login, history>>
      /\ Done /\ (listed' = listed \ {login.key} \/ listed' = listed)
      /\ save' \in Saves /\ controller' \in Controllers
  BY FinishParts DEF Unlist, IInv, TypeOK, Saves, RememberSteps, DeleteSteps, At, Goto,
     Done, stores, history
<1>1. TypeOK'
  BY <1>0, ProfileAssumption DEF IInv, TypeOK, Secrets, Logins, Controllers, Saves,
     RememberSteps, DeleteSteps, Sessions, stores, history
<1>2. Pending'
  BY <1>0, <1>1 DEF IInv, Pending, Remembers, Deletes, history, Done, TypeOK,
     RememberSteps, DeleteSteps, Saves, Controllers, Secrets, Sessions, Logins, NoPending
<1>3. StagedSecrets'
  BY <1>0, <1>1 DEF IInv, StagedSecrets, Expected, Remembers, history, Done, Pending,
     Deletes, Stage, TypeOK, RememberSteps, DeleteSteps, Saves, Controllers, Secrets,
     Sessions, Logins, NoPending
<1>4. Stage'
  BY <1>0, <1>1 DEF IInv, Stage, Deleted, BeforeOrNew, LeftBySave, Undeleted, Unrestored,
     AsBefore, Knows, Kept, Deletes, history, Done, Pending,
     Remembers, StagedSecrets, Expected, TypeOK, RememberSteps, DeleteSteps, Saves,
     Controllers, Secrets, Sessions, Logins, NoPending
<1>5. Past'
  BY <1>0 DEF IInv, Past, history, Done
<1>6. Orphans'
  BY <1>0 DEF IInv, Orphans, Exposed, history, Done, Pending, Remembers, Deletes, Past,
     Stage, Knows, Kept, AsBefore
<1>7. SavedProven'
  BY <1>0 DEF IInv, SavedProven, history, Done
<1> QED
  BY <1>1, <1>2, <1>3, <1>4, <1>5, <1>6, <1>7 DEF IInv

LEMMA CrashKept ==
    ASSUME IInv, Crash
    PROVE  IInv'
<1>0. /\ up' = FALSE /\ save' = NoSave /\ controller' = NoSession
      /\ UNCHANGED <<vault, staged, listed, login, asked, proven, refused>>
      /\ torn' = torn \/ torn' = torn \cup {login.key}
      /\ \A k \in Keys : Exposed(k) => k \in torn'
      /\ save' \in Saves /\ controller' \in Controllers
  <2>1. NoSave \in Saves /\ NoSession \in Controllers
    BY ProfileAssumption DEF NoSave, NoSession, NoPending, Saves, Controllers, Secrets
  <2> QED
    BY <2>1 DEF Crash, Exposed, stores
<1>1. TypeOK'
  <2>1. torn' \subseteq Keys
    BY <1>0 DEF IInv, TypeOK, Logins
  <2>2. up' \in BOOLEAN
    BY <1>0
  <2> QED
    BY <1>0, <2>1, <2>2 DEF IInv, TypeOK
<1>2. Pending'
  BY <1>0 DEF IInv, Pending, Remembers, Deletes, NoSave, NoSession, Exposed, NoPending,
     TypeOK, RememberSteps, DeleteSteps
<1>3. StagedSecrets'
  BY <1>0 DEF IInv, StagedSecrets, Expected, Remembers, NoSave, NoSession, Exposed,
     NoPending
<1>4. Stage'
  BY <1>0 DEF IInv, Stage, Deleted, BeforeOrNew, LeftBySave, Undeleted, Unrestored,
     AsBefore, Knows, Kept, Deletes, NoSave, NoSession, Exposed,
     NoPending
<1>5. Past'
  BY <1>0 DEF IInv, Past, NoSave, NoSession, Exposed, NoPending
<1>6. Orphans'
  BY <1>0 DEF IInv, Orphans, Exposed, NoSave, NoSession, NoPending
<1>7. SavedProven'
  BY <1>0 DEF IInv, SavedProven, NoSave, NoSession, Exposed, NoPending
<1> QED
  BY <1>1, <1>2, <1>3, <1>4, <1>5, <1>6, <1>7 DEF IInv

LEMMA StartKept ==
    ASSUME IInv, Start
    PROVE  IInv'
<1>0. /\ ~ up /\ save.step = "idle" /\ controller.pending = NoPending
      /\ controller.phase = "Vacant"
      /\ staged' \in [Sessions -> Secrets] /\ up' \in BOOLEAN
      /\ \A s \in Sessions : staged'[s] # Nothing => staged'[s] = staged[s] /\ ~ up'
      /\ UNCHANGED <<vault, listed, controller, login, save, history>>
  <2>1. controller = NoSession /\ save = NoSave
    BY DEF Start, IInv, Pending
  <2>2. PICK left \in SUBSET {s \in Sessions : staged[s] # Nothing} :
          staged' = Purged(left) /\ up' = (left = {})
    BY DEF Start
  <2>3. staged' \in [Sessions -> Secrets]
    BY <2>2 DEF Purged, IInv, TypeOK, Secrets
  <2>4. \A s \in Sessions : staged'[s] # Nothing => staged'[s] = staged[s] /\ ~ up'
    BY <2>2 DEF Purged
  <2> QED
    BY <2>1, <2>2, <2>3, <2>4 DEF Start, NoSession, NoSave, NoPending
<1>1. TypeOK'
  BY <1>0, ProfileAssumption DEF IInv, TypeOK, Secrets, Logins, Controllers, Saves,
     RememberSteps, DeleteSteps, Sessions, stores, history
<1>2. Pending'
  BY <1>0 DEF IInv, Pending, Remembers, Deletes, history, NoPending
<1>3. StagedSecrets'
  BY <1>0 DEF IInv, StagedSecrets, Expected, Remembers, history, NoPending
<1>4. Stage'
  BY <1>0 DEF IInv, Stage, Deleted, BeforeOrNew, LeftBySave, Undeleted, Unrestored,
     AsBefore, Knows, Kept, Deletes, history, NoPending
<1>5. Past'
  BY <1>0 DEF IInv, Past, history, NoPending
<1>6. Orphans'
  BY <1>0 DEF IInv, Orphans, Exposed, history, NoPending
<1>7. SavedProven'
  BY <1>0 DEF IInv, SavedProven, history, NoPending
<1> QED
  BY <1>1, <1>2, <1>3, <1>4, <1>5, <1>6, <1>7 DEF IInv

LEMMA StutterKept ==
    ASSUME IInv, UNCHANGED vars
    PROVE  IInv'
BY DEF IInv, TypeOK, Pending, Remembers, Deletes, StagedSecrets, Expected, Stage, AsBefore,
   Deleted, BeforeOrNew, LeftBySave, Undeleted, Unrestored, Knows, Kept, Past, Orphans, Exposed, SavedProven, vars, stores, history

LEMMA InitHolds ==
    ASSUME Init
    PROVE  IInv
<1>1. NoSave \in Saves /\ NoSession \in Controllers /\ 0 \in 0..MaxSessions
  BY ProfileAssumption DEF NoSave, NoSession, NoPending, Saves, Controllers, Secrets
<1>2. TypeOK
  BY <1>1 DEF Init, TypeOK, Secrets, Logins
<1>3. Pending
  BY <1>1, ProfileAssumption DEF Init, Pending, NoSession, NoPending, NoSave
<1>4. StagedSecrets /\ Orphans /\ SavedProven
  BY DEF Init, StagedSecrets, Orphans, SavedProven
<1>5. Stage /\ Past
  BY DEF Init, Stage, Past, Deletes, NoSave, NoSession, NoPending
<1> QED
  BY <1>2, <1>3, <1>4, <1>5 DEF IInv

LEMMA NextKept ==
    ASSUME IInv, [Next]_vars
    PROVE  IInv'
<1>1. CASE SaveStep
  BY <1>1, LoadPreviousKept, CommitWriteKept, CommitDropKept, PublishKept, UndoDeleteKept,
     UndoStageKept, DiscardStagedKept, ForgetKept, UnlistKept DEF SaveStep
<1>2. CASE Ends("Failed") \/ Ends("Disconnecting")
  BY <1>2, EndsKept
<1>3. CASE Disconnect \/ RollBack
  BY <1>3, DisconnectKept, RollBackKept
<1>4. CASE FinishCleanup \/ ReturnToConnection \/ GenerationChanged
  BY <1>4, PagesKept
<1>5. CASE TransportReady \/ Crash \/ Start
  BY <1>5, TransportReadyKept, CrashKept, StartKept
<1>6. CASE \E k \in Keys, p \in Passwords : Connect(k, p)
  BY <1>6, ConnectKept
<1>7. CASE UNCHANGED vars
  BY <1>7, StutterKept
<1> QED
  BY <1>1, <1>2, <1>3, <1>4, <1>5, <1>6, <1>7 DEF Next

(***************************************************************************)
(* The inductive invariant: what the stores hold at each step of a save,   *)
(* and for whom a secret is staged.                                        *)
(***************************************************************************)
THEOREM StageHolds == Spec => []IInv
<1>1. Init => IInv
  BY InitHolds
<1>2. IInv /\ [Next]_vars => IInv'
  BY NextKept
<1> QED
  BY <1>1, <1>2, PTL DEF Spec

(***************************************************************************)
(* What is saved is a password the server has accepted: finish_pending_-   *)
(* profile runs at TransportReady only.                                    *)
(***************************************************************************)
THEOREM SavedIsProven == Spec => []SavedProven
<1>1. IInv => SavedProven
  BY DEF IInv
<1> QED
  BY <1>1, StageHolds, PTL

(***************************************************************************)
(* A staged secret ends with its session, or the vault refused: every way  *)
(* out of a session goes through discard_pending_profile, and the start of *)
(* the program through purge_pending.                                      *)
(***************************************************************************)
THEOREM StagedSecretsEnd == Spec => []StagedEnds
<1>1. IInv => StagedEnds
  <2> SUFFICES ASSUME IInv, NEW s \in Sessions, staged[s] # Nothing, up
               PROVE  s \in refused \/ (s = controller.session /\ s = controller.pending.session)
    BY DEF StagedEnds
  <2>1. s # 0
    BY ProfileAssumption DEF Sessions
  <2>2. s \in refused \/ s = controller.pending.session
    BY DEF IInv, StagedSecrets
  <2> QED
    BY <2>1, <2>2 DEF IInv, Pending
<1> QED
  BY <1>1, StageHolds, PTL

(***************************************************************************)
(* Deleting takes the credential first: no credential is without a profile *)
(* but for a save that was cut short or whose undo was refused.            *)
(***************************************************************************)
THEOREM NoneIsOrphaned == Spec => []NoOrphans
<1>1. IInv => NoOrphans
  <2> SUFFICES ASSUME IInv, NEW k \in Keys, vault[k] # Nothing
               PROVE  k \in listed \/ k \in torn \/ Saving(k)
    BY DEF NoOrphans
  <2>1. CASE Exposed(k)
    BY <2>1 DEF IInv, Pending, Exposed, Saving, Remembers, RememberSteps
  <2> QED
    BY <2>1 DEF IInv, Orphans
<1> QED
  BY <1>1, StageHolds, PTL

\* What the user is shown at the end of a save is the warning it ended with.
LEMMA FinishTold ==
    ASSUME IInv, save.step # "idle",
           NEW w \in {"none", "SaveFailed", "CredentialDeleteFailed", "MetadataDeleteFailed"},
           Finish(w)
    PROVE  controller'.warning = w
<1>1. controller.phase = "Connecting"
  BY DEF IInv, TypeOK, Pending, Saves, RememberSteps, DeleteSteps, Remembers, Deletes
<1>2. controller.warning = "none"
  BY <1>1 DEF IInv, Pending
<1> QED
  BY <1>2, ReadyParts DEF Finish

(***************************************************************************)
(* The four steps that finish a save tell what it did: finish_pending_-    *)
(* profile.  The case that takes the argument is a save that failed: which *)
(* calls of its undo were refused decides what password is left, and by    *)
(* Stage it is the one before, none or the new one, each only where        *)
(* WarningsHonest allows it; the profile file is never touched.            *)
(***************************************************************************)
THEOREM WarningsAreHonest == Spec => WarningsHonest
<1>1. ASSUME IInv, [Next]_vars, save.step # "idle", save'.step = "idle", up'
      PROVE  Told(controller'.warning)
  <2>1. login.key \in Keys
    BY <1>1 DEF IInv, TypeOK, Logins
  <2>2. CASE Publish
    <3>1. Finish("none") /\ listed' = listed \cup {login.key} /\ UNCHANGED <<vault, login>>
      BY <1>1, <2>2 DEF Publish, At, Goto, IInv, TypeOK, Saves
    <3>2. Remembers /\ vault[login.key] = login.password
      BY <1>1, <2>2 DEF Publish, At, IInv, Pending, Stage, RememberSteps
    <3> QED
      BY <1>1, <2>1, <3>1, <3>2, FinishTold DEF Told, Kept, Outcome, Remembers
  <2>3. CASE DiscardStaged
    <3>1. Finish("SaveFailed") /\ UNCHANGED <<vault, listed, login>>
      BY <1>1, <2>3 DEF DiscardStaged
    <3>2. LeftBySave(vault[login.key]) /\ (login.key \in listed <=> save.before.listed)
      BY <1>1, <2>3 DEF DiscardStaged, At, IInv, Stage
    <3>3. Kept'.password = vault[login.key] /\ Kept'.listed = save.before.listed
      BY <1>1, <3>1, <3>2 DEF Kept, IInv, TypeOK, Saves
    <3> QED
      BY <1>1, <3>1, <3>2, <3>3, FinishTold DEF Told
  <2>4. CASE Forget
    <3>1. Finish("CredentialDeleteFailed") /\ UNCHANGED <<vault, listed, login>>
      BY <1>1, <2>4 DEF Forget, At, Goto, IInv, TypeOK, Saves
    <3>2. Kept = save.before
      BY <1>1, <2>4 DEF Forget, At, IInv, Stage, AsBefore
    <3> QED
      BY <1>1, <3>1, <3>2, FinishTold DEF Told, Kept
  <2>5. CASE Unlist
    <3>1. Deletes /\ vault[login.key] = Nothing /\ login.key \in listed
      BY <1>1, <2>5 DEF Unlist, At, IInv, Pending, Stage, RememberSteps, DeleteSteps
    <3>2. UNCHANGED <<vault, login>>
      BY <1>1, <2>5 DEF Unlist
    <3>3. CASE Finish("none") /\ listed' = listed \ {login.key}
      <4>1. controller'.warning = "none" /\ ~ Remembers
        BY <1>1, <3>1, <3>3, FinishTold DEF Deletes, Remembers
      <4>2. Kept' = Outcome(Nothing, FALSE)
        <5>1. login' = login /\ vault' = vault /\ listed' = listed \ {login.key}
          BY <3>2, <3>3
        <5>2. (login'.key \in listed') = FALSE /\ vault'[login'.key] = Nothing
          BY <3>1, <5>1
        <5> QED
          BY <5>2, Zenon DEF Kept, Outcome
      <4> QED
        BY <3>1, <4>1, <4>2 DEF Told, Deletes, Remembers
    <3>4. CASE Finish("MetadataDeleteFailed") /\ UNCHANGED listed
      BY <1>1, <2>1, <3>1, <3>2, <3>4, FinishTold DEF Told, Kept, Outcome, Deletes
    <3> QED
      BY <2>5, <3>3, <3>4 DEF Unlist
  <2>6. CASE LoadPrevious \/ CommitWrite \/ CommitDrop \/ UndoDelete \/ UndoStage
    BY <1>1, <2>6 DEF LoadPrevious, CommitWrite, CommitDrop, UndoDelete, UndoStage,
       CommitFailed, Goto, IInv, TypeOK, Saves
  <2>7. CASE ~ SaveStep
    BY <1>1, <2>7 DEF Next, vars, Connect, Disconnect, Ends, RollBack, Leaves,
       FinishCleanup, ReturnToConnection, GenerationChanged, Shows, TransportReady, Idle,
       Crash, Start
  <2> QED
    BY <2>2, <2>3, <2>4, <2>5, <2>6, <2>7 DEF SaveStep
<1>2. IInv /\ [Next]_vars
      => [save.step # "idle" /\ save'.step = "idle" /\ up' => Told(controller'.warning)]_vars
  BY <1>1
<1> QED
  BY <1>2, StageHolds, PTL DEF Spec, WarningsHonest
=============================================================================
