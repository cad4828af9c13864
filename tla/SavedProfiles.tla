---------------------------- MODULE SavedProfiles ----------------------------
(***************************************************************************)
(* Remembered logins: the controller's pending profile transaction         *)
(* (crates/frd-app/src/controller.rs) against the credential vault and the *)
(* profile file of Windows (crates/frd-platform-windows/src/secure_creden- *)
(* tials.rs and connection_profiles.rs).  Either store may refuse any call *)
(* and the process may end between any two of them.                        *)
(*                                                                         *)
(* A call is one step.  A call that only reads is one with the call before *)
(* which it fails or not.  Page "AwaitingFirstFrame" stands for Remote-    *)
(* Session too.  A session is identified across the starts of the program: *)
(* the vault's name for a staged secret has the process in it.             *)
(***************************************************************************)
EXTENDS Integers

CONSTANTS
    Keys,        \* ConnectionProfileKey: protocol, address, port and user name
    Passwords,
    Nothing,     \* no credential
    MaxSessions  \* bound: how many connections are asked for

ASSUME ProfileAssumption == Nothing \notin Passwords /\ MaxSessions \in Nat

Sessions == 1..MaxSessions

VARIABLES
    \* what lasts
    vault,      \* the committed credentials
    staged,     \* the pending ones, by session
    listed,     \* the keys of the profile file
    \* the program
    up,         \* it runs
    controller, \* session id, slot phase, page, pending_profile and warning
    login,      \* the key and the password of the connection asked for
    save,       \* finish_pending_profile under way
    \* history
    asked,      \* how many connections were asked for
    proven,     \* the logins with which a session became ready
    refused,    \* the sessions whose staged secret the vault would not give up
    torn        \* the keys a save of which was cut short, or could not be undone

stores == <<vault, staged, listed>>
history == <<asked, proven, refused, torn>>
vars == <<stores, up, controller, login, save, history>>

NoPending == [session |-> 0, action |-> "none"]
NoSession == [session |-> 0, phase |-> "Vacant", page |-> "ConnectionForm",
              pending |-> NoPending, warning |-> "none"]
\* before and refusals are history: what there was, and what of the undo was refused.
NoSave == [step |-> "idle", previous |-> Nothing, undoing |-> FALSE,
           before |-> [password |-> Nothing, listed |-> FALSE], refusals |-> {}]

Init ==
    /\ vault = [k \in Keys |-> Nothing]
    /\ staged = [s \in Sessions |-> Nothing]
    /\ listed = {}
    /\ up = TRUE
    /\ controller = NoSession
    /\ login \in [key : Keys, password : Passwords]
    /\ save = NoSave
    /\ asked = 0 /\ proven = {} /\ refused = {} /\ torn = {}

-----------------------------------------------------------------------------
(* The session *)

Idle == up /\ save.step = "idle"
InSlot(phases) == controller.session # 0 /\ controller.phase \in phases

(***************************************************************************)
(* start_connection.  A login to be remembered is staged first, and a      *)
(* refusal leaves the form; one selected and not to be remembered any more *)
(* is to be deleted.                                                       *)
(***************************************************************************)
Connects(action) ==
    controller' = [NoSession EXCEPT !.session = asked', !.phase = "Connecting",
                                    !.page = "Connecting",
                                    !.pending = IF action = "none" THEN NoPending
                                                ELSE [session |-> asked', action |-> action]]

Connect(k, p) ==
    /\ Idle /\ controller.page = "ConnectionForm" /\ controller.phase = "Vacant"
    /\ asked < MaxSessions
    /\ asked' = asked + 1
    /\ login' = [key |-> k, password |-> p]
    /\ \/ Connects("Remember") /\ staged' = [staged EXCEPT ![asked'] = p]
       \/ UNCHANGED <<controller, staged>>
       \/ k \in listed /\ Connects("Delete") /\ UNCHANGED staged
       \/ Connects("none") /\ UNCHANGED staged
    /\ UNCHANGED <<vault, listed, up, save, proven, refused, torn>>

\* MUTANT: the pending profile is forgotten, what it staged is not.
ForgetPending == UNCHANGED <<staged, refused>>

\* discard_pending_profile
DiscardPending ==
    LET s == controller.pending.session IN
    IF s = 0 \/ s # controller.session THEN UNCHANGED <<staged, refused>>
    ELSE \/ staged' = [staged EXCEPT ![s] = Nothing] /\ UNCHANGED refused
         \/ refused' = refused \cup {s} /\ UNCHANGED staged

\* What is taken of pending_profile is put back if another session's.
Taken ==
    IF controller.pending.session = controller.session THEN NoPending ELSE controller.pending

\* The rest of it, and reset_session_bound_state.
Unbound == [controller EXCEPT !.warning = "none", !.pending = Taken]

Leaves(c) ==
    /\ DiscardPending
    /\ controller' = c
    /\ UNCHANGED <<vault, listed, up, login, save, asked, proven, torn>>

\* CancelConnect and Disconnect, and the stage that the session disconnects.
Disconnect ==
    /\ Idle /\ InSlot({"Connecting", "Active"})
    /\ Leaves([Unbound EXCEPT !.phase = "Disconnecting", !.page = "Disconnecting"])

\* handle_terminal_failure and handle_normal_close.
Ends(page) ==
    /\ Idle /\ InSlot({"Connecting", "Active", "Disconnecting", "CleanupPending"})
    /\ Leaves([Unbound EXCEPT !.phase = "CleanupPending",
                              !.page = IF @ = "Failed" THEN @ ELSE page])

\* consume_launch_rollback
RollBack ==
    /\ Idle /\ controller.page = "Connecting" /\ InSlot({"Connecting"})
    /\ Leaves([Unbound EXCEPT !.session = 0, !.phase = "Vacant", !.page = "Failed"])

Shows(c) ==
    /\ controller' = c
    /\ UNCHANGED <<stores, up, login, save, history>>

\* finish_session_cleanup
FinishCleanup ==
    /\ Idle /\ InSlot({"Disconnecting", "CleanupPending"})
    /\ Shows([controller EXCEPT !.session = 0, !.phase = "Vacant", !.warning = "none",
                                !.page = IF @ = "Disconnecting" THEN "ConnectionForm" ELSE @])

ReturnToConnection ==
    /\ Idle /\ controller.page = "Failed"
    /\ Shows([controller EXCEPT !.page = "ConnectionForm"])

\* SurfaceGenerationChanged, which an Apple session reports before it is ready.
\* MUTANT: what is pending is finished when the first surface is announced.
GenerationFinishes ==
    /\ Idle /\ controller.page = "Connecting" /\ controller.pending.action = "Remember"
    /\ save' = [NoSave EXCEPT !.step = "load"]
    /\ UNCHANGED <<stores, up, controller, login, history>>

GenerationChanged ==
    /\ Idle /\ controller.page = "Connecting"
    /\ Shows([controller EXCEPT !.page = "AwaitingFirstFrame"])

-----------------------------------------------------------------------------
(***************************************************************************)
(* TransportReady: the server has accepted the login, and what is pending  *)
(* is finished before the page changes.  A session is ready once.          *)
(***************************************************************************)
ReadyPage(warning) ==
    [controller EXCEPT !.page = "AwaitingFirstFrame",
                       !.phase = IF @ = "Connecting" THEN "Active" ELSE @,
                       !.pending = Taken,
                       !.warning = IF warning = "none" THEN @ ELSE warning]

Kept == [password |-> vault[login.key], listed |-> login.key \in listed]

\* MUTANT: the profile goes and its credential stays.
FirstUnlists(action) == IF action = "Remember" THEN "load" ELSE "unlist"

FirstStep(action) == IF action = "Remember" THEN "load" ELSE "forget"

TransportReady ==
    /\ Idle /\ InSlot({"Connecting"})
    /\ controller.page \in {"Connecting", "AwaitingFirstFrame"}
    /\ proven' = proven \cup {login}
    /\ LET pending == controller.pending IN
       IF pending.session = controller.session
       THEN /\ save' = [NoSave EXCEPT !.step = FirstStep(pending.action), !.before = Kept]
            /\ UNCHANGED controller
       ELSE controller' = ReadyPage("none") /\ UNCHANGED save
    /\ UNCHANGED <<stores, up, login, asked, refused, torn>>

At(step) == up /\ save.step = step
Goto(step) == save' = [save EXCEPT !.step = step] /\ UNCHANGED controller
Finish(warning) == save' = [save EXCEPT !.step = "idle"] /\ controller' = ReadyPage(warning)

\* list, and load of the credential there was
LoadPrevious ==
    /\ At("load")
    /\ \/ /\ save' = [save EXCEPT !.step = "write", !.previous = vault[login.key]]
          /\ UNCHANGED controller
       \/ Goto("discard")
    /\ UNCHANGED <<stores, up, login, history>>

\* MUTANT: a commit that fails is taken not to have written anything.
CommitWroteNothing == "discard"

\* Where commit goes on when it fails: it is a step of the undo too.
CommitFailed == IF save.undoing THEN "discard" ELSE "undo"

\* commit reads the staged secret and writes it ...
CommitWrite ==
    /\ At("write")
    /\ \/ /\ staged[controller.session] # Nothing
          /\ vault' = [vault EXCEPT ![login.key] = staged[controller.session]]
          /\ Goto("drop")
       \/ /\ save' = [save EXCEPT !.step = CommitFailed,
                                !.refusals = IF save.undoing THEN @ \cup {"restore"} ELSE @]
          /\ UNCHANGED <<vault, controller>>
    /\ UNCHANGED <<staged, listed, up, login, history>>

\* ... and deletes it where it was staged.
CommitDrop ==
    /\ At("drop")
    /\ \/ /\ staged' = [staged EXCEPT ![controller.session] = Nothing]
          /\ Goto(IF save.undoing THEN "discard" ELSE "publish")
       \/ Goto(CommitFailed) /\ UNCHANGED staged
    /\ UNCHANGED <<vault, listed, up, login, history>>

\* upsert
Publish ==
    /\ At("publish")
    /\ \/ listed' = listed \cup {login.key} /\ Finish("none")
       \/ Goto("undo") /\ UNCHANGED listed
    /\ UNCHANGED <<vault, staged, up, login, history>>

(***************************************************************************)
(* compensate_credential_commit: the new credential is deleted, and the    *)
(* one there was staged and committed anew, whatever is refused.           *)
(***************************************************************************)
UndoDelete ==
    /\ At("undo") /\ UNCHANGED controller
    /\ LET next == IF save.previous = Nothing THEN "discard" ELSE "restage" IN
       \/ vault' = [vault EXCEPT ![login.key] = Nothing] /\ UNCHANGED torn
          /\ save' = [save EXCEPT !.step = next]
       \/ /\ save' = [save EXCEPT !.step = next, !.refusals = {"delete"}]
          /\ torn' = IF save.previous = Nothing THEN torn \cup {login.key} ELSE torn
          /\ UNCHANGED vault
    /\ UNCHANGED <<staged, listed, up, login, asked, proven, refused>>

UndoStage ==
    /\ At("restage")
    /\ \/ /\ staged' = [staged EXCEPT ![controller.session] = save.previous]
          /\ save' = [save EXCEPT !.step = "write", !.undoing = TRUE]
       \/ /\ save' = [save EXCEPT !.step = "discard", !.refusals = @ \cup {"restore"}]
          /\ UNCHANGED staged
    /\ UNCHANGED <<vault, listed, up, controller, login, history>>

DiscardStaged ==
    /\ At("discard") /\ Finish("SaveFailed")
    /\ \/ staged' = [staged EXCEPT ![controller.session] = Nothing] /\ UNCHANGED refused
       \/ refused' = refused \cup {controller.session} /\ UNCHANGED staged
    /\ UNCHANGED <<vault, listed, up, login, asked, proven, torn>>

(***************************************************************************)
(* The login is not to be remembered any more: its credential goes first,  *)
(* and its profile only then.                                              *)
(***************************************************************************)
Forget ==
    /\ At("forget")
    /\ \/ vault' = [vault EXCEPT ![login.key] = Nothing] /\ Goto("unlist")
       \/ Finish("CredentialDeleteFailed") /\ UNCHANGED vault
    /\ UNCHANGED <<staged, listed, up, login, history>>

Unlist ==
    /\ At("unlist")
    /\ \/ listed' = listed \ {login.key} /\ Finish("none")
       \/ Finish("MetadataDeleteFailed") /\ UNCHANGED listed
    /\ UNCHANGED <<vault, staged, up, login, history>>

-----------------------------------------------------------------------------
(***************************************************************************)
(* The program ends, whatever it does; when it starts, it deletes what is  *)
(* staged (purge_pending), and does not go on unless all of it is deleted. *)
(***************************************************************************)
Crash ==
    /\ up
    /\ up' = FALSE
    /\ controller' = NoSession /\ save' = NoSave
    /\ torn' = IF save.step \in {"drop", "publish", "undo"} /\ ~ save.undoing
               THEN torn \cup {login.key} ELSE torn
    /\ UNCHANGED <<stores, login, asked, proven, refused>>

Purged(left) == [s \in Sessions |-> IF s \in left THEN staged[s] ELSE Nothing]
Start ==
    /\ ~ up
    /\ \E left \in SUBSET {s \in Sessions : staged[s] # Nothing} :
        staged' = Purged(left) /\ up' = (left = {})
    /\ UNCHANGED <<vault, listed, controller, login, save, history>>

SaveStep ==
    \/ LoadPrevious \/ CommitWrite \/ CommitDrop \/ Publish
    \/ UndoDelete \/ UndoStage \/ DiscardStaged
    \/ Forget \/ Unlist

Next ==
    \/ \E k \in Keys, p \in Passwords : Connect(k, p)
    \/ Disconnect
    \/ Ends("Failed")
    \/ Ends("Disconnecting")
    \/ RollBack
    \/ FinishCleanup
    \/ ReturnToConnection
    \/ GenerationChanged
    \/ TransportReady
    \/ SaveStep
    \/ Crash
    \/ Start

Spec == Init /\ [][Next]_vars

-----------------------------------------------------------------------------
(***************************************************************************)
(* What is saved for a connection is a password the server has accepted    *)
(* for it: never one of another session, of a failed or a cancelled one.   *)
(***************************************************************************)
SavedProven ==
    \A k \in Keys :
        vault[k] # Nothing => [key |-> k, password |-> vault[k]] \in proven

(***************************************************************************)
(* A staged secret does not outlive the wait for the session it is staged  *)
(* for, unless the vault refused to delete it.                             *)
(***************************************************************************)
StagedEnds ==
    \A s \in Sessions :
        staged[s] # Nothing /\ up
        => s \in refused \/ (s = controller.session /\ s = controller.pending.session)

(***************************************************************************)
(* No credential is without a profile, by which the user could get rid of  *)
(* it, unless a save of it was cut short by the end of the program or its  *)
(* undo was refused: deleting leaves none, wherever it is cut short.       *)
(***************************************************************************)
Saving(k) == save.step # "idle" /\ controller.pending.action = "Remember" /\ k = login.key
NoOrphans ==
    \A k \in Keys : vault[k] # Nothing => k \in listed \/ k \in torn \/ Saving(k)

(***************************************************************************)
(* What the user is told is what became of the login: without a warning it *)
(* is saved or gone as asked.  A deletion that fails leaves all as it was, *)
(* or the profile without its password, by its warning.  A save that fails *)
(* leaves the profile file as it was and, unless its undo was refused a    *)
(* call, the password too.  A refused undo is told as any save that        *)
(* failed, and what it may leave behind is this and no more: no password   *)
(* where the one before could not be put back, and the new one, which the  *)
(* server has accepted, where it could not be deleted and nothing was put  *)
(* in its place (compensate_credential_commit).                            *)
(***************************************************************************)
Outcome(password, isListed) == [password |-> password, listed |-> isListed]
Unrestored == "restore" \in save.refusals
Undeleted == "delete" \in save.refusals
LeftBySave(password) ==
    \/ password = save.before.password /\ (Unrestored => Undeleted)
    \/ password = Nothing /\ Unrestored /\ ~ Undeleted
    \/ password = login.password /\ Undeleted /\ (Unrestored \/ save.before.password = Nothing)

Told(warning) ==
    /\ warning = "none" /\ controller.pending.action = "Remember" =>
         Kept' = Outcome(login.password, TRUE)
    /\ warning = "none" /\ controller.pending.action = "Delete" =>
         Kept' = Outcome(Nothing, FALSE)
    /\ warning = "SaveFailed" =>
         LeftBySave(Kept'.password) /\ Kept'.listed = save.before.listed
    /\ warning = "CredentialDeleteFailed" => Kept' = save.before
    /\ warning = "MetadataDeleteFailed" => Kept' = Outcome(Nothing, TRUE)
WarningsHonest ==
    [][save.step # "idle" /\ save'.step = "idle" /\ up' => Told(controller'.warning)]_vars
=============================================================================
