------------------------------ MODULE UpdateMenu ------------------------------
(***************************************************************************)
(* The update menu of the desktop GUI: Updates of daemon/gui/src/          *)
(* updates.rs, the bridge of update_transport.rs to the installed helper   *)
(* and the part of view.rs that asks the user.                             *)
(*                                                                         *)
(* One task follows the updater's status and connects again when it ends,  *)
(* another carries one command at a time; both write to one queue that the *)
(* window's tick takes. Installing and restarting ask the user first: the  *)
(* question keeps the tick waiting, then the queue is taken once more and  *)
(* the state compared with the one that was shown.                         *)
(***************************************************************************)
EXTENDS Integers, Sequences

CONSTANTS
    MaxChanges,   \* bound on the changes of the updater's status
    MaxEpochs,    \* bound on the starts of the daemon
    MaxLinks,     \* bound on the subscriptions
    MaxSerial     \* bound on the requests of the user

MenuAssumption ==
    MaxChanges \in Nat /\ MaxEpochs \in Nat /\ MaxLinks \in Nat /\ MaxSerial \in Nat

VARIABLES
    updater,   \* external: the status of the running daemon
    changes,   \* how often it has changed
    link,      \* the subscription: how many there were, whether it is up, what it sent
    events,    \* Connecting, Snapshot, Disconnected and Complete on their way
    ui,        \* Updates
    dialog,    \* the action a tick is about, its question and its stamp
    channel,   \* the request that waits for the command task
    command,   \* the request the task carries
    asked      \* what the user was shown and what was so when the request was made

vars == <<updater, changes, link, events, ui, dialog, channel, command, asked>>

Phases == {"idle", "ready", "busy"}
Actions == {"check", "install", "restart"}
None == [serial |-> 0]
NoStatus == [epoch |-> 0, revision |-> 0, phase |-> "idle"]
NoCommand == [step |-> "idle", request |-> None, status |-> NoStatus]
NoDialog == [step |-> "none", action |-> "check", stamp |-> <<>>, shown |-> NoStatus]

TypeOK ==
    /\ command.step \in {"idle", "sent", "answered"}
    /\ updater.epoch \in 1..MaxEpochs /\ updater.phase \in Phases
    /\ link.up \in BOOLEAN /\ link.count \in 0..MaxLinks /\ ui.connection <= link.count
    /\ dialog.step \in {"none", "asking", "yes", "no"} /\ dialog.action \in Actions
    /\ ui.pending # None => ui.connected /\ ui.pending.connection = ui.connection
    /\ ui.connected => ui.status # NoStatus

Init ==
    /\ updater = [epoch |-> 1, revision |-> 0, phase |-> "idle"] /\ changes = 0
    /\ link = [count |-> 0, up |-> FALSE, sent |-> NoStatus] /\ events = <<>>
    /\ ui = [connection |-> 0, serial |-> 0, connected |-> FALSE, status |-> NoStatus, pending |-> None]
    /\ dialog = NoDialog /\ channel = None /\ command = NoCommand /\ asked = <<NoStatus, NoStatus>>

-----------------------------------------------------------------------------
(* The daemon behind the helper (external) *)

Menu == <<ui, dialog, channel, command, asked>>
Changed(p) == [updater EXCEPT !.revision = @ + 1, !.phase = p]
Change ==
    /\ changes < MaxChanges /\ changes' = changes + 1
    /\ \E p \in Phases : updater' = Changed(p)
    /\ UNCHANGED <<link, events, Menu>>
\* A new process, a new epoch: every stream to the old one ends.
Ended == IF link.up THEN Append(events, [type |-> "disconnected"]) ELSE events
Restart ==
    /\ updater.epoch < MaxEpochs
    /\ updater' = [epoch |-> updater.epoch + 1, revision |-> 0, phase |-> "idle"]
    /\ link' = [link EXCEPT !.up = FALSE] /\ events' = Ended /\ UNCHANGED <<changes, Menu>>

-----------------------------------------------------------------------------
(* Bridge *)

Connect ==
    /\ ~link.up /\ link.count < MaxLinks
    /\ link' = [count |-> link.count + 1, up |-> TRUE, sent |-> NoStatus]
    /\ events' = Append(events, [type |-> "connecting"])
    /\ UNCHANGED <<updater, changes, Menu>>
Snapshot ==
    /\ link.up /\ link.sent # updater /\ link' = [link EXCEPT !.sent = updater]
    /\ events' = Append(events, [type |-> "snapshot", status |-> updater])
    /\ UNCHANGED <<updater, changes, Menu>>
Breaks ==
    /\ link.up /\ link.count < MaxLinks /\ link' = [link EXCEPT !.up = FALSE] /\ events' = Ended
    /\ UNCHANGED <<updater, changes, Menu>>
Takes ==
    /\ channel # None /\ command.step = "idle" /\ channel' = None
    /\ command' = [step |-> "sent", request |-> channel, status |-> NoStatus]
    /\ UNCHANGED <<updater, changes, link, events, ui, dialog, asked>>
\* The updater does what is asked and answers with its status, or refuses.
Carries ==
    /\ command.step = "sent"
    /\ \/ /\ changes < MaxChanges /\ changes' = changes + 1 /\ updater' = Changed("busy")
          /\ command' = [command EXCEPT !.step = "answered", !.status = updater']
       \/ command' = [command EXCEPT !.step = "answered"] /\ UNCHANGED <<updater, changes>>
    /\ UNCHANGED <<link, events, ui, dialog, channel, asked>>
\* The helper's answer is read, meanwhile the daemon may be another.
Completes ==
    /\ command.step = "answered" /\ command' = NoCommand
    /\ events' = Append(events, [type |-> "complete", request |-> command.request, status |-> command.status])
    /\ UNCHANGED <<updater, changes, link, ui, dialog, channel, asked>>

-----------------------------------------------------------------------------
(* Updates *)

AcceptsAny(status) == TRUE
Accepts(status) ==
    \/ ui.status = NoStatus
    \/ status.epoch = ui.status.epoch /\ status.revision >= ui.status.revision
snapshot(u, status) ==
    IF Accepts(status) THEN [u EXCEPT !.connected = TRUE, !.status = status] ELSE u
reconnect ==
    [ui EXCEPT !.connection = @ + 1, !.connected = FALSE, !.status = NoStatus, !.pending = None]
KeepsPending == [ui EXCEPT !.connected = FALSE]
unavailable == [ui EXCEPT !.connected = FALSE, !.pending = None]
AnyRequest(r) == TRUE
IsPending(r) == ui.pending = r
complete(r, status) ==
    IF ~IsPending(r) THEN ui
    ELSE IF status = NoStatus THEN [ui EXCEPT !.pending = None]
    ELSE snapshot([ui EXCEPT !.pending = None], status)

\* can_check, can_install, can_restart.
can(action) ==
    /\ ui.connected /\ ui.pending = None
    /\ ui.status.phase \in IF action = "install" THEN {"ready"} ELSE {"idle", "ready"}
\* confirmation: nothing while the updater is not connected.
RevisionOnly == IF ui.connected THEN <<ui.status.revision>> ELSE <<>>
confirmation ==
    IF ui.connected THEN <<ui.connection, ui.status.epoch, ui.status.revision>> ELSE <<>>

-----------------------------------------------------------------------------
(* The tick *)

\* update_events: not while the question is open.
Handle ==
    /\ events # <<>> /\ dialog.step # "asking" /\ events' = Tail(events)
    /\ LET e == Head(events) IN
        ui' = CASE e.type = "connecting" -> reconnect
                [] e.type = "snapshot" -> snapshot(ui, e.status)
                [] e.type = "disconnected" -> unavailable
                [] e.type = "complete" -> complete(e.request, e.status)
    /\ UNCHANGED <<updater, changes, link, dialog, channel, command, asked>>
\* The user chooses an item of the menu, which may be older than ui.
Choose(action) ==
    /\ dialog.step = "none" /\ ui.serial < MaxSerial /\ ui.connected
    /\ dialog' = [step |-> IF action = "check" THEN "yes" ELSE "asking", action |-> action,
                  stamp |-> confirmation, shown |-> ui.status]
    /\ UNCHANGED <<updater, changes, link, events, ui, channel, command, asked>>
Replies(yes) ==
    /\ dialog.step = "asking" /\ dialog' = [dialog EXCEPT !.step = IF yes THEN "yes" ELSE "no"]
    /\ UNCHANGED <<updater, changes, link, events, ui, channel, command, asked>>
\* try_send on a channel of one: a full channel completes the request with an error.
Requests(r) ==
    IF channel = None
    THEN ui' = [ui EXCEPT !.serial = r.serial, !.pending = r] /\ channel' = r
    ELSE ui' = [ui EXCEPT !.serial = r.serial] /\ UNCHANGED channel
Decide ==
    /\ dialog.step \in {"yes", "no"} /\ events = <<>> /\ dialog' = NoDialog
    /\ IF dialog.step = "yes" /\ dialog.stamp # <<>> /\ dialog.stamp = confirmation /\ can(dialog.action)
       THEN /\ Requests([serial |-> ui.serial + 1, connection |-> ui.connection, action |-> dialog.action])
            /\ asked' = <<dialog.shown, ui.status>>
       ELSE UNCHANGED <<ui, channel, asked>>
    /\ UNCHANGED <<updater, changes, link, events, command>>

Next ==
    \/ Change \/ Restart \/ Connect \/ Snapshot \/ Breaks \/ Takes \/ Carries \/ Completes \/ Handle \/ Decide
    \/ (\E action \in Actions : Choose(action)) \/ (\E yes \in BOOLEAN : Replies(yes))

\* The tick and both tasks run, the helper answers, and the user ends a question.
Fairness ==
    /\ WF_vars(Handle) /\ WF_vars(Decide) /\ WF_vars(Takes) /\ WF_vars(Carries) /\ WF_vars(Completes)
    /\ WF_vars((\E yes \in BOOLEAN : Replies(yes)))
Spec == Init /\ [][Next]_vars
FairSpec == Spec /\ Fairness

-----------------------------------------------------------------------------
(* An installation or a restart is requested only while everything the     *)
(* question showed still holds, whatever reached the queue while it was    *)
(* open: another status, a restarted daemon, a new subscription (stamp of  *)
(* tick, confirmation).                                                    *)
ConfirmedAsShown == asked[1] = asked[2]

(* When nothing is on its way the menu shows the subscription's status or  *)
(* a later one of the same daemon: late answers of an earlier connection   *)
(* neither set it back nor shut out what follows (snapshot, complete).     *)
QuietAgrees ==
    link.up /\ link.sent # NoStatus /\ events = <<>> =>
        /\ ui.connected /\ ui.status.epoch = link.sent.epoch
        /\ ui.status.revision >= link.sent.revision

(* A request never keeps the menu disabled for good: it is answered, or    *)
(* refused by a busy bridge, or ended by a new connection (request,        *)
(* complete).                                                              *)
PendingEnds == (ui.pending # None) ~> (ui.pending = None)
=============================================================================
