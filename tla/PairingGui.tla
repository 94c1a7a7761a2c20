------------------------------ MODULE PairingGui ------------------------------
(***************************************************************************)
(* The pairing window of the desktop GUI process: the controller of        *)
(* daemon/gui/src/controller.rs, the connections of transport.rs and the   *)
(* tick, the buttons and the notifications of view.rs.                     *)
(*                                                                         *)
(* A connection carries one request. Its task puts the request in a queue  *)
(* and waits for the reply; the task of a confirmation also watches for    *)
(* the end of the connection and queues that. The window's tick takes the  *)
(* queue; what the user sees is what was drawn last, and a button carries  *)
(* the generation it was drawn for. A tick that takes several events is a  *)
(* sequence of ticks here.                                                 *)
(***************************************************************************)
EXTENDS Integers, Sequences, FiniteSets

CONSTANTS
    Conns,          \* connections of the daemon
    Asked,          \* the kinds of request they carry
    MaxGeneration   \* bound on what the user does to the window

Kinds == {"confirm", "code", "info", "activate", "completed", "malformed"}
GuiAssumption == IsFiniteSet(Conns) /\ MaxGeneration \in Nat /\ Asked \subseteq Kinds

None == "none"
NoneAssumption == None \notin Conns

VARIABLES
    conn,          \* the connections
    queue,         \* events on their way to the window
    ctl,           \* the controller
    view,          \* the generation the view knows, and whether it was answered
    drawn,         \* what was drawn last: its generation, the confirmation it shows
    notification,  \* the generation whose notification is out, 0 for none
    told,          \* the last generation whose notification was displayed
    visible,
    approved       \* confirmations whose own picture the user approved

vars == <<conn, queue, ctl, view, drawn, notification, told, visible, approved>>

Routes == {"idle", "info", "code", "confirm"}

TypeOK ==
    /\ \A c \in Conns :
        /\ conn[c].step \in {"new", "waiting", "eof", "done"} /\ conn[c].kind \in Kinds
        /\ conn[c].reply \in {None, "accepted", "rejected", "ok", "error"} /\ conn[c].up \in BOOLEAN
    /\ \A i \in DOMAIN queue : queue[i].of \in Conns /\ queue[i].ended \in BOOLEAN
    /\ ctl.route \in Routes /\ ctl.pending \in Conns \cup {None} /\ ctl.of \in Conns \cup {None}
    /\ view.generation <= ctl.generation /\ drawn.generation <= ctl.generation
    /\ notification <= ctl.generation /\ told <= ctl.generation /\ approved \subseteq Conns

Init ==
    /\ conn = [c \in Conns |-> [step |-> "new", kind |-> "info", up |-> TRUE, reply |-> None]]
    /\ queue = <<>>
    /\ ctl = [route |-> "idle", of |-> None, generation |-> 0, pending |-> None, disposed |-> FALSE, ended |-> FALSE]
    /\ view = [generation |-> 0, resolved |-> FALSE] /\ drawn = [generation |-> 0, of |-> None]
    /\ notification = 0 /\ told = 0 /\ visible \in BOOLEAN /\ approved = {}

-----------------------------------------------------------------------------
(* serve *)

Window == <<ctl, view, drawn, notification, told, visible, approved>>

Request(c) ==
    /\ conn[c].step = "new" /\ ~ctl.ended
    /\ \E k \in Asked : conn' = [conn EXCEPT ![c].step = "waiting", ![c].kind = k]
    /\ queue' = Append(queue, [of |-> c, ended |-> FALSE])
    /\ UNCHANGED Window
\* The daemon gives a confirmation up; other requests do not wait for the user.
HangsUp(c) ==
    /\ conn[c].step = "waiting" /\ conn[c].kind = "confirm" /\ conn[c].up /\ conn' = [conn EXCEPT ![c].up = FALSE]
    /\ UNCHANGED <<queue, Window>>
SeesEof(c) ==
    /\ conn[c].step = "waiting" /\ conn[c].kind = "confirm" /\ ~conn[c].up /\ ~ctl.ended
    /\ conn' = [conn EXCEPT ![c].step = "eof"]
    /\ queue' = Append(queue, [of |-> c, ended |-> TRUE])
    /\ UNCHANGED Window
\* The reply is written; to a connection that has gone it is lost.
Responds(c) ==
    /\ conn[c].step \in {"waiting", "eof"} /\ conn[c].reply # None /\ ~ctl.ended
    /\ conn' = [conn EXCEPT ![c].step = "done"]
    /\ UNCHANGED <<queue, Window>>

-----------------------------------------------------------------------------
(* Controller *)

\* The reply of the pending confirmation, and of the request in hand.
settle(accepted) ==
    [c \in Conns |-> IF c = ctl.pending
                     THEN [conn[c] EXCEPT !.reply = IF accepted THEN "accepted" ELSE "rejected"]
                     ELSE conn[c]]
Answer(conns, c, r) == [conns EXCEPT ![c].reply = r]
route(r) == [ctl EXCEPT !.route = r, !.of = None, !.pending = None, !.generation = @ + 1]

KeepsConfirm(c) ==
    /\ conn' = Answer(conn, c, "ok")
    /\ ctl' = [ctl EXCEPT !.route = "code", !.of = None, !.generation = @ + 1]
    /\ UNCHANGED <<visible, notification>>
show_code(c) ==
    /\ conn' = Answer(settle(FALSE), c, "ok") /\ ctl' = route("code")
    /\ UNCHANGED <<visible, notification>>
show_info ==
    /\ ctl' = route("info") /\ visible' = TRUE
NotifiesAhead(c) ==
    /\ conn' = settle(FALSE)
    /\ ctl' = [route("confirm") EXCEPT !.of = c, !.pending = c]
    /\ notification' = ctl'.generation + 1 /\ UNCHANGED visible
confirm(c) ==
    /\ conn' = settle(FALSE)
    /\ ctl' = [route("confirm") EXCEPT !.of = c, !.pending = c]
    /\ notification' = ctl'.generation /\ UNCHANGED visible
completed(c) ==
    /\ conn' = Answer(conn, c, "ok") /\ UNCHANGED notification
    /\ IF ctl.route = "code"
       THEN ctl' = [ctl EXCEPT !.route = "idle", !.generation = @ + 1] /\ visible' = FALSE
       ELSE UNCHANGED <<ctl, visible>>
refuse(c) == conn' = Answer(conn, c, "error") /\ UNCHANGED <<ctl, visible, notification>>

\* validate comes first: a malformed request disturbs nothing.
valid(c) == ~ctl.disposed /\ conn[c].kind # "malformed"
request(c) ==
    \/ ~valid(c) /\ refuse(c)
    \/ valid(c) /\ conn[c].kind = "confirm" /\ confirm(c)
    \/ valid(c) /\ conn[c].kind = "code" /\ show_code(c)
    \/ /\ valid(c) /\ conn[c].kind = "info"
       /\ conn' = Answer(settle(FALSE), c, "ok") /\ show_info /\ UNCHANGED notification
    \/ /\ valid(c) /\ conn[c].kind = "activate"
       /\ conn' = Answer(conn, c, "ok") /\ visible' = TRUE /\ UNCHANGED <<ctl, notification>>
    \/ valid(c) /\ conn[c].kind = "completed" /\ completed(c)

close ==
    /\ visible' = FALSE /\ UNCHANGED notification
    /\ IF ctl.route = "confirm" THEN conn' = settle(FALSE) /\ ctl' = route("idle")
       ELSE UNCHANGED <<conn, ctl>>
ClosesAnswered(c) == FALSE
IsPending(c) == ctl.pending = c
disconnected(c) ==
    IF IsPending(c) THEN close ELSE UNCHANGED <<conn, ctl, visible, notification>>

-----------------------------------------------------------------------------
(* View: what a tick does, and what the user does to what is drawn *)

\* The end of every tick: a new generation forgets the answer.
Refreshed ==
    view' = IF view.generation = ctl'.generation THEN view
            ELSE [generation |-> ctl'.generation, resolved |-> FALSE]
Running == ~ctl.ended
May == ctl.generation < MaxGeneration

Tick ==
    /\ Running /\ queue # <<>> /\ queue' = Tail(queue)
    /\ IF Head(queue).ended
       THEN disconnected(Head(queue).of) ELSE request(Head(queue).of)
    /\ Refreshed /\ UNCHANGED <<drawn, told, approved>>
TickIdle ==
    /\ Running /\ view.generation # ctl.generation /\ UNCHANGED ctl /\ Refreshed
    /\ UNCHANGED <<conn, queue, drawn, notification, told, visible, approved>>
\* The result of the notification, or five seconds without one.
NeverFalls(shown) == FALSE
Falls(shown) == ~shown /\ ~ctl.disposed /\ ctl.pending # None /\ notification = ctl.generation
Notified(shown) ==
    /\ Running /\ notification # 0 /\ notification' = 0
    /\ visible' = (visible \/ Falls(shown))
    /\ told' = IF shown THEN notification ELSE told
    /\ UNCHANGED ctl /\ Refreshed /\ UNCHANGED <<conn, queue, drawn, approved>>
\* The menu and the title bar, taken in a tick, or the buttons of the window.
Shows ==
    /\ Running /\ ~visible /\ visible' = TRUE
    /\ UNCHANGED <<conn, queue, ctl, view, drawn, notification, told, approved>>
Closes ==
    /\ Running /\ ~ctl.disposed /\ May /\ visible /\ close /\ (Refreshed \/ UNCHANGED view)
    /\ UNCHANGED <<queue, drawn, told, approved>>
Informs ==
    /\ Running /\ ~ctl.disposed /\ May /\ conn' = settle(FALSE) /\ show_info
    /\ (Refreshed \/ UNCHANGED view)
    /\ UNCHANGED <<queue, drawn, notification, told, approved>>
Draw ==
    /\ Running /\ drawn.generation # ctl.generation
    /\ drawn' = [generation |-> ctl.generation, of |-> ctl.of]
    /\ UNCHANGED <<conn, queue, ctl, view, notification, told, visible, approved>>
\* A candidate or Cancel: action(Resolve) and Controller::resolve.
AnyGeneration(generation) == ctl.pending # None
Matches(generation) == ctl.pending # None /\ generation = ctl.generation
Click(accepted) ==
    /\ Running /\ visible /\ drawn.of # None /\ ~view.resolved
    /\ approved' = IF accepted THEN approved \cup {drawn.of} ELSE approved
    /\ IF ~ctl.disposed /\ Matches(drawn.generation)
       THEN /\ conn' = settle(accepted) /\ ctl' = [ctl EXCEPT !.pending = None]
            /\ view' = [view EXCEPT !.resolved = TRUE]
       ELSE UNCHANGED <<conn, ctl, view>>
    /\ UNCHANGED <<queue, drawn, notification, told, visible>>
Quit ==
    /\ Running /\ ~ctl.disposed /\ conn' = settle(FALSE)
    /\ ctl' = [ctl EXCEPT !.disposed = TRUE, !.pending = None] /\ Refreshed
    /\ UNCHANGED <<queue, drawn, notification, told, visible, approved>>
\* A tenth of a second later the process ends, and every connection with it.
Ends ==
    /\ Running /\ ctl.disposed /\ ctl' = [ctl EXCEPT !.ended = TRUE] /\ queue' = <<>>
    /\ conn' = [c \in Conns |-> [conn[c] EXCEPT !.step = IF @ = "new" THEN @ ELSE "done"]]
    /\ UNCHANGED <<view, drawn, notification, told, visible, approved>>

Next ==
    \/ \E c \in Conns : Request(c) \/ HangsUp(c) \/ SeesEof(c) \/ Responds(c)
    \/ Tick \/ TickIdle \/ (\E shown \in BOOLEAN : Notified(shown) \/ Click(shown))
    \/ Shows \/ Closes \/ Informs \/ Draw \/ Quit \/ Ends

\* The tasks and the timer of the tick run; nobody need ever click.
Fairness ==
    /\ WF_vars(Tick) /\ WF_vars((\E shown \in BOOLEAN : Notified(shown)))
    /\ \A c \in Conns : WF_vars(SeesEof(c)) /\ WF_vars(Responds(c))
Spec == Init /\ [][Next]_vars
FairSpec == Spec /\ Fairness

-----------------------------------------------------------------------------
(* A pairing is accepted only by a click on the picture of its own request *)
(* and code, whatever requests replace one another between a drawing and   *)
(* the click (generation of a button, Controller::resolve).                *)
AcceptedAsSeen == \A c \in Conns : conn[c].reply = "accepted" => c \in approved

(* A confirmation that waits for its answer is the one the window is about *)
(* and the controller is alive: otherwise no close or disconnect would     *)
(* reject it (settle before every change of route).                        *)
PendingOnRoute ==
    ctl.pending # None =>
        /\ ctl.route = "confirm" /\ ctl.of = ctl.pending /\ ~ctl.disposed
        /\ conn[ctl.pending].reply = None

(* A waiting confirmation is never out of the user's reach: the window is  *)
(* there, its notification was displayed, or the result is still awaited   *)
(* and its failure opens the window (notification_result).                 *)
NeverUnseen ==
    ctl.pending # None =>
        visible \/ told = ctl.generation \/ notification = ctl.generation

(* A confirmation whose connection has gone ends, also when it was waiting *)
(* in the queue or had been replaced (serve's select, disconnected).       *)
GoneEnds ==
    \A c \in Conns : ~conn[c].up /\ conn[c].step \in {"waiting", "eof"} ~> conn[c].step = "done"
=============================================================================
