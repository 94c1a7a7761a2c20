---------------------------- MODULE AgentHistory ----------------------------
(***************************************************************************)
(* The completed turns of a session as a client collects them (agent.rs    *)
(* list_session_turns, subscribe_session and state_db.rs                   *)
(* list_completed_agent_turns): it subscribes, takes the number of the     *)
(* live snapshot, walks the pages of the history up to that number, newest *)
(* first, and appends the turns whose end it then hears of.                *)
(*                                                                         *)
(* A write of the session goes through three steps: the rows, the live     *)
(* snapshot, the event. The first two of a turn hold state_update, and so  *)
(* does the event; update_session holds it for the rows only.              *)
(***************************************************************************)
EXTENDS Integers, Sequences, FiniteSets, SequencesExt

CONSTANTS
    Turns,       \* turns, named by the order of their creation
    Limit,       \* rows of a page
    MaxUpdates   \* bound on update_session

AgentHistoryAssumption == Turns \subseteq Nat \ {0} /\ Limit \in Nat \ {0} /\ MaxUpdates \in Nat

NoTurn == 0

VARIABLES
    latest,     \* agent_sessions.latest_seq
    completed,  \* agent_session_turns.completed_seq, zero while there is none
    live,       \* the live snapshot: latest_seq and the active turn; history: latest_seq
                \* was set back and nothing has set it since
    turnWork,   \* the handler that holds state_update: its step, turn and number
    update,     \* the call of update_session: its step and number
    updates,    \* calls of update_session so far
    client      \* the client: step, number of its snapshot (and whether it was set back),
                \* cursor, timeline, events

vars == <<latest, completed, live, turnWork, update, updates, client>>

IdleWork == [at |-> "idle", kind |-> "none", turn |-> NoTurn, seq |-> 0]
NoCursor == 0

Init ==
    /\ latest = 0 /\ completed = [t \in Turns |-> 0] /\ live = [seq |-> 0, active |-> NoTurn, behind |-> FALSE]
    /\ turnWork = IdleWork /\ update = IdleWork /\ updates = 0
    /\ client = [at |-> "off", through |-> 0, behind |-> FALSE, cursor |-> NoCursor, old |-> <<>>, new |-> <<>>,
                 queue |-> <<>>]

-----------------------------------------------------------------------------
(* The writers                                                              *)

Holding == turnWork.at # "idle"

\* create_turn writes the rows of a turn that is not there yet.
create_turn(t) ==
    /\ ~Holding /\ live.active = NoTurn /\ completed[t] = 0 /\ \A s \in Turns : completed[s] = 0 => t <= s
    /\ latest' = latest + 3
    /\ turnWork' = [at |-> "snapshot", kind |-> "starts", turn |-> t, seq |-> latest + 3]
    /\ UNCHANGED <<completed, live, update, updates, client>>

\* finish_agent_turn numbers the turn with the last number it takes.
CompletedSeq(seq) == seq

finish_live_turn ==
    /\ ~Holding /\ live.active # NoTurn
    /\ latest' = latest + 2 /\ completed' = [completed EXCEPT ![live.active] = CompletedSeq(latest + 2)]
    /\ turnWork' = [at |-> "snapshot", kind |-> "ends", turn |-> live.active, seq |-> latest + 2]
    /\ UNCHANGED <<live, update, updates, client>>

TurnSnapshot ==
    /\ turnWork.at = "snapshot" /\ turnWork' = [turnWork EXCEPT !.at = "event"]
    /\ live' = [seq |-> turnWork.seq, behind |-> FALSE,
                active |-> IF turnWork.kind = "starts" THEN turnWork.turn ELSE NoTurn]
    /\ UNCHANGED <<latest, completed, update, updates, client>>

Sent(work) ==
    client' = IF client.at = "off" THEN client ELSE [client EXCEPT !.queue = Append(@, work)]

TurnEvent ==
    /\ turnWork.at = "event" /\ turnWork' = IdleWork /\ Sent(turnWork)
    /\ UNCHANGED <<latest, completed, live, update, updates>>

\* update_session: the rows with the lock, the snapshot and the event without.
update_session ==
    /\ update.at = "idle" /\ ~Holding /\ updates < MaxUpdates /\ updates' = updates + 1
    /\ latest' = latest + 1
    /\ update' = [IdleWork EXCEPT !.at = "snapshot", !.kind = "update", !.seq = latest + 1]
    /\ UNCHANGED <<completed, live, turnWork, client>>

\* A plausible bug: the number is counted once more for the snapshot.
RenumberedTwice(seq) == seq + 1

Renumbered(seq) == seq

UpdateSnapshot ==
    /\ update.at = "snapshot" /\ update' = [update EXCEPT !.at = "event"]
    /\ live' = [live EXCEPT !.seq = Renumbered(update.seq), !.behind = live.seq > update.seq]
    /\ UNCHANGED <<latest, completed, turnWork, updates, client>>

UpdateEvent ==
    /\ update.at = "event" /\ update' = IdleWork /\ Sent(update)
    /\ UNCHANGED <<latest, completed, live, turnWork, updates>>

-----------------------------------------------------------------------------
(* The client                                                               *)

Subscribe ==
    /\ client.at = "off" /\ client' = [client EXCEPT !.at = "snapshot"]
    /\ UNCHANGED <<latest, completed, live, turnWork, update, updates>>

ReadSnapshot ==
    /\ client.at = "snapshot" /\ client' = [client EXCEPT !.at = "pages", !.through = live.seq,
                                                          !.behind = live.behind]
    /\ UNCHANGED <<latest, completed, live, turnWork, update, updates>>

\* A plausible bug: the number of the snapshot does not bound the history.
RowsUnbounded(through, cursor) ==
    {t \in Turns : completed[t] # 0 /\ (cursor = NoCursor \/ completed[t] < cursor)}

\* list_completed_agent_turns: completed by the number given, before the cursor.
list_completed_agent_turns(through, cursor) ==
    {t \in Turns : /\ completed[t] # 0 /\ completed[t] <= through
                   /\ cursor = NoCursor \/ completed[t] < cursor}

NewestFirst(rows) == SetToSortSeq(rows, LAMBDA s, t : completed[s] > completed[t])

\* A plausible bug: the cursor is taken after the page was reversed.
CursorReversed(page) == completed[Head(page)]

NextCursor(page) == completed[Last(page)]

\* One page more than its limit tells whether there is another.
list_session_turns ==
    LET rows == NewestFirst(list_completed_agent_turns(client.through, client.cursor))
        page == SubSeq(rows, 1, IF Len(rows) > Limit THEN Limit ELSE Len(rows))
    IN  /\ client.at = "pages" /\ client.through <= latest
        /\ client' = [client EXCEPT !.old = Reverse(page) \o @,
                         !.at = IF Len(rows) > Limit THEN "pages" ELSE "live",
                         !.cursor = IF Len(rows) > Limit THEN NextCursor(page) ELSE @]
        /\ UNCHANGED <<latest, completed, live, turnWork, update, updates>>

\* An event its snapshot already holds is ignored; the end of a turn is appended.
Receive ==
    LET e == Head(client.queue) IN
    /\ client.at \in {"pages", "live"} /\ client.queue # <<>>
    /\ client' = [client EXCEPT !.queue = Tail(@),
                     !.new = IF e.kind = "ends" /\ e.seq > client.through THEN Append(@, e.turn) ELSE @]
    /\ UNCHANGED <<latest, completed, live, turnWork, update, updates>>

Next ==
    \/ \E t \in Turns : create_turn(t)
    \/ finish_live_turn \/ TurnSnapshot \/ TurnEvent
    \/ update_session \/ UpdateSnapshot \/ UpdateEvent
    \/ Subscribe \/ ReadSnapshot \/ list_session_turns \/ Receive

Spec == Init /\ [][Next]_vars

-----------------------------------------------------------------------------
(* Properties                                                               *)

Timeline == client.old \o client.new

\* A client that walked all pages and heard all events shows every completed turn once:
\* the history up to the snapshot and the events after it leave no gap and no overlap,
\* unless it subscribed while update_session, overtaken by a turn, had set the number of
\* the snapshot back (agent.rs 886). Concerns throughSeq, the cursor and the order of
\* rows, snapshot and event.
HistoryComplete ==
    (/\ client.at = "live" /\ client.queue = <<>> /\ ~client.behind
     /\ turnWork.at = "idle" /\ update.at = "idle") =>
        /\ IsInjective(Timeline)
        /\ ToSet(Timeline) = {t \in Turns : completed[t] # 0}

\* The timeline is in the order in which the turns were completed, at every moment of
\* the walk. Concerns the direction of the pages and of the rows within them.
TimelineOrdered ==
    \A i, j \in DOMAIN Timeline : i < j => completed[Timeline[i]] < completed[Timeline[j]]

\* The number a client passes is never refused: the live snapshot does not run ahead of
\* the rows. Concerns the guard on throughSeq.
ThroughAccepted == client.at = "pages" => client.through <= latest
=============================================================================
