---------------------------- MODULE AgentCatalog ----------------------------
(***************************************************************************)
(* The persistent catalog of agent sessions (agent.rs list_sessions and    *)
(* update_session, state_db.rs list_agent_sessions and                     *)
(* record_agent_catalog_change): pages of sessions, latest change first,   *)
(* walked with a cursor of time and id, while sessions change.             *)
(*                                                                         *)
(* The time is the wall clock of the daemon; it does not go back here. The *)
(* rows of a page and its revision are two uses of the database.           *)
(***************************************************************************)
EXTENDS Integers, Sequences, FiniteSets, SequencesExt

CONSTANTS
    Sessions,   \* sessions, ordered as their ids
    Limit,      \* rows of a page
    MaxClock,   \* bound on the time
    MaxChanges  \* bound on changes of sessions

AgentCatalogAssumption ==
    Sessions \subseteq Nat \ {0} /\ Limit \in Nat \ {0} /\ MaxClock \in Nat /\ MaxChanges \in Nat

VARIABLES
    clock,     \* current_unix_ms
    updated,   \* agent_sessions.updated_at_ms
    archived,  \* agent_sessions.archived
    revision,  \* agent_session_catalog_state.revision
    changes,   \* changes so far
    walk,      \* the client's walk: step, cursor, fingerprint, sessions listed, last page
    disturbed  \* sessions changed since the walk began

vars == <<clock, updated, archived, revision, changes, walk, disturbed>>

NoCursor == [time |-> -1, id |-> 0, filter |-> "none"]
Filters == {"active", "all"}
Page0 == [rows |-> <<>>, revision |-> 0, at |-> 0]

Init ==
    /\ clock = 0 /\ updated = [s \in Sessions |-> 0] /\ archived = [s \in Sessions |-> FALSE]
    /\ revision = 0 /\ changes = 0 /\ disturbed = {}
    /\ walk = [at |-> "idle", filter |-> "none", cursor |-> NoCursor, listed |-> <<>>, page |-> Page0]

Tick ==
    /\ clock < MaxClock /\ clock' = clock + 1
    /\ UNCHANGED <<updated, archived, revision, changes, walk, disturbed>>

Touched(s) ==
    /\ changes < MaxChanges /\ changes' = changes + 1
    /\ updated' = [updated EXCEPT ![s] = clock] /\ disturbed' = disturbed \cup {s}

\* Text, usage and configuration: the session is the latest again, the revision stays.
advance_agent_session_seq(s) ==
    /\ Touched(s) /\ UNCHANGED <<clock, archived, revision, walk>>

\* A new title, or the archive; the start and the end of a turn change the revision too.
update_agent_session(s) ==
    /\ Touched(s) /\ revision' = revision + 1
    /\ \E a \in BOOLEAN : archived' = [archived EXCEPT ![s] = a]
    /\ UNCHANGED <<clock, walk>>

-----------------------------------------------------------------------------
(* list_sessions                                                            *)

\* A plausible bug: the time alone is compared.
BeforeTime(s, cursor) == cursor = NoCursor \/ updated[s] < cursor.time

\* A plausible bug: the row of the cursor is in the next page again.
BeforeOrAt(s, cursor) ==
    \/ cursor = NoCursor \/ updated[s] < cursor.time
    \/ updated[s] = cursor.time /\ s <= cursor.id

Before(s, cursor) ==
    \/ cursor = NoCursor \/ updated[s] < cursor.time
    \/ updated[s] = cursor.time /\ s < cursor.id

Selected(filter) == {s \in Sessions : filter = "active" => ~archived[s]}

list_agent_sessions(filter, cursor) ==
    SetToSortSeq({s \in Selected(filter) : Before(s, cursor)},
                 LAMBDA s, t : updated[s] > updated[t] \/ (updated[s] = updated[t] /\ s > t))

\* A plausible bug: the cursor is not bound to its filter.
AcceptedAlways(filter, cursor) == TRUE

\* decode_session_cursor: the fingerprint of the filter is part of the cursor.
decode_session_cursor(filter, cursor) == cursor = NoCursor \/ cursor.filter = filter

\* The rows of the next page; a client that changes the filter keeps no cursor.
ListRows(filter) ==
    LET rows == list_agent_sessions(filter, walk.cursor)
        page == SubSeq(rows, 1, IF Len(rows) > Limit THEN Limit ELSE Len(rows))
    IN  /\ walk.at = "idle" /\ decode_session_cursor(filter, walk.cursor)
        /\ disturbed' = IF walk.cursor = NoCursor THEN {} ELSE disturbed
        /\ walk' = [at |-> "revision", filter |-> filter,
                    cursor |-> IF Len(rows) > Limit
                               THEN [time |-> updated[Last(page)], id |-> Last(page), filter |-> filter]
                               ELSE NoCursor,
                    listed |-> walk.listed \o page,
                    page |-> [rows |-> page, revision |-> 0, at |-> revision]]
        /\ UNCHANGED <<clock, updated, archived, revision, changes>>

\* Its revision, read after the rows.
ListRevision ==
    /\ walk.at = "revision"
    /\ walk' = [walk EXCEPT !.at = IF walk.cursor = NoCursor THEN "done" ELSE "idle",
                            !.page.revision = revision]
    /\ UNCHANGED <<clock, updated, archived, revision, changes, disturbed>>

Restart ==
    /\ walk.at = "done"
    /\ walk' = [at |-> "idle", filter |-> "none", cursor |-> NoCursor, listed |-> <<>>, page |-> Page0]
    /\ disturbed' = {}
    /\ UNCHANGED <<clock, updated, archived, revision, changes>>

Next ==
    \/ Tick \/ ListRevision \/ Restart
    \/ \E s \in Sessions : advance_agent_session_seq(s) \/ update_agent_session(s)
    \/ \E filter \in Filters : ListRows(filter)

Spec == Init /\ [][Next]_vars

-----------------------------------------------------------------------------
(* Properties                                                               *)

\* A walk never lists a session twice, however sessions change meanwhile: what changes
\* moves ahead of the cursor. Concerns the order of the cursor and of the rows.
ListedOnce == IsInjective(walk.listed)

\* A finished walk lists every session of its filter that did not change meanwhile,
\* sessions changed at the same millisecond included. Concerns the cursor's tie break.
WalkComplete ==
    walk.at = "done" => Selected(walk.filter) \ disturbed \subseteq ToSet(walk.listed)

\* A walk lists only sessions its filter selects, or that changed since. Concerns the
\* fingerprint, which binds a cursor to the filter it was made for.
WalkFiltered ==
    walk.at # "idle" => ToSet(walk.listed) \subseteq Selected(walk.filter) \cup disturbed

\* The revision of a page is the one its rows were read at.
PageAtRevision == walk.at \in {"done", "idle"} => walk.page.revision = walk.page.at
=============================================================================
