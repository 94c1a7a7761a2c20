-------------------------- MODULE TerminalSessions --------------------------
(***************************************************************************)
(* Terminal sessions of the daemon (daemon/host/src/terminal.rs) and the   *)
(* two RPC streams about them (daemon/host/src/server.rs): the table of    *)
(* sessions a client subscribes to, and the output stream of an attach.    *)
(*                                                                         *)
(* A session lives in the manager's map and has a lock of its own.  Every  *)
(* operation fetches it from the map, releases the map, then locks the     *)
(* session; so it may work on a session that has left the map meanwhile.   *)
(* The row a table subscriber gets is copied under the session's lock and  *)
(* broadcast after it: "casts" holds the rows on their way, in the order   *)
(* of the copies; they may be broadcast in another.                        *)
(***************************************************************************)
EXTENDS Integers, Sequences, FiniteSets

CONSTANTS
    Ids,          \* terminal sessions
    Attaches,     \* attach streams, each used once
    MaxOutput,    \* bound on the chunks of a session
    Retained,     \* chunks that fit TERMINAL_OUTPUT_RETENTION_BYTES
    Capacity,     \* TERMINAL_EVENT_CHANNEL_CAPACITY
    TableCapacity, \* TERMINAL_TABLE_CHANNEL_CAPACITY
    Subscribed    \* a client subscribes to the table; a patch without one is lost

TerminalAssumption ==
    /\ {Retained, Capacity, TableCapacity} \subseteq Nat \ {0} /\ MaxOutput \in Nat
    /\ Subscribed \in BOOLEAN

VARIABLES
    listed,   \* TerminalManagerInner.sessions
    session,  \* TerminalSession of an id; Fresh before create_session
    closing,  \* close_session or mark_host_closed between the two locks
    host,     \* events on the channel from the pseudo-terminal's threads
    reader,   \* spawn_host_event_reader is running
    child,    \* the child process: "none", "alive", "dead"
    casts,    \* table patches of a session copied under a lock and not yet broadcast;
              \* history of a patch: "gap" copied since the snapshot was read, "old" a
              \* later one was broadcast before it, or the session had been closed
    table,    \* the subscriber: its phase, view, queue and lag; history: the sessions
              \* that have gone "astray" since its last snapshot
    att       \* the attach streams

vars == <<listed, session, closing, host, reader, child, casts, table, att>>

NoAttach == 0
NoAttachAssumption == NoAttach \notin Attaches

Row(primary, title, exit) == [primary |-> primary, title |-> title, exit |-> exit]
Fresh == [row |-> Row(NoAttach, 0, FALSE), seq |-> 0, first |-> 1, owners |-> {},
          closed |-> FALSE]
Idle == [s |-> 0, phase |-> "none", replay |-> <<>>, ended |-> FALSE, base |-> 0,
         queue |-> <<>>, lagged |-> FALSE, after |-> 0, primary |-> NoAttach, trace |-> <<>>]

Chunk(n) == [k |-> "out", n |-> n]
Gap(n) == [k |-> "gap", n |-> n]
Control(a) == [k |-> "control", n |-> a]
Exited == [k |-> "exit", n |-> 0]
Closed == [k |-> "closed", n |-> 0]

Init ==
    /\ listed = {} /\ session = [s \in Ids |-> Fresh] /\ closing = {}
    /\ host = [s \in Ids |-> <<>>] /\ reader = {} /\ child = [s \in Ids |-> "none"]
    /\ casts = [s \in Ids |-> <<>>]
    /\ table = [phase |-> "none", view |-> [s \in {} |-> 0], queue |-> <<>>, lagged |-> FALSE,
                astray |-> {}]
    /\ att = [a \in Attaches |-> Idle]

-----------------------------------------------------------------------------
(* Broadcast channels                                                       *)

\* A full broadcast channel drops its oldest event and the receiver lags.
Pushed(r, event, capacity) ==
    IF Len(r.queue) < capacity THEN [r EXCEPT !.queue = Append(@, event)]
    ELSE [r EXCEPT !.queue = Append(Tail(@), event), !.lagged = TRUE]

RECURSIVE PushedAll(_, _, _)
PushedAll(r, events, capacity) ==
    IF events = <<>> THEN r
    ELSE PushedAll(Pushed(r, Head(events), capacity), Tail(events), capacity)

\* output_tx.send, to the attaches that subscribed
Sent(s, events) ==
    [a \in Attaches |-> IF att[a].s = s /\ att[a].phase = "live"
                        THEN PushedAll(att[a], events, Capacity) ELSE att[a]]

Upsert(s, row) == [op |-> "upsert", s |-> s, row |-> row]
Remove(s) == [op |-> "remove", s |-> s, row |-> Fresh.row]

\* Sessions that were closed; who fetched one from the map before still holds it.
Removed == {s \in Ids : session[s].closed}

Cast(c) ==
    IF Subscribed
    THEN [casts EXCEPT ![c.s] = Append(@, [patch |-> c, gap |-> table.phase = "snapshot",
                                           old |-> c.op = "upsert" /\ c.s \in Removed])]
    ELSE casts
Outdated(s) == [casts EXCEPT ![s] = [n \in DOMAIN @ |-> [@[n] EXCEPT !.old = TRUE]]]

\* The view of these sessions may be wrong until the next snapshot: a patch was lost
\* between the snapshot and the subscription, was overtaken by a later one, was copied
\* from a session that had been closed, or was never sent.
Astray(sessions) ==
    IF Subscribed THEN [table EXCEPT !.astray = @ \cup sessions] ELSE table

WentAstray(c) == (c.gap /\ table.phase = "snapshot") \/ c.old

\* broadcast_table_upsert, broadcast_table_remove
Broadcast(s) ==
    /\ \E i \in DOMAIN casts[s] :
         LET c == casts[s][i]
             followed == IF WentAstray(c) THEN Astray({s}) ELSE table
         IN  /\ casts' = [casts EXCEPT ![s] = [n \in 1..Len(@) - 1 |->
                                IF n < i THEN [@[n] EXCEPT !.old = TRUE] ELSE @[n + 1]]]
             /\ table' = IF table.phase = "subscribed"
                         THEN Pushed(followed, c.patch, TableCapacity) ELSE followed
    /\ UNCHANGED <<listed, session, closing, host, reader, child, att>>

-----------------------------------------------------------------------------
(* Operations of TerminalManager                                            *)

\* The session is inserted and announced before its event reader starts.
create_session(s) ==
    /\ child[s] = "none" /\ \A r \in Ids : r < s => child[r] # "none"
    /\ listed' = listed \cup {s}
    /\ child' = [child EXCEPT ![s] = "alive"] /\ reader' = reader \cup {s}
    /\ casts' = Cast(Upsert(s, Fresh.row))
    /\ UNCHANGED <<session, closing, host, table, att>>

Created(s) == child[s] # "none"

\* replay_events: what is retained after the chunk the client has seen.
replay_eventsRepeatsLast(x, after) ==
    [n \in 1..Cardinality({m \in x.first..x.seq : m >= after}) |->
        Chunk((IF after < x.first THEN x.first ELSE after) + n - 1)]

replay_events(x, after) ==
    LET from == IF after < x.first THEN x.first ELSE after + 1
        gap == x.first <= x.seq /\ after # -1 /\ after + 1 < x.first
    IN  (IF gap THEN <<Gap(x.first)>> ELSE <<>>)
        \o [n \in 1..(x.seq - from + 1) |-> Chunk(from + n - 1)]

\* The row, the replay and the subscription are taken under one lock.
\* after = -1: afterSeq is absent.
attach(s, a, after) ==
    /\ Created(s) /\ ~session[s].closed /\ att[a].phase = "none"
    /\ LET x == session[s]
       IN  /\ session' = [session EXCEPT ![s].owners = @ \cup {a}]
           /\ att' = [att EXCEPT ![a] = [Idle EXCEPT !.s = s, !.phase = "live",
                            !.replay = replay_events(x, after), !.ended = x.row.exit,
                            !.base = x.seq, !.after = after, !.primary = x.row.primary]]
           /\ casts' = Cast(Upsert(s, x.row))
    /\ UNCHANGED <<listed, closing, host, reader, child, table>>

\* detach keeps primary_attach_id; a session that left the map is not touched.
detach(a) ==
    /\ att[a].phase = "detaching"
    /\ LET s == att[a].s
       IN  \/ /\ session' = [session EXCEPT ![s].owners = @ \ {a}]
              /\ casts' = Cast(Upsert(s, session[s].row))
           \/ s \notin listed /\ UNCHANGED <<session, casts>>
    /\ att' = [att EXCEPT ![a].phase = "ended"]
    /\ UNCHANGED <<listed, closing, host, reader, child, table>>

TookControlQuietly(s, a) == att

TookControl(s, a) ==
    IF session[s].row.primary = a THEN att ELSE Sent(s, <<Control(a)>>)

\* take_control: the resize fails once the child is gone, and returns early.
take_control(a) ==
    /\ att[a].s # 0 /\ a \in session[att[a].s].owners
    /\ LET s == att[a].s
           row == [session[s].row EXCEPT !.primary = a]
       IN  /\ session' = [session EXCEPT ![s].row = row]
           /\ \/ /\ att' = TookControl(s, a)
                 /\ casts' = Cast(Upsert(s, row)) /\ UNCHANGED table
              \/ /\ child[s] = "dead" /\ casts' = Outdated(s) /\ table' = Astray({s})
                 /\ UNCHANGED att
    /\ UNCHANGED <<listed, closing, host, reader, child>>

\* close_session and mark_host_closed leave the map first, then lock.
close_session(s) ==
    /\ s \in listed
    /\ listed' = listed \ {s} /\ closing' = closing \cup {[s |-> s, by |-> "client"]}
    /\ UNCHANGED <<session, host, reader, child, casts, table, att>>

EndedWith(s, event) ==
    /\ session' = [session EXCEPT ![s].closed = TRUE]
    /\ att' = Sent(s, <<event>>)

HostClosedNot(s) == child

\* HostedTerminalControl::close, or the drop of the last reference, kills.
HostClosed(s) == [child EXCEPT ![s] = "dead"]

CloseLocked(c) ==
    /\ c \in closing /\ closing' = closing \ {c}
    /\ child' = HostClosed(c.s)
    /\ IF c.by = "host" /\ (session[c.s].closed \/ session[c.s].row.exit)
       THEN UNCHANGED <<session, att, casts>>
       ELSE EndedWith(c.s, Closed) /\ casts' = Cast(Remove(c.s))
    /\ UNCHANGED <<listed, host, reader, table>>

-----------------------------------------------------------------------------
(* The pseudo-terminal's threads and the event reader                       *)

Outputs(s) == session[s].seq + Cardinality({i \in DOMAIN host[s] : host[s][i].k = "out"})

ChildWrites(s) ==
    /\ child[s] = "alive" /\ Outputs(s) < MaxOutput
    /\ host' = [host EXCEPT ![s] = Append(@, Chunk(0))]
    /\ UNCHANGED <<listed, session, closing, reader, child, casts, table, att>>

\* The waiting thread reports the exit, or the reading one its failure.
ChildEnds(s) ==
    /\ child[s] = "alive"
    /\ child' = [child EXCEPT ![s] = "dead"]
    /\ \E event \in {Exited, Closed} : host' = [host EXCEPT ![s] = Append(@, event)]
    /\ UNCHANGED <<listed, session, closing, reader, casts, table, att>>

\* get_session fails once the session left the map: the reader stops.
ReaderStops(s) ==
    /\ s \in reader /\ host[s] # <<>> /\ (s \notin listed \/ session[s].closed)
    /\ reader' = reader \ {s}
    /\ UNCHANGED <<listed, session, closing, host, child, casts, table, att>>

RetainedFromLate(first, n) == IF n - first > Retained THEN n - Retained ELSE first

\* Records are dropped from the front until the rest fits the retention.
RetainedFrom(first, n) == IF n - first >= Retained THEN n - Retained + 1 ELSE first

record_output(s) ==
    /\ s \in reader /\ host[s] # <<>> /\ Head(host[s]).k = "out" /\ ~session[s].closed
    /\ host' = [host EXCEPT ![s] = Tail(@)]
    /\ LET n == session[s].seq + 1
       IN  \E title \in {session[s].row.title} \cup (IF Subscribed THEN {1} ELSE {}) :
             /\ session' = [session EXCEPT ![s].seq = n, ![s].row.title = title,
                               ![s].first = RetainedFrom(@, n)]
             /\ att' = Sent(s, <<Chunk(n)>>)
             /\ casts' = IF title = session[s].row.title THEN casts
                         ELSE Cast(Upsert(s, session'[s].row))
    /\ UNCHANGED <<listed, closing, reader, child, table>>

ExitSentNot(s) == att
ExitSent(s) == Sent(s, <<Exited>>)

mark_exited(s) ==
    /\ s \in reader /\ host[s] # <<>> /\ Head(host[s]).k = "exit"
    /\ reader' = reader \ {s} /\ host' = [host EXCEPT ![s] = Tail(@)]
    /\ IF session[s].closed THEN UNCHANGED <<session, att, casts>>
       ELSE /\ session' = [session EXCEPT ![s].row.exit = TRUE]
            /\ att' = ExitSent(s)
            /\ casts' = Cast(Upsert(s, session'[s].row))
    /\ UNCHANGED <<listed, closing, child, table>>

mark_host_closed(s) ==
    /\ s \in reader /\ host[s] # <<>> /\ Head(host[s]).k = "closed"
    /\ reader' = reader \ {s} /\ host' = [host EXCEPT ![s] = Tail(@)]
    /\ IF s \in listed
       THEN listed' = listed \ {s} /\ closing' = closing \cup {[s |-> s, by |-> "host"]}
       ELSE UNCHANGED <<listed, closing>>
    /\ UNCHANGED <<session, child, casts, table, att>>

-----------------------------------------------------------------------------
(* stream_terminal_sessions_subscription                                    *)

sessions_snapshot == [s \in listed |-> session[s].row]

SubscriptionStarts ==
    /\ Subscribed /\ table.phase = "none"
    /\ table' = [table EXCEPT !.phase = "snapshot", !.view = sessions_snapshot, !.astray = {}]
    /\ UNCHANGED <<listed, session, closing, host, reader, child, casts, att>>

\* subscribe_sessions, once the snapshot has been written
SubscriptionFollows ==
    /\ table.phase = "snapshot"
    /\ table' = [table EXCEPT !.phase = "subscribed"]
    /\ UNCHANGED <<listed, session, closing, host, reader, child, casts, att>>

Applied(view, c) ==
    IF c.op = "remove" THEN [s \in DOMAIN view \ {c.s} |-> view[s]]
    ELSE [s \in DOMAIN view \cup {c.s} |-> IF s = c.s THEN c.row ELSE view[s]]

ResynchronizedNot ==
    [table EXCEPT !.lagged = FALSE,
                  !.astray = @ \cap {table.queue[i].s : i \in DOMAIN table.queue}]

Resynchronized ==
    [table EXCEPT !.view = sessions_snapshot, !.lagged = FALSE,
                  !.astray = @ \cap {table.queue[i].s : i \in DOMAIN table.queue}]

SubscriptionReceives ==
    /\ table.phase = "subscribed" /\ (table.lagged \/ table.queue # <<>>)
    /\ table' = IF table.lagged THEN Resynchronized
                ELSE [table EXCEPT !.view = Applied(@, Head(table.queue)),
                                   !.queue = Tail(@)]
    /\ UNCHANGED <<listed, session, closing, host, reader, child, casts, att>>

-----------------------------------------------------------------------------
(* stream_attached_terminal                                                 *)

Ends(event) == event.k \in {"exit", "closed"}

\* The trace keeps the chunks and the end, and one gap of several in a row.
Traced(t, event) ==
    IF \/ event.k = "control"
       \/ event.k = "gap" /\ t # <<>> /\ t[Len(t)].k = "gap"
    THEN t ELSE Append(t, event)

Delivered(a, event) ==
    [att EXCEPT ![a].trace = Traced(@, event),
                ![a].primary = IF event.k = "control" THEN event.n ELSE @,
                ![a].phase = IF Ends(event) THEN "detaching" ELSE @]

AttachDelivers(a) ==
    /\ att[a].phase = "live"
    /\ LET x == att[a]
       IN  \/ /\ x.replay # <<>>
              /\ att' = [Delivered(a, Head(x.replay)) EXCEPT ![a].replay = Tail(@)]
           \/ /\ x.replay = <<>> /\ x.ended
              /\ att' = Delivered(a, Exited)
           \/ /\ x.replay = <<>> /\ ~x.ended /\ x.lagged
              /\ att' = [Delivered(a, Gap(x.base + 1)) EXCEPT ![a].lagged = FALSE]
           \/ /\ x.replay = <<>> /\ ~x.ended /\ ~x.lagged /\ x.queue # <<>>
              /\ att' = [Delivered(a, Head(x.queue)) EXCEPT ![a].queue = Tail(@)]
           \/ \* the session, and with it the sender, has been dropped
              /\ x.replay = <<>> /\ ~x.ended /\ ~x.lagged /\ x.queue = <<>>
              /\ session[x.s].closed /\ x.s \notin listed
              /\ att' = [att EXCEPT ![a].phase = "detaching"]
    /\ UNCHANGED <<listed, session, closing, host, reader, child, casts, table>>

\* The client leaves: a write fails and the attach is detached.
AttachBreaks(a) ==
    /\ att[a].phase = "live" /\ att' = [att EXCEPT ![a].phase = "detaching"]
    /\ UNCHANGED <<listed, session, closing, host, reader, child, casts, table>>

-----------------------------------------------------------------------------
Manager == \E s \in Ids : \/ record_output(s) \/ mark_exited(s) \/ mark_host_closed(s)
                          \/ ReaderStops(s) \/ \E c \in closing : CloseLocked(c)

Streams == \/ SubscriptionReceives \/ \E s \in Ids : Broadcast(s)
           \/ \E a \in Attaches : AttachDelivers(a) \/ detach(a)

Next ==
    \/ \E s \in Ids : \/ create_session(s) \/ close_session(s)
                      \/ ChildWrites(s) \/ ChildEnds(s)
                      \/ \E a \in Attaches, after \in -1..session[s].seq : attach(s, a, after)
    \/ \E a \in Attaches : take_control(a) \/ AttachBreaks(a)
    \/ Manager \/ Streams
    \/ SubscriptionStarts \/ SubscriptionFollows

Spec == Init /\ [][Next]_vars

\* The threads of the manager run; a client that stays reads its streams.
Fairness ==
    /\ \A s \in Ids : /\ WF_vars(record_output(s)) /\ WF_vars(mark_exited(s))
                      /\ WF_vars(mark_host_closed(s))
                      /\ \A by \in {"client", "host"} : WF_vars(CloseLocked([s |-> s, by |-> by]))
    /\ \A a \in Attaches : WF_vars(AttachDelivers(a)) /\ WF_vars(detach(a))
FairSpec == Spec /\ Fairness

-----------------------------------------------------------------------------
(* Properties                                                               *)

TypeOK ==
    /\ listed \subseteq Ids /\ reader \subseteq Ids
    /\ \A s \in Ids : /\ session[s].first \in 1..session[s].seq + 1
                      /\ session[s].seq - session[s].first + 1 <= Retained
                      /\ session[s].owners \subseteq Attaches
                      /\ session[s].row.primary \in Attaches \cup {NoAttach}
    /\ \A a \in Attaches : Len(att[a].queue) <= Capacity
    /\ Len(table.queue) <= TableCapacity

\* terminal.rs 436-466, 699-720, server.rs 2990-3040: the chunks of an attach
\* stream follow each other and what the client has seen without a repetition,
\* and none is missing unless a HistoryGap stands in its place.
Chunks(t) == {i \in DOMAIN t : t[i].k = "out"}
StreamContiguous ==
    \A a \in Attaches :
      LET t == att[a].trace
      IN  /\ \A i, j \in Chunks(t) :
               /\ i < j => t[i].n < t[j].n
               /\ i < j /\ (\A k \in i + 1..j - 1 : t[k].k \notin {"out", "gap"})
                    => t[j].n = t[i].n + 1
          /\ att[a].after >= 0 =>
               \A j \in Chunks(t) :
                 /\ t[j].n > att[a].after
                 /\ (\A k \in 1..j - 1 : t[k].k \notin {"out", "gap"})
                      => t[j].n = att[a].after + 1

\* terminal.rs 486-520: a viewer that has read everything knows who is in
\* control, unless its stream lost events to a gap.
ControlKnown ==
    \A a \in Attaches :
      LET x == att[a]
      IN  x.phase = "live" /\ x.replay = <<>> /\ x.queue = <<>> /\ ~x.ended
          /\ child[x.s] = "alive" /\ ~(\E i \in DOMAIN x.trace : x.trace[i].k = "gap")
            => x.primary = session[x.s].row.primary

\* terminal.rs 543-572, 652-674: a child that runs belongs to a session that is
\* in the map without an exit, where the drain of an update counts it, or to
\* one that is being closed.
LiveChildrenCounted ==
    \A s \in Ids : child[s] = "alive" =>
        \/ s \in listed /\ ~session[s].row.exit
        \/ \E c \in closing : c.s = s

\* terminal.rs 543-572, 630-674, server.rs 3020-3033: every attach stream of a
\* session that exited or was closed ends.
StreamsEnd ==
    \A a \in Attaches, s \in Ids :
        (att[a].s = s /\ (session[s].closed \/ session[s].row.exit))
            ~> (att[a].phase = "ended")

Settled ==
    /\ table.phase = "subscribed" /\ table.queue = <<>> /\ ~table.lagged
    /\ closing = {} /\ \A s \in Ids : casts[s] = <<>>

Shown(s) == s \in DOMAIN table.view

\* server.rs 2602-2640, terminal.rs 399-425, 685-699: a client that has followed
\* everything, however far it lagged behind, shows the sessions that are in the map,
\* with their rows, but for those gone astray (see Astray).
TableAgrees ==
    Settled => \A s \in Ids \ table.astray :
                 /\ Shown(s) <=> s \in listed
                 /\ Shown(s) => table.view[s] = session[s].row

\* protocol/README.md 251: a session that was created is in the table of a
\* subscriber that has followed everything.
CreatedSessionsShown == Settled => \A s \in listed : Shown(s)

\* protocol/README.md 253: a session that was closed is gone from the table of a
\* subscriber that has followed everything.
ClosedSessionsGone == Settled => \A s \in Removed : ~Shown(s)

\* terminal.bdl 342: the chunk after a HistoryGap is the one it names.
GapNamesNextChunk ==
    \A a \in Attaches :
      LET t == att[a].trace
      IN  \A i \in DOMAIN t, j \in Chunks(t) :
            t[i].k = "gap" /\ i < j /\ (\A k \in i + 1..j - 1 : t[k].k # "out")
              => t[j].n = t[i].n
=============================================================================
