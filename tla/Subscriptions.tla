--------------------------- MODULE Subscriptions ----------------------------
(***************************************************************************)
(* The server streams that show a client a table or an object of the host  *)
(* (daemon/host/src/server.rs, stream_*_subscription, and the *_patch      *)
(* functions).                                                             *)
(*                                                                         *)
(* Every stream reads its source, writes a snapshot and then repeats: wait *)
(* until woken, read again, write what changed since the rows it last      *)
(* wrote. They differ in what wakes them, in whether they listen before    *)
(* the first read, in what they write and in what ends them: a policy      *)
(* record per stream function. A behaviour is one subscription of one of   *)
(* the streams; `kind' is its policy.                                      *)
(*                                                                         *)
(* A row is its key and a version; the source is a function from keys to   *)
(* versions. An object's sections (info, metadata, usage; info, state,     *)
(* bounds) are keys of the same table.                                     *)
(***************************************************************************)
EXTENDS Integers, Sequences, SequencesExt, FiniteSets

CONSTANTS
    Keys,        \* keys of rows, or sections of an object
    MaxVersion,  \* bound on the versions of a row
    MaxChanges,  \* bound on changes of the source
    MaxFaults,   \* bound on changes of the source's health
    MaxWire      \* events the transport holds before a write waits

SubscriptionAssumption ==
    MaxVersion \in Nat /\ MaxChanges \in Nat /\ MaxFaults \in Nat /\ MaxWire \in Nat \ {0}

Absent == 0
Rows == [Keys -> 0..MaxVersion]

VARIABLES
    kind,     \* the policy of the stream
    source,   \* the rows of the host
    health,   \* what a read of the source answers: rows, an error, not found
    owed,     \* a change of the source has not been announced yet
    woken,    \* the receiver or the watcher holds something unseen: "no", "event", "error"
    due,      \* the interval's timer has run out
    at,       \* where the stream function is
    rows,     \* the rows the client was last told
    read,     \* next_rows: what this turn of the loop read
    todo,     \* events to write in this turn of the loop
    wire,     \* events written and not yet handled by the client
    view,     \* the client's copy
    client,   \* "waiting" for the first event, "live", "closed" or "left"
    changes, faults

vars == <<kind, source, health, owed, woken, due, at, rows, read, todo, wire, view, client, changes, faults>>
host == <<source, health, owed, changes, faults>>
stream == <<at, rows, read, todo>>

-----------------------------------------------------------------------------
(* The streams.                                                             *)
(*   listens  the receiver or watcher exists before the first read of rows, *)
(*            after it, or never                                            *)
(*   wakes    watch channel, file system watcher, interval                  *)
(*   writes   patch of the rows, every section that changed, the rows again *)
(*   fails    a read that fails in the loop: error message, Closed event,   *)
(*            the next turn of the loop, or nothing but the end             *)
(*   missing  the same for a read that finds nothing                        *)
(*   refuses  a first read that fails: an error message, or nothing         *)

Policy(listens, wakes, writes, fails, missing, refuses) ==
    [listens |-> listens, wakes |-> wakes, writes |-> writes, fails |-> fails,
     missing |-> missing, refuses |-> refuses]

stream_clients_subscription == Policy("before", {"value"}, "patch", "never", "never", "never")
stream_jobs_subscription == Policy("before", {"watch"}, "rows", "never", "never", "never")
stream_schedules_subscription == stream_jobs_subscription
stream_agent_projects_subscription == Policy("before", {"watch"}, "patch", "error", "never", "error")
stream_agent_providers_subscription == Policy("never", {"interval"}, "patch", "again", "never", "never")
stream_available_shells_subscription == Policy("never", {"interval"}, "rows", "never", "never", "never")
stream_processes_subscription == Policy("never", {"interval"}, "patch", "never", "never", "never")
stream_process_detail_subscription == Policy("never", {"interval"}, "sections", "never", "end", "error")
stream_process_resources_in_use_subscription == Policy("never", {"interval"}, "patch", "error", "end", "error")
stream_process_sockets_in_use_subscription == stream_process_resources_in_use_subscription
stream_process_modules_subscription == stream_process_resources_in_use_subscription
stream_windows_subscription == Policy("never", {"interval"}, "patch", "error", "never", "error")
stream_window_detail_subscription == Policy("never", {"interval"}, "sections", "silent", "end", "silent")
stream_roots_subscription == Policy("never", {"interval"}, "patch", "end", "never", "error")
stream_trash_items_subscription == Policy("after", {"watch", "interval"}, "patch", "end", "never", "error")
stream_directory_subscription == Policy("before", {"watcher"}, "patch", "end", "end", "error")

Kinds ==
    {stream_clients_subscription, stream_jobs_subscription, stream_schedules_subscription,
     stream_agent_projects_subscription, stream_agent_providers_subscription,
     stream_available_shells_subscription, stream_processes_subscription,
     stream_process_detail_subscription, stream_process_resources_in_use_subscription,
     stream_process_sockets_in_use_subscription, stream_process_modules_subscription,
     stream_windows_subscription, stream_roots_subscription, stream_trash_items_subscription,
     stream_window_detail_subscription, stream_directory_subscription}

Watches == kind.wakes \cap {"value", "watch", "watcher"} # {}
Polls == "interval" \in kind.wakes

-----------------------------------------------------------------------------
(* Events                                                                   *)

Snapshot(r) == [op |-> "snapshot", rows |-> r]
Patch(removes, upserts) == [op |-> "patch", removes |-> removes, upserts |-> upserts]
Section(k, v) == [op |-> "section", key |-> k, value |-> v]
Final(op) == [op |-> op]

\* A plausible bug: rows that left the table are not among the removes.
PatchKeepsRemoved(previous, next) ==
    Patch({}, [k \in {q \in Keys : next[q] # Absent /\ previous[q] # next[q]} |-> next[k]])

\* windows_patch, processes_patch, roots_patch, directory_patch, table_patch, ...: the
\* keys that left the table and the rows that are new or differ.
LeftTable(previous, next) == {k \in Keys : previous[k] # Absent /\ next[k] = Absent}
NewOrChanged(previous, next) == {k \in Keys : next[k] # Absent /\ previous[k] # next[k]}
TablePatch(previous, next) ==
    Patch(LeftTable(previous, next), [k \in NewOrChanged(previous, next) |-> next[k]])

\* What a turn of the loop writes when the rows it read are `next'.
Differences(previous, next) ==
    CASE kind.writes = "patch" -> IF previous = next THEN <<>> ELSE <<TablePatch(previous, next)>>
      [] kind.writes = "sections" ->
            LET changed == SetToSeq({k \in Keys : previous[k] # next[k]})
            IN  [i \in DOMAIN changed |-> Section(changed[i], next[changed[i]])]
      [] OTHER -> IF Polls /\ previous = next THEN <<>> ELSE <<Snapshot(next)>>

\* The client: Snapshot replaces the table, Patch removes and upserts, a section replaces itself.
Applied(v, e) ==
    CASE e.op = "snapshot" -> e.rows
      [] e.op = "patch" -> [k \in Keys |-> IF k \in DOMAIN e.upserts THEN e.upserts[k]
                                           ELSE IF k \in e.removes THEN Absent ELSE v[k]]
      [] e.op = "section" -> [v EXCEPT ![e.key] = e.value]
      [] OTHER -> v

-----------------------------------------------------------------------------
Init ==
    /\ kind \in Kinds
    /\ source \in IF kind.writes = "sections" THEN {[k \in Keys |-> 1]} ELSE [Keys -> {Absent, 1}]
    /\ health = "rows" /\ owed = FALSE /\ woken = "no" /\ due = FALSE
    /\ at = "start" /\ rows = [k \in Keys |-> Absent] /\ read = rows /\ todo = <<>>
    /\ wire = <<>> /\ view = [k \in Keys |-> Absent] /\ client = "waiting"
    /\ changes = 0 /\ faults = 0

\* A receiver or a watcher of this stream exists.
Listening == at \notin {"start", "ended"} /\ (kind.listens = "after" => at \notin {"first", "greet"})

\* What the receiver holds first decides what a wait returns.
Arrives(what) == IF Listening /\ woken = "no" THEN what ELSE woken

(* The host                                                                 *)

\* A row changes. A watch channel that carries the rows announces it in the same step.
Change(k, v) ==
    /\ changes < MaxChanges /\ v # source[k] /\ (kind.writes = "sections" => v # Absent)
    /\ source' = [source EXCEPT ![k] = v] /\ changes' = changes + 1
    /\ IF "value" \in kind.wakes
       THEN owed' = owed /\ woken' = Arrives("event")
       ELSE owed' = Watches /\ woken' = woken
    /\ UNCHANGED <<kind, health, due, faults, stream, wire, view, client>>

\* The channel or the watcher learns of the change, if the stream listens.
Announce ==
    /\ owed /\ owed' = FALSE /\ woken' = Arrives("event")
    /\ UNCHANGED <<kind, source, health, due, changes, faults, stream, wire, view, client>>

\* Reads of the source begin to fail, find nothing, or work again. An object that is gone stays gone.
Fault(to) ==
    /\ faults < MaxFaults /\ to # health /\ (kind.missing = "end" => health # "missing")
    /\ to \in (IF kind.fails = "never" THEN {} ELSE {"rows", "error"})
              \cup (IF kind.missing = "never" THEN {} ELSE {"missing"})
    /\ health' = to /\ faults' = faults + 1
    /\ owed' = (owed \/ "watcher" \in kind.wakes)
    /\ UNCHANGED <<kind, source, woken, due, changes, stream, wire, view, client>>

\* The file system watcher reports an error of its own.
WatcherError ==
    /\ "watcher" \in kind.wakes /\ Listening /\ faults < MaxFaults
    /\ woken' = Arrives("error") /\ faults' = faults + 1
    /\ UNCHANGED <<kind, source, health, owed, due, changes, stream, wire, view, client>>

Timer ==
    /\ Polls /\ at \in {"wait", "write", "read"} /\ ~due /\ due' = TRUE
    /\ UNCHANGED <<kind, host, woken, stream, wire, view, client>>

-----------------------------------------------------------------------------
(* The stream                                                               *)

\* The receiver or the watcher is made before the rows are read (a directory is
\* listed once before, to answer at once that it is none).
Start ==
    /\ at = "start"
    /\ IF "watcher" \in kind.wakes /\ health # "rows"
       THEN at' = "write" /\ todo' = <<Final("error")>>
       ELSE at' = "first" /\ todo' = <<>>
    /\ UNCHANGED <<kind, host, woken, due, rows, read, wire, view, client>>

\* The first read. The providers come from the configuration in memory, which the file
\* may have overtaken.
First ==
    /\ at = "first"
    /\ CASE health = "rows" \/ kind.refuses = "never" ->
              /\ at' = "greet"
              /\ \E r \in IF kind.fails = "again" THEN {source, [k \in Keys |-> Absent]} ELSE {source} :
                    todo' = <<Snapshot(r)>> /\ read' = r
         [] health = "error" /\ kind.refuses = "silent" -> at' = "ended" /\ todo' = <<>> /\ read' = read
         [] OTHER -> at' = "write" /\ todo' = <<Final("error")>> /\ read' = read
    /\ UNCHANGED <<kind, host, woken, due, rows, wire, view, client>>

\* write_reqres_message waits while the transport is full. The rows told are the rows
\* of the event; the terminal event ends the stream.
Told(e) ==
    CASE e.op \in {"snapshot", "patch"} -> read
      [] e.op = "section" -> [rows EXCEPT ![e.key] = e.value]
      [] OTHER -> rows

Write ==
    /\ at \in {"greet", "write"} /\ client # "left" /\ todo # <<>> /\ Len(wire) < MaxWire
    /\ wire' = Append(wire, Head(todo)) /\ todo' = Tail(todo)
    /\ rows' = Told(Head(todo)) /\ read' = read
    /\ at' = IF Head(todo).op \in {"end", "error"} THEN "ended" ELSE "write"
    /\ UNCHANGED <<kind, host, woken, due, view, client>>

\* The client went away: the write fails and the stream function returns.
WriteFails ==
    /\ at \in {"greet", "write"} /\ client = "left" /\ todo # <<>>
    /\ at' = "ended" /\ todo' = <<>>
    /\ UNCHANGED <<kind, host, woken, due, rows, read, wire, view, client>>

\* A plausible bug: what arrived in the meantime is dropped after the directory was read.
DrainLate(step) == IF step = "loop" /\ "watcher" \in kind.wakes THEN "no" ELSE woken

\* Everything that arrived during the pause is dropped before the directory is read, an
\* error with a warning.
Drain(step) == IF step = "pause" THEN "no" ELSE woken

\* The turn of the loop is over.
Loop ==
    /\ at = "write" /\ todo = <<>> /\ at' = "wait" /\ woken' = Drain("loop")
    /\ read' = [k \in Keys |-> Absent]
    /\ UNCHANGED <<kind, host, due, rows, todo, wire, view, client>>

\* changed() and recv() take what is unseen; a watcher's error closes the stream, its
\* event is followed by a pause.
Wake ==
    /\ at = "wait" /\ woken # "no"
    /\ at' = CASE woken = "error" -> "write" [] "watcher" \in kind.wakes -> "pause" [] OTHER -> "read"
    /\ todo' = IF woken = "error" THEN <<Final("end")>> ELSE <<>>
    /\ woken' = "no"
    /\ UNCHANGED <<kind, host, due, rows, read, wire, view, client>>

Tick ==
    /\ at = "wait" /\ due /\ due' = FALSE /\ at' = "read"
    /\ UNCHANGED <<kind, host, woken, rows, read, todo, wire, view, client>>

Pause ==
    /\ at = "pause" /\ woken' = Drain("pause") /\ at' = "read"
    /\ UNCHANGED <<kind, host, due, rows, read, todo, wire, view, client>>

\* A plausible bug: the stream writes on after it could not read its rows.
EndingGoesOn(what) == "wait"

\* A plausible bug: it returns before it has told the client.
EndingSilent(what) == IF what = "again" THEN "wait" ELSE "ended"

\* What the loop does with a read that failed or found nothing.
Ending(what) == CASE what \in {"end", "error"} -> "write" [] what = "again" -> "wait" [] OTHER -> "ended"

Outcome == IF health = "error" THEN kind.fails ELSE kind.missing

\* A turn of the loop reads the rows and writes what changed since the rows last told.
Read ==
    /\ at = "read"
    /\ IF health = "rows" \/ Outcome = "never"
       THEN at' = "write" /\ todo' = Differences(rows, source) /\ read' = source
       ELSE /\ at' = Ending(Outcome) /\ read' = read
            /\ todo' = IF Outcome \in {"end", "error"} THEN <<Final(Outcome)>> ELSE <<>>
    /\ UNCHANGED <<kind, host, woken, due, rows, wire, view, client>>

-----------------------------------------------------------------------------
(* The client                                                               *)

Receive ==
    /\ wire # <<>> /\ client \in {"waiting", "live"}
    /\ view' = Applied(view, Head(wire)) /\ wire' = Tail(wire)
    /\ client' = IF Head(wire).op \in {"end", "error"} THEN "closed" ELSE "live"
    /\ UNCHANGED <<kind, host, woken, due, stream>>

Leave ==
    /\ client \in {"waiting", "live"} /\ client' = "left" /\ wire' = <<>>
    /\ UNCHANGED <<kind, host, woken, due, stream, view>>

Stream == Start \/ First \/ Write \/ WriteFails \/ Loop \/ Wake \/ Tick \/ Pause \/ Read

Next ==
    \/ \E k \in Keys, v \in 0..MaxVersion : Change(k, v)
    \/ \E to \in {"rows", "error", "missing"} : Fault(to)
    \/ Announce \/ WatcherError \/ Timer \/ Receive \/ Leave
    \/ Start \/ First \/ Write \/ WriteFails \/ Loop \/ Wake \/ Tick \/ Pause \/ Read

\* Timers run out, the channel and the operating system deliver, the runtime schedules a
\* stream that can go on, and a client that stays reads its stream.
Fairness == WF_vars(Announce) /\ WF_vars(Timer) /\ WF_vars(Receive) /\ WF_vars(Stream)

Spec == Init /\ [][Next]_vars
FairSpec == Spec /\ Fairness
-----------------------------------------------------------------------------
(* Properties                                                               *)

Ops == {"snapshot", "patch", "section", "end", "error"}

\* Types; a turn of the loop waits or reads with nothing left to write.
TypeOK ==
    /\ kind \in Kinds /\ source \in Rows /\ rows \in Rows /\ read \in Rows /\ view \in Rows
    /\ health \in {"rows", "error", "missing"} /\ owed \in BOOLEAN /\ due \in BOOLEAN
    /\ woken \in {"no", "event", "error"}
    /\ at \in {"start", "first", "greet", "write", "wait", "pause", "read", "ended"}
    /\ at \in {"start", "first", "wait", "pause", "read"} => todo = <<>>
    /\ \A i \in DOMAIN wire : wire[i].op \in Ops
    /\ client \in {"waiting", "live", "closed", "left"}

\* The client's copy with what is on the way to it is what the stream believes to have
\* told it: patches and sections, each computed against the rows told before, lose and
\* invent nothing however the source changed meanwhile.
Follows == client # "left" => FoldLeft(Applied, view, wire) = rows

Terminal(e) == e.op \in {"end", "error"}

\* A stream that ended has told the client so, as the last thing it says
\* (stream_window_detail_subscription excepted: see FailureIsTold).
EndIsTold ==
    /\ at = "ended" /\ client # "left" /\ kind.refuses # "silent"
           => client = "closed" \/ (wire # <<>> /\ Terminal(Last(wire)))
    /\ \A i \in 1..Len(wire) - 1 : ~Terminal(wire[i])
    /\ client = "closed" => wire = <<>>

\* A read that fails ends no stream without a word (window.bdl: "Method-level window
\* detail subscription start errors", with Failed and PermissionDenied).
FailureIsTold ==
    at = "ended" /\ client # "left" => client = "closed" \/ (wire # <<>> /\ Terminal(Last(wire)))

\* Once the source rests, the client's copy becomes and stays the source, unless the
\* stream ended, the client left or the source cannot be read: no change is lost
\* between a read and the wait that follows it.
Converges == <>[](at = "ended" \/ client = "left" \/ health # "rows" \/ view = source)
====
