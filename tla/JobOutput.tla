----------------------------- MODULE JobOutput ------------------------------
(***************************************************************************)
(* One output stream of a job (daemon/host/src/command.rs): the retained   *)
(* chunks in memory, their rows (state_db.rs), and a client that follows   *)
(* the stream through SubscribeJobOutput (server.rs), from its own cursor  *)
(* when it comes back after a restart of the daemon.                       *)
(*                                                                         *)
(* append_output changes the memory under the lock of the manager and      *)
(* writes the rows after it, then notifies; stderr has two writers, the    *)
(* reader of the pipe and the job's own task, which reports a failure to   *)
(* write stdin.  A notification that has a subscriber never returns: it    *)
(* waits for the write lock of a value that it still borrows itself.  The  *)
(* live events are therefore never sent; with GuardHeld = FALSE they are   *)
(* modelled as they are written, as if the borrow ended before the send.   *)
(***************************************************************************)
EXTENDS Integers, Sequences, FiniteSets, SequencesExt

CONSTANTS
    Writers,    \* the tasks that append: "reader", for stderr the job's "task" too
    Sizes,      \* sizes of a chunk
    MaxBytes,   \* RetainedOutput.max_bytes
    MaxChunks,  \* bound on the chunks of a run
    MaxCrashes, \* bound on restarts
    GuardHeld   \* notify_output sends while it borrows the value, as the code does

JobOutputAssumption ==
    /\ Writers \subseteq {"reader", "task"} /\ Sizes \subseteq Nat \ {0}
    /\ MaxBytes \in Nat /\ MaxChunks \in Nat /\ MaxCrashes \in Nat /\ GuardHeld \in BOOLEAN

NoCursor == -1

VARIABLES
    output,   \* RetainedOutput: its chunks and state
    status,   \* "running" or "exited": JobInfo.status
    rows,     \* command_job_output_state and command_job_output_chunks
    writer,   \* where a writer is in append_output, and what it still has to save
    finish,   \* the task of the job: "running", "told" that stdin failed, in finish_job
    version,  \* the version of the watch output_events
    sub,      \* stream_job_output_subscription
    client,   \* what the client holds: its cursor, its chunks, what it was told is missing
    overlapped, \* history: chunks appended while another append was under way
    crashes

vars == <<output, status, rows, writer, finish, version, sub, client, overlapped, crashes>>
memory == <<output, status>>

State(out) == [oldest |-> out.oldest, latest |-> out.latest, truncated |-> out.truncated]
Seqs(chunks) == {chunks[i].seq : i \in DOMAIN chunks}
Bytes(chunks) == FoldSeq(LAMBDA c, sum : c.size + sum, 0, chunks)
Empty == [chunks |-> <<>>, oldest |-> 0, latest |-> 0, truncated |-> FALSE]
Idle == [at |-> "idle", seq |-> 0, state |-> State(Empty), chunk |-> 0]
Off == [at |-> "off", seen |-> 0, last |-> 0]

Init ==
    /\ output = Empty /\ status = "running" /\ rows = [state |-> State(Empty), chunks |-> {}]
    /\ writer = [w \in Writers |-> Idle] /\ finish = "running" /\ version = 0
    /\ sub = Off /\ client = [cursor |-> NoCursor, got |-> <<>>, told |-> {}]
    /\ overlapped = {} /\ crashes = 0

-----------------------------------------------------------------------------
(* RetainedOutput                                                           *)

\* A plausible bug: the limit may be exceeded by one byte.
RetainedFromLoose(chunks) ==
    CHOOSE i \in 1..Len(chunks) + 1 :
        /\ Bytes(SubSeq(chunks, i, Len(chunks))) <= MaxBytes + 1
        /\ \A j \in 1..i - 1 : Bytes(SubSeq(chunks, j, Len(chunks))) > MaxBytes + 1

\* The longest run of the newest chunks that fits the limit; a chunk larger than
\* the limit leaves nothing behind.
RetainedFrom(chunks) ==
    CHOOSE i \in 1..Len(chunks) + 1 :
        /\ Bytes(SubSeq(chunks, i, Len(chunks))) <= MaxBytes
        /\ \A j \in 1..i - 1 : Bytes(SubSeq(chunks, j, Len(chunks))) > MaxBytes

append(out, size) ==
    LET seq    == out.latest + 1
        pushed == Append(out.chunks, [seq |-> seq, size |-> size])
        kept   == SubSeq(pushed, RetainedFrom(pushed), Len(pushed))
    IN  [chunks |-> kept, latest |-> seq,
         oldest |-> IF kept # <<>> THEN kept[1].seq ELSE 0,
         truncated |-> out.truncated \/ Len(kept) < Len(pushed)]

\* A plausible bug: a gap is looked for only where something is retained.
GapRetainedOnly(out, after) == after # NoCursor /\ out.oldest > 0 /\ after < out.oldest

\* Is the reader told of a gap: with an explicit cursor only.
Gap(out, after) ==
    /\ after # NoCursor
    /\ IF out.oldest > 0 THEN after < out.oldest ELSE out.truncated /\ after < out.latest

chunks_after(out, after) ==
    LET later == SelectSeq(out.chunks, LAMBDA c : c.seq > after)
    IN  [i \in DOMAIN later |-> [t |-> "chunk", n |-> later[i].seq]]

output_gap_next_seq(out, after) ==
    IF out.oldest > 0 THEN out.oldest
    ELSE IF after + 1 > out.latest THEN after + 1 ELSE out.latest

-----------------------------------------------------------------------------
(* The rows                                                                 *)

\* Plausible bugs: nothing is pruned when nothing is retained; the oldest retained
\* chunk is pruned too.
SaveStateKeeps(row, state) ==
    [state |-> state, chunks |-> {s \in row.chunks : s >= state.oldest}]
SaveStatePrunesOldest(row, state) ==
    [state |-> state,
     chunks |-> IF state.oldest > 0 THEN {s \in row.chunks : s > state.oldest} ELSE {}]

save_job_output_state(row, state) ==
    [state |-> state,
     chunks |-> IF state.oldest > 0 THEN {s \in row.chunks : s >= state.oldest} ELSE {}]

append_job_output_chunk(row, seq) ==
    IF row.state.oldest > 0 /\ seq \in row.state.oldest..row.state.latest
    THEN [row EXCEPT !.chunks = @ \cup {seq}] ELSE row

-----------------------------------------------------------------------------
(* append_output and finish_job                                             *)

UnderWay(w) == writer[w].at # "idle"

\* Under the lock of the manager; the task of the job reports at most one failure.
AppendOutput(w, size) ==
    /\ ~UnderWay(w) /\ output.latest < MaxChunks
    /\ IF w = "task" THEN finish = "running" /\ finish' = "told"
       ELSE finish \in {"running", "told"} /\ UNCHANGED finish
    /\ LET out    == append(output, size)
           others == {v \in Writers \ {w} : UnderWay(v)}
       IN  /\ output' = out
           /\ writer' = [writer EXCEPT ![w] =
                            [at |-> "state", seq |-> out.latest, state |-> State(out),
                             chunk |-> IF out.latest \in Seqs(out.chunks) THEN out.latest ELSE 0]]
           /\ overlapped' = IF others = {} THEN overlapped
                            ELSE overlapped \cup {out.latest} \cup {writer[v].seq : v \in others}
    /\ UNCHANGED <<status, rows, version, sub, client, crashes>>

SaveState(w) ==
    /\ writer[w].at = "state"
    /\ rows' = save_job_output_state(rows, writer[w].state)
    /\ writer' = [writer EXCEPT ![w].at = IF writer[w].chunk > 0 THEN "chunk" ELSE "notify"]
    /\ UNCHANGED <<memory, finish, version, sub, client, overlapped, crashes>>

SaveChunk(w) ==
    /\ writer[w].at = "chunk"
    /\ rows' = append_job_output_chunk(rows, writer[w].chunk)
    /\ writer' = [writer EXCEPT ![w].at = "notify"]
    /\ UNCHANGED <<memory, finish, version, sub, client, overlapped, crashes>>

Listening == sub.at \in {"attach", "live"}

\* send of a watch does nothing without a receiver; with one it takes the write lock of
\* the value, whose read lock the argument of the call holds until the statement ends.
SendBlocks == GuardHeld /\ Listening
notify_output == version' = IF Listening /\ ~GuardHeld THEN version + 1 ELSE version

Notify(w) ==
    /\ writer[w].at = "notify" /\ notify_output
    /\ writer' = [writer EXCEPT ![w] = IF SendBlocks THEN [@ EXCEPT !.at = "stuck"] ELSE Idle]
    /\ UNCHANGED <<memory, rows, finish, sub, client, overlapped, crashes>>

\* drain_output_readers waits for the readers, 250 ms at most; an append that is
\* past the lock is not cancelled by the abort.  The task's own append came before.
Drained ==
    /\ finish \in {"running", "told"} /\ finish' = "drained"
    /\ "task" \in Writers => ~UnderWay("task")
    /\ UNCHANGED <<memory, rows, writer, version, sub, client, overlapped, crashes>>

finish_job ==
    /\ finish = "drained" /\ finish' = "notify" /\ status' = "exited"
    /\ UNCHANGED <<output, rows, writer, version, sub, client, overlapped, crashes>>

FinishNotifies ==
    /\ finish = "notify" /\ notify_output
    /\ finish' = IF SendBlocks THEN "stuck" ELSE "done"
    /\ UNCHANGED <<memory, rows, writer, sub, client, overlapped, crashes>>

-----------------------------------------------------------------------------
(* stream_job_output_subscription                                           *)

\* subscribe_output_events comes before the snapshot.
Subscribe ==
    /\ sub.at = "off"
    /\ sub' = [at |-> "attach", seen |-> version,
               last |-> IF client.cursor = NoCursor THEN 0 ELSE client.cursor]
    /\ UNCHANGED <<memory, rows, writer, finish, version, client, overlapped, crashes>>

Larger(a, b) == IF a > b THEN a ELSE b

ExitEvent == IF status = "exited" THEN <<[t |-> "exit", n |-> 0]>> ELSE <<>>
GapEvent(after) ==
    IF Gap(output, after)
    THEN <<[t |-> "gap", n |-> output_gap_next_seq(output, Larger(after, 0))]>> ELSE <<>>

\* output_attached, after the Attached event itself.
AttachedEvents ==
    GapEvent(client.cursor) \o chunks_after(output, Larger(client.cursor, 0))
        \o (IF output.truncated THEN <<[t |-> "truncated", n |-> 0]>> ELSE <<>>)
        \o ExitEvent

\* A plausible bug: the exit is sent before the chunks it follows.
LaterEventsExitFirst ==
    IF status = "exited" THEN ExitEvent
    ELSE GapEvent(sub.last) \o chunks_after(output, sub.last)

\* output_chunks_after.
LaterEvents ==
    LET chunks == chunks_after(output, sub.last)
        lost   == chunks = <<>> /\ output.truncated /\ output.latest > sub.last
    IN  GapEvent(sub.last) \o chunks
            \o (IF lost /\ GapEvent(sub.last) = <<>>
                THEN <<[t |-> "gap", n |-> output.latest]>> ELSE <<>>)
            \o (IF lost THEN <<[t |-> "truncated", n |-> 0]>> ELSE <<>>)
            \o ExitEvent

\* update_job_output_cursor over a batch: chunks and gaps move the cursor.
CursorAfter(last, events) ==
    FoldSeq(LAMBDA e, c : IF e.t \in {"chunk", "gap"} THEN Larger(e.n, c) ELSE c, last, events)

Exits(events) == \E i \in DOMAIN events : events[i].t = "exit"

\* What a client keeps: the chunks in the order they come, and every number it was
\* told not to expect; the one a gap continues at is covered when it is not retained.
Take(held, e) ==
    CASE e.t = "chunk" -> [held EXCEPT !.got = Append(@, e.n), !.cursor = Larger(@, e.n)]
      [] e.t = "gap" -> [held EXCEPT !.told = @ \cup {n \in 1..e.n : n \notin Seqs(output.chunks)},
                                     !.cursor = Larger(@, e.n)]
      [] OTHER -> held
Taken(held, events) == FoldLeft(Take, held, events)

attach ==
    /\ sub.at = "attach"
    /\ sub' = [sub EXCEPT !.last = CursorAfter(Larger(@, output.latest), AttachedEvents),
                          !.at = IF Exits(AttachedEvents) THEN "ended" ELSE "live"]
    /\ client' = LET held == Taken(client, AttachedEvents)
                     from == IF output.oldest > 0 THEN output.oldest - 1 ELSE output.latest
                 IN  [held EXCEPT !.cursor = Larger(@, output.latest),
                         !.told = @ \cup (IF client.cursor = NoCursor THEN 1..from ELSE {})]
    /\ UNCHANGED <<memory, rows, writer, finish, version, overlapped, crashes>>

Live ==
    /\ sub.at = "live" /\ sub.seen < version
    /\ sub' = [sub EXCEPT !.seen = version, !.last = CursorAfter(@, LaterEvents),
                          !.at = IF Exits(LaterEvents) THEN "ended" ELSE "live"]
    /\ client' = Taken(client, LaterEvents)
    /\ UNCHANGED <<memory, rows, writer, finish, version, overlapped, crashes>>

\* The client's connection ends; it may come back with its cursor.
Disconnect ==
    /\ sub.at # "off" /\ sub' = Off
    /\ UNCHANGED <<memory, rows, writer, finish, version, client, overlapped, crashes>>

\* CommandManager::open after a crash: what was running is shown as exited, with
\* the output of the rows; from_persisted.
from_persisted ==
    [chunks |-> [i \in 1..Cardinality(rows.chunks) |->
                    [seq |-> SetToSortSeq(rows.chunks, <)[i], size |-> 1]],
     oldest |-> rows.state.oldest, latest |-> rows.state.latest,
     truncated |-> rows.state.truncated]

Crash ==
    /\ crashes < MaxCrashes /\ crashes' = crashes + 1
    /\ output' = from_persisted /\ status' = "exited"
    /\ writer' = [w \in Writers |-> Idle] /\ finish' = "done"
    /\ sub' = Off /\ version' = 0
    /\ UNCHANGED <<rows, client, overlapped>>

-----------------------------------------------------------------------------
Saving(w) == SaveState(w) \/ SaveChunk(w) \/ Notify(w)
Finishing == Drained \/ finish_job \/ FinishNotifies
Reading == attach \/ Live

Next ==
    \/ \E w \in Writers : (\E size \in Sizes : AppendOutput(w, size)) \/ Saving(w)
    \/ Finishing \/ Subscribe \/ Disconnect \/ Reading \/ Crash

Spec == Init /\ [][Next]_vars

\* The tasks of the runtime run; the process of the job ends (CommandProcess).
Fairness ==
    /\ WF_vars(Finishing) /\ WF_vars(Reading)
    /\ \A w \in Writers : WF_vars(Saving(w))
FairSpec == Spec /\ Fairness

-----------------------------------------------------------------------------
(* Properties                                                               *)

Numbers == 0..MaxChunks
States == [oldest : Numbers, latest : Numbers, truncated : BOOLEAN]

\* Types, and RetainedOutput as append leaves it: the chunks end at latest_seq
\* unless it was too large, are consecutive and fit the limit.
TypeOK ==
    /\ output.latest \in Numbers /\ output.oldest \in Numbers /\ output.truncated \in BOOLEAN
    /\ status \in {"running", "exited"} /\ rows.state \in States /\ rows.chunks \subseteq Numbers
    /\ \A w \in Writers : writer[w].at \in {"idle", "state", "chunk", "notify", "stuck"}
                          /\ writer[w].seq \in Numbers /\ writer[w].state \in States /\ writer[w].chunk \in Numbers
    /\ finish \in {"running", "told", "drained", "notify", "stuck", "done"}
    /\ sub.at \in {"off", "attach", "live", "ended"} /\ client.told \subseteq Numbers
    /\ crashes = 0 => /\ Bytes(output.chunks) <= MaxBytes
                      /\ \A i \in DOMAIN output.chunks : output.chunks[i].seq = output.oldest + i - 1
                      /\ output.oldest = 0 <=> output.chunks = <<>>

\* A client never misses output without being told: every chunk up to its cursor was
\* delivered, or lay behind a HistoryGap or before the oldest chunk of its first
\* Attached; and no chunk comes twice or out of order. Concerns
\* stream_job_output_subscription and output_chunks_after against the retention limit.
NoSilentLoss ==
    crashes = 0 =>
        /\ \A n \in 1..client.cursor : n \in ToSet(client.got) \cup client.told
        /\ \A i, j \in DOMAIN client.got : i < j => client.got[i] < client.got[j]

\* A stream that ends with JobExited has delivered everything still retained, when no
\* append was cut off by the drain. Concerns the order of drain_output_readers,
\* finish_job and the subscription.
Writing(w) == writer[w].at \in {"state", "chunk"}
Settled == \A w \in Writers : ~Writing(w)
ExitIsLast ==
    (crashes = 0 /\ sub.at = "ended" /\ Settled) =>
        Seqs(output.chunks) \subseteq ToSet(client.got)

\* append_output writes the rows after it released the lock, so the two writers of
\* stderr may write them in the other order: the older state then replaces the newer,
\* and a chunk beyond it is refused. At any moment the rows miss nothing that is
\* retained but chunks of appends that overlapped or still write; and when none writes
\* and the last one ran alone, they have the state of the memory and nothing more.
PersistedAgrees ==
    crashes = 0 =>
        /\ Seqs(output.chunks) \ rows.chunks
             \subseteq overlapped \cup {writer[w].seq : w \in {v \in Writers : Writing(v)}}
        /\ Settled /\ output.latest \notin overlapped =>
             rows.state = State(output) /\ rows.chunks \subseteq Seqs(output.chunks)

\* What a restart restores, when the newest append in it ran alone, has no hole but
\* that one's chunk, when the daemon stopped between its two writes, and chunks of
\* appends that overlapped; and nothing besides what its state names.
RestoredContiguous ==
    (crashes > 0 /\ output.latest \notin overlapped) =>
        LET named == IF output.oldest = 0 THEN {} ELSE output.oldest..output.latest
        IN  /\ named \ Seqs(output.chunks) \subseteq overlapped \cup {output.latest}
            /\ Seqs(output.chunks) \subseteq named

\* command.bdl 42: "Subscribes to retained and live output for one job stream", so a
\* client that follows a job learns of its end. It never does: the notification of
\* whoever has something to tell it waits for itself (command.rs 1150-1154).
SubscribersSeeExit == sub.at = "live" ~> sub.at # "live"

\* HistoryGap is sent only when something after the cursor is not retained.
GapsAreReal ==
    (sub.at = "live" /\ sub.seen < version /\ GapEvent(sub.last) # <<>>) =>
        sub.last + 1 \notin Seqs(output.chunks)
=============================================================================
