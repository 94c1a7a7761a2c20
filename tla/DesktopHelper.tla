--------------------------- MODULE DesktopHelper ----------------------------
(***************************************************************************)
(* The private channel between the daemon and the desktop helper of a user *)
(* session (daemon/host/src/desktop_ipc.rs): the Proxy the daemon calls,   *)
(* the worker thread that owns the connection and the Ledger of presses,   *)
(* and serve_until on the helper's side.                                   *)
(*                                                                         *)
(* Calls time out on both sides, the channel and the helper can die with   *)
(* requests in flight, and the effect of a request whose answer was lost   *)
(* is unknown.  Only two things may cross to the next helper: the release  *)
(* of everything that is possibly held, and the work guards of captures    *)
(* whose end was never confirmed.                                          *)
(*                                                                         *)
(* The broker (DesktopInput) calls input and recover under its state lock, *)
(* so one such call is outstanding; a media task calls stream_group and    *)
(* end_track for its codec epoch.  Commands without effect on input or     *)
(* capture (capabilities, displays, cursor, probes) are one "query".       *)
(***************************************************************************)
EXTENDS Integers, Sequences, FiniteSets, Functions

CONSTANTS
    Keys,       \* keys and buttons: a ledger treats them alike
    QueueSize,  \* capacity of Proxy.sender (16) and of pending (16)
    MaxEpoch,   \* bound on codec epochs, one media task each
    MaxCalls,   \* bound on calls
    MaxGeneration

HelperAssumption ==
    /\ QueueSize \in Nat \ {0}
    /\ {MaxEpoch, MaxCalls, MaxGeneration} \subseteq Nat

VARIABLES
    generation, ready, minimum,  \* the atomics of Proxy
    uncertain,   \* Proxy.uncertain_captures: codec epochs whose guard is kept
    calls,       \* the channel from Proxy to the worker
    connected,   \* the worker has a stream
    next,        \* the latest request id; dropped calls, which skip one, are not counted
    pending,     \* requests sent and not answered
    ledger,      \* Ledger: the id of the latest press of a key
    wire,        \* requests on the stream
    replies,     \* responses on the stream
    helper,      \* "none", "serving", "ending"
    last,        \* serve_until: the last request id
    groups,      \* serve_until: the groups being produced: track, request id
    captures,    \* native captures alive
    down,        \* what the OS holds: [what, generation of the press]
    broker,      \* "idle", or the call the broker waits for
    recovered,   \* the generation the broker's state belongs to
    media,       \* codec epoch -> state of its media task
    made,        \* calls made so far
    forgotten    \* history: presses whose release was named by a dropped recovery

proxy == <<generation, ready, minimum, uncertain>>
worker == <<connected, next, pending, ledger, forgotten>>
native == <<helper, last, groups, captures, down>>
callers == <<broker, recovered, media, made>>
vars == <<proxy, calls, worker, wire, replies, native, callers>>

Epochs == 1..MaxEpoch
Unused == "unused"

-----------------------------------------------------------------------------
(* Commands and the Ledger                                                  *)

Press(k) == [op |-> "down", key |-> k, epoch |-> 0]
Lift(k) == [op |-> "up", key |-> k, epoch |-> 0]
ReleaseAll == [op |-> "releaseAll", key |-> "", epoch |-> 0]
Recover == [op |-> "recover", key |-> "", epoch |-> 0]
Query == [op |-> "query", key |-> "", epoch |-> 0]
StreamGroup(e) == [op |-> "group", key |-> "", epoch |-> e]
EndTrack(e) == [op |-> "end", key |-> "", epoch |-> e]

record(l, cmd, id) ==
    IF cmd.op = "down"
    THEN [k \in DOMAIN l \cup {cmd.key} |-> IF k = cmd.key THEN id ELSE l[k]]
    ELSE l

\* A release acknowledges the presses sent before it, never a later one.
ack(l, cmd, id) ==
    CASE cmd.op = "recover" -> Restrict(l, {})
      [] cmd.op = "up" -> Restrict(l, {k \in DOMAIN l : k # cmd.key \/ l[k] > id})
      [] cmd.op = "releaseAll" -> Restrict(l, {k \in DOMAIN l : l[k] > id})
      [] OTHER -> l

AckedAnyway(l, c, r) == ack(l, c.cmd, r.id)

\* Only Done acknowledges: a release that failed may have released nothing.
Acked(l, c, r) == IF r.ok THEN ack(l, c.cmd, r.id) ELSE l

-----------------------------------------------------------------------------
(* Proxy: what the daemon's threads do                                      *)

Call(who, cmd, gen, min) ==
    [who |-> who, cmd |-> cmd, gen |-> gen, min |-> min, keys |-> {},
     late |-> FALSE, waited |-> TRUE]

EnqueueUnbounded(who, cmd, min) ==
    /\ made < MaxCalls /\ made' = made + 1
    /\ calls' = Append(calls, Call(who, cmd, generation, min))

\* call_inner, stream_group_at_rate: try_send, or Busy
Enqueue(who, cmd, min) ==
    /\ made < MaxCalls /\ made' = made + 1
    /\ Len(calls) < QueueSize
    /\ calls' = Append(calls, Call(who, cmd, generation, min))

Init ==
    /\ generation = 0 /\ ready = FALSE /\ minimum = 0 /\ uncertain = {}
    /\ calls = <<>> /\ connected = FALSE /\ next = 0
    /\ pending = [i \in {} |-> Query] /\ ledger = [k \in {} |-> 0]
    /\ wire = <<>> /\ replies = <<>>
    /\ helper = "none" /\ last = 0 /\ groups = {} /\ captures = {} /\ down = {}
    /\ broker = "idle" /\ recovered = 0 /\ media = [e \in Epochs |-> Unused]
    /\ made = 0 /\ forgotten = {}

\* The broker injects input only into the generation its state belongs to.
input_viewport(cmd) ==
    /\ broker = "idle" /\ recovered = generation
    /\ Enqueue(0, cmd, 0)
    /\ broker' = "input"
    /\ UNCHANGED <<proxy, worker, wire, replies, native, recovered, media>>

query ==
    /\ broker = "idle"
    /\ Enqueue(0, Query, 0)
    /\ broker' = "query"
    /\ UNCHANGED <<proxy, worker, wire, replies, native, recovered, media>>

Used == {e \in Epochs : media[e] # Unused}

\* recover: a call only when the channel is not ready; the cutoff is above
\* every codec epoch handed out so far.
recover ==
    /\ broker = "idle"
    /\ ~ready
    /\ Enqueue(0, Recover, Cardinality(Used) + 1)
    /\ broker' = "recover"
    /\ UNCHANGED <<proxy, worker, wire, replies, native, recovered, media>>

\* recover, after the answer or when the channel was ready: the guards below
\* the cutoff are dropped and the broker adopts the generation.
RecoverReturns ==
    /\ \/ broker = "recovered"
       \/ broker = "idle" /\ ready
    /\ ready
    /\ uncertain' = {e \in uncertain : e >= minimum}
    /\ recovered' = generation
    /\ broker' = "idle"
    /\ UNCHANGED <<generation, ready, minimum, calls, worker, wire, replies, native, media,
                   made>>

RecoverFails ==
    /\ broker = "recovered" /\ ~ready
    /\ broker' = "idle"
    /\ UNCHANGED <<proxy, calls, worker, wire, replies, native, recovered, media, made>>

\* A media task of a new configuration; codec epochs are handed out in order.
StartMedia(e) ==
    /\ recovered = generation /\ ready /\ broker = "idle"
    /\ media[e] = Unused /\ \A f \in Epochs : f < e => media[f] # Unused
    /\ media' = [media EXCEPT ![e] = "guarded"]
    /\ UNCHANGED <<proxy, calls, worker, wire, replies, native, broker, recovered, made>>

stream_group_at_rate(e) ==
    /\ media[e] = "guarded"
    /\ IF e < minimum
       THEN UNCHANGED <<media, calls, made>>
       ELSE /\ Enqueue(e, StreamGroup(e), 0)
            /\ media' = [media EXCEPT ![e] = "streaming"]
    /\ UNCHANGED <<proxy, worker, wire, replies, native, broker, recovered>>

\* finish_capture: end_track below the cutoff is already done.
end_track(e) ==
    /\ media[e] = "guarded"
    /\ IF e < minimum
       THEN /\ media' = [media EXCEPT ![e] = "done"]
            /\ UNCHANGED <<calls, made>>
       ELSE /\ Enqueue(e, EndTrack(e), 0)
            /\ media' = [media EXCEPT ![e] = "ending"]
    /\ UNCHANGED <<proxy, worker, wire, replies, native, broker, recovered>>

\* finish_capture when end_track failed or could not be queued (Busy).
EndTrackBusy(e) ==
    /\ media[e] = "guarded" /\ e >= minimum /\ Len(calls) = QueueSize
    /\ media' = [media EXCEPT ![e] = "unconfirmed"]
    /\ UNCHANGED <<proxy, calls, worker, wire, replies, native, broker, recovered, made>>

retain_uncertain_captureNever(e) ==
    /\ media[e] = "unconfirmed"
    /\ media' = [media EXCEPT ![e] = "done"]
    /\ UNCHANGED <<proxy, calls, worker, wire, replies, native, broker, recovered, made>>

\* retain_uncertain_capture, under the recovery lock
retain_uncertain_capture(e) ==
    /\ media[e] = "unconfirmed" /\ broker \notin {"recover", "recovered"}
    /\ uncertain' = IF e >= minimum THEN uncertain \cup {e} ELSE uncertain
    /\ media' = [media EXCEPT ![e] = "done"]
    /\ UNCHANGED <<generation, ready, minimum, calls, worker, wire, replies, native, broker,
                   recovered, made>>

\* What the caller of a call sees.
BrokerAfter(ok) ==
    IF broker = "recover" /\ ok THEN "recovered" ELSE "idle"
MediaAfter(e, ok) ==
    [media EXCEPT ![e] = IF @ # "ending" THEN "guarded"
                         ELSE IF ok THEN "done" ELSE "unconfirmed"]

Replied(c, ok) ==
    IF ~c.waited THEN UNCHANGED <<broker, media>>
    ELSE IF c.who = 0 THEN broker' = BrokerAfter(ok) /\ UNCHANGED media
    ELSE media' = MediaAfter(c.who, ok) /\ UNCHANGED broker

RepliedErr(cs) ==
    /\ broker' = IF \E c \in cs : c.waited /\ c.who = 0 THEN "idle" ELSE broker
    /\ media' = [e \in Epochs |->
                   IF \E c \in cs : c.waited /\ c.who = e THEN MediaAfter(e, FALSE)[e]
                   ELSE media[e]]

\* Three seconds pass on a call, a fourth gives it up.
Expire(c) == [c EXCEPT !.late = TRUE]
GiveUp(c) == [c EXCEPT !.waited = FALSE]

\* The one second of the connector bounds no synchronous part of it, and the
\* worker's thread may stall: also the recovery that opens a connection expires.
QueuedCallExpires ==
    /\ \E i \in DOMAIN calls :
         /\ ~calls[i].late
         /\ calls' = [calls EXCEPT ![i] = Expire(@)]
    /\ UNCHANGED <<proxy, worker, wire, replies, native, callers>>

SentCallExpires ==
    /\ \E i \in DOMAIN pending :
         /\ ~pending[i].late
         /\ pending' = [pending EXCEPT ![i] = Expire(@)]
    /\ UNCHANGED <<proxy, calls, connected, next, ledger, forgotten, wire, replies, native,
                   callers>>

CallerGivesUp ==
    \/ /\ \E i \in DOMAIN calls :
            /\ calls[i].late /\ calls[i].waited
            /\ calls' = [calls EXCEPT ![i] = GiveUp(@)]
            /\ Replied(calls[i], FALSE)
       /\ UNCHANGED <<proxy, worker, wire, replies, native, recovered, made>>
    \/ /\ \E i \in DOMAIN pending :
            /\ pending[i].late /\ pending[i].waited
            /\ pending' = [pending EXCEPT ![i] = GiveUp(@)]
            /\ Replied(pending[i], FALSE)
       /\ UNCHANGED <<proxy, calls, connected, next, ledger, forgotten, wire, replies,
                      native, recovered, made>>

-----------------------------------------------------------------------------
(* proxy_worker                                                             *)

\* Disconnected: a call of another generation, or one that is not the recovery
\* of a lost generation, never opens a connection.
MayConnect(c) == c.gen = generation /\ (generation = 0 \/ c.cmd.op = "recover")

Refuse ==
    /\ ~connected /\ calls # <<>>
    /\ calls' = Tail(calls)
    /\ Replied(Head(calls), FALSE)   \* fenced, or the connector failed
    /\ UNCHANGED <<proxy, worker, wire, replies, native, recovered, made>>

RecoveryNamesNothing == {}
RecoveryKeys == DOMAIN ledger

\* The connecting call becomes the recovery of what the ledger lists.  The
\* caller of serve_until owns the native backend alone: the predecessor ended.
Connect ==
    /\ ~connected /\ calls # <<>> /\ MayConnect(Head(calls))
    /\ helper = "none"
    /\ connected' = TRUE /\ next' = 0
    /\ calls' = [calls EXCEPT ![1].keys =
                    IF Head(calls).cmd.op = "recover" THEN RecoveryKeys ELSE {}]
    /\ helper' = "serving" /\ last' = 0
    /\ UNCHANGED <<proxy, pending, ledger, forgotten, wire, replies, groups, captures, down,
                   callers>>

\* Connected: the fences of a call taken from the channel.
Fenced(c) ==
    \/ c.gen # generation
    \/ ~ready /\ c.gen # 0 /\ c.cmd.op # "recover"

BelowCutoff(c) == c.cmd.op \in {"group", "end"} /\ c.cmd.epoch < minimum

\* A late call is dropped and the connection stays.  If it was the connecting
\* recovery, nobody releases what it named: the next one names nothing, and its
\* answer clears the ledger.
WorkerRejects ==
    /\ connected /\ calls # <<>>
    /\ LET c == Head(calls)
       IN  \/ Fenced(c) /\ Replied(c, FALSE) /\ UNCHANGED forgotten
           \/ ~Fenced(c) /\ BelowCutoff(c) /\ Replied(c, c.cmd.op = "end")
              /\ UNCHANGED forgotten
           \/ /\ ~Fenced(c) /\ ~BelowCutoff(c) /\ c.late /\ Replied(c, FALSE)
              /\ forgotten' = forgotten \cup {p \in down : p.what \in c.keys}
    /\ calls' = Tail(calls)
    /\ UNCHANGED <<proxy, connected, next, pending, ledger, wire, replies, native,
                   recovered, made>>

WorkerSends ==
    /\ connected /\ calls # <<>>
    /\ Cardinality(DOMAIN pending) < QueueSize
    /\ LET c == Head(calls)
       IN  /\ ~Fenced(c) /\ ~BelowCutoff(c) /\ ~c.late
           /\ next' = next + 1
           /\ ledger' = record(ledger, c.cmd, next + 1)
           /\ pending' = [i \in DOMAIN pending \cup {next + 1} |->
                            IF i = next + 1 THEN c ELSE pending[i]]
           /\ wire' = Append(wire, [id |-> next + 1, cmd |-> c.cmd,
                                    keys |-> c.keys, gen |-> c.gen])
    /\ calls' = Tail(calls)
    /\ UNCHANGED <<proxy, connected, forgotten, replies, native, callers>>

\* The stream is given up: the generation is fenced at once and everything in
\* flight fails.  The helper sees the end of its input after what was sent.
Disconnected ==
    /\ connected' = FALSE /\ ready' = FALSE /\ generation' = generation + 1
    /\ pending' = [i \in {} |-> Query] /\ replies' = <<>>
    /\ UNCHANGED <<minimum, next>>

ConnectionLost ==
    /\ connected /\ generation < MaxGeneration
    /\ Disconnected
    /\ RepliedErr({pending[i] : i \in DOMAIN pending})
    /\ UNCHANGED <<uncertain, calls, ledger, forgotten, wire, native, recovered, made>>

WorkerReceives ==
    /\ connected /\ replies # <<>>
    /\ LET r == Head(replies)
           c == pending[r.id]
           rest == [i \in DOMAIN pending \ {r.id} |-> pending[i]]
       IN  \/ \* too late, abandoned, or a failed recovery: the stream is given up
              /\ \/ c.late
                 \/ ~c.waited /\ c.cmd.op # "group"
                 \/ c.cmd.op = "recover" /\ ~r.ok
              /\ generation < MaxGeneration
              /\ ledger' = IF c.late THEN ledger ELSE Acked(ledger, c, r)
              /\ minimum' = IF ~c.late /\ r.ok /\ c.cmd.op = "recover" THEN c.min ELSE minimum
              /\ connected' = FALSE /\ ready' = FALSE /\ generation' = generation + 1
              /\ RepliedErr({pending[i] : i \in DOMAIN pending})
              /\ pending' = [i \in {} |-> Query] /\ replies' = <<>>
              /\ UNCHANGED next
           \/ /\ ~c.late /\ (c.waited \/ c.cmd.op = "group")
              /\ ~(c.cmd.op = "recover" /\ ~r.ok)
              /\ ledger' = Acked(ledger, c, r)
              /\ minimum' = IF c.cmd.op = "recover" THEN c.min ELSE minimum
              /\ ready' = (\/ ready \/ c.cmd.op = "recover"
                           \/ c.gen = 0 /\ c.cmd.op # "group")
              /\ Replied(c, r.ok)
              /\ pending' = rest /\ replies' = Tail(replies)
              /\ UNCHANGED <<generation, connected, next>>
    /\ UNCHANGED <<uncertain, calls, forgotten, wire, native, recovered, made>>

-----------------------------------------------------------------------------
(* serve_until.  Requests run one at a time and in order, except groups.     *)

Reply(id, ok) ==
    replies' = IF connected THEN Append(replies, [id |-> id, ok |-> ok]) ELSE replies

Injected(held, req) ==
    CASE req.cmd.op = "down" -> {p \in held : p.what # req.cmd.key}
                                \cup {[what |-> req.cmd.key, gen |-> req.gen]}
      [] req.cmd.op = "up" -> {p \in held : p.what # req.cmd.key}
      [] req.cmd.op = "releaseAll" -> {}
      [] req.cmd.op = "recover" -> {p \in held : p.what \notin req.keys}
      [] OTHER -> held

Producing(e) == \E g \in groups : g.epoch = e

\* A request that fails may have had its effect; a recovery names the keys.
HelperExecutes ==
    /\ helper = "serving" /\ wire # <<>>
    /\ LET req == Head(wire)
       IN  /\ req.cmd.op # "group"
           /\ req.cmd.op = "end" => ~Producing(req.cmd.epoch)
           /\ req.cmd.op = "recover" => last = 0
           /\ last' = req.id
           /\ \/ /\ down' = Injected(down, req) /\ Reply(req.id, TRUE)
                 /\ captures' = IF req.cmd.op = "end" THEN captures \ {req.cmd.epoch}
                                ELSE captures
              \/ /\ req.cmd.op # "query"
                 /\ down' \in {down, Injected(down, req)} /\ Reply(req.id, FALSE)
                 /\ UNCHANGED captures
    /\ wire' = Tail(wire)
    /\ UNCHANGED <<proxy, calls, worker, helper, groups, callers>>

GroupStarts ==
    /\ helper = "serving" /\ wire # <<>>
    /\ LET req == Head(wire)
       IN  /\ req.cmd.op = "group" /\ ~Producing(req.cmd.epoch)
           /\ last' = req.id
           /\ groups' = groups \cup {[epoch |-> req.cmd.epoch, id |-> req.id]}
           /\ captures' = captures \cup {req.cmd.epoch}
    /\ wire' = Tail(wire)
    /\ UNCHANGED <<proxy, calls, worker, replies, helper, down, callers>>

\* The task of a group answers its own request.
GroupEnds(g) ==
    /\ \E ok \in BOOLEAN : Reply(g.id, ok)
    /\ groups' = groups \ {g}
    /\ UNCHANGED <<proxy, calls, worker, wire, helper, last, captures, down, callers>>

\* EOF, a missed heartbeat, shutdown, a failed write; also a recovery that is
\* not the first request, or a second group of a track: serve_until returns.
HelperStops ==
    /\ helper = "serving"
    /\ \/ ~connected
       \/ generation < MaxGeneration
    /\ helper' = "ending" /\ wire' = <<>>
    /\ IF connected
       THEN Disconnected /\ RepliedErr({pending[i] : i \in DOMAIN pending})
       ELSE UNCHANGED <<generation, ready, minimum, connected, next, pending, replies, broker, media>>
    /\ UNCHANGED <<uncertain, calls, ledger, forgotten, last, groups, captures, down,
                   recovered, made>>

\* The end of serve_until: groups are drained, then everything is released; a
\* failure retires the process, which takes its captures along.
HelperCleansUp ==
    /\ helper = "ending" /\ groups = {}
    /\ helper' = "none" /\ captures' = {}
    /\ down' \in SUBSET down
    /\ UNCHANGED <<proxy, calls, worker, wire, replies, last, groups, callers>>

\* The process is killed: what it pressed stays down.
HelperDies ==
    /\ helper # "none"
    /\ connected => generation < MaxGeneration
    /\ helper' = "none" /\ groups' = {} /\ captures' = {} /\ wire' = <<>>
    /\ IF connected
       THEN Disconnected /\ RepliedErr({pending[i] : i \in DOMAIN pending})
       ELSE UNCHANGED <<generation, ready, minimum, connected, next, pending, replies, broker, media>>
    /\ UNCHANGED <<uncertain, calls, ledger, forgotten, last, down, recovered, made>>

-----------------------------------------------------------------------------
Next ==
    \/ \E k \in Keys : input_viewport(Press(k)) \/ input_viewport(Lift(k))
    \/ input_viewport(ReleaseAll)
    \/ query
    \/ recover \/ RecoverReturns \/ RecoverFails
    \/ \E e \in Epochs : \/ StartMedia(e) \/ stream_group_at_rate(e) \/ end_track(e)
                         \/ EndTrackBusy(e) \/ retain_uncertain_capture(e)
    \/ QueuedCallExpires \/ SentCallExpires \/ CallerGivesUp
    \/ Refuse \/ Connect \/ WorkerRejects \/ WorkerSends \/ WorkerReceives
    \/ ConnectionLost
    \/ HelperExecutes \/ GroupStarts \/ \E g \in groups : GroupEnds(g)
    \/ HelperStops \/ HelperCleansUp \/ HelperDies

Spec == Init /\ [][Next]_vars

-----------------------------------------------------------------------------
(* Properties                                                               *)

TypeOK ==
    /\ generation \in 0..MaxGeneration /\ ready \in BOOLEAN
    /\ minimum \in 0..MaxEpoch + 1 /\ uncertain \subseteq Epochs
    /\ Len(calls) <= QueueSize /\ connected \in BOOLEAN /\ next \in 0..MaxCalls
    /\ DOMAIN pending \subseteq 1..next /\ DOMAIN ledger \subseteq Keys
    /\ helper \in {"none", "serving", "ending"}
    /\ {g.epoch : g \in groups} \subseteq captures /\ captures \subseteq Epochs
    /\ down \subseteq [what : Keys, gen : 0..MaxGeneration]
    /\ broker \in {"idle", "input", "query", "recover", "recovered"}
    /\ recovered \in 0..generation
    /\ media \in [Epochs -> {Unused, "guarded", "streaming", "ending",
                             "unconfirmed", "done"}]

\* The presses the channel still answers for.  A connecting recovery that met
\* its deadline (desktop_ipc.rs 501) took the others with it.
Owed == down \ forgotten

\* desktop_ipc.rs 393-438, 501: whatever the OS holds is in the ledger, however
\* many acknowledgments were lost, late or overtaken, so the recovery that
\* follows a lost helper names it; except for what a recovery named that the
\* worker dropped at its deadline after it had connected.
LedgerCoversDown == \A p \in Owed : p.what \in DOMAIN ledger

\* desktop_ipc.rs 501, 535-539: once a generation is ready, nothing pressed
\* through an earlier helper is down, except what such a dropped recovery named.
ReadyIsClean == ready => \A p \in Owed : p.gen = generation

\* desktop-v1.md 149: "the first private command releases the predecessor's
\* possibly held keys/buttons", so a ready generation inherits nothing at all.
\* The code breaks this when it drops the connecting recovery (501).
PredecessorReleased == ready => \A p \in down : p.gen = generation

\* desktop_ipc.rs 583-611, desktop_rpc.rs 628-640: while a native capture is
\* alive its work guard is, in the media task or among the uncertain captures;
\* so an update never starts over it.
CapturesAreGuarded ==
    \A e \in captures : media[e] \notin {Unused, "done"} \/ e \in uncertain

\* desktop_ipc.rs 501, 560-592: to the broker this channel is a backend that
\* adopts a new generation with nothing held, except what it abandoned, key by
\* key, while the generation was not adopted: the keys of a dropped recovery.
ImplementsBackend ==
    INSTANCE InputBackend WITH Held <- Keys, adopted <- recovered,
                               held <- {p.what : p \in Owed},
                               abandoned <- {p.what : p \in forgotten}
BackendSpec == ImplementsBackend!Spec
=============================================================================
