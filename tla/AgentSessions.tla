--------------------------- MODULE AgentSessions ----------------------------
(***************************************************************************)
(* One agent session (daemon/host/src/agent.rs, agent_runtime.rs and its   *)
(* rows in state_db.rs): its creation and attachment, the ACP process      *)
(* behind it, its turns, the live snapshot and the events clients follow.  *)
(*                                                                         *)
(* The manager registers one runtime per session. A runtime has a live     *)
(* snapshot, whose updates hold the lock state_update from the write of    *)
(* the rows to the last event, and a consumer task that applies what the   *)
(* process reports. A turn is named by its client request.                 *)
(***************************************************************************)
EXTENDS Integers, Sequences, FiniteSets, SequencesExt

CONSTANTS
    Creators,       \* calls of create_and_attach_session, retries of one request
    Attachers,      \* calls of attach_session
    Requests,       \* client requests of turns
    Tries,          \* calls of create_turn per request
    MaxRuntimes,    \* bound on processes started
    MaxNotes,       \* bound on notifications and changes of the configuration
    MaxUpdates,     \* bound on update_session
    MaxCrashes,     \* bound on restarts of the daemon
    MaxDbFailures,  \* bound on failed writes
    Follows         \* a client subscribes to the session

AgentSessionsAssumption ==
    /\ Creators \cap Attachers = {}
    /\ {MaxRuntimes, MaxNotes, MaxUpdates, MaxCrashes, MaxDbFailures} \subseteq Nat
    /\ Follows \in BOOLEAN

Callers == Creators \cup Attachers
Runtimes == 1..MaxRuntimes
None == 0
NoTurn == "none"

VARIABLES
    row,      \* agent_sessions and agent_session_turns: existence, provider session,
              \* latest_seq, title, the state of each turn
    runtime,  \* AgentManager.runtimes: the registered runtime, or None
    lock,     \* the attachment lock: its holder, or None
    caller,   \* the calls of attach: where, the row they read, their runtime
    proc,     \* the ACP processes and the commands sent to them
    inbox,    \* events of a process not consumed yet
    consumer, \* consume_runtime_events of a runtime
    live,     \* AgentLiveSession.snapshot of a runtime; history: its number or its title
              \* is older than the rows since an attachment or an update_session
    pending,  \* events its holder of state_update has still to send
    config,   \* one call of set_session_config
    turnCall, \* the calls of create_turn
    update,   \* one call of update_session; history: a number was taken after its own
              \* before it was in the snapshot and sent
    sub,      \* one subscriber and its view
    prompts,  \* prompts given to a process, per turn
    faults    \* notifications, updates, crashes and failed writes so far

vars == <<row, runtime, lock, caller, proc, inbox, consumer, live, pending, config, turnCall,
          update, sub, prompts, faults>>
calls == <<lock, caller>>
agent == <<proc, inbox>>
state == <<consumer, live, pending>>

NoProc == [at |-> "unused", session |-> None, commands |-> <<>>, turn |-> NoTurn]
NoLive == [attached |-> FALSE, active |-> NoTurn, seq |-> 0, text |-> 0, title |-> 0,
           behind |-> FALSE, stale |-> FALSE]
NoSub == [at |-> "off", r |-> None, last |-> 0, active |-> NoTurn, text |-> 0, title |-> 0,
          behind |-> FALSE, queue |-> <<>>, ordered |-> TRUE, event |-> 0]
Idle == [at |-> "idle", r |-> None]
NoUpdate == [at |-> "idle", r |-> None, seq |-> 0, title |-> 0, overtaken |-> FALSE]

NewDaemon ==
    /\ runtime = None /\ lock = None
    /\ proc = [r \in Runtimes |-> NoProc] /\ inbox = [r \in Runtimes |-> <<>>]
    /\ consumer = [r \in Runtimes |-> "none"] /\ live = [r \in Runtimes |-> NoLive]
    /\ pending = [r \in Runtimes |-> <<>>] /\ config = Idle
    /\ turnCall = [k \in Requests \X Tries |-> Idle] /\ update = NoUpdate
    /\ sub = NoSub

Init ==
    /\ row = [exists |-> FALSE, provider |-> None, seq |-> 0, title |-> 0,
              turns |-> [q \in Requests |-> "none"]]
    /\ caller = [c \in Callers |-> [at |-> "idle", provider |-> None, seq |-> 0, title |-> 0, r |-> None]]
    /\ NewDaemon /\ prompts = [q \in Requests |-> 0]
    /\ faults = [notes |-> 0, updates |-> 0, crashes |-> 0, db |-> 0]

Active(turns) == {q \in Requests : turns[q] = "running"}
DbFails == faults.db < MaxDbFailures /\ faults' = [faults EXCEPT !.db = @ + 1]
Unlocked(r) == pending[r] = <<>>

\* The transactions of state_db: each takes the next numbers of the session.
append_agent_text_chunk == [row EXCEPT !.seq = @ + 1]
finish_agent_turn(q, outcome) == [row EXCEPT !.seq = @ + 2, !.turns[q] = outcome]
create_agent_text_turn(q) == [row EXCEPT !.seq = @ + 3, !.turns[q] = "running"]
update_agent_session == [row EXCEPT !.seq = @ + 1, !.title = @ + 1]
set_agent_provider_session_id(id) == [row EXCEPT !.provider = id]

-----------------------------------------------------------------------------
(* create_and_attach_session, attach_session                                *)

Persisted(c) == [caller[c] EXCEPT !.provider = row.provider, !.seq = row.seq, !.title = row.title]

\* create_session finds the session of this creation request or inserts it; the
\* caller keeps the row it saw.
create_session(c) ==
    /\ c \in Creators /\ caller[c].at = "idle"
    /\ row' = [row EXCEPT !.exists = TRUE]
    /\ caller' = [caller EXCEPT ![c] = [Persisted(c) EXCEPT !.at = "lock"]]
    /\ UNCHANGED <<runtime, lock, agent, state, config, turnCall, update, sub, prompts, faults>>

attach_session(c) ==
    /\ c \in Attachers /\ caller[c].at = "idle" /\ row.exists
    /\ caller' = [caller EXCEPT ![c].at = "lock"]
    /\ UNCHANGED <<row, runtime, lock, agent, state, config, turnCall, update, sub, prompts, faults>>

\* A plausible bug: attach_session uses the row it read before it waited for the lock.
StartedStale(c) == [caller[c] EXCEPT !.seq = row.seq]

Fresh == {r \in Runtimes : proc[r].at = "unused"}
Started(c) == IF c \in Attachers THEN Persisted(c) ELSE [caller[c] EXCEPT !.seq = row.seq]

\* A plausible bug: the lock does not stop a second start.
LockedUnchecked(c) ==
    /\ caller[c].at = "lock" /\ lock = None /\ Fresh # {}
    /\ LET r == CHOOSE r \in Fresh : \A s \in Fresh : r <= s
       IN  /\ proc' = [proc EXCEPT ![r] = [NoProc EXCEPT !.at = "starting",
                                                         !.session = Started(c).provider]]
           /\ caller' = [caller EXCEPT ![c] = [Started(c) EXCEPT !.at = "starting", !.r = r]]
    /\ lock' = c
    /\ UNCHANGED <<row, runtime, inbox, state, config, turnCall, update, sub, prompts, faults>>

\* Under the attachment lock: an attached session is returned as it is; otherwise the
\* process starts, with the provider session of the row. attach_session reads the row
\* here, a creator uses the one it read before it waited.
Locked(c) ==
    /\ caller[c].at = "lock" /\ lock = None
    /\ \/ /\ runtime # None
          /\ caller' = [caller EXCEPT ![c].at = "done"] /\ UNCHANGED <<lock, proc>>
       \/ /\ runtime = None /\ Fresh # {}
          /\ LET r == CHOOSE r \in Fresh : \A s \in Fresh : r <= s
             IN  /\ proc' = [proc EXCEPT ![r] = [NoProc EXCEPT !.at = "starting",
                                                               !.session = Started(c).provider]]
                 /\ caller' = [caller EXCEPT ![c] = [Started(c) EXCEPT !.at = "starting", !.r = r]]
          /\ lock' = c
    /\ UNCHANGED <<row, runtime, inbox, state, config, turnCall, update, sub, prompts, faults>>

\* The process initialized and opened its session: a new one, or the one it was given.
StartOk(c) ==
    /\ caller[c].at = "starting"
    /\ LET r == caller[c].r
       IN  proc' = [proc EXCEPT ![r].at = "ready", ![r].session = IF @ = None THEN r ELSE @]
    /\ caller' = [caller EXCEPT ![c].at = "ready"]
    /\ UNCHANGED <<row, runtime, lock, inbox, state, config, turnCall, update, sub, prompts, faults>>

\* It failed, supports neither resume nor load, or took thirty seconds; then its
\* answer finds no receiver and it ends.
StartFails(c) ==
    /\ caller[c].at = "starting" /\ caller' = [caller EXCEPT ![c].at = "done"] /\ lock' = None
    /\ proc' = [proc EXCEPT ![caller[c].r].at = "exited"]
    /\ UNCHANGED <<row, runtime, inbox, state, config, turnCall, update, sub, prompts, faults>>

\* The provider session is stored when the row the caller holds had none; the runtime
\* is registered and its consumer started. A failed write drops the handle, and with
\* it the process.
attach_persisted_session(c) ==
    LET r == caller[c].r IN
    /\ caller[c].at = "ready" /\ caller' = [caller EXCEPT ![c].at = "done"] /\ lock' = None
    /\ \/ /\ row' = IF caller[c].provider = None THEN set_agent_provider_session_id(proc[r].session) ELSE row
          /\ runtime' = r /\ consumer' = [consumer EXCEPT ![r] = "running"]
          /\ live' = [live EXCEPT ![r] = [NoLive EXCEPT !.attached = TRUE, !.seq = caller[c].seq,
                                            !.title = caller[c].title,
                                            !.behind = caller[c].seq < row.seq,
                                            !.stale = caller[c].title < row.title]]
          /\ UNCHANGED <<proc, faults>>
       \/ /\ DbFails /\ proc' = [proc EXCEPT ![r].at = "exited"]
          /\ UNCHANGED <<row, runtime, consumer, live>>
    /\ UNCHANGED <<inbox, pending, config, turnCall, update, sub, prompts>>

-----------------------------------------------------------------------------
(* The process: run_agent_runtime                                           *)

Report(r, event) == inbox' = [inbox EXCEPT ![r] = Append(@, event)]

\* The next command: a prompt becomes the active turn of the process; a change of the
\* configuration is answered.
TakeCommand(r) ==
    /\ proc[r].at = "ready" /\ proc[r].turn = NoTurn /\ proc[r].commands # <<>>
    /\ LET command == Head(proc[r].commands)
       IN  /\ proc' = [proc EXCEPT ![r].commands = Tail(@),
                                   ![r].turn = IF command = "config" THEN NoTurn ELSE command]
           /\ config' = IF command = "config" /\ config.at = "sent"
                        THEN [config EXCEPT !.at = "answered"] ELSE config
    /\ UNCHANGED <<row, runtime, calls, inbox, state, turnCall, update, sub, prompts, faults>>

\* on_receive_notification: text of the active turn, usage, new options. Text without
\* a turn is dropped.
Notification(r) ==
    /\ proc[r].at = "ready" /\ faults.notes < MaxNotes
    /\ faults' = [faults EXCEPT !.notes = @ + 1]
    /\ \/ proc[r].turn # NoTurn /\ Report(r, [t |-> "text", turn |-> proc[r].turn])
       \/ Report(r, [t |-> "note", turn |-> NoTurn])
    /\ UNCHANGED <<row, runtime, calls, proc, state, config, turnCall, update, sub, prompts>>

\* A plausible bug: the stop reason is taken for the state of the turn.
PromptEndsReason(r) ==
    /\ proc[r].at = "ready" /\ proc[r].turn # NoTurn
    /\ \E t \in {"end_turn", "failed"} : Report(r, [t |-> t, turn |-> proc[r].turn])
    /\ proc' = [proc EXCEPT ![r].turn = NoTurn]
    /\ UNCHANGED <<row, runtime, calls, state, config, turnCall, update, sub, prompts, faults>>

\* The prompt ends, completed or failed; the active turn is cleared before it is said.
PromptEnds(r) ==
    /\ proc[r].at = "ready" /\ proc[r].turn # NoTurn
    /\ \E t \in {"completed", "failed"} : Report(r, [t |-> t, turn |-> proc[r].turn])
    /\ proc' = [proc EXCEPT ![r].turn = NoTurn]
    /\ UNCHANGED <<row, runtime, calls, state, config, turnCall, update, sub, prompts, faults>>

\* The process ends: commands not taken are lost, a change of the configuration that
\* waits is refused.
ProcessExits(r) ==
    /\ proc[r].at = "ready" /\ runtime = r
    /\ proc' = [proc EXCEPT ![r] = [@ EXCEPT !.at = "exited", !.commands = <<>>, !.turn = NoTurn]]
    /\ Report(r, [t |-> "exited", turn |-> NoTurn])
    /\ config' = IF config.r = r /\ config.at = "sent" THEN Idle ELSE config
    /\ UNCHANGED <<row, runtime, calls, state, turnCall, update, sub, prompts, faults>>

-----------------------------------------------------------------------------
(* The live snapshot                                                        *)

Event(seq, t, turn) == [seq |-> seq, t |-> t, turn |-> turn, title |-> 0]
Upsert(seq, title) == [seq |-> seq, t |-> "session", turn |-> NoTurn, title |-> title]

\* A plausible bug: the turn is announced before its message.
FinishSwapped(r, q, outcome) ==
    /\ row' = finish_agent_turn(q, outcome)
    /\ live' = [live EXCEPT ![r].seq = row.seq + 2, ![r].behind = FALSE,
                            ![r].active = NoTurn, ![r].text = 0]
    /\ pending' = [pending EXCEPT ![r] = <<Event(row.seq + 2, "ends", q), Event(row.seq + 1, "other", q)>>]

\* finish_live_turn: the message is complete and the turn has its outcome.
finish_live_turn(r, q, outcome) ==
    /\ row' = finish_agent_turn(q, outcome)
    /\ live' = [live EXCEPT ![r].seq = row.seq + 2, ![r].behind = FALSE,
                            ![r].active = NoTurn, ![r].text = 0]
    /\ pending' = [pending EXCEPT ![r] = <<Event(row.seq + 1, "other", q), Event(row.seq + 2, "ends", q)>>]

\* A plausible bug: the snapshot keeps its number.
AppliedUnnumbered(r, t, turn) ==
    /\ row' = append_agent_text_chunk
    /\ live' = [live EXCEPT ![r].text = IF t = "text" THEN @ + 1 ELSE @]
    /\ pending' = [pending EXCEPT ![r] = <<Event(row.seq + 1, t, turn)>>]

\* apply_agent_text_chunk, apply_agent_usage, apply_agent_config_options.
Applied(r, t, turn) ==
    /\ row' = append_agent_text_chunk
    /\ live' = [live EXCEPT ![r].seq = row.seq + 1, ![r].behind = FALSE,
                            ![r].text = IF t = "text" THEN @ + 1 ELSE @]
    /\ pending' = [pending EXCEPT ![r] = <<Event(row.seq + 1, t, turn)>>]

\* consume_runtime_events for everything but the exit: an event of a turn that is not
\* active, or a failed write, stops the consumer.
consume_runtime_events(r) ==
    LET e == Head(inbox[r]) IN
    /\ consumer[r] = "running" /\ inbox[r] # <<>> /\ Unlocked(r) /\ e.t # "exited"
    /\ inbox' = [inbox EXCEPT ![r] = Tail(@)]
    /\ \/ /\ e.t = "note" \/ live[r].active = e.turn
          /\ IF e.t \in {"text", "note"} THEN Applied(r, e.t, e.turn)
             ELSE finish_live_turn(r, e.turn, e.t)
          /\ UNCHANGED <<consumer, faults>>
       \/ /\ \/ e.t # "note" /\ live[r].active # e.turn /\ UNCHANGED faults
             \/ DbFails
          /\ consumer' = [consumer EXCEPT ![r] = "stopped"] /\ UNCHANGED <<row, live, pending>>
    /\ UNCHANGED <<runtime, calls, proc, config, turnCall, update, sub, prompts>>

\* A plausible bug: the exit does not look at the turn.
ConsumeExitOnly(r) ==
    /\ consumer[r] = "running" /\ inbox[r] # <<>> /\ Head(inbox[r]).t = "exited"
    /\ consumer' = [consumer EXCEPT ![r] = "exiting"]
    /\ UNCHANGED <<row, live, pending, runtime, calls, agent, config, turnCall, update, sub, prompts, faults>>

\* The exit fails the active turn first, under a lock of its own.
ConsumeExit(r) ==
    /\ consumer[r] = "running" /\ inbox[r] # <<>> /\ Head(inbox[r]).t = "exited"
    /\ consumer' = [consumer EXCEPT ![r] = "exiting"]
    /\ IF live[r].active # NoTurn
       THEN Unlocked(r) /\ finish_live_turn(r, live[r].active, "failed")
       ELSE UNCHANGED <<row, live, pending>>
    /\ UNCHANGED <<runtime, calls, agent, config, turnCall, update, sub, prompts, faults>>

\* apply_runtime_exit and remove_runtime: the entry goes only if it is this runtime.
apply_runtime_exit(r) ==
    /\ consumer[r] = "exiting" /\ Unlocked(r)
    /\ \/ /\ row' = [row EXCEPT !.seq = @ + 1]
          /\ live' = [live EXCEPT ![r].seq = row.seq + 1, ![r].behind = FALSE,
                                  ![r].attached = FALSE]
          /\ pending' = [pending EXCEPT ![r] = <<Upsert(row.seq + 1, live[r].title)>>]
          /\ UNCHANGED faults
       \/ DbFails /\ UNCHANGED <<row, live, pending>>
    /\ consumer' = [consumer EXCEPT ![r] = "done"] /\ inbox' = [inbox EXCEPT ![r] = <<>>]
    /\ runtime' = IF runtime = r THEN None ELSE runtime
    /\ UNCHANGED <<calls, proc, config, turnCall, update, sub, prompts>>

\* events.send of the holder of the lock, which it then releases.
Delivered(r, events) ==
    IF sub.r = r /\ sub.at # "off" THEN [sub EXCEPT !.queue = @ \o events] ELSE sub
SendEvents(r) ==
    /\ pending[r] # <<>> /\ pending' = [pending EXCEPT ![r] = <<>>]
    /\ sub' = Delivered(r, pending[r])
    /\ UNCHANGED <<row, runtime, calls, agent, consumer, live, config, turnCall, update, prompts, faults>>

-----------------------------------------------------------------------------
(* create_turn                                                              *)

\* A turn of this request is returned as it is; otherwise the runtime is looked up.
TurnBegins(q, i) ==
    /\ turnCall[<<q, i>>].at = "idle" /\ row.turns[q] = "none" /\ runtime # None
    /\ turnCall' = [turnCall EXCEPT ![<<q, i>>] = [at |-> "begun", r |-> runtime]]
    /\ UNCHANGED <<row, runtime, calls, agent, state, config, update, sub, prompts, faults>>

\* A plausible bug: no turn is looked for before the insert.
InsertableAlways(q) == TRUE

\* The unique indexes of agent_session_turns: one turn per request, one active turn.
Insertable(q) == row.turns[q] = "none" /\ Active(row.turns) = {}

\* A plausible bug: a change of the configuration under way is not looked at.
MayStartAlways(r) == live[r].attached /\ live[r].active = NoTurn

Changing(r) == config.r = r /\ config.at # "idle"
MayStart(r) == ~Changing(r) /\ live[r].attached /\ live[r].active = NoTurn

CreateTurn(q, i) ==
    LET r == turnCall[<<q, i>>].r IN
    /\ turnCall[<<q, i>>].at = "begun" /\ Unlocked(r)
    /\ \/ /\ MayStart(r) /\ Insertable(q)
          /\ row' = create_agent_text_turn(q)
          /\ live' = [live EXCEPT ![r].seq = row.seq + 3, ![r].behind = FALSE,
                                  ![r].active = q, ![r].text = 0]
          /\ pending' = [pending EXCEPT ![r] = [n \in 1..3 |-> Event(row.seq + n,
                                                  IF n = 1 THEN "starts" ELSE "other", q)]]
          /\ turnCall' = [turnCall EXCEPT ![<<q, i>>].at = "created"]
       \/ /\ ~(MayStart(r) /\ Insertable(q))
          /\ turnCall' = [turnCall EXCEPT ![<<q, i>>] = Idle] /\ UNCHANGED <<row, live, pending>>
    /\ UNCHANGED <<runtime, calls, agent, consumer, config, update, sub, prompts, faults>>

\* A plausible bug: a prompt that finds no process is dropped.
PromptLost(q, i) ==
    LET r == turnCall[<<q, i>>].r IN
    /\ turnCall[<<q, i>>].at = "created" /\ Unlocked(r) /\ turnCall' = [turnCall EXCEPT ![<<q, i>>] = Idle]
    /\ prompts' = [prompts EXCEPT ![q] = @ + 1]
    /\ proc' = [proc EXCEPT ![r].commands = Append(@, q)]
    /\ UNCHANGED <<row, live, pending, runtime, calls, inbox, consumer, config, update, sub, faults>>

\* handle.prompt after the lock: without a process the turn fails here.
Prompt(q, i) ==
    LET r == turnCall[<<q, i>>].r IN
    /\ turnCall[<<q, i>>].at = "created" /\ Unlocked(r) /\ turnCall' = [turnCall EXCEPT ![<<q, i>>] = Idle]
    /\ \/ /\ proc[r].at = "ready" /\ prompts' = [prompts EXCEPT ![q] = @ + 1]
          /\ proc' = [proc EXCEPT ![r].commands = Append(@, q)]
          /\ UNCHANGED <<row, live, pending>>
       \/ /\ proc[r].at # "ready" /\ UNCHANGED <<proc, prompts>>
          /\ IF live[r].active = q THEN finish_live_turn(r, q, "failed")
             ELSE UNCHANGED <<row, live, pending>>
    /\ UNCHANGED <<runtime, calls, inbox, consumer, config, update, sub, faults>>

-----------------------------------------------------------------------------
(* set_session_config, update_session                                       *)

ConfigBegins ==
    /\ config.at = "idle" /\ runtime # None /\ config' = [at |-> "begun", r |-> runtime]
    /\ faults.notes < MaxNotes /\ faults' = [faults EXCEPT !.notes = @ + 1]
    /\ UNCHANGED <<row, runtime, calls, agent, state, turnCall, update, sub, prompts>>

\* Under the lock: attached and no active turn; then the command is sent.
ConfigChecks ==
    LET r == config.r IN
    /\ config.at = "begun" /\ Unlocked(r)
    /\ \/ /\ live[r].attached /\ live[r].active = NoTurn /\ proc[r].at = "ready"
          /\ proc' = [proc EXCEPT ![r].commands = Append(@, "config")]
          /\ config' = [config EXCEPT !.at = "sent"]
       \/ /\ ~live[r].attached \/ live[r].active # NoTurn \/ proc[r].at # "ready"
          /\ config' = Idle /\ UNCHANGED proc
    /\ UNCHANGED <<row, runtime, calls, inbox, state, turnCall, update, sub, prompts, faults>>

\* The answer is applied, with an event when the options changed.
ConfigApplies ==
    /\ config.at = "answered" /\ Unlocked(config.r) /\ config' = Idle
    /\ Applied(config.r, "note", NoTurn) \/ UNCHANGED <<row, live, pending>>
    /\ UNCHANGED <<runtime, calls, agent, consumer, turnCall, update, sub, prompts, faults>>

\* update_session looks for the runtime first.
UpdateBegins ==
    /\ update.at = "idle" /\ row.exists /\ faults.updates < MaxUpdates
    /\ faults' = [faults EXCEPT !.updates = @ + 1]
    /\ update' = [update EXCEPT !.at = "begun", !.r = runtime]
    /\ UNCHANGED <<row, runtime, calls, agent, state, config, turnCall, sub, prompts>>

\* The rows are changed, under the lock of the runtime it found; a runtime registered
\* since then does not hear of it.
update_session ==
    /\ update.at = "begun" /\ (update.r # None => Unlocked(update.r))
    /\ row' = update_agent_session
    /\ update' = [update EXCEPT !.at = IF update.r = None THEN "idle" ELSE "snapshot",
                                !.seq = row.seq + 1, !.title = row.title + 1]
    /\ live' = IF update.r # None \/ runtime = None THEN live
               ELSE [live EXCEPT ![runtime].behind = TRUE, ![runtime].stale = TRUE]
    /\ UNCHANGED <<runtime, calls, agent, consumer, pending, config, turnCall, sub, prompts, faults>>

Overtaken == update.overtaken \/ live[update.r].seq > update.seq

\* The snapshot and the event follow without the lock: the number may step back.
UpdateSnapshot ==
    /\ update.at = "snapshot"
    /\ update' = [update EXCEPT !.at = "event", !.overtaken = Overtaken]
    /\ live' = [live EXCEPT ![update.r].seq = update.seq, ![update.r].title = update.title,
                            ![update.r].behind = live[update.r].seq > update.seq,
                            ![update.r].stale = update.title < row.title]
    /\ UNCHANGED <<row, runtime, calls, agent, consumer, pending, config, turnCall, sub, prompts, faults>>

UpdateEvent ==
    /\ update.at = "event" /\ update' = [update EXCEPT !.at = "idle", !.overtaken = Overtaken]
    /\ sub' = Delivered(update.r, <<Upsert(update.seq, update.title)>>)
    /\ UNCHANGED <<row, runtime, calls, agent, state, config, turnCall, prompts, faults>>

-----------------------------------------------------------------------------
(* subscribe_session and the stream                                         *)

\* The events first, then the snapshot.
Subscribe ==
    /\ Follows /\ sub.at = "off" /\ runtime # None
    /\ sub' = [NoSub EXCEPT !.at = "snapshot", !.r = runtime]
    /\ UNCHANGED <<row, runtime, calls, agent, state, config, turnCall, update, prompts, faults>>

ReadSnapshot ==
    /\ sub.at = "snapshot"
    /\ sub' = [sub EXCEPT !.at = "live", !.last = live[sub.r].seq, !.active = live[sub.r].active,
                          !.text = live[sub.r].text, !.title = live[sub.r].title,
                          !.behind = live[sub.r].behind]
    /\ UNCHANGED <<row, runtime, calls, agent, state, config, turnCall, update, prompts, faults>>

\* The client ignores an event its snapshot already holds, and applies the others.
Receive ==
    LET e == Head(sub.queue)
        new == e.seq > sub.last
    IN  /\ sub.at = "live" /\ sub.queue # <<>>
        /\ sub' = [sub EXCEPT !.queue = Tail(@), !.event = e.seq,
                      !.ordered = @ /\ e.seq > sub.event,
                      !.last = IF new THEN e.seq ELSE @,
                      !.active = IF new /\ e.t = "starts" THEN e.turn
                                 ELSE IF new /\ e.t = "ends" THEN NoTurn ELSE @,
                      !.text = IF new /\ e.t = "text" THEN @ + 1
                               ELSE IF new /\ e.t \in {"starts", "ends"} THEN 0 ELSE @,
                      !.title = IF new /\ e.t = "session" THEN e.title ELSE @]
        /\ UNCHANGED <<row, runtime, calls, agent, state, config, turnCall, update, prompts, faults>>

\* The daemon stops; the processes end with it.
Crash ==
    /\ faults.crashes < MaxCrashes /\ faults' = [faults EXCEPT !.crashes = @ + 1]
    /\ runtime' = None /\ lock' = None
    /\ caller' = [c \in Callers |-> IF caller[c].at = "idle" THEN caller[c]
                                    ELSE [caller[c] EXCEPT !.at = "done"]]
    /\ proc' = [r \in Runtimes |-> IF proc[r].at = "unused" THEN NoProc
                                   ELSE [NoProc EXCEPT !.at = "exited"]]
    /\ inbox' = [r \in Runtimes |-> <<>>] /\ consumer' = [r \in Runtimes |-> "none"]
    /\ live' = [r \in Runtimes |-> NoLive] /\ pending' = [r \in Runtimes |-> <<>>]
    /\ config' = Idle /\ turnCall' = [k \in Requests \X Tries |-> Idle]
    /\ update' = [update EXCEPT !.at = "idle"] /\ sub' = NoSub
    /\ UNCHANGED <<row, prompts>>

-----------------------------------------------------------------------------
Attaching(c) ==
    \/ create_session(c) \/ attach_session(c) \/ Locked(c)
    \/ StartOk(c) \/ StartFails(c) \/ attach_persisted_session(c)
Agent(r) == TakeCommand(r) \/ PromptEnds(r)
Consuming(r) ==
    consume_runtime_events(r) \/ ConsumeExit(r) \/ apply_runtime_exit(r) \/ SendEvents(r)
Turn(q, i) == TurnBegins(q, i) \/ CreateTurn(q, i) \/ Prompt(q, i)
Configuring == ConfigBegins \/ ConfigChecks \/ ConfigApplies
Updating == UpdateBegins \/ update_session \/ UpdateSnapshot \/ UpdateEvent
Following == Subscribe \/ ReadSnapshot \/ Receive

Next ==
    \/ \E c \in Callers : Attaching(c)
    \/ \E r \in Runtimes : Agent(r) \/ Notification(r) \/ ProcessExits(r) \/ Consuming(r)
    \/ \E q \in Requests, i \in Tries : Turn(q, i)
    \/ Configuring \/ Updating \/ Following \/ Crash

Spec == Init /\ [][Next]_vars

\* Tasks run, and an agent ends what it was asked or exits.
Fairness ==
    /\ \A r \in Runtimes : WF_vars(Agent(r)) /\ WF_vars(Consuming(r))
    /\ \A q \in Requests, i \in Tries : WF_vars((CreateTurn(q, i) \/ Prompt(q, i)))
    /\ WF_vars((ConfigChecks \/ ConfigApplies))
FairSpec == Spec /\ Fairness

-----------------------------------------------------------------------------
(* Properties                                                               *)

TypeOK ==
    /\ row.exists \in BOOLEAN /\ row.provider \in 0..MaxRuntimes /\ row.seq \in Nat
    /\ row.turns \in [Requests -> {"none", "running", "completed", "failed"}]
    /\ runtime \in 0..MaxRuntimes /\ lock \in Callers \cup {None}
    /\ \A c \in Callers : caller[c].at \in {"idle", "lock", "starting", "ready", "done"}
    /\ \A r \in Runtimes : /\ proc[r].at \in {"unused", "starting", "ready", "exited"}
                           /\ consumer[r] \in {"none", "running", "stopped", "exiting", "done"}
    /\ \A k \in DOMAIN turnCall : turnCall[k].at \in {"idle", "begun", "created"}
    /\ config.at \in {"idle", "begun", "sent", "answered"}

Quiet(r) ==
    /\ r # None /\ Unlocked(r) /\ update.at = "idle" /\ consumer[r] = "running"
    /\ \A k \in DOMAIN turnCall : turnCall[k].at # "created"

\* agent.bdl 78: "Later events have strictly increasing seq values."
StrictlyIncreasing == sub.ordered

\* The events of a subscription have strictly increasing numbers, but for the upsert of an
\* update_session that another change overtook between its rows and its event (agent.rs
\* 872, 892). Concerns the order in which the handlers write the rows and send.
EventsIncrease == sub.ordered \/ update.overtaken

\* A subscriber that received everything shows what the live snapshot holds: the active
\* turn and its text, each chunk once, unless it subscribed while an overtaken
\* update_session had set the number of the snapshot back (886), and the title, unless
\* its upsert came with a number already passed. Concerns subscribe_session, which
\* subscribes before it reads the snapshot, and the numbers it lets clients ignore.
ViewAgrees ==
    (sub.at = "live" /\ sub.queue = <<>> /\ runtime = sub.r /\ Quiet(sub.r)) =>
        /\ sub.behind \/ (sub.active = live[sub.r].active /\ sub.text = live[sub.r].text)
        /\ update.overtaken \/ sub.title = live[sub.r].title

\* A turn is prompted at most once, whatever is retried. Concerns clientRequestId.
PromptedOnce == \A q \in Requests : prompts[q] <= 1

\* While a change of the configuration is with the agent no turn is active: the flag and
\* the lock of create_turn and set_session_config leave no gap.
ConfigExcludesTurn == config.at \in {"sent", "answered"} => live[config.r].active = NoTurn

\* At most one process serves the session. Concerns the attachment lock.
OneAgent ==
    \A r, s \in Runtimes :
        (proc[r].at \in {"starting", "ready"} /\ proc[s].at \in {"starting", "ready"}) => r = s

\* attach_session starts the process with the provider session that is stored, though
\* other calls attach the session while it waits.
AttachResumes ==
    \A c \in Attachers : caller[c].at = "starting" => proc[caller[c].r].session = row.provider

\* The provider session of a session never changes once it is stored: its conversation
\* is resumed. Concerns attach_persisted_session.
ProviderStable == [][row.provider # None => row'.provider = row.provider]_vars

\* An attached session that shows no active turn can take one. Concerns the active
\* turn of the rows, which must not outlive the runtime that runs it.
AttachedAcceptsTurn ==
    (Quiet(runtime) /\ live[runtime].attached /\ live[runtime].active = NoTurn) =>
        Active(row.turns) = {}

\* The live snapshot of a registered runtime is as new as the rows, unless the session
\* was updated between the read of its row and its attachment (agent.rs 390, 414-496), or
\* an overtaken update_session set the number back until the next change (886).
LiveCurrent ==
    (Quiet(runtime) /\ live[runtime].attached) =>
        /\ live[runtime].behind \/ live[runtime].seq = row.seq
        /\ live[runtime].stale \/ live[runtime].title = row.title

\* Every turn comes to an end. Concerns the exits of processes around create_turn.
TurnsSettle == \A q \in Requests : row.turns[q] = "running" ~> row.turns[q] # "running"
=============================================================================
