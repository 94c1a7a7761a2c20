------------------------- MODULE UpdateTransaction -------------------------
(***************************************************************************)
(* The macOS updater (daemon/macos/src/root_update): a journalled exchange *)
(* of /Applications/Rieul.app and of the protected root runtime, driven by *)
(* a worker process that stops and restarts the very daemon that launched  *)
(* it.                                                                     *)
(*                                                                         *)
(* Three processes meet here: the serving daemon (discovery, preparation,  *)
(* dispatch), the worker (transaction.rs over the effects of native.rs)    *)
(* and launchd, which relaunches the daemon whenever it exits and is not   *)
(* booted out.  Every durable write is a step of its own; the worker and   *)
(* the daemon may be killed between any two, and so may the machine.       *)
(***************************************************************************)
EXTENDS Naturals

CONSTANTS
    MaxVersion, \* bound on the releases the official source offers
    MaxNonce,   \* bound on the transactions started
    Digest(_)   \* sha256 of the daemon a release carries; app-only releases
                \* share it with their predecessor

ASSUME BoundsAssumption == MaxVersion \in Nat \ {0} /\ MaxNonce \in Nat
ASSUME DigestAssumption == \A v \in 1..MaxVersion : Digest(v) \in Nat

VARIABLES
    app,      \* version of the installed app entry
    incoming, \* version of updates/incoming/Rieul.app, 0 when there is none
    service,  \* digest of the protected runtime at SERVICE
    stage,    \* updates/service-stage: binding nonce and digest
    journal,  \* journal.json
    last,     \* last-result.json
    pending,  \* cleanup-pending.json
    request,  \* start-request.json
    ready,    \* ready.json; live when the running process wrote it
    result,   \* worker-result.json
    gui,      \* the GUI session: "up" or "stopped"
    sessions, \* gui-sessions.json names that session
    schema,   \* the database still has DATABASE_SCHEMA
    nonces,   \* how many transaction nonces have been drawn
    lock,     \* holder of the updates/lock flock
    worker,   \* program counter of the worker process
    daemon,   \* the system job: process state as launchd sees it
    captured, \* the start request the running daemon captured
    observed  \* installed version its updater verified, 0 when none

artifacts == <<app, incoming, service, stage>>
records == <<journal, last, pending, nonces>>
guis == <<gui, sessions>>
process == <<daemon, captured, observed>>
vars == <<artifacts, records, guis, request, ready, result, schema, lock, worker,
          process>>

-----------------------------------------------------------------------------
Versions == 1..MaxVersion
None == [nonce |-> 0]   \* an absent file; nonces are drawn from 1 on

Phases == {"Prepared", "Quiescing", "Replacing", "Starting", "Committed",
           "RollingBack", "RolledBack"}
Terminal == {"Committed", "RolledBack"}
Rolling == {"RollingBack", "RolledBack"}

\* The release the worker drives the two artifacts to, per journal phase.
Goal(j) == IF j.phase \in Rolling THEN j.old ELSE j.new
RequestFor(j) == [nonce |-> j.nonce, digest |-> Digest(Goal(j))]

\* validate: both artifacts of the transaction are where recovery needs them.
validate(j, staged) ==
    /\ {app, incoming} = {j.old, j.new}
    /\ staged.nonce = j.nonce
    /\ \/ service = Digest(j.old) /\ staged.digest = Digest(j.new)
       \/ service = Digest(j.new) /\ staged.digest = Digest(j.old)

\* Mutant: the published stage is rewritten from incoming on every recovery
stage_runtime_again(j) ==
    IF incoming = j.new
    THEN [nonce |-> j.nonce, digest |-> Digest(j.new)]
    ELSE stage

\* stage_runtime publishes the new runtime once, before anything is exchanged.
stage_runtime(j) ==
    IF stage = None /\ incoming = j.new
    THEN [nonce |-> j.nonce, digest |-> Digest(j.new)]
    ELSE stage

at_target(j) == app = Goal(j) /\ service = Digest(Goal(j))

save(phase) == journal' = [journal EXCEPT !.phase = phase]

rolled_back_candidate(v) ==
    /\ last # None
    /\ last.phase = "RolledBack"
    /\ last.new = v

requires_confirmed_retry ==
    \/ result # None /\ result.nonce = journal.nonce /\ result.error /\ ~result.deferred
    \/ rolled_back_candidate(journal.new)

\* cleanup_pending_locked, run to its end by a caller that leaves staged in
\* incoming: a retired transaction's private staging and records go.
cleanup_pending_locked(staged) ==
    /\ pending # None =>
        /\ journal = None
        /\ pending.nonce = last.nonce
        /\ pending.phase = last.phase
    /\ incoming' = staged
    /\ stage' = IF pending = None THEN stage ELSE None
    /\ request' = IF pending = None THEN request ELSE None
    /\ ready' = IF pending = None THEN ready ELSE None
    /\ sessions' = (sessions /\ pending = None)
    /\ pending' = None
    /\ UNCHANGED <<app, service, journal, last, nonces, gui>>

Retired == IF pending = None THEN incoming ELSE 0

-----------------------------------------------------------------------------
Init ==
    /\ app = 1 /\ incoming = 0 /\ service = Digest(1) /\ stage = None
    /\ journal = None /\ last = None /\ pending = None /\ nonces = 0
    /\ gui = "up" /\ sessions = FALSE
    /\ request = None /\ ready = None /\ result = None /\ schema = TRUE
    /\ lock = "free" /\ worker = "none" /\ daemon = "serving" /\ captured = None
    /\ observed = 0

-----------------------------------------------------------------------------
(* The serving daemon: discovery, preparation and dispatch *)

\* check_candidate verifies the installed pair and lets the lock go again.
check_candidate ==
    /\ daemon = "serving"
    /\ observed = 0
    /\ lock = "free"
    /\ journal = None
    /\ service = Digest(app)
    /\ observed' = app
    /\ UNCHANGED <<artifacts, records, guis, request, ready, result, schema, lock,
                   worker, daemon, captured>>

\* prepare_with_retry up to the download, which replaces whatever an attempt
\* without a journal left behind.  The lock stays held.
download(v) ==
    /\ observed # 0
    /\ lock = "free"
    /\ journal = None
    /\ v > observed
    /\ cleanup_pending_locked(v)
    /\ lock' = "daemon"
    /\ UNCHANGED <<result, schema, worker, process>>

\* Mutant: the journal is written before its nonce has been drawn
prepare_locked_undrawn(confirmed) ==
    /\ lock = "daemon"
    /\ lock' = "free"
    /\ observed' = 0
    /\ nonces < MaxNonce
    /\ nonces' = nonces + 1
    /\ journal' = [nonce |-> nonces, old |-> observed, new |-> incoming,
                   phase |-> "Prepared"]
    /\ UNCHANGED <<app, incoming, service, stage, last, pending, guis, request,
                   ready, result, schema, worker, daemon, captured>>

\* The verified candidate becomes a transaction, unless this very candidate
\* was rolled back before and nobody confirmed another try.
prepare_locked(confirmed) ==
    /\ lock = "daemon"
    /\ schema
    /\ lock' = "free"
    /\ observed' = 0
    /\ IF ~confirmed /\ rolled_back_candidate(incoming)
       THEN incoming' = 0 /\ UNCHANGED <<journal, nonces>>
       ELSE /\ nonces < MaxNonce
            /\ nonces' = nonces + 1
            /\ journal' = [nonce |-> nonces + 1, old |-> observed, new |-> incoming,
                           phase |-> "Prepared"]
            /\ UNCHANGED incoming
    /\ UNCHANGED <<app, service, stage, last, pending, guis, request, ready,
                   result, schema, worker, daemon, captured>>

\* Download or verification fails; incoming is left for the next attempt.
PreparationFails ==
    /\ lock = "daemon" \/ observed # 0
    /\ lock' = IF lock = "daemon" THEN "free" ELSE lock
    /\ observed' = 0
    /\ UNCHANGED <<artifacts, records, guis, request, ready, result, schema,
                   worker, daemon, captured>>

\* status: a prepared transaction, or one whose worker reported back.
can_install ==
    \/ journal.phase = "Prepared"
    \/ result # None /\ result.nonce = journal.nonce /\ result.error

\* The failure is recorded before the worker is submitted, so submission that
\* is cut short (submitted = FALSE) needs a confirmed retry.
dispatch_attempt(manual, submitted) ==
    /\ daemon = "serving"
    /\ lock = "free"
    /\ observed = 0
    /\ journal # None
    /\ can_install
    /\ manual \/ ~requires_confirmed_retry
    /\ result' = [nonce |-> journal.nonce, error |-> TRUE, deferred |-> FALSE]
    /\ worker' = IF submitted /\ worker = "none" THEN "submitted" ELSE worker
    /\ UNCHANGED <<artifacts, records, guis, request, ready, schema, lock,
                   process>>

-----------------------------------------------------------------------------
(* The daemon process under launchd, which relaunches it when it exits *)

\* The process ends; the flock and the GUI-independent memory go with it.
Exits(next) ==
    /\ daemon' = next
    /\ captured' = None
    /\ observed' = 0
    /\ ready' = IF ready = None THEN None ELSE [ready EXCEPT !.live = FALSE]
    /\ lock' = IF lock = "daemon" THEN "free" ELSE lock

DaemonDies ==
    /\ daemon \in {"parked", "booted", "serving"}
    /\ Exits("launching")
    /\ UNCHANGED <<artifacts, records, guis, request, result, schema, worker>>

\* restart_service: an acknowledged idle exit without a transaction.
restart_service ==
    /\ daemon = "serving"
    /\ observed = 0
    /\ lock = "free"
    /\ journal = None
    /\ Exits("launching")
    /\ UNCHANGED <<artifacts, records, guis, request, result, schema, worker>>

\* Mutant: an instance is let through in the middle of an exchange
allowed_any_phase ==
    /\ request = [nonce |-> journal.nonce, digest |-> service]
    /\ worker # "none"

\* Mutant: only a candidate is let through, not the runtime rolled back to
allowed_candidate_only ==
    \/ journal.phase = "Prepared" /\ requires_confirmed_retry
    \/ /\ journal.phase \in {"Starting", "Committed"}
       /\ request = [nonce |-> journal.nonce, digest |-> service]
       /\ worker # "none"

\* startup while a transaction is journalled: which instance may serve.
allowed ==
    \/ journal.phase = "Prepared" /\ requires_confirmed_retry
    \/ /\ journal.phase \in {"Starting"} \cup Rolling \cup Terminal
       /\ request = [nonce |-> journal.nonce, digest |-> service]
       /\ worker # "none"

\* startup returns false, then startup_callback captures the start request.
StartupServes ==
    /\ daemon = "launching"
    /\ IF journal = None
       THEN /\ lock = "free"
            /\ cleanup_pending_locked(Retired)
            /\ captured' = request'
       ELSE /\ allowed
            /\ journal.phase = "Prepared" => service = Digest(journal.old)
            /\ captured' = request
            /\ UNCHANGED <<artifacts, records, guis, request, ready>>
    /\ captured' # None => captured'.digest = service
    /\ daemon' = "booted"
    /\ UNCHANGED <<result, schema, lock, worker, observed>>

\* startup parks this instance and makes sure that a worker runs.  When
\* ensure_worker reports an error after the submission the process exits.
StartupParks(failed) ==
    /\ daemon = "launching"
    /\ journal # None
    /\ ~allowed
    /\ service \in {Digest(journal.old), Digest(journal.new)}
    /\ worker' = IF worker = "none" THEN "submitted" ELSE worker
    /\ daemon' = IF failed THEN "launching" ELSE "parked"
    /\ UNCHANGED <<artifacts, records, guis, request, ready, result, schema,
                   lock, captured, observed>>

\* Opening the database, a candidate may break its contract and migrate it.
CandidateMigrates ==
    /\ daemon = "booted"
    /\ journal # None
    /\ service = Digest(journal.new) /\ service # Digest(journal.old)
    /\ schema' = FALSE
    /\ UNCHANGED <<artifacts, records, guis, request, ready, result, lock,
                   worker, process>>

\* The transport is up; receipt::write binds readiness to the captured request.
\* A process whose receipt is refused stays up without serving.
Serves ==
    /\ daemon = "booted"
    /\ captured # None =>
        /\ schema
        /\ request = captured
    /\ daemon' = "serving"
    /\ ready' = IF captured = None THEN ready
                ELSE [nonce |-> captured.nonce, digest |-> captured.digest,
                      live |-> TRUE]
    /\ UNCHANGED <<artifacts, records, guis, request, result, schema, lock,
                   worker, captured, observed>>

-----------------------------------------------------------------------------
(* The worker: run_transaction_worker around resume_locked *)

\* Step of the worker that leaves everything but its own bookkeeping alone.
At(pc) == worker = pc /\ lock = "worker"

WorkerStarts ==
    /\ worker = "submitted"
    /\ lock = "free"
    /\ IF journal = None
       THEN /\ cleanup_pending_locked(Retired)
            /\ worker' = "none"
            /\ UNCHANGED <<lock, result>>
       ELSE /\ lock' = "worker"
            /\ worker' = "resume"
            /\ result' = [nonce |-> journal.nonce, error |-> FALSE, deferred |-> FALSE]
            /\ UNCHANGED <<artifacts, records, guis, request, ready>>
    /\ UNCHANGED <<schema, process>>

resume_locked ==
    /\ At("resume")
    /\ stage' = stage_runtime(journal)
    /\ validate(journal, stage')
    /\ schema
    /\ IF journal.phase \in Terminal
       THEN at_target(journal) /\ worker' = "ensure_serving"
       ELSE worker' = "quiesce"
    /\ IF journal.phase = "Prepared" THEN save("Quiescing") ELSE UNCHANGED journal
    /\ UNCHANGED <<app, incoming, service, last, pending, nonces, guis, request,
                   ready, result, schema, lock, process>>

\* Mutant: the sessions seen now replace the ones saved before a crash
QuiesceGuisForgetful ==
    /\ At("quiesce")
    /\ sessions' = (gui = "up")
    /\ worker' = "drain"
    /\ UNCHANGED <<artifacts, records, gui, request, ready, result, schema,
                   lock, process>>

\* quiesce, first part: the sessions to restore are durable before any stop.
QuiesceGuis ==
    /\ At("quiesce")
    /\ sessions' = (sessions \/ gui = "up")
    /\ worker' = "drain"
    /\ UNCHANGED <<artifacts, records, gui, request, ready, result, schema,
                   lock, process>>

\* quiesce, second part: GUIs stop, and a serving daemon acknowledges an idle
\* exit.  A parked or absent instance needs no drain, and one whose report of the
\* exit was visible and yet failed stays (UpdateDrain).
request_exit ==
    /\ At("drain")
    /\ gui' = "stopped"
    /\ worker' = "stop"
    /\ IF daemon \in {"booted", "serving"}
       THEN Exits("launching")
       ELSE UNCHANGED <<process, ready, lock>>
    /\ UNCHANGED <<artifacts, records, sessions, request, result, schema>>

\* quiesce, last part: bootout, whatever launchd has started by now.
StopDaemon ==
    /\ At("stop")
    /\ Exits("down")
    /\ worker' = IF journal.phase \in Terminal THEN "request" ELSE "check"
    /\ UNCHANGED <<artifacts, records, guis, request, result, schema>>

\* Mutant: a rollback does not look at the database again after the stop
CheckStoppedTrusting ==
    /\ At("check")
    /\ journal.phase \in Rolling \/ schema
    /\ validate(journal, stage)
    /\ IF journal.phase \in Rolling THEN UNCHANGED journal ELSE save("Replacing")
    /\ worker' = "exchange_app"
    /\ UNCHANGED <<artifacts, last, pending, nonces, guis, request, ready,
                   result, schema, lock, process>>

\* The worker looks again once nothing runs that could still write.
CheckStopped ==
    /\ At("check")
    /\ schema
    /\ validate(journal, stage)
    /\ IF journal.phase \in Rolling THEN UNCHANGED journal ELSE save("Replacing")
    /\ worker' = "exchange_app"
    /\ UNCHANGED <<artifacts, last, pending, nonces, guis, request, ready,
                   result, schema, lock, process>>

exchange_app ==
    /\ At("exchange_app")
    /\ IF app # Goal(journal)
       THEN app' = incoming /\ incoming' = app
       ELSE UNCHANGED <<app, incoming>>
    /\ worker' = "exchange_service"
    /\ UNCHANGED <<service, stage, records, guis, request, ready, result, schema,
                   lock, process>>

exchange_service ==
    /\ At("exchange_service")
    /\ IF service # Digest(Goal(journal))
       THEN service' = stage.digest /\ stage' = [stage EXCEPT !.digest = service]
       ELSE UNCHANGED <<service, stage>>
    /\ worker' = "starting"
    /\ UNCHANGED <<app, incoming, records, guis, request, ready, result, schema,
                   lock, process>>

SaveStarting ==
    /\ At("starting")
    /\ at_target(journal)
    /\ IF journal.phase \in Rolling THEN UNCHANGED journal ELSE save("Starting")
    /\ worker' = "request"
    /\ UNCHANGED <<artifacts, last, pending, nonces, guis, request, ready, result,
                   schema, lock, process>>

\* start: the receipt of an earlier start goes before the new request comes.
RequestStart ==
    /\ At("request")
    /\ service = Digest(Goal(journal))
    /\ ready' = None
    /\ request' = RequestFor(journal)
    /\ worker' = "bootstrap"
    /\ UNCHANGED <<artifacts, records, guis, result, schema, lock, process>>

Bootstrap ==
    /\ At("bootstrap")
    /\ daemon' = IF daemon = "down" THEN "launching" ELSE daemon
    /\ worker' = "ready"
    /\ UNCHANGED <<artifacts, records, guis, request, ready, result, schema, lock,
                   captured, observed>>

\* receipt::matches for the process launchd runs now.
matches ==
    /\ ready # None
    /\ ready.live
    /\ ready.nonce = journal.nonce
    /\ ready.digest = Digest(Goal(journal))
    /\ service = Digest(Goal(journal))

Ready ==
    /\ worker \in {"ensure_serving", "ready"} /\ lock = "worker"
    /\ matches
    /\ IF journal.phase \in Terminal THEN UNCHANGED journal
       ELSE IF journal.phase = "RollingBack" THEN save("RolledBack")
       ELSE schema /\ save("Committed")
    /\ worker' = "restore"
    /\ UNCHANGED <<artifacts, last, pending, nonces, guis, request, ready, result,
                   schema, lock, process>>

\* Mutant: the outcome is journalled before the rollback happens
CandidateFailsDecided ==
    /\ worker \in {"request", "bootstrap", "ready"} /\ lock = "worker"
    /\ journal.phase = "Starting"
    /\ save("RolledBack")
    /\ worker' = "quiesce"
    /\ UNCHANGED <<artifacts, last, pending, nonces, guis, request, ready, result,
                   schema, lock, process>>

\* The candidate does not start or is not ready within 45 seconds.
CandidateFails ==
    /\ worker \in {"request", "bootstrap", "ready"} /\ lock = "worker"
    /\ journal.phase = "Starting"
    /\ save("RollingBack")
    /\ worker' = "quiesce"
    /\ UNCHANGED <<artifacts, last, pending, nonces, guis, request, ready, result,
                   schema, lock, process>>

\* A finished transaction's daemon is not ready: stop it and start it again.
NotServing ==
    /\ At("ensure_serving")
    /\ worker' = "quiesce"
    /\ UNCHANGED <<artifacts, records, guis, request, ready, result, schema, lock,
                   process>>

restore_guis ==
    /\ At("restore")
    /\ gui' = IF sessions THEN "up" ELSE gui
    /\ worker' = "result"
    /\ UNCHANGED <<artifacts, records, sessions, request, ready, result, schema,
                   lock, process>>

\* finalize: evidence, cleanup intent, retirement, cleanup, in this order.
SaveResult ==
    /\ At("result")
    /\ last' = journal
    /\ worker' = "pending"
    /\ UNCHANGED <<artifacts, journal, pending, nonces, guis, request, ready,
                   result, schema, lock, process>>

SavePending ==
    /\ At("pending")
    /\ pending' = journal
    /\ worker' = "retire"
    /\ UNCHANGED <<artifacts, journal, last, nonces, guis, request, ready, result,
                   schema, lock, process>>

Retire ==
    /\ At("retire")
    /\ journal' = None
    /\ worker' = "cleanup"
    /\ UNCHANGED <<artifacts, last, pending, nonces, guis, request, ready, result,
                   schema, lock, process>>

\* cleanup of a retired transaction; it may be cut short after any removal.
Cleanup ==
    /\ At("cleanup")
    /\ \/ incoming' = 0 /\ UNCHANGED <<stage, request, ready, sessions>>
       \/ stage' = None /\ UNCHANGED <<incoming, request, ready, sessions>>
       \/ /\ incoming = 0 /\ stage = None
          /\ request' = None /\ ready' = None /\ sessions' = FALSE
          /\ UNCHANGED <<incoming, stage>>
    /\ UNCHANGED <<app, service, records, gui, result, schema, lock, worker, process>>

Cleaned ==
    /\ At("cleanup")
    /\ incoming = 0 /\ stage = None /\ request = None /\ ~sessions
    /\ pending' = None
    /\ result' = [nonce |-> last.nonce, error |-> FALSE, deferred |-> FALSE]
    /\ lock' = "free"
    /\ worker' = "none"
    /\ UNCHANGED <<artifacts, journal, last, nonces, guis, request, ready, schema,
                   process>>

\* Any effect may report an error, a busy daemon a deferral.  The journal stays
\* and the worker exits; quiesce has tried to bring the GUIs back.
WorkerFails(deferred) ==
    /\ lock = "worker"
    /\ deferred => worker = "drain"
    /\ result' = [nonce |-> IF journal = None THEN last.nonce ELSE journal.nonce,
                  error |-> TRUE, deferred |-> deferred]
    /\ gui' \in IF worker \in {"quiesce", "drain", "stop"} /\ sessions
                THEN {gui, "up"} ELSE {gui}
    /\ lock' = "free"
    /\ worker' = "none"
    /\ UNCHANGED <<artifacts, records, sessions, request, ready, schema, process>>

\* The worker is killed, or gives up waiting for the lock.
WorkerDies ==
    /\ worker # "none"
    /\ worker' = "none"
    /\ lock' = IF lock = "worker" THEN "free" ELSE lock
    /\ UNCHANGED <<artifacts, records, guis, request, ready, result, schema,
                   process>>

\* Power loss or reboot: launchd knows the system job again, not the worker.
Reboot ==
    /\ worker' = "none"
    /\ lock' = "free"
    /\ daemon' = "launching"
    /\ captured' = None
    /\ observed' = 0
    /\ ready' = IF ready = None THEN None ELSE [ready EXCEPT !.live = FALSE]
    /\ gui' = "up"
    /\ UNCHANGED <<artifacts, records, sessions, request, result, schema>>

-----------------------------------------------------------------------------
DaemonStep ==
    \/ check_candidate
    \/ \E v \in Versions : download(v)
    \/ \E c \in BOOLEAN : prepare_locked(c)
    \/ PreparationFails
    \/ \E manual, submitted \in BOOLEAN : dispatch_attempt(manual, submitted)
    \/ DaemonDies \/ restart_service
    \/ StartupServes
    \/ \E failed \in BOOLEAN : StartupParks(failed)
    \/ CandidateMigrates
    \/ Serves

WorkerStep ==
    \/ WorkerStarts \/ resume_locked
    \/ QuiesceGuis \/ request_exit \/ StopDaemon \/ CheckStopped
    \/ exchange_app \/ exchange_service
    \/ SaveStarting \/ RequestStart \/ Bootstrap
    \/ Ready \/ CandidateFails \/ NotServing
    \/ restore_guis
    \/ SaveResult \/ SavePending \/ Retire \/ Cleanup \/ Cleaned

Failure == (\E d \in BOOLEAN : WorkerFails(d)) \/ WorkerDies \/ Reboot

Next == DaemonStep \/ WorkerStep \/ Failure

Spec == Init /\ [][Next]_vars

\* Nothing and nobody but a reboot makes this machine serve again.
Unavailable ==
    /\ worker = "none"
    /\ \/ daemon \in {"down", "parked"}
       \/ daemon = "booted" /\ captured # None /\ request # captured

\* launchd relaunches an exited daemon and the worker is a running process; a
\* machine that has become unavailable is rebooted by its owner sooner or later.
FairSpec ==
    /\ Spec
    /\ WF_vars(WorkerStep)
    /\ WF_vars(StartupServes \/ StartupParks(FALSE))
    /\ WF_vars(Serves)
    /\ WF_vars(PreparationFails)
    /\ WF_vars(Unavailable /\ Reboot)

\* The steps in which something breaks that the code cannot prevent.
Disturbance ==
    \/ DaemonDies
    \/ StartupParks(TRUE)
    \/ \E d \in BOOLEAN : WorkerFails(d)
    \/ WorkerDies
    \/ ~Unavailable /\ Reboot

-----------------------------------------------------------------------------
(* Properties *)

Journals == [nonce : 1..MaxNonce, old : Versions, new : Versions, phase : Phases]

Exchanging == {"exchange_app", "exchange_service", "starting"}
Restarting == {"request", "bootstrap"}
Finalizing == {"result", "pending", "retire"}
Steps == {"resume", "ensure_serving", "quiesce", "drain", "stop", "check", "ready",
          "restore", "cleanup"} \cup Exchanging \cup Restarting \cup Finalizing

Requests == [nonce : 1..MaxNonce, digest : Nat]
Receipts == [nonce : 1..MaxNonce, digest : Nat, live : BOOLEAN]
Results == [nonce : 1..MaxNonce, error : BOOLEAN, deferred : BOOLEAN]

ArtifactTypes ==
    /\ app \in Versions /\ incoming \in 0..MaxVersion
    /\ service \in Nat
    /\ stage \in Requests \cup {None}

RecordTypes ==
    /\ {journal, last, pending} \subseteq Journals \cup {None}
    /\ {request, captured} \subseteq Requests \cup {None}
    /\ result \in Results \cup {None}
    /\ nonces \in 0..MaxNonce

ProcessTypes ==
    /\ gui \in {"up", "stopped"}
    /\ lock \in {"free", "daemon", "worker"}
    /\ worker \in {"none", "submitted"} \cup Steps
    /\ daemon \in {"down", "launching", "parked", "booted", "serving"}
    /\ observed \in 0..MaxVersion

FlagTypes == sessions \in BOOLEAN /\ schema \in BOOLEAN

\* Every record is absent or holds what its writer puts there; in particular a
\* nonce in use has been drawn for a transaction.
TypeOK ==
    /\ ArtifactTypes /\ RecordTypes /\ ProcessTypes /\ FlagTypes
    /\ ready \in Receipts \cup {None}

\* Whatever was interrupted where, an unresolved transaction finds both
\* artifacts in the places validate looks for them: automatic recovery is never
\* refused for missing or foreign staging.
Recoverable ==
    journal # None => validate(journal, stage_runtime(journal))

\* With no transaction under way the app and the root runtime are one release,
\* and a durable outcome tells which.
Consistent ==
    /\ journal = None => service = Digest(app)
    /\ journal # None /\ journal.phase \in Terminal => at_target(journal)

\* A database the candidate has migrated is never opened by the old runtime.
NeverDowngrades ==
    ~schema /\ daemon \in {"booted", "serving"} /\ journal # None
        => service = Digest(journal.new)

\* The GUI the updater stopped is remembered until it has been restored.
GuiObligation ==
    gui = "stopped" => sessions /\ (journal # None)

\* While the artifacts are exchanged towards the candidate no daemon serves.
ExchangeIsExclusive ==
    journal # None /\ journal.phase = "Replacing" => daemon \notin {"booted", "serving"}

\* Who holds the updater lock, and what its holder may rely on meanwhile.
LockDiscipline ==
    /\ lock = "worker" <=> worker \in Steps
    /\ lock = "daemon" => observed # 0 /\ stage = None /\ incoming > observed
    /\ observed # 0 => journal = None /\ lock # "worker" /\ observed = app

\* Where the worker stands agrees with what it has journalled and stopped.
WorkerPosition ==
    /\ worker \in Steps => (worker = "cleanup" <=> journal = None)
    /\ worker \in Steps \ {"resume", "cleanup"} => journal.phase # "Prepared"
    /\ worker \in {"ensure_serving", "restore"} \cup Finalizing => journal.phase \in Terminal
    /\ worker = "check" => journal.phase \notin Terminal
    /\ worker \in Exchanging => journal.phase \in {"Replacing", "RollingBack"} /\ schema
    /\ worker \in Restarting \cup {"ready"} =>
        /\ journal.phase \in {"Starting", "RollingBack"} \cup Terminal
        /\ at_target(journal)
    /\ worker \in {"check"} \cup Exchanging \cup Restarting => daemon = "down"
    /\ worker = "drain" => sessions
    /\ worker \in Finalizing \cup {"cleanup"} => gui = "up"
    /\ worker \in {"pending", "retire", "cleanup"} => last # None
    /\ worker \in {"retire", "cleanup"} => pending # None

\* What of a transaction is staged where, until its cleanup is over.
Staging ==
    /\ journal = None /\ pending = None => stage = None
    /\ journal # None =>
        /\ journal.old < journal.new
        /\ {app, incoming} = {journal.old, journal.new}
        /\ ~schema => service = Digest(journal.new)
        /\ IF stage = None
           THEN /\ journal.phase = "Prepared"
                /\ app = journal.old
                /\ service = Digest(journal.old)
           ELSE validate(journal, stage)

\* Every step of every process preserves this, and it implies the invariants
\* above: the transaction protocol is correct at each of its durable writes.
RecoveryInvariant ==
    /\ TypeOK /\ LockDiscipline /\ WorkerPosition /\ Staging
    /\ Consistent /\ GuiObligation /\ ExchangeIsExclusive

\* Once things stop breaking the daemon serves again and again, from wherever
\* the transaction was cut off, except on a database the candidate migrated.
ServiceReturns ==
    <>[][~Disturbance]_vars => []<>(daemon = "serving" \/ ~schema)

\* Recovery never starts an inconsistent app/runtime pair.
MixedPairNeverServes ==
    daemon \in {"booted", "serving"} => service = Digest(app)

\* Only a daemon that has acknowledged an idle exit is booted out.
NeverKillsServing ==
    At("stop") => daemon # "serving"
=============================================================================
