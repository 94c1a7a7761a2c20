---------------------------- MODULE UpdateDrain ----------------------------
(***************************************************************************)
(* The idle drain (daemon/host/src/maintenance.rs, the accept loop of      *)
(* server.rs and request_exit in daemon/macos/src/root_update/drain.rs):   *)
(* an updater asks a daemon process to exit, through two files both poll.  *)
(*                                                                         *)
(* The asker writes a request under a fresh nonce; the daemon freezes      *)
(* admission, looks for work and grants a lease, or reports that it is     *)
(* busy.  The asker commits, the daemon acknowledges and exits.  Clients,  *)
(* the command scheduler, lease timers, failing reads and reports, deaths  *)
(* of the asker and of the daemon interleave with every step.              *)
(***************************************************************************)
EXTENDS Integers

CONSTANTS
    MaxAttempts,  \* bound on the drain attempts
    MaxProcesses, \* bound on the processes launchd starts
    MaxWork       \* bound on each kind of concurrent work

ASSUME DrainAssumption ==
    MaxAttempts \in Nat /\ MaxProcesses \in Nat \ {0} /\ MaxWork \in Nat

VARIABLES
    asker,     \* request_exit: its state, its attempt nonce and the PID it saw
    attempts,  \* nonces drawn so far
    request,   \* drain-request.json
    response,  \* drain-response.json
    proc,      \* the daemon process: "unstarted", "serving" or "exited"
    pid,       \* its PID
    misled,    \* history: PIDs whose exit was reported and yet given up
    drain,     \* the lease of the accept loop, with its gate and scheduler guards
    elapsed,   \* the lease's deadline has passed
    expired,   \* expired_nonce
    observing, \* observe_update_work between its freeze and its answer
    active,    \* WorkGate: admitted calls
    scheduler, \* holder of update_scheduler_gate: "free", "running" or "drain"
    conns,     \* connections, streams included
    terminals, \* live terminal sessions
    jobs       \* live command jobs and agent runtimes

files == <<request, response>>
lease == <<drain, elapsed, expired, observing>>
work == <<active, scheduler, conns, terminals, jobs>>
process == <<proc, pid, misled>>
vars == <<asker, attempts, files, lease, work, process>>

-----------------------------------------------------------------------------
None == [nonce |-> 0]   \* an absent file or lease; nonces are drawn from 1 on
Attempts == 1..MaxAttempts
Counts == 0..MaxWork

\* WorkGate.draining: a DrainGuard is alive.
draining == drain # None \/ (observing # None /\ observing.guard)

Init ==
    /\ asker = [state |-> "idle", nonce |-> 0, pid |-> 0] /\ attempts = 0
    /\ request = None /\ response = None
    /\ proc = "serving" /\ pid = 1 /\ misled = {}
    /\ drain = None /\ elapsed = FALSE /\ expired = 0 /\ observing = None
    /\ active = 0 /\ scheduler = "free" /\ conns = 0 /\ terminals = 0 /\ jobs = 0

-----------------------------------------------------------------------------
(* The asker: request_exit *)

Ask(manual) ==
    /\ asker.state = "idle"
    /\ attempts < MaxAttempts
    /\ proc # "exited"
    /\ attempts' = attempts + 1
    /\ response' = None
    /\ request' = [nonce |-> attempts + 1, commit |-> FALSE, manual |-> manual]
    /\ asker' = [state |-> "asking", nonce |-> attempts + 1, pid |-> pid]
    /\ UNCHANGED <<lease, work, process>>

\* The job has no PID: request_exit returns Ok at once.
NothingToStop ==
    /\ asker.state = "idle"
    /\ proc = "exited"
    /\ asker' = [state |-> "stopping", nonce |-> 0, pid |-> pid]
    /\ UNCHANGED <<attempts, files, lease, work, process>>

Answered(state) ==
    /\ response # None
    /\ response.nonce = asker.nonce /\ response.pid = asker.pid
    /\ response.state = state

Commit ==
    /\ asker.state = "asking"
    /\ Answered("granted")
    /\ request' = [nonce |-> asker.nonce, commit |-> TRUE, manual |-> request.manual]
    /\ asker' = [asker EXCEPT !.state = "committed"]
    /\ UNCHANGED <<attempts, response, lease, work, process>>

\* Mutant: a grant is taken for an acknowledgement.
AcknowledgedEarly ==
    /\ asker.state = "committed"
    /\ Answered("exiting") \/ Answered("granted")
    /\ asker' = [asker EXCEPT !.state = "stopping"]
    /\ UNCHANGED <<attempts, files, lease, work, process>>

\* request_exit returns Ok: the caller may boot this process out.
Acknowledged ==
    /\ asker.state = "committed"
    /\ Answered("exiting")
    /\ asker' = [asker EXCEPT !.state = "stopping"]
    /\ UNCHANGED <<attempts, files, lease, work, process>>

\* Busy, expired, stale or no answer within eight seconds: the caller defers
\* and removes the request.
Deferred ==
    /\ asker.state \in {"asking", "committed"}
    /\ asker' = [asker EXCEPT !.state = "idle"]
    /\ request' = None
    /\ UNCHANGED <<attempts, response, lease, work, process>>

\* The asker is killed, leaving its request behind.
AskerDies ==
    /\ asker.state # "idle"
    /\ asker' = [asker EXCEPT !.state = "idle"]
    /\ UNCHANGED <<attempts, files, lease, work, process>>

-----------------------------------------------------------------------------
(* The daemon's 250 ms maintenance tick (100 ms before it ever was ready) *)

Ticks == proc # "exited" /\ observing = None

Release == IF scheduler = "drain" THEN "free" ELSE scheduler

\* The lease goes, and its guards with it.
Drop ==
    /\ drain' = None
    /\ elapsed' = FALSE
    /\ scheduler' = Release

LeaseFor(r) == drain # None /\ drain.nonce = r.nonce

Message(nonce, state) == [nonce |-> nonce, pid |-> pid, state |-> state]

Report(nonce, state) == response' = Message(nonce, state)

NoRequest ==
    /\ Ticks
    /\ request = None
    /\ Drop
    /\ expired' = 0
    /\ UNCHANGED <<asker, attempts, files, observing, active, conns, terminals, jobs,
                   process>>

\* A request that may open a lease: neither a commit nor one already given up.
Grantable ==
    /\ request # None /\ ~LeaseFor(request)
    /\ ~request.commit
    /\ expired # request.nonce

\* The report this tick has to make, if any.
Due ==
    IF request # None /\ LeaseFor(request)
    THEN Message(drain.nonce, IF elapsed THEN "expired"
                              ELSE IF request.commit THEN "exiting" ELSE "granted")
    ELSE IF proc = "unstarted" /\ Grantable THEN Message(request.nonce, "granted")
                                            ELSE response

\* Reading the request or reporting fails: keep the service available.  Dir::save
\* renames before it syncs the directory, so a report that failed may be visible.
\* A process that never listened remembers an expiry it could not report.
HookFails ==
    /\ Ticks
    /\ Drop
    /\ response' \in {response, Due}
    /\ misled' = IF response' # response /\ Due.state = "exiting" THEN misled \cup {pid}
                                                                 ELSE misled
    /\ \/ UNCHANGED expired
       \/ /\ proc = "unstarted" /\ request # None /\ LeaseFor(request) /\ elapsed
          /\ expired' = drain.nonce
    /\ UNCHANGED <<asker, attempts, request, observing, active, conns, terminals, jobs,
                   proc, pid>>

\* Mutant: an expired lease keeps its guards.
ExpireHolding ==
    /\ Ticks
    /\ request # None /\ LeaseFor(request)
    /\ elapsed
    /\ Report(drain.nonce, "expired")
    /\ expired' = drain.nonce
    /\ UNCHANGED <<asker, attempts, request, drain, elapsed, observing, work, process>>

Expire ==
    /\ Ticks
    /\ request # None /\ LeaseFor(request)
    /\ elapsed
    /\ Report(drain.nonce, "expired")
    /\ expired' = drain.nonce
    /\ Drop
    /\ UNCHANGED <<asker, attempts, request, observing, active, conns, terminals, jobs,
                   process>>

Renew ==
    /\ Ticks
    /\ request # None /\ LeaseFor(request)
    /\ ~elapsed /\ ~request.commit
    /\ Report(drain.nonce, "granted")
    /\ UNCHANGED <<asker, attempts, request, lease, work, process>>

\* Mutant: a commit is obeyed without a lease of this process.
ExitUngranted ==
    /\ Ticks
    /\ request # None
    /\ request.commit
    /\ Report(request.nonce, "exiting")
    /\ proc' = "exited"
    /\ drain' = None /\ elapsed' = FALSE /\ expired' = 0 /\ observing' = None
    /\ active' = 0 /\ scheduler' = "free" /\ conns' = 0 /\ terminals' = 0 /\ jobs' = 0
    /\ UNCHANGED <<asker, attempts, request, pid, misled>>

\* Only a lease that is still running turns a commit into an exit.
Exit ==
    /\ Ticks
    /\ request # None /\ LeaseFor(request)
    /\ ~elapsed /\ request.commit
    /\ Report(drain.nonce, "exiting")
    /\ proc' = "exited"
    /\ drain' = None /\ elapsed' = FALSE /\ expired' = 0 /\ observing' = None
    /\ active' = 0 /\ scheduler' = "free" /\ conns' = 0 /\ terminals' = 0 /\ jobs' = 0
    /\ UNCHANGED <<asker, attempts, request, pid, misled>>

\* Any other request under a new nonce only ends the lease of the old one.
Superseded ==
    /\ Ticks
    /\ request # None /\ ~LeaseFor(request)
    /\ request.commit \/ expired = request.nonce
    /\ Drop
    /\ UNCHANGED <<asker, attempts, files, expired, observing, active, conns, terminals,
                   jobs, process>>

\* Mutant: begin_drain overlooks the calls it has already admitted.
ObserveWhileActive ==
    /\ Ticks
    /\ proc = "serving"
    /\ Grantable
    /\ observing' = [nonce |-> request.nonce, manual |-> request.manual,
                     guard |-> TRUE, paused |-> Release = "free",
                     conns |-> conns, terminals |-> terminals]
    /\ scheduler' = IF Release = "free" THEN "drain" ELSE scheduler
    /\ drain' = None /\ elapsed' = FALSE
    /\ UNCHANGED <<asker, attempts, files, expired, active, conns, terminals, jobs,
                   process>>

\* A new request: pause the scheduler, freeze admission, then look for work.
Observe ==
    /\ Ticks
    /\ proc = "serving"
    /\ Grantable
    /\ observing' = [nonce |-> request.nonce, manual |-> request.manual,
                     guard |-> active = 0, paused |-> Release = "free",
                     conns |-> conns, terminals |-> terminals]
    /\ scheduler' = IF Release = "free" THEN "drain" ELSE scheduler
    /\ drain' = None /\ elapsed' = FALSE
    /\ UNCHANGED <<asker, attempts, files, expired, active, conns, terminals, jobs,
                   process>>

\* Mutant: a confirmed installation also waives the work that is running.
blocks_update_waived(o) ==
    ~o.manual /\ (o.conns # 0 \/ o.terminals # 0 \/ jobs # 0 \/ active # 0)

blocks_update(o) ==
    (~o.manual /\ o.conns # 0) \/ o.terminals # 0 \/ jobs # 0 \/ active # 0

\* The observation ends; reporting it may fail, visibly or not, which gives up
\* the lease.
Observed(reported) ==
    /\ observing # None
    /\ observing' = None
    /\ LET granted == observing.guard /\ observing.paused /\ ~blocks_update(observing)
       IN  /\ IF granted /\ reported
              THEN /\ drain' = [nonce |-> observing.nonce, manual |-> observing.manual]
                   /\ UNCHANGED scheduler
              ELSE /\ drain' = None
                   /\ scheduler' = IF observing.paused THEN "free" ELSE scheduler
           /\ \/ Report(observing.nonce, IF granted THEN "granted" ELSE "busy")
              \/ ~reported /\ UNCHANGED response
    /\ elapsed' = FALSE
    /\ UNCHANGED <<asker, attempts, request, expired, active, conns, terminals, jobs,
                   process>>

\* wait_unstarted_drain: a process that never listened has nothing to observe.
GrantUnstarted ==
    /\ Ticks
    /\ proc = "unstarted"
    /\ Grantable
    /\ drain' = [nonce |-> request.nonce, manual |-> request.manual]
    /\ elapsed' = FALSE
    /\ Report(request.nonce, "granted")
    /\ UNCHANGED <<asker, attempts, request, expired, observing, work, process>>

\* Twenty seconds pass.
Elapse ==
    /\ drain # None
    /\ ~elapsed
    /\ elapsed' = TRUE
    /\ UNCHANGED <<asker, attempts, files, drain, expired, observing, work, process>>

-----------------------------------------------------------------------------
(* Work: clients, admitted calls, the command scheduler *)

\* The accept loop: an automatic lease yields to a client, whether or not that can
\* be reported, a confirmed one does not and rejects it.
Accept ==
    /\ proc = "serving" /\ observing = None
    /\ conns < MaxWork
    /\ drain # None => ~drain.manual
    /\ IF drain = None
       THEN UNCHANGED <<drain, elapsed, expired, scheduler, response>>
       ELSE /\ expired' = drain.nonce
            /\ UNCHANGED response \/ Report(drain.nonce, "busy")
            /\ Drop
    /\ conns' = conns + 1
    /\ UNCHANGED <<asker, attempts, request, observing, active, terminals, jobs,
                   process>>

\* Mutant: a connection that was never counted is released.
DisconnectRejected ==
    /\ proc = "serving"
    /\ conns' = conns - 1
    /\ UNCHANGED <<asker, attempts, files, lease, active, scheduler, terminals, jobs,
                   process>>

Disconnect ==
    /\ conns > 0
    /\ conns' = conns - 1
    /\ UNCHANGED <<asker, attempts, files, lease, active, scheduler, terminals, jobs,
                   process>>

\* WorkGate::enter, for an RPC or for a round of the cluster worker.
enter ==
    /\ proc = "serving"
    /\ ~draining
    /\ active < MaxWork
    /\ active' = active + 1
    /\ UNCHANGED <<asker, attempts, files, lease, scheduler, conns, terminals, jobs,
                   process>>

\* An admitted call ends and may leave a terminal, a job or an agent behind.
Leave ==
    /\ active > 0
    /\ active' = active - 1
    /\ \/ UNCHANGED <<terminals, jobs>>
       \/ terminals < MaxWork /\ terminals' = terminals + 1 /\ UNCHANGED jobs
       \/ jobs < MaxWork /\ jobs' = jobs + 1 /\ UNCHANGED terminals
    /\ UNCHANGED <<asker, attempts, files, lease, scheduler, conns, process>>

WorkEnds ==
    /\ \/ terminals > 0 /\ terminals' = terminals - 1 /\ UNCHANGED jobs
       \/ jobs > 0 /\ jobs' = jobs - 1 /\ UNCHANGED terminals
    /\ UNCHANGED <<asker, attempts, files, lease, active, scheduler, conns, process>>

\* run_due_schedules holds the scheduler gate while it starts due jobs.
SchedulerWakes ==
    /\ proc = "serving"
    /\ scheduler = "free"
    /\ scheduler' = "running"
    /\ UNCHANGED <<asker, attempts, files, lease, active, conns, terminals, jobs,
                   process>>

SchedulerStarts ==
    /\ scheduler = "running"
    /\ jobs < MaxWork
    /\ jobs' = jobs + 1
    /\ UNCHANGED <<asker, attempts, files, lease, active, scheduler, conns, terminals,
                   process>>

SchedulerSleeps ==
    /\ scheduler = "running"
    /\ scheduler' = "free"
    /\ UNCHANGED <<asker, attempts, files, lease, active, conns, terminals, jobs,
                   process>>

-----------------------------------------------------------------------------
(* The process *)

\* A process ends without acknowledgement, or the one that exited is relaunched.
Launch ==
    /\ pid < MaxProcesses
    /\ proc' = "unstarted" /\ pid' = pid + 1
    /\ drain' = None /\ elapsed' = FALSE /\ expired' = 0 /\ observing' = None
    /\ active' = 0 /\ scheduler' = "free" /\ conns' = 0 /\ terminals' = 0 /\ jobs' = 0
    /\ UNCHANGED <<asker, attempts, files, misled>>

\* on_ready has run; leases of wait_unstarted_drain are dropped with its future.
Ready ==
    /\ proc = "unstarted"
    /\ proc' = "serving"
    /\ drain' = None /\ elapsed' = FALSE /\ expired' = 0
    /\ UNCHANGED <<asker, attempts, files, observing, work, pid, misled>>

Asker ==
    (\E m \in BOOLEAN : Ask(m)) \/ NothingToStop \/ Commit \/ Acknowledged \/ Deferred \/ AskerDies

Tick ==
    \/ NoRequest \/ Expire \/ Renew \/ Exit \/ Superseded \/ Observe \/ GrantUnstarted

Work ==
    \/ Accept \/ Disconnect \/ enter \/ Leave \/ WorkEnds
    \/ SchedulerWakes \/ SchedulerStarts \/ SchedulerSleeps

Next ==
    \/ Asker \/ Tick \/ HookFails
    \/ \E r \in BOOLEAN : Observed(r)
    \/ Elapse \/ Work \/ Launch \/ Ready

Spec == Init /\ [][Next]_vars

\* The accept loop keeps ticking and time passes.
FairSpec ==
    /\ Spec
    /\ WF_vars(Tick)
    /\ WF_vars(\E r \in BOOLEAN : Observed(r))
    /\ WF_vars(Elapse)

-----------------------------------------------------------------------------
(* Properties *)

Leases == [nonce : Attempts, manual : BOOLEAN]
Observations == [nonce : Attempts, manual : BOOLEAN, guard : BOOLEAN, paused : BOOLEAN,
                 conns : Counts, terminals : Counts]

AttemptTypes ==
    /\ asker \in [state : {"idle", "asking", "committed", "stopping"},
                  nonce : 0..MaxAttempts, pid : 0..MaxProcesses]
    /\ attempts \in 0..MaxAttempts /\ expired \in 0..MaxAttempts
    /\ request \in [nonce : Attempts, commit : BOOLEAN, manual : BOOLEAN] \cup {None}

ReportTypes ==
    /\ response \in [nonce : Attempts, pid : 1..MaxProcesses,
                     state : {"granted", "busy", "expired", "exiting"}] \cup {None}
    /\ proc \in {"unstarted", "serving", "exited"} /\ pid \in 1..MaxProcesses
    /\ misled \subseteq 1..MaxProcesses

LeaseTypes ==
    /\ drain \in Leases \cup {None} /\ elapsed \in BOOLEAN
    /\ observing \in Observations \cup {None}

WorkTypes ==
    /\ active \in Counts /\ conns \in Counts /\ terminals \in Counts /\ jobs \in Counts
    /\ scheduler \in {"free", "running", "drain"}

\* Files, leases and counters hold what their writers put there.
TypeOK == AttemptTypes /\ ReportTypes /\ LeaseTypes /\ WorkTypes

\* A daemon that is leased to an updater has no work, and cannot get any.
LeaseIsIdle ==
    drain # None =>
        /\ active = 0 /\ terminals = 0 /\ jobs = 0
        /\ proc = "serving" => scheduler = "drain"
        /\ drain.manual \/ conns = 0

\* A daemon only ever acknowledges an exit that kills nothing: no admitted call,
\* no terminal, no job, no agent, and no client unless the user confirmed.
IdleExit ==
    [][proc # "exited" /\ proc' = "exited" =>
           /\ active = 0 /\ terminals = 0 /\ jobs = 0
           /\ scheduler # "running"
           /\ request.manual \/ conns = 0]_vars

\* A process has ended: it exited by itself or a later one runs.
Gone(p) == pid > p \/ (pid = p /\ proc = "exited")

\* request_exit returns Ok only for a process that has gone by itself: the caller
\* boots nothing out that serves.  The exception is a process that reported its
\* exit, could not sync the directory and so stayed (store.rs:454, server.rs:411).
StopsOnlyTheGone ==
    asker.state = "stopping" => Gone(asker.pid) \/ asker.pid \in misled

\* Frozen admission thaws, whether the asker commits, defers or dies, unless the
\* daemon exits: no attempt can close a daemon to its clients for good.
AdmissionReturns == draining ~> ~draining

-----------------------------------------------------------------------------
(* The inductive invariant *)

\* Every nonce in use was drawn, so the next one is new to both sides.
NoncesWereDrawn ==
    {asker.nonce, request.nonce, drain.nonce, observing.nonce, response.nonce}
        \subseteq 0..attempts

\* A live asker owns the request file, and a lease was asked for the way its
\* commit will be.
RequestIsOwned ==
    /\ asker.state \in {"asking", "committed"} =>
           request # None /\ request.nonce = asker.nonce
    /\ request # None => \A l \in {drain, observing} :
           l # None /\ l.nonce = request.nonce => l.manual = request.manual

\* What has been seen while admission is frozen stays true until the answer.
FrozenObservation ==
    observing # None =>
        /\ proc = "serving" /\ drain = None
        /\ observing.guard => active = 0 /\ terminals <= observing.terminals
        /\ observing.paused => scheduler = "drain"
        /\ conns <= observing.conns

\* Before it listens and after it exits a daemon has no work.
NoWorkUnlessServing ==
    proc # "serving" =>
        /\ active = 0 /\ conns = 0 /\ terminals = 0 /\ jobs = 0
        /\ scheduler = "free"

\* The acknowledgement of an exit outlives the process that wrote it, unless the
\* report failed after it was visible.
AcknowledgedIsGone ==
    response # None /\ response.state = "exiting" =>
        Gone(response.pid) \/ response.pid \in misled

\* A granted lease and an acknowledged exit keep their promises in every state
\* of the two files, the lease, the gate and the work: the invariant that the
\* other properties follow from.
DrainInvariant ==
    /\ TypeOK /\ LeaseIsIdle /\ StopsOnlyTheGone
    /\ NoncesWereDrawn /\ RequestIsOwned /\ FrozenObservation
    /\ NoWorkUnlessServing /\ AcknowledgedIsGone
=============================================================================
