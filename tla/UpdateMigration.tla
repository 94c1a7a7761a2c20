-------------------------- MODULE UpdateMigration --------------------------
(***************************************************************************)
(* The one-time migration of a macOS installation to the protected         *)
(* runtime: daemon/macos/src/root_update/migration.rs, with the parts of   *)
(* runtime.rs (startup, ensure_worker, worker) and launchd.rs it uses.     *)
(*                                                                         *)
(* An administrator prepares: the app is staged, the runtime published,    *)
(* a record written and a worker submitted. The worker walks the phases of *)
(* the record; every phase is durable before what follows it, so a worker  *)
(* that dies, or a computer that restarts, resumes at the phase it finds.  *)
(* Meanwhile launchd keeps the daemon alive, and every instance decides by *)
(* the record whether it may open the database or must park. The migration *)
(* ends when the daemon has answered under the record's nonce, every       *)
(* session's GUI runs from the new registration, and the policy is on.     *)
(***************************************************************************)
EXTENDS Integers, FiniteSets

CONSTANTS
    Users,       \* users that log in
    Pids,        \* process ids of the daemon
    MaxFaults    \* bound on crashes, restarts, timeouts and refusals

MigrationAssumption ==
    /\ IsFiniteSet(Users) /\ Pids \subseteq Nat \ {0} /\ Cardinality(Pids) >= 4
    /\ MaxFaults \in Nat

VARIABLES
    disk,     \* the files: see Disk
    lock,     \* holder of the updater's lock
    prep,     \* the administrator's command
    work,     \* the worker: step, the pid it inspected
    job,      \* the daemon's launchd job: state and pid
    gui,      \* the GUI of each user: logged out, old or new registration
    served,   \* history since the computer started: whether a daemon answered under the
              \* nonce ("yes", "no"), or the first one got the pid of the receipt ("reused")
    faults

vars == <<disk, lock, prep, work, job, gui, served, faults>>

Phases == {"none", "Prepared", "Stopping", "Registered", "Starting", "Complete"}
NoGuis == {"none"}

\* migration.json, the staged app, the runtime, start-request.json, ready.json
\* and parked.json, both registrations, migration-guis.json, the result and
\* the policy.
Disk == [phase : Phases, stage : BOOLEAN, tmp : {"none", "partial", "whole"},
         runtime : {"none", "partial", "whole"}, request : BOOLEAN,
         ready : Pids \cup {0}, parked : Pids \cup {0},
         plist : {"legacy", "new"}, guiPlist : {"old", "new"},
         guis : (SUBSET Users) \cup {NoGuis}, result : BOOLEAN, policy : BOOLEAN]

JobStates == {"absent", "legacy", "down", "boot", "park", "parking", "parked", "open", "serving"}

TypeOK ==
    /\ disk \in Disk /\ disk.runtime # "partial"
    /\ lock \in {"", "prepare", "worker"} /\ faults \in 0..MaxFaults
    /\ job.state \in JobStates /\ job.pid \in Pids \cup {0}
    /\ gui \in [Users -> {"out", "old", "new"}] /\ served \in {"no", "yes", "reused"}
    /\ lock = "worker" <=> work.step \notin {"none", "begin"}
    /\ lock = "prepare" <=> prep \notin {"none", "submit"}

Init ==
    /\ disk = [phase |-> "none", stage |-> FALSE, tmp |-> "none", runtime |-> "none",
               request |-> FALSE, ready |-> 0, parked |-> 0, plist |-> "legacy",
               guiPlist |-> "old", guis |-> NoGuis, result |-> FALSE, policy |-> FALSE]
    /\ lock = "" /\ prep = "none" /\ work = [step |-> "none", pid |-> 0]
    /\ job = [state |-> "legacy", pid |-> 0]
    /\ gui \in [Users -> {"out", "old"}] /\ served = "no" /\ faults = 0

Write(f, v) == disk' = [disk EXCEPT ![f] = v]
Fault == faults < MaxFaults /\ faults' = faults + 1

-----------------------------------------------------------------------------
(* prepare: the administrator's command, also used to resume. *)

\* ensure_worker, without the lock.
ensure_worker == work' = IF work.step = "none" THEN [step |-> "begin", pid |-> 0] ELSE work

prepare ==
    /\ prep = "none" /\ ~(disk.policy /\ disk.phase = "none")
    /\ IF lock # "" THEN UNCHANGED <<lock, prep>>
       ELSE IF disk.phase # "none" THEN prep' = "submit" /\ UNCHANGED lock
       ELSE prep' = "stage" /\ lock' = "prepare"
    /\ UNCHANGED <<disk, work, job, gui, served, faults>>
PrepareStep(at, to) == prep = at /\ prep' = to /\ UNCHANGED <<work, job, gui, served, faults>>
Stage == PrepareStep("stage", "copy") /\ Write("stage", TRUE) /\ UNCHANGED lock
\* publish_initial_runtime: staged apart, then published whole, once.
CopyInPlace == Write("runtime", "partial")
CopyApart == Write("tmp", "partial")
Copy ==
    /\ PrepareStep("copy", IF disk.runtime = "none" THEN "copied" ELSE "save")
    /\ IF disk.runtime = "none" THEN CopyApart ELSE UNCHANGED disk
    /\ UNCHANGED lock
Copied == PrepareStep("copied", "publish") /\ Write("tmp", "whole") /\ UNCHANGED lock
Publish ==
    /\ PrepareStep("publish", "save") /\ disk.tmp = "whole"
    /\ disk' = [disk EXCEPT !.runtime = "whole", !.tmp = "none"] /\ UNCHANGED lock
SavePrepared == PrepareStep("save", "submit") /\ Write("phase", "Prepared") /\ lock' = ""
Submit ==
    /\ prep = "submit" /\ prep' = "none" /\ ensure_worker
    /\ UNCHANGED <<disk, lock, job, gui, served, faults>>

\* The administrator stops the legacy service in the maintenance window.
StopLegacy ==
    /\ job.state = "legacy" /\ job' = [state |-> "absent", pid |-> 0]
    /\ UNCHANGED <<disk, lock, prep, work, gui, served, faults>>

-----------------------------------------------------------------------------
(* The daemon's job, kept alive by launchd. *)

\* A pid nothing remembers; after a restart of the computer any may come.
Remembered == {disk.ready, disk.parked, work.pid}
NewPids(reboot) == IF reboot THEN Pids ELSE {p \in Pids : p \notin Remembered /\ p # job.pid}
Boots(reboot) == \E p \in NewPids(reboot) : job' = [state |-> "boot", pid |-> p]

KeepAlive ==
    /\ job.state = "down" /\ Boots(FALSE)
    /\ UNCHANGED <<disk, lock, prep, work, gui, served, faults>>
JobStep(at, to) == job.state = at /\ job' = [job EXCEPT !.state = to]

\* startup: without a record the daemon cleans up under the lock, and fails
\* when it is held; with one, it is allowed or parks.
allowed == disk.phase \in {"Starting", "Complete"} /\ disk.request /\ work.step # "none"
startup ==
    /\ IF disk.phase = "none"
       THEN IF lock = "" THEN JobStep("boot", "open") /\ Write("parked", 0)
            ELSE JobStep("boot", "down") /\ UNCHANGED disk
       ELSE IF allowed THEN JobStep("boot", "open") /\ Write("parked", 0)
            ELSE JobStep("boot", "park") /\ Write("ready", 0)
    /\ UNCHANGED <<lock, prep, work, gui, served, faults>>
Parks ==
    /\ JobStep("park", "parking") /\ Write("parked", job.pid)
    /\ UNCHANGED <<lock, prep, work, gui, served, faults>>
LaunchesWorker ==
    /\ JobStep("parking", "parked") /\ ensure_worker
    /\ UNCHANGED <<disk, lock, prep, gui, served, faults>>
\* The database is open and the transport listens: the receipt is written.
Serves ==
    /\ JobStep("open", "serving")
    /\ IF disk.request THEN Write("ready", job.pid) /\ served' = "yes" ELSE UNCHANGED <<disk, served>>
    /\ UNCHANGED <<lock, prep, work, gui, faults>>

-----------------------------------------------------------------------------
(* The worker: resume *)

At(s) == work.step = s
Go(s) == work' = [work EXCEPT !.step = s]
Exits == work' = [step |-> "none", pid |-> 0] /\ lock' = IF lock = "worker" THEN "" ELSE lock
WorkerKeeps == UNCHANGED <<prep, gui, served, faults>>

Resumes ==
    /\ At("begin")
    /\ IF disk.phase = "none" \/ lock # "" \/ ~disk.stage \/ disk.runtime # "whole"
       THEN Exits
       ELSE /\ lock' = "worker"
            /\ Go(CASE disk.phase \in {"Prepared", "Stopping"} -> "stop"
                    [] disk.phase = "Registered" -> "starting"
                    [] OTHER -> "start")
    /\ IF disk.phase = "Prepared" /\ work'.step = "stop" THEN Write("phase", "Stopping") ELSE UNCHANGED disk
    /\ UNCHANGED job /\ WorkerKeeps
stop_legacy ==
    /\ At("stop") /\ (IF job.state = "legacy" THEN Exits ELSE Go("register") /\ UNCHANGED lock)
    /\ UNCHANGED <<disk, job>> /\ WorkerKeeps
SkipsRegistration ==
    At("register") /\ Go("registered") /\ UNCHANGED <<disk, lock, job>> /\ WorkerKeeps
install_registration ==
    /\ At("register") /\ Go("registered") /\ Write("plist", "new")
    /\ UNCHANGED <<lock, job>> /\ WorkerKeeps
Registered ==
    /\ At("registered") /\ Go("starting") /\ Write("phase", "Registered")
    /\ UNCHANGED <<lock, job>> /\ WorkerKeeps
Starting ==
    /\ At("starting") /\ Go("start") /\ Write("phase", "Starting")
    /\ UNCHANGED <<lock, job>> /\ WorkerKeeps

\* ready_pid: the inspected process is not parked and the receipt is its own.
Alive == job.state \notin {"absent", "legacy", "down"}
ReadyAny(p) == p # 0 /\ disk.parked # p /\ disk.ready # 0
ready_pid(p) == p # 0 /\ disk.parked # p /\ disk.ready = p
InspectStart ==
    /\ At("start")
    /\ CASE job.state = "legacy" -> Exits
         [] job.state = "absent" -> Go("clear") /\ UNCHANGED lock
         [] OTHER -> Go(IF Alive /\ ready_pid(job.pid) THEN "health" ELSE "exit") /\ UNCHANGED lock
    /\ UNCHANGED <<disk, job>> /\ WorkerKeeps
\* request_exit inspects again: nothing runs, the process is parked, or it
\* agrees to exit when idle and launchd sees it go.
request_exit ==
    /\ At("exit") /\ Go("bootout") /\ UNCHANGED <<disk, lock>>
    /\ \/ (Alive => disk.parked = job.pid) /\ UNCHANGED job
       \/ /\ job.state = "serving" /\ disk.parked # job.pid
          /\ job' = [state |-> "down", pid |-> 0]
    /\ WorkerKeeps
Bootout ==
    /\ At("bootout") /\ Go("clear") /\ job' = [state |-> "absent", pid |-> 0]
    /\ UNCHANGED <<disk, lock>> /\ WorkerKeeps
Clear ==
    /\ At("clear") /\ Go("ask") /\ Write("ready", 0) /\ UNCHANGED <<lock, job>> /\ WorkerKeeps
AskReady ==
    /\ At("ask") /\ Go("launch") /\ Write("request", TRUE) /\ UNCHANGED <<lock, job>> /\ WorkerKeeps
Launch ==
    /\ At("launch") /\ Go("health")
    /\ IF job.state = "absent" THEN Boots(FALSE) ELSE UNCHANGED job
    /\ UNCHANGED <<disk, lock>> /\ WorkerKeeps

\* health: inspected, then the receipt and the running process verified.
InspectHealth ==
    /\ At("health") /\ Alive /\ work.pid # job.pid /\ work' = [work EXCEPT !.pid = job.pid]
    /\ UNCHANGED <<disk, lock, job>> /\ WorkerKeeps
health ==
    /\ At("health") /\ Alive /\ work.pid = job.pid /\ ready_pid(work.pid)
    /\ Go("agents") /\ Write("phase", "Complete")
    /\ UNCHANGED <<lock, job>> /\ WorkerKeeps

\* finalize_guis: the new registration first, then the sessions that have a
\* GUI, recorded before any is stopped.
InstallAgents ==
    /\ At("agents") /\ Go("record") /\ Write("guiPlist", "new")
    /\ UNCHANGED <<lock, job>> /\ WorkerKeeps
Sessions == {u \in Users : gui[u] # "out"}
Record ==
    /\ At("record") /\ Go("guis")
    /\ IF disk.guis = NoGuis THEN Write("guis", Sessions) ELSE UNCHANGED disk
    /\ UNCHANGED <<lock, job>> /\ WorkerKeeps
\* One session: gone, or stopped and started.
RestartGui(u) ==
    /\ At("guis") /\ u \in disk.guis /\ Write("guis", disk.guis \ {u})
    /\ gui' = [gui EXCEPT ![u] = IF @ = "out" THEN @ ELSE disk.guiPlist]
    /\ UNCHANGED <<lock, work, job, prep, served, faults>>
EnableAnyway == At("guis")
Finished == At("guis") /\ disk.guis = {}
enable ==
    /\ Finished /\ Go("result") /\ Write("policy", TRUE)
    /\ UNCHANGED <<lock, job>> /\ WorkerKeeps
SaveResult ==
    /\ At("result") /\ Go("retire") /\ Write("result", TRUE)
    /\ UNCHANGED <<lock, job>> /\ WorkerKeeps
Retire ==
    /\ At("retire") /\ Go("discard") /\ Write("phase", "none")
    /\ UNCHANGED <<lock, job>> /\ WorkerKeeps
Discard ==
    /\ At("discard") /\ Exits /\ Write("stage", FALSE)
    /\ UNCHANGED <<job, prep, gui, served, faults>>

-----------------------------------------------------------------------------
(* Faults, and users that come and go *)

\* A step of the worker is refused or takes too long: the record stays.
WorkerFails ==
    /\ work.step \in {"stop", "start", "exit", "health", "agents", "guis"} /\ Fault /\ Exits
    /\ UNCHANGED <<disk, prep, job, gui, served>>
WorkerDies ==
    /\ work.step # "none" /\ Fault /\ Exits
    /\ UNCHANGED <<disk, prep, job, gui, served>>
DaemonDies ==
    /\ Alive /\ Fault /\ job' = [state |-> "down", pid |-> 0]
    /\ UNCHANGED <<disk, lock, prep, work, gui, served>>
Restart ==
    /\ Fault /\ lock' = "" /\ prep' = "none" /\ work' = [step |-> "none", pid |-> 0]
    /\ IF disk.plist = "new" /\ disk.runtime = "whole" THEN Boots(TRUE)
       ELSE job' = [state |-> "legacy", pid |-> 0]
    /\ gui' = [u \in Users |-> "out"]
    /\ served' = IF job'.pid # 0 /\ job'.pid = disk.ready THEN "reused" ELSE "no"
    /\ UNCHANGED disk
PrepareDies ==
    /\ prep # "none" /\ Fault /\ prep' = "none" /\ lock' = IF lock = "prepare" THEN "" ELSE lock
    /\ UNCHANGED <<disk, work, job, gui, served>>
Login(u) ==
    /\ gui[u] = "out" /\ gui' = [gui EXCEPT ![u] = disk.guiPlist]
    /\ UNCHANGED <<disk, lock, prep, work, job, served, faults>>
Logout(u) ==
    /\ gui[u] # "out" /\ gui' = [gui EXCEPT ![u] = "out"]
    /\ UNCHANGED <<disk, lock, prep, work, job, served, faults>>

-----------------------------------------------------------------------------
PrepareSteps == Stage \/ Copy \/ Copied \/ Publish \/ SavePrepared \/ Submit
WorkerSteps ==
    \/ Resumes \/ stop_legacy \/ install_registration \/ Registered \/ Starting
    \/ InspectStart \/ request_exit \/ Bootout \/ Clear \/ AskReady \/ Launch
    \/ InspectHealth \/ health \/ InstallAgents \/ Record
    \/ (\E u \in Users : RestartGui(u)) \/ enable \/ SaveResult \/ Retire \/ Discard
DaemonSteps == KeepAlive \/ startup \/ Parks \/ LaunchesWorker \/ Serves
Next ==
    \/ prepare \/ PrepareSteps \/ StopLegacy \/ DaemonSteps \/ WorkerSteps
    \/ WorkerFails \/ WorkerDies \/ DaemonDies \/ Restart \/ PrepareDies
    \/ \E u \in Users : Login(u) \/ Logout(u)

\* Processes run, launchd keeps the daemon alive, and the administrator keeps
\* the legacy service stopped and repeats the command until it is done.
Fairness ==
    /\ SF_vars(prepare /\ lock = "") /\ WF_vars(PrepareSteps) /\ WF_vars(StopLegacy)
    /\ WF_vars(WorkerSteps) /\ WF_vars(DaemonSteps)
Spec == Init /\ [][Next]_vars
FairSpec == Spec /\ Fairness

-----------------------------------------------------------------------------
(* When the policy is on, no session runs a GUI of the old registration,   *)
(* whoever logged in or out while the worker enumerated, failed and        *)
(* resumed (finalize_guis).                                                *)
NoOldGui == disk.policy => \A u \in Users : gui[u] # "old"

(* The policy is on only once the registration is the protected one and    *)
(* the whole runtime is there, so that every later start of the computer   *)
(* boots it, and no record of an unfinished phase is left behind.          *)
PolicyIsWhole ==
    disk.policy =>
        /\ disk.plist = "new" /\ disk.runtime = "whole" /\ disk.phase \in {"Complete", "none"}
        /\ job.state # "legacy" /\ (disk.phase = "none" => disk.result)

(* The policy goes on only when a daemon has answered under the record's   *)
(* nonce since the computer started, also when the record was complete     *)
(* before (migration.rs:124-125), unless the restart gave the daemon the   *)
(* very pid of the receipt: ready_pid compares no more than the nonce and  *)
(* the pid (396-410), and a worker that inspects before that daemon has    *)
(* parked finds a receipt of the start before.                             *)
CompleteSinceStart == [][~disk.policy /\ disk'.policy => served # "no"]_vars

(* The worker never ends a process that is serving to repair the order of  *)
(* a start (migration.rs:476-477).                                         *)
NeverKillsWork == [][Bootout => job.state # "serving"]_vars

(* Once faults end, the migration is carried to its end.                   *)
Completes == <>[](disk.policy /\ disk.phase = "none")
=============================================================================
