----------------------------- MODULE CommandJobs -----------------------------
(***************************************************************************)
(* Jobs and schedules of the daemon (daemon/host/src/command.rs) and their *)
(* rows in the state database (daemon/host/src/state_db.rs).  One mutex    *)
(* guards the maps of jobs and schedules; the task of a job, the scheduler *)
(* and the deletions take it several times and act in between, and some    *)
(* rows are saved after it was released.                                   *)
(*                                                                         *)
(* Time runs in ticks, two to the second; occurrences fall on whole        *)
(* seconds, as RFC5545 times do.                                           *)
(***************************************************************************)
EXTENDS Integers, Sequences, FiniteSets, FiniteSetsExt, SequencesExt

CONSTANTS
    Schedules,    \* schedule ids
    MaxJobs,      \* bound on the jobs ever created
    MaxClock,     \* bound on the time
    MaxRevision,  \* bound on updated_at_ms
    Rules,        \* recurrence rules: functions from a name to a set of times
    Limit,        \* occurrences of one search, 16 in the code
    Deletes,      \* clients delete jobs
    Crashes       \* the daemon may stop and restart

CommandJobsAssumption ==
    /\ {MaxJobs, MaxClock, MaxRevision} \subseteq Nat /\ Limit \in Nat \ {0}
    /\ {Deletes, Crashes} \subseteq BOOLEAN
    /\ \A r \in DOMAIN Rules : \A t \in Rules[r] : t \in Nat /\ t % 2 = 0

JobIds == 1..MaxJobs
Manual == 0
ManualAssumption == Manual \notin Schedules

VARIABLES
    clock, up,
    sched,   \* CommandState.schedules: a function on the schedules that exist
    dbsched, \* command_schedules
    jobs,    \* CommandState.jobs
    dbjobs,  \* command_jobs
    task,    \* of a job: "none", "run", "ended", "persist", "done"
    due,     \* runs the scheduler collected
    tick,    \* the scheduler: "idle", "create", "advance"
    failed,  \* failed_schedules of this tick
    del,     \* delete_job calls under way
    made,    \* history: what every job was created for, and whether an edit overtook
             \* the checkpoint of its run
    epoch,   \* history: changes of a schedule's timing
    gone     \* history: jobs whose deletion has answered

memory == <<sched, jobs, task, due, tick, failed, del>>
vars == <<clock, up, memory, dbsched, dbjobs, made, epoch, gone>>

Without(f, S) == [x \in DOMAIN f \ S |-> f[x]]
With(f, x, v) == [y \in DOMAIN f \cup {x} |-> IF y = x THEN v ELSE f[y]]
Larger(a, b) == IF a < b THEN b ELSE a

\* new_schedule_checkpoint: just before the current second
new_schedule_checkpoint == (clock - (clock % 2)) - 1

Init ==
    /\ clock = 0 /\ up = TRUE
    /\ sched = <<>> /\ dbsched = <<>> /\ jobs = <<>> /\ dbjobs = <<>>
    /\ task = [j \in JobIds |-> "none"]
    /\ due = <<>> /\ tick = "idle" /\ failed = {} /\ del = {}
    /\ made = <<>> /\ epoch = [s \in Schedules |-> 0] /\ gone = {}

-----------------------------------------------------------------------------
(* The database: a job row needs its schedule, and goes with it             *)

SavedUnchecked(rows, j, info) == With(rows, j, info)

save_job(rows, j, info) ==
    IF info.reason # Manual /\ info.reason \notin DOMAIN dbsched THEN rows
    ELSE With(rows, j, info)

-----------------------------------------------------------------------------
(* Schedules                                                                *)

create_schedule(s) ==
    /\ up /\ epoch[s] = 0
    /\ \E r \in DOMAIN Rules :
         LET info == [rule |-> r, enabled |-> TRUE, archived |-> FALSE, launch |-> 0, rev |-> clock]
         IN  /\ dbsched' = With(dbsched, s, info)
             /\ sched' = With(sched, s, [info |-> info, checked |-> new_schedule_checkpoint])
    /\ epoch' = [epoch EXCEPT ![s] = 1]
    /\ UNCHANGED <<clock, up, jobs, dbjobs, task, due, tick, failed, del, made, gone>>

\* next_schedule_revision
Revised(old) == Larger(clock, old + 1)

Timing(info) == <<info.rule, info.enabled, info.archived>>

\* A change of the timing resets the checkpoint; other edits keep it.
CheckpointAfter(s, info) ==
    IF Timing(info) # Timing(sched[s].info) THEN new_schedule_checkpoint ELSE sched[s].checked

\* The lock is free between the creation of a job and its checkpoint: the checkpoint of
\* the old revision is then not taken.  The history remembers the job.
Overtaken(s) ==
    IF tick = "advance" /\ Head(due).s = s
    THEN [made EXCEPT ![Max({j \in DOMAIN made : made[j].s = s})].overtaken = TRUE]
    ELSE made

update_schedule(s) ==
    /\ up /\ s \in DOMAIN sched /\ Revised(sched[s].info.rev) <= MaxRevision
    /\ \E r \in DOMAIN Rules, enabled, archived \in BOOLEAN :
         LET info == [rule |-> r, enabled |-> enabled, archived |-> archived,
                      launch |-> sched[s].info.launch + 1, rev |-> Revised(sched[s].info.rev)]
         IN  /\ dbsched' = With(dbsched, s, info)
             /\ sched' = With(sched, s, [info |-> info, checked |-> CheckpointAfter(s, info)])
             /\ epoch' = IF Timing(info) = Timing(sched[s].info) THEN epoch
                         ELSE [epoch EXCEPT ![s] = @ + 1]
    /\ made' = Overtaken(s)
    /\ UNCHANGED <<clock, up, jobs, dbjobs, task, due, tick, failed, del, gone>>

JobsOf(f, s) == {j \in DOMAIN f : f[j].reason = s}

\* The rows of the jobs go with the schedule's; their tasks are killed.
delete_schedule_and_jobs(s) ==
    /\ up /\ s \in DOMAIN sched
    /\ dbsched' = Without(dbsched, {s}) /\ dbjobs' = Without(dbjobs, JobsOf(dbjobs, s))
    /\ sched' = Without(sched, {s}) /\ jobs' = Without(jobs, JobsOf(jobs, s))
    /\ UNCHANGED <<clock, up, task, due, tick, failed, del, made, epoch, gone>>

-----------------------------------------------------------------------------
(* Jobs                                                                     *)

NextJob == Cardinality(DOMAIN made) + 1

\* create_job_with_reason_checked: the row is saved before the record is
\* inserted and the task spawned.
Create(reason, rule, launch, planned) ==
    LET j == NextJob
        info == [reason |-> reason, rule |-> rule, planned |-> planned, status |-> "running"]
    IN  /\ j \in JobIds
        /\ dbjobs' = save_job(dbjobs, j, info)
        /\ jobs' = With(jobs, j, info) /\ task' = [task EXCEPT ![j] = "run"]
        /\ made' = With(made, j, [s |-> reason, rule |-> rule, planned |-> planned, launch |-> launch,
                                  epoch |-> IF reason = Manual THEN 0 ELSE epoch[reason],
                                  overtaken |-> FALSE,
                                  current |-> IF reason = Manual THEN launch
                                              ELSE sched[reason].info.launch])

create_job ==
    /\ up /\ Create(Manual, Manual, 0, 0)
    /\ UNCHANGED <<clock, up, sched, dbsched, due, tick, failed, del, epoch, gone>>

\* The process ends by itself, at its timeout or when it is killed.
JobEnds(j) ==
    /\ up /\ task[j] = "run" /\ task' = [task EXCEPT ![j] = "ended"]
    /\ UNCHANGED <<clock, up, sched, dbsched, jobs, dbjobs, due, tick, failed, del, made,
                   epoch, gone>>

finish_job(j) ==
    /\ up /\ task[j] = "ended"
    /\ IF j \in DOMAIN jobs
       THEN /\ jobs' = [jobs EXCEPT ![j].status = "exited"]
            /\ task' = [task EXCEPT ![j] = "persist"]
       ELSE task' = [task EXCEPT ![j] = "done"] /\ UNCHANGED jobs
    /\ UNCHANGED <<clock, up, sched, dbsched, dbjobs, due, tick, failed, del, made, epoch, gone>>

\* The copy taken under the lock is saved after it.
FinishSaves(j) ==
    /\ up /\ task[j] = "persist" /\ task' = [task EXCEPT ![j] = "done"]
    /\ dbjobs' = save_job(dbjobs, j, [reason |-> made[j].s, rule |-> made[j].rule,
                                        planned |-> made[j].planned, status |-> "exited"])
    /\ UNCHANGED <<clock, up, sched, dbsched, jobs, due, tick, failed, del, made, epoch, gone>>

\* delete_job: a running job is killed and its task awaited.
DeleteStarts(j, kill) ==
    /\ up /\ Deletes /\ j \in DOMAIN jobs /\ Cardinality(del) < 2
    /\ jobs[j].status = "running" => kill
    /\ del' = del \cup {[j |-> j, at |-> "db",
                         waits |-> jobs[j].status = "running" /\ ~(\E d \in del : d.j = j)]}
    /\ UNCHANGED <<clock, up, sched, dbsched, jobs, dbjobs, task, due, tick, failed, made,
                   epoch, gone>>

DeleteSaves(d) ==
    /\ up /\ d \in del /\ d.at = "db" /\ (d.waits => task[d.j] = "done")
    /\ dbjobs' = Without(dbjobs, {d.j})
    /\ del' = (del \ {d}) \cup {[d EXCEPT !.at = "memory"]}
    /\ UNCHANGED <<clock, up, sched, dbsched, jobs, task, due, tick, failed, made, epoch, gone>>

DeleteEnds(d) ==
    /\ up /\ d \in del /\ d.at = "memory"
    /\ jobs' = Without(jobs, {d.j}) /\ del' = del \ {d} /\ gone' = gone \cup {d.j}
    /\ UNCHANGED <<clock, up, sched, dbsched, dbjobs, task, due, tick, failed, made, epoch>>

-----------------------------------------------------------------------------
(* The scheduler                                                            *)

\* next_runs_for_rule: the first runs after the checkpoint, and whether there
\* are more of them up to now
Runs(x) == {t \in Rules[x.info.rule] : x.checked < t /\ t <= clock}
FirstRuns(x) == {t \in Runs(x) : Cardinality({u \in Runs(x) : u < t}) < Limit}

Active(x) == x.info.enabled /\ ~x.info.archived

next_schedule_checkpointNow(x) == clock
next_schedule_checkpointPast(x) == clock + 1

\* next_schedule_checkpoint: the last run when more were found, else now
next_schedule_checkpoint(x) == IF FirstRuns(x) # Runs(x) THEN Max(FirstRuns(x)) ELSE clock

DueOf(s) ==
    LET x == sched[s]
        runs == SetToSortSeq(FirstRuns(x), <)
    IN  IF ~Active(x) THEN <<>>
        ELSE [i \in DOMAIN runs |->
                 [s |-> s, rev |-> x.info.rev, rule |-> x.info.rule, launch |-> x.info.launch,
                  planned |-> runs[i],
                  after |-> IF i = Len(runs) THEN next_schedule_checkpoint(x) ELSE runs[i]]]

\* Due runs are collected under the lock, in the order of the schedules.
run_due_schedules ==
    /\ up /\ tick = "idle"
    /\ due' = FoldSeq(LAMBDA s, acc : acc \o DueOf(s), <<>>, SetToSortSeq(DOMAIN sched, <))
    /\ sched' = [s \in DOMAIN sched |->
                    IF Active(sched[s]) /\ Runs(sched[s]) # {} THEN sched[s]
                    ELSE [sched[s] EXCEPT !.checked = clock]]
    /\ tick' = (IF due' = <<>> THEN "idle" ELSE "create") /\ failed' = {}
    /\ UNCHANGED <<clock, up, dbsched, jobs, dbjobs, task, del, made, epoch, gone>>

Proceed == due' = Tail(due) /\ tick' = IF Len(due) = 1 THEN "idle" ELSE "create"

\* ScheduledJobGuard
GuardHoldsAlways(run) == run.s \in DOMAIN sched
GuardHolds(run) ==
    /\ run.s \in DOMAIN sched
    /\ sched[run.s].info.rev = run.rev /\ Active(sched[run.s])

CreateDue ==
    /\ up /\ tick = "create"
    /\ LET run == due[1]
       IN  IF run.s \notin failed /\ GuardHolds(run)
           THEN /\ Create(run.s, run.rule, run.launch, run.planned)
                /\ tick' = "advance" /\ UNCHANGED <<due, failed>>
           ELSE /\ failed' = failed \cup {run.s} /\ Proceed
                /\ UNCHANGED <<jobs, dbjobs, task, made>>
    /\ UNCHANGED <<clock, up, sched, dbsched, del, epoch, gone>>

advance_schedule_checkpoint ==
    /\ up /\ tick = "advance"
    /\ LET run == due[1]
       IN  sched' = IF run.s \in DOMAIN sched /\ sched[run.s].info.rev = run.rev
                    THEN [sched EXCEPT ![run.s].checked = Larger(@, run.after)] ELSE sched
    /\ Proceed
    /\ UNCHANGED <<clock, up, dbsched, jobs, dbjobs, task, failed, del, made, epoch, gone>>

-----------------------------------------------------------------------------
(* Time, crash and restart                                                  *)

Tick ==
    /\ clock < MaxClock /\ clock' = clock + 1
    /\ UNCHANGED <<up, memory, dbsched, dbjobs, made, epoch, gone>>

Crash ==
    /\ Crashes /\ up /\ up' = FALSE
    /\ sched' = <<>> /\ jobs' = <<>> /\ task' = [j \in JobIds |-> "none"]
    /\ due' = <<>> /\ tick' = "idle" /\ failed' = {} /\ del' = {}
    /\ UNCHANGED <<clock, dbsched, dbjobs, made, epoch, gone>>

RestoredCheckpointNow(s) == new_schedule_checkpoint

\* restored_schedule_checkpoints: past every run that a stored job was made for
\* under the same rule
RestoredCheckpoint(s) ==
    Max({new_schedule_checkpoint}
        \cup {dbjobs[j].planned : j \in {k \in JobsOf(dbjobs, s) : dbjobs[k].rule = dbsched[s].rule}})

RestoredAsStored(info) == info
\* A job that was running is closed as DaemonShuttingDown.
RestoredJob(info) == [info EXCEPT !.status = "exited"]

open ==
    /\ ~up /\ up' = TRUE
    /\ sched' = [s \in DOMAIN dbsched |-> [info |-> dbsched[s], checked |-> RestoredCheckpoint(s)]]
    /\ jobs' = [j \in DOMAIN dbjobs |-> RestoredJob(dbjobs[j])]
    /\ dbjobs' = jobs'
    /\ UNCHANGED <<clock, dbsched, task, due, tick, failed, del, made, epoch, gone>>

-----------------------------------------------------------------------------
Scheduler == run_due_schedules \/ CreateDue \/ advance_schedule_checkpoint

Next ==
    \/ \E s \in Schedules : create_schedule(s) \/ update_schedule(s) \/ delete_schedule_and_jobs(s)
    \/ create_job
    \/ \E j \in JobIds : \/ JobEnds(j) \/ finish_job(j) \/ FinishSaves(j)
                         \/ \E kill \in BOOLEAN : DeleteStarts(j, kill)
    \/ \E d \in del : DeleteSaves(d) \/ DeleteEnds(d)
    \/ Scheduler \/ Tick \/ Crash \/ open

Spec == Init /\ [][Next]_vars

\* The scheduler's task runs.
Fairness == WF_vars(Scheduler)
FairSpec == Spec /\ Fairness

-----------------------------------------------------------------------------
(* Properties                                                               *)

TypeOK ==
    /\ DOMAIN sched \subseteq Schedules /\ DOMAIN jobs \subseteq JobIds
    /\ tick # "idle" <=> due # <<>>
    /\ \A s \in DOMAIN sched : sched[s].checked \in -1..clock

\* command.rs 1184-1249, 1542-1572: one occurrence of a schedule makes one job,
\* whatever the retries, edits of its metadata and restarts, unless its timing
\* was changed or its job deleted meanwhile, or the schedule was edited between
\* the creation of the job (1221) and its checkpoint (1225): the guard of the
\* revision (1246) then drops the checkpoint, and the next tick runs it again.
NoDuplicateRun ==
    \A i, j \in DOMAIN made :
        made[i].s # Manual /\ i < j /\ i \in DOMAIN dbjobs /\ ~made[i].overtaken =>
            <<made[i].s, made[i].planned, made[i].epoch>> # <<made[j].s, made[j].planned, made[j].epoch>>

\* command.rs 776-784, 1216-1234: a due run that was collected before an edit
\* starts no job: a job runs what its schedule says when the job is made.
RunsAreCurrent == \A j \in DOMAIN made : made[j].launch = made[j].current

\* command.rs 240-250, 944-963: a job that is shown as running has a task that
\* will end it, after a restart too.
RunningHasTask ==
    \A j \in DOMAIN jobs : jobs[j].status = "running" => task[j] \in {"run", "ended"}

\* command.rs 1011-1045, state_db.rs 333-342: with a schedule its jobs are
\* deleted for good: no late save of a finishing job brings one back.
DeletedSchedulesGone ==
    /\ \A j \in DOMAIN dbjobs : dbjobs[j].reason = Manual \/ dbjobs[j].reason \in DOMAIN dbsched
    /\ up => \A j \in DOMAIN jobs : jobs[j].reason = Manual \/ jobs[j].reason \in DOMAIN sched

\* command.bdl 61: a job whose deletion was answered is deleted.
DeletedJobsGone == gone \cap DOMAIN dbjobs = {}

\* command.rs 1156-1249: an occurrence that passed while its schedule was active
\* makes its job, however many were due at once. While a client subscribes to jobs
\* or schedules it may not: notify_jobs and notify_schedules (1138-1148) then block
\* the scheduler, as notify_output does in JobOutput; here they return.
DueRunsHappen ==
    \A s \in Schedules, t \in 0..MaxClock :
        (/\ s \in DOMAIN sched /\ Active(sched[s]) /\ t \in Rules[sched[s].info.rule]
         /\ sched[s].checked < t /\ t <= clock)
        ~> \/ s \notin DOMAIN sched \/ ~Active(sched[s])
           \/ \E j \in DOMAIN made : made[j].s = s /\ made[j].planned = t
           \/ t \notin Rules[sched[s].info.rule] \/ NextJob \notin JobIds
=============================================================================
