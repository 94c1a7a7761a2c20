-------------------------- MODULE MCHostWork --------------------------------
(* The work a host does for its clients: terminals, commands and agent       *)
(* sessions, and the session of a web client. The components share no state, *)
(* so one of them runs in each behaviour; a component that is asked several  *)
(* questions appears once for each, with the bounds that make the case       *)
(* happen. WebSession is extended, so that the run checks the definitions of *)
(* SessionProofs themselves.                                                 *)
EXTENDS WebSession, Integers, Sequences, FiniteSets, TLC

CONSTANTS c1, a1, a2, q1, q2  \* model values

VARIABLES
    part,  \* the component that runs
    \* TerminalSessions
    listed, session, closing, host, reader, terminalChild, casts, table, att,
    \* TerminalSessions
    tableListed, tableSession, tableClosing, tableHost, tableReader, tableChild,
    tableCasts, tableTable, tableAtt,
    \* UserTerminal
    spawn, userClient, startup, userClosed, control, commands, request, response,
    pipe, user, userChild, ended, events, outcome, early,
    \* CommandJobs
    jobsClock, up, sched, dbsched, jobs, dbjobs, task, due, tick, failed, del, made,
    epoch, gone,
    \* CommandProcess
    kind, phase, reason, processChild, grandchild, stdin, written, captured,
    truncated, readers, aborted, asked,
    \* JobOutput
    output, status, rows, writer, finish, version, outputSub, outputClient,
    overlapped, crashes,
    \* AgentSessions
    row, runtime, lock, caller, proc, inbox, consumer, agentLive, pending, config,
    turnCall, agentUpdate, agentSub, prompts, faults,
    \* AgentHistory
    latest, completed, historyLive, turnWork, historyUpdate, updates, historyClient,
    \* AgentCatalog
    catalogClock, updated, archived, revision, changes, walk, disturbed

\* A rule that fires every second and one that fires once.
Every == "every" :> {2, 4}
EveryAndOnce == Every @@ ("once" :> {2})

Streams == INSTANCE TerminalSessions WITH Ids <- {1}, Attaches <- {1},
    MaxOutput <- 3, Retained <- 2, Capacity <- 2, TableCapacity <- 2,
    Subscribed <- FALSE, child <- terminalChild
Control == INSTANCE TerminalSessions WITH Ids <- {1}, Attaches <- {1, 2},
    MaxOutput <- 0, Retained <- 2, Capacity <- 1, TableCapacity <- 2,
    Subscribed <- FALSE, child <- terminalChild
Table == INSTANCE TerminalSessions WITH Ids <- {1, 2}, Attaches <- {},
    MaxOutput <- 0, Retained <- 1, Capacity <- 2, TableCapacity <- 1,
    Subscribed <- TRUE, listed <- tableListed, session <- tableSession,
    closing <- tableClosing, host <- tableHost, reader <- tableReader,
    child <- tableChild, casts <- tableCasts, table <- tableTable, att <- tableAtt
Rows == INSTANCE TerminalSessions WITH Ids <- {1}, Attaches <- {1},
    MaxOutput <- 0, Retained <- 1, Capacity <- 1, TableCapacity <- 1,
    Subscribed <- TRUE, listed <- tableListed, session <- tableSession,
    closing <- tableClosing, host <- tableHost, reader <- tableReader,
    child <- tableChild, casts <- tableCasts, table <- tableTable, att <- tableAtt
Ending == INSTANCE TerminalSessions WITH Ids <- {1}, Attaches <- {1},
    MaxOutput <- 1, Retained <- 1, Capacity <- 2, TableCapacity <- 2,
    Subscribed <- FALSE, child <- terminalChild
User == INSTANCE UserTerminal WITH MaxInput <- 2, client <- userClient,
    closed <- userClosed, child <- userChild
Jobs == INSTANCE CommandJobs WITH Schedules <- {1}, MaxJobs <- 2, MaxClock <- 4,
    MaxRevision <- 2, Rules <- EveryAndOnce, Limit <- 1, Deletes <- FALSE,
    Crashes <- TRUE, clock <- jobsClock
Deleting == INSTANCE CommandJobs WITH Schedules <- {1}, MaxJobs <- 1, MaxClock <- 2,
    MaxRevision <- 2, Rules <- Every, Limit <- 1, Deletes <- TRUE,
    Crashes <- TRUE, clock <- jobsClock
Due == INSTANCE CommandJobs WITH Schedules <- {1}, MaxJobs <- 2, MaxClock <- 4,
    MaxRevision <- 1, Rules <- EveryAndOnce, Limit <- 1, Deletes <- FALSE,
    Crashes <- FALSE, clock <- jobsClock
Job == INSTANCE CommandProcess WITH Kinds <- {"job"}, MaxWrites <- 2, Limit <- 1,
    child <- processChild
Run == INSTANCE CommandProcess WITH Kinds <- {"run"}, MaxWrites <- 2, Limit <- 1,
    child <- processChild
Output == INSTANCE JobOutput WITH Writers <- {"reader", "task"}, Sizes <- {1, 3},
    MaxBytes <- 2, MaxChunks <- 3, MaxCrashes <- 1, GuardHeld <- TRUE,
    sub <- outputSub, client <- outputClient
Delivery == INSTANCE JobOutput WITH Writers <- {"reader", "task"}, Sizes <- {1, 3},
    MaxBytes <- 2, MaxChunks <- 3, MaxCrashes <- 0, GuardHeld <- FALSE,
    sub <- outputSub, client <- outputClient
Turning == INSTANCE AgentSessions WITH Creators <- {c1}, Attachers <- {},
    Requests <- {q1, q2}, Tries <- {1}, MaxRuntimes <- 1, MaxNotes <- 1,
    MaxUpdates <- 0, MaxCrashes <- 0, MaxDbFailures <- 0, Follows <- TRUE,
    live <- agentLive, update <- agentUpdate, sub <- agentSub
Renaming == INSTANCE AgentSessions WITH Creators <- {c1}, Attachers <- {},
    Requests <- {q1}, Tries <- {1}, MaxRuntimes <- 1, MaxNotes <- 0,
    MaxUpdates <- 1, MaxCrashes <- 0, MaxDbFailures <- 0, Follows <- TRUE,
    live <- agentLive, update <- agentUpdate, sub <- agentSub
Attach == INSTANCE AgentSessions WITH Creators <- {c1}, Attachers <- {a1, a2},
    Requests <- {q1}, Tries <- {1, 2}, MaxRuntimes <- 2, MaxNotes <- 0,
    MaxUpdates <- 0, MaxCrashes <- 1, MaxDbFailures <- 1, Follows <- FALSE,
    live <- agentLive, update <- agentUpdate, sub <- agentSub
Settle == INSTANCE AgentSessions WITH Creators <- {c1}, Attachers <- {a1},
    Requests <- {q1}, Tries <- {1}, MaxRuntimes <- 2, MaxNotes <- 1,
    MaxUpdates <- 0, MaxCrashes <- 0, MaxDbFailures <- 0, Follows <- FALSE,
    live <- agentLive, update <- agentUpdate, sub <- agentSub
History == INSTANCE AgentHistory WITH Turns <- 1..6, Limit <- 2, MaxUpdates <- 0,
    live <- historyLive, update <- historyUpdate, client <- historyClient
Order == INSTANCE AgentHistory WITH Turns <- 1..3, Limit <- 2, MaxUpdates <- 1,
    live <- historyLive, update <- historyUpdate, client <- historyClient
Catalog == INSTANCE AgentCatalog WITH Sessions <- 1..4, Limit <- 2, MaxClock <- 2,
    MaxChanges <- 2, clock <- catalogClock

ASSUME BoundsAssumption ==
    /\ Streams!TerminalAssumption /\ Streams!NoAttachAssumption
    /\ Control!TerminalAssumption /\ Control!NoAttachAssumption
    /\ Table!TerminalAssumption /\ Table!NoAttachAssumption
    /\ Rows!TerminalAssumption /\ Rows!NoAttachAssumption
    /\ Ending!TerminalAssumption /\ Ending!NoAttachAssumption
    /\ User!UserTerminalAssumption
    /\ Jobs!CommandJobsAssumption /\ Jobs!ManualAssumption
    /\ Deleting!CommandJobsAssumption /\ Deleting!ManualAssumption
    /\ Due!CommandJobsAssumption /\ Due!ManualAssumption
    /\ Job!CommandProcessAssumption
    /\ Run!CommandProcessAssumption
    /\ Output!JobOutputAssumption /\ Delivery!JobOutputAssumption
    /\ Turning!AgentSessionsAssumption /\ Renaming!AgentSessionsAssumption
    /\ Attach!AgentSessionsAssumption
    /\ Settle!AgentSessionsAssumption
    /\ History!AgentHistoryAssumption
    /\ Order!AgentHistoryAssumption
    /\ Catalog!AgentCatalogAssumption
    /\ AttemptsAssumption

Parts == {"streams", "control", "table", "rows", "ending", "user", "jobs", "deleting",
          "due", "job", "run", "output", "delivery", "turns", "renaming", "attach", "settle",
          "history", "order", "catalog", "web"}
HostInit ==
    /\ part \in Parts
    /\ CASE part = "control" -> Control!Init
         [] part = "ending" -> Ending!Init
         [] OTHER -> Streams!Init
    /\ IF part = "rows" THEN Rows!Init ELSE Table!Init
    /\ User!Init
    /\ CASE part = "deleting" -> Deleting!Init
         [] part = "due" -> Due!Init
         [] OTHER -> Jobs!Init
    /\ CASE part = "run" -> Run!Init
         [] OTHER -> Job!Init
    /\ IF part = "delivery" THEN Delivery!Init ELSE Output!Init
    /\ CASE part = "attach" -> Attach!Init
         [] part = "settle" -> Settle!Init
         [] part = "renaming" -> Renaming!Init
         [] OTHER -> Turning!Init
    /\ CASE part = "order" -> Order!Init
         [] OTHER -> History!Init
    /\ Catalog!Init
    /\ Init

terminalVars == <<listed, session, closing, host, reader, terminalChild, casts,
    table, att>>
tableVars == <<tableListed, tableSession, tableClosing, tableHost, tableReader,
    tableChild, tableCasts, tableTable, tableAtt>>
userVars == <<spawn, userClient, startup, userClosed, control, commands, request,
    response, pipe, user, userChild, ended, events, outcome, early>>
jobsVars == <<jobsClock, up, sched, dbsched, jobs, dbjobs, task, due, tick, failed,
    del, made, epoch, gone>>
processVars == <<kind, phase, reason, processChild, grandchild, stdin, written,
    captured, truncated, readers, aborted, asked>>
outputVars == <<output, status, rows, writer, finish, version, outputSub,
    outputClient, overlapped, crashes>>
agentVars == <<row, runtime, lock, caller, proc, inbox, consumer, agentLive,
    pending, config, turnCall, agentUpdate, agentSub, prompts, faults>>
historyVars == <<latest, completed, historyLive, turnWork, historyUpdate, updates,
    historyClient>>
catalogVars == <<catalogClock, updated, archived, revision, changes, walk,
    disturbed>>
webVars == <<sessionGeneration, closed, paused, retryTimer, rpcSession, managed,
    reachable, attempt, count>>

\* One component runs, the others stay as they are.
StreamsRuns ==
    /\ part = "streams" /\ Streams!Next
    /\ UNCHANGED <<part, tableVars, userVars, jobsVars, processVars, outputVars,
               agentVars, historyVars, catalogVars, webVars>>
ControlRuns ==
    /\ part = "control" /\ Control!Next
    /\ closing' = {} /\ terminalChild'[1] # "dead"  \* the bound: the session stays open
    /\ UNCHANGED <<part, tableVars, userVars, jobsVars, processVars, outputVars,
               agentVars, historyVars, catalogVars, webVars>>
TableRuns ==
    /\ part = "table" /\ Table!Next
    /\ tableHost' = tableHost  \* the bound: the sessions are closed by clients
    /\ UNCHANGED <<part, terminalVars, userVars, jobsVars, processVars, outputVars,
               agentVars, historyVars, catalogVars, webVars>>
RowsRuns ==
    /\ part = "rows" /\ Rows!Next
    \* the bounds: two patches on their way at once, a reading thread that does not
    \* fail, and an attach after the subscription, without replay or reading
    /\ Len(tableCasts'[1]) <= 2
    /\ \A i \in DOMAIN tableHost'[1] : tableHost'[1][i].k # "closed"
    /\ tableAtt'[1].s # 0 => tableTable'.phase # "none" /\ tableAtt'[1].after = -1
    /\ tableAtt'[1].trace = <<>> /\ tableAtt'[1].primary = 0
    /\ UNCHANGED <<part, terminalVars, userVars, jobsVars, processVars, outputVars,
               agentVars, historyVars, catalogVars, webVars>>
EndingRuns ==
    /\ part = "ending" /\ Ending!Next
    /\ UNCHANGED <<part, tableVars, userVars, jobsVars, processVars, outputVars,
               agentVars, historyVars, catalogVars, webVars>>
UserRuns ==
    /\ part = "user" /\ User!Next
    /\ UNCHANGED <<part, terminalVars, tableVars, jobsVars, processVars, outputVars,
               agentVars, historyVars, catalogVars, webVars>>
JobsRuns ==
    /\ part = "jobs" /\ Jobs!Next
    \* the bound: a schedule is disabled or archived, not both
    /\ \A s \in DOMAIN dbsched' : dbsched'[s].archived => dbsched'[s].enabled
    /\ UNCHANGED <<part, terminalVars, tableVars, userVars, processVars, outputVars,
               agentVars, historyVars, catalogVars, webVars>>
DeletingRuns ==
    /\ part = "deleting" /\ Deleting!Next
    /\ UNCHANGED <<part, terminalVars, tableVars, userVars, processVars, outputVars,
               agentVars, historyVars, catalogVars, webVars>>
DueRuns ==
    /\ part = "due" /\ Due!Next
    /\ UNCHANGED <<part, terminalVars, tableVars, userVars, processVars, outputVars,
               agentVars, historyVars, catalogVars, webVars>>
JobRuns ==
    /\ part = "job" /\ Job!Next
    /\ UNCHANGED <<part, terminalVars, tableVars, userVars, jobsVars, outputVars,
               agentVars, historyVars, catalogVars, webVars>>
RunRuns ==
    /\ part = "run" /\ Run!Next
    /\ UNCHANGED <<part, terminalVars, tableVars, userVars, jobsVars, outputVars,
               agentVars, historyVars, catalogVars, webVars>>
OutputRuns ==
    /\ part = "output" /\ Output!Next
    /\ UNCHANGED <<part, terminalVars, tableVars, userVars, jobsVars, processVars,
               agentVars, historyVars, catalogVars, webVars>>
DeliveryRuns ==
    /\ part = "delivery" /\ Delivery!Next
    /\ outputSub.at # "off" => outputSub'.at # "off"  \* the bound: the client stays
    /\ UNCHANGED <<part, terminalVars, tableVars, userVars, jobsVars, processVars,
               agentVars, historyVars, catalogVars, webVars>>
TurningRuns ==
    /\ part = "turns" /\ Turning!Next
    /\ UNCHANGED <<part, terminalVars, tableVars, userVars, jobsVars, processVars,
               outputVars, historyVars, catalogVars, webVars>>
RenamingRuns ==
    /\ part = "renaming" /\ Renaming!Next
    /\ config'.at = "idle"  \* the bound: the configuration stays
    /\ UNCHANGED <<part, terminalVars, tableVars, userVars, jobsVars, processVars,
               outputVars, historyVars, catalogVars, webVars>>
AttachRuns ==
    /\ part = "attach" /\ Attach!Next
    /\ UNCHANGED <<part, terminalVars, tableVars, userVars, jobsVars, processVars,
               outputVars, historyVars, catalogVars, webVars>>
SettleRuns ==
    /\ part = "settle" /\ Settle!Next
    /\ UNCHANGED <<part, terminalVars, tableVars, userVars, jobsVars, processVars,
               outputVars, historyVars, catalogVars, webVars>>
HistoryRuns ==
    /\ part = "history" /\ History!Next
    /\ UNCHANGED <<part, terminalVars, tableVars, userVars, jobsVars, processVars,
               outputVars, agentVars, catalogVars, webVars>>
OrderRuns ==
    /\ part = "order" /\ Order!Next
    /\ UNCHANGED <<part, terminalVars, tableVars, userVars, jobsVars, processVars,
               outputVars, agentVars, catalogVars, webVars>>
CatalogRuns ==
    /\ part = "catalog" /\ Catalog!Next
    /\ UNCHANGED <<part, terminalVars, tableVars, userVars, jobsVars, processVars,
               outputVars, agentVars, historyVars, webVars>>
WebRuns ==
    /\ part = "web" /\ Next
    /\ UNCHANGED <<part, terminalVars, tableVars, userVars, jobsVars, processVars,
               outputVars, agentVars, historyVars, catalogVars>>

HostNext == StreamsRuns \/ ControlRuns \/ TableRuns \/ RowsRuns \/ EndingRuns \/ UserRuns \/
    JobsRuns \/ DeletingRuns \/ DueRuns \/ JobRuns \/ RunRuns \/ OutputRuns \/
    DeliveryRuns \/ TurningRuns \/ RenamingRuns \/ AttachRuns \/ SettleRuns \/
    HistoryRuns \/ OrderRuns \/ CatalogRuns \/ WebRuns
hostVars == <<part, terminalVars, tableVars, userVars, jobsVars, processVars,
    outputVars, agentVars, historyVars, catalogVars, webVars>>

HostSpec == HostInit /\ [][HostNext]_hostVars

\* What is scheduled fairly while a component runs: the Fairness of its module.
EndingFairness ==
    /\ WF_terminalVars(part = "ending" /\ Ending!record_output(1)) /\ WF_terminalVars(part = "ending" /\ Ending!mark_exited(1)) /\ WF_terminalVars(part = "ending" /\ Ending!mark_host_closed(1))
    /\ \A by \in {"client", "host"} : WF_terminalVars(part = "ending" /\ Ending!CloseLocked([s |-> 1, by |-> by]))
    /\ WF_terminalVars(part = "ending" /\ Ending!AttachDelivers(1)) /\ WF_terminalVars(part = "ending" /\ Ending!detach(1))
UserFairness ==
    /\ WF_userVars(part = "user" /\ User!SpawnReceives) /\ WF_userVars(part = "user" /\ User!SpawnReturns)
    /\ WF_userVars(part = "user" /\ User!OpensPipe) /\ WF_userVars(part = "user" /\ User!ReadsStarted) /\ WF_userVars(part = "user" /\ User!PipeFails)
    /\ WF_userVars(part = "user" /\ User!SendsCommand) /\ SF_userVars(part = "user" /\ User!ReadsEvent)
    /\ WF_userVars(part = "user" /\ User!UserStarts) /\ WF_userVars(part = "user" /\ User!UserReads) /\ WF_userVars(part = "user" /\ User!UserSeesEnd)
    /\ WF_userVars(part = "user" /\ User!UserReportsEnd) /\ WF_userVars(part = "user" /\ User!ManagerReads) /\ WF_userVars(part = "user" /\ User!ManagerSeesDisconnect)
DueFairness ==
    WF_jobsVars(part = "due" /\ Due!Scheduler)
JobFairness ==
    /\ WF_processVars(part = "job" /\ Job!Spawn) /\ WF_processVars(part = "job" /\ Job!SelectExit) /\ WF_processVars(part = "job" /\ Job!SelectStdin)
    /\ WF_processVars(part = "job" /\ Job!SelectKill) /\ WF_processVars(part = "job" /\ Job!Killed) /\ WF_processVars(part = "job" /\ Job!Drained)
    /\ \A s \in {"stdout", "stderr"} : WF_processVars(part = "job" /\ Job!ReaderReads(s)) /\ WF_processVars(part = "job" /\ Job!ReaderEnds(s))
RunFairness ==
    /\ WF_processVars(part = "run" /\ Run!Spawn) /\ WF_processVars(part = "run" /\ Run!SelectExit) /\ WF_processVars(part = "run" /\ Run!SelectStdin)
    /\ WF_processVars(part = "run" /\ Run!SelectKill) /\ WF_processVars(part = "run" /\ Run!Killed) /\ WF_processVars(part = "run" /\ Run!Drained)
    /\ \A s \in {"stdout", "stderr"} : WF_processVars(part = "run" /\ Run!ReaderReads(s)) /\ WF_processVars(part = "run" /\ Run!ReaderEnds(s))
SettleFairness ==
    /\ \A r \in 1..2 : WF_agentVars(part = "settle" /\ Settle!Agent(r)) /\ WF_agentVars(part = "settle" /\ Settle!Consuming(r))
    /\ WF_agentVars(part = "settle" /\ (Settle!CreateTurn(q1, 1) \/ Settle!Prompt(q1, 1)))
    /\ WF_agentVars(part = "settle" /\ (Settle!ConfigChecks \/ Settle!ConfigApplies))

-----------------------------------------------------------------------------
\* Output is never lost without a word: the chunks of an attach stream and of a job's
\* subscription are consecutive apart from the gaps they are told of, a stream that
\* ends with the exit has delivered all that is retained, the rows hold what memory
\* holds and are restored without a hole, but for chunks of appends that overlapped
\* (command.rs 901-917), and a command's output is reported in full up to its limit.
\* What a job's subscription delivers live is checked as if notify_output returned
\* (part delivery); with a subscriber it does not (attach_session, record_output;
\* append_output, stream_job_output_subscription; drain_output_readers).
OutputIsWhole ==
    /\ part = "streams" => Streams!TypeOK /\ Streams!StreamContiguous
    /\ part = "output" => Output!TypeOK /\ Output!NoSilentLoss /\ Output!ExitIsLast /\
         Output!PersistedAgrees /\ Output!RestoredContiguous
    /\ part = "delivery" => Delivery!TypeOK /\ Delivery!NoSilentLoss /\
         Delivery!ExitIsLast /\ Delivery!PersistedAgrees
    /\ part = "job" => Job!TypeOK /\ Job!OutputComplete
    /\ part = "run" => Run!TypeOK /\ Run!OutputComplete
    /\ part = "ending" => Ending!TypeOK
    /\ part = "web" => TypeOK

\* Work is run once and from what is stored now, whatever is retried, edited or
\* restarted: one occurrence of a schedule makes one job of the schedule as it is, but
\* for an edit between the creation of the job and its checkpoint; a deleted schedule's
\* jobs do not come back, a job shown as running has its task; a
\* turn is prompted once, never while the configuration changes, to a process resumed
\* with the stored provider session, and an attached session without a turn can take
\* one (run_due_schedules, save_job, restore; create_turn, set_session_config,
\* attach_session).
WorkRunsOnce ==
    /\ part = "jobs" => Jobs!TypeOK /\ Jobs!NoDuplicateRun /\ Jobs!RunsAreCurrent /\
         Jobs!DeletedSchedulesGone
    /\ part = "deleting" => Deleting!TypeOK /\ Deleting!RunningHasTask
    /\ part = "attach" => Attach!TypeOK /\ Attach!AttachResumes /\ Attach!PromptedOnce
    /\ part = "turns" => Turning!TypeOK /\ Turning!ConfigExcludesTurn
    /\ part = "settle" => Settle!TypeOK /\ Settle!AttachedAcceptsTurn
    /\ part = "due" => Due!TypeOK

\* No child process is out of sight: one that runs belongs to a session the drain
\* counts or to one being closed, a lost user process is reported unless it was lost
\* while spawn was returning, a command that has ended leaves no child, reader or
\* writer, and one agent process at most serves a session (close_session,
\* terminal_ipc, run_child, the attachment lock).
ChildrenAccounted ==
    /\ part = "streams" => Streams!LiveChildrenCounted
    /\ part = "table" => Table!TypeOK /\ Table!LiveChildrenCounted
    /\ part = "rows" => Rows!TypeOK /\ Rows!LiveChildrenCounted
    /\ part = "user" => User!TypeOK /\ User!LossIsReported
    /\ part = "job" => Job!NothingLeftBehind
    /\ part = "attach" => Attach!OneAgent

\* What a client has put together from snapshots, pages and events is what the host
\* holds: who controls a terminal, which terminals there are, the active turn and its
\* text, every completed turn once and in order, every session of a filtered walk once.
\* The exceptions are changes that were announced in another order than they were
\* made: a title that a turn overtook between its rows and its event, with the number
\* it set back (agent.rs 872-892), a terminal changed between the table's snapshot and
\* its subscription (server.rs 2618), and an upsert of a terminal sent after a newer
\* one or after its removal (terminal.rs 462) (subscribe_session, throughSeq, the
\* cursors, subscribe_sessions).
ViewsAgree ==
    /\ part = "control" => Control!TypeOK /\ Control!ControlKnown
    /\ part = "table" => Table!TableAgrees
    /\ part = "rows" => Rows!TableAgrees
    /\ part = "turns" => Turning!EventsIncrease /\ Turning!ViewAgrees /\
         Turning!LiveCurrent
    /\ part = "renaming" => Renaming!TypeOK /\ Renaming!EventsIncrease /\
         Renaming!ViewAgrees /\ Renaming!LiveCurrent
    /\ part = "history" => History!HistoryComplete
    /\ part = "order" => Order!HistoryComplete /\ Order!ThroughAccepted /\ Order!TimelineOrdered
    /\ part = "catalog" => Catalog!ListedOnce /\ Catalog!WalkComplete /\
         Catalog!WalkFiltered

\* Everything started ends: streams with their session, children and client threads
\* with their terminal, due occurrences in a job while nobody subscribes to jobs or
\* schedules, jobs with their child, kill or timeout whoever holds their pipes, a
\* RunCommand with the last process that does (command.rs 399), turns with their process.
WorkEnds ==
    /\ part = "ending" /\ EndingFairness => Ending!StreamsEnd
    /\ part = "user" /\ UserFairness => User!ChildrenEnd /\ User!ClientEnds
    /\ part = "due" /\ DueFairness => Due!DueRunsHappen
    /\ part = "job" /\ JobFairness => Job!JobEnds
    /\ part = "run" /\ RunFairness => Run!RunEnds
    /\ part = "settle" /\ SettleFairness => Settle!TurnsSettle
=============================================================================
