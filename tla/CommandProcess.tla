--------------------------- MODULE CommandProcess ---------------------------
(***************************************************************************)
(* The process of a command (daemon/host/src/command.rs): a RunCommand     *)
(* bound to its session, or a job.  Both wait for the child, for the       *)
(* writer of its standard input, for a timeout and for a cancellation,     *)
(* and then for the tasks that read its two output pipes.  A grandchild    *)
(* that inherited the pipes keeps them open after the child is gone.       *)
(***************************************************************************)
EXTENDS Integers, FiniteSets

CONSTANTS
    Kinds,      \* subset of {"run", "job"}
    MaxWrites,  \* bound on what is written to a pipe
    Limit       \* max_stdout_bytes of RunCommand

CommandProcessAssumption ==
    /\ Kinds \subseteq {"run", "job"} /\ {MaxWrites, Limit} \subseteq Nat

Streams == {"stdout", "stderr"}

VARIABLES
    kind,        \* which of the two this process belongs to
    phase,       \* of its task: "spawn", "select", "killing", "drain", "done"
    reason,      \* CommandExitReason, or "error"
    child,       \* "none", "alive", "exited"
    grandchild,  \* a process that inherited the pipes
    stdin,       \* the writer task: "none", "writing", "written", "failed", "aborted"
    written,     \* on each pipe
    captured,    \* kept by the reader of each pipe
    truncated,   \* the reader dropped something
    readers,     \* reader tasks that still run
    aborted,     \* reader tasks given up by drain_output_readers
    asked        \* the timeout passed, or the command was cancelled: a set

vars == <<kind, phase, reason, child, grandchild, stdin, written, captured, truncated,
          readers, aborted, asked>>

Init ==
    /\ kind \in Kinds /\ phase = "spawn" /\ reason = "none" /\ child = "none"
    /\ grandchild = FALSE /\ stdin = "none"
    /\ written = [s \in Streams |-> 0] /\ captured = [s \in Streams |-> 0]
    /\ truncated = {} /\ readers = {} /\ aborted = {} /\ asked = {}

-----------------------------------------------------------------------------
(* The task                                                                 *)

Spawn ==
    /\ phase = "spawn"
    /\ \/ /\ phase' = "select" /\ child' = "alive" /\ readers' = Streams /\ stdin' = "writing"
          /\ UNCHANGED reason
       \/ /\ phase' = "done" /\ reason' = (IF kind = "run" THEN "error" ELSE "SpawnFailed")
          /\ UNCHANGED <<child, readers, stdin>>
    /\ UNCHANGED <<kind, grandchild, written, captured, truncated, aborted, asked>>

\* A writer that still runs when the command has ended is aborted.
StdinEndedLeft == stdin
StdinEnded == IF stdin \in {"writing", "failed"} THEN "aborted" ELSE stdin

SelectExit ==
    /\ phase = "select" /\ child = "exited"
    /\ phase' = "drain" /\ reason' = "ProcessExit" /\ stdin' = StdinEnded
    /\ UNCHANGED <<kind, child, grandchild, written, captured, truncated, readers, aborted, asked>>

\* A failed write ends a RunCommand with an error; a job only logs it.
SelectStdin ==
    /\ phase = "select" /\ stdin = "failed"
    /\ stdin' = "aborted"
    /\ IF kind = "run" THEN phase' = "killing" /\ reason' = "error"
       ELSE UNCHANGED <<phase, reason>>
    /\ UNCHANGED <<kind, child, grandchild, written, captured, truncated, readers, aborted, asked>>

HeardTimeoutOnly == asked \ {"UserKill"}
Heard == asked

SelectKill ==
    /\ phase = "select"
    /\ \E r \in Heard : reason' = r
    /\ phase' = "killing" /\ stdin' = StdinEnded
    /\ UNCHANGED <<kind, child, grandchild, written, captured, truncated, readers, aborted, asked>>

\* start_kill and the wait for the child
Killed ==
    /\ phase = "killing" /\ phase' = "drain" /\ child' = "exited"
    /\ UNCHANGED <<kind, reason, grandchild, stdin, written, captured, truncated, readers,
                   aborted, asked>>

DrainedAtOnce == kind = "run" /\ readers' = {} /\ UNCHANGED aborted

\* await_capture of both readers
DrainedByWaiting == kind = "run" /\ readers = {} /\ UNCHANGED <<readers, aborted>>

DrainedWithoutWaiting == kind = "job" /\ readers' = {} /\ UNCHANGED aborted

DrainedWhenClosed == kind = "job" /\ readers = {} /\ UNCHANGED <<readers, aborted>>

\* drain_output_readers: each reader ends, or is aborted after 250 ms, which
\* are taken to be enough unless a grandchild keeps the pipe open.
DrainedInTime == kind = "job" /\ readers' = {} /\ aborted' = readers /\ (readers = {} \/ grandchild)

Drained ==
    /\ phase = "drain" /\ (DrainedByWaiting \/ DrainedInTime)
    /\ phase' = "done"
    /\ UNCHANGED <<kind, reason, child, grandchild, stdin, written, captured, truncated, asked>>

-----------------------------------------------------------------------------
(* The readers                                                              *)

Read(s) == captured[s] + (IF s \in truncated THEN written[s] - captured[s] ELSE 0)

KeepsOneMore(s) == kind = "job" \/ captured[s] <= Limit

\* read_capture_limited drops what exceeds the limit; spawn_output_reader
\* hands everything to append_output.
Keeps(s) == kind = "job" \/ captured[s] < Limit

ReaderReads(s) ==
    /\ s \in readers /\ Read(s) < written[s]
    /\ IF Keeps(s) THEN captured' = [captured EXCEPT ![s] = @ + 1] /\ UNCHANGED truncated
       ELSE truncated' = truncated \cup {s} /\ UNCHANGED captured
    /\ UNCHANGED <<kind, phase, reason, child, grandchild, stdin, written, readers, aborted, asked>>

\* The end of a pipe that nobody can write to any more
ReaderEnds(s) ==
    /\ s \in readers /\ Read(s) = written[s] /\ child # "alive" /\ ~grandchild
    /\ readers' = readers \ {s}
    /\ UNCHANGED <<kind, phase, reason, child, grandchild, stdin, written, captured, truncated,
                   aborted, asked>>

-----------------------------------------------------------------------------
(* The writer of the standard input, the processes and the requests         *)

\* The child may never read: the write then blocks.  A gone child breaks it.
StdinWrites ==
    /\ stdin = "writing"
    /\ \/ child = "alive" /\ stdin' = "written"
       \/ stdin' = "failed"
    /\ UNCHANGED <<kind, phase, reason, child, grandchild, written, captured, truncated,
                   readers, aborted, asked>>

Writes(s) ==
    /\ child = "alive" \/ grandchild
    /\ written[s] < MaxWrites /\ written' = [written EXCEPT ![s] = @ + 1]
    /\ UNCHANGED <<kind, phase, reason, child, grandchild, stdin, captured, truncated, readers,
                   aborted, asked>>

Forks ==
    /\ child = "alive" /\ grandchild' = TRUE
    /\ UNCHANGED <<kind, phase, reason, child, stdin, written, captured, truncated, readers,
                   aborted, asked>>

GrandchildEnds ==
    /\ grandchild /\ grandchild' = FALSE
    /\ UNCHANGED <<kind, phase, reason, child, stdin, written, captured, truncated, readers,
                   aborted, asked>>

ChildExits ==
    /\ child = "alive" /\ child' = "exited"
    /\ UNCHANGED <<kind, phase, reason, grandchild, stdin, written, captured, truncated,
                   readers, aborted, asked>>

\* A lost session cancels a RunCommand; kill_job and delete_job kill a job.
Ask ==
    /\ \E r \in {"Timeout", "UserKill"} :
         r \notin asked /\ (r = "UserKill" \/ phase # "spawn") /\ asked' = asked \cup {r}
    /\ UNCHANGED <<kind, phase, reason, child, grandchild, stdin, written, captured, truncated,
                   readers, aborted>>

-----------------------------------------------------------------------------
Next ==
    \/ Spawn \/ SelectExit \/ SelectStdin \/ SelectKill \/ Killed \/ Drained
    \/ \E s \in Streams : ReaderReads(s) \/ ReaderEnds(s) \/ Writes(s)
    \/ StdinWrites \/ Forks \/ GrandchildEnds \/ ChildExits \/ Ask

Spec == Init /\ [][Next]_vars

\* The tasks run and a killed child ends; processes and clients are free.
Fairness ==
    /\ WF_vars(Spawn) /\ WF_vars(SelectExit) /\ WF_vars(SelectStdin)
    /\ WF_vars(SelectKill) /\ WF_vars(Killed) /\ WF_vars(Drained)
    /\ \A s \in Streams : WF_vars(ReaderReads(s)) /\ WF_vars(ReaderEnds(s))
FairSpec == Spec /\ Fairness

-----------------------------------------------------------------------------
(* Properties                                                               *)

TypeOK ==
    /\ phase \in {"spawn", "select", "killing", "drain", "done"}
    /\ reason \in {"none", "error", "SpawnFailed", "ProcessExit", "Timeout", "UserKill"}
    /\ readers \subseteq Streams /\ aborted \subseteq Streams
    /\ \A s \in Streams : /\ captured[s] <= written[s]
                          /\ kind = "run" => captured[s] <= Limit

\* command.rs 340-396, 882-941: a command that has ended leaves no child, no
\* reader and no writer of its input behind.
NothingLeftBehind ==
    phase = "done" => child # "alive" /\ readers = {} /\ stdin # "writing"

\* command.rs 1414-1441, 1483-1492 (test job_exit_waits_for_output_readers):
\* what the child wrote is reported in full, up to the limit of a RunCommand and
\* with its truncation, unless a grandchild keeps the pipe of a job open.
OutputComplete ==
    phase = "done" =>
        \A s \in Streams \ aborted :
            child = "exited" /\ ~grandchild => Read(s) = written[s]

\* command.rs 1483-1492: a job whose child ended, or which was killed or timed
\* out, ends, whoever else holds its pipes; as far as its process goes: a report
\* of a failed stdin to a follower of its output may never return (JobOutput).
JobEnds == (kind = "job" /\ (child = "exited" \/ (asked # {} /\ phase = "select"))) ~> (phase = "done")

\* command.rs 340-401, 1443-1456: a RunCommand ends with its child, its session
\* or its timeout, but not before the last process that inherited its pipes: the
\* timeout does not cover await_capture.
RunEnds ==
    (kind = "run" /\ (child = "exited" \/ (asked # {} /\ phase = "select")))
        ~> (phase = "done" \/ grandchild)
=============================================================================
