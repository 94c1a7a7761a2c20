---------------------------- MODULE UserTerminal ----------------------------
(***************************************************************************)
(* One terminal hosted by the user process of a Windows login              *)
(* (daemon/windows/src/terminal_ipc.rs): WindowsUserTerminalBackend::spawn *)
(* starts a client thread that opens the user's pipe and relays commands   *)
(* and events; the user process owns the pseudo-terminal and its child.    *)
(*                                                                         *)
(* The manager behind it (TerminalSessions) learns of the terminal's end   *)
(* only from the events; when their channel closes without one, its reader *)
(* thread stops and the session stays as it was.                           *)
(***************************************************************************)
EXTENDS Integers, Sequences

CONSTANT MaxInput   \* bound on commands and on output

UserTerminalAssumption == MaxInput \in Nat

VARIABLES
    spawn,     \* "waiting", "answered", "ok", "failed"
    client,    \* the client thread: "connecting", "starting", "running", "done"
    startup,   \* the startup channel
    closed,    \* UserHostedTerminalControl.closed
    control,   \* the control handle is held by the session
    commands,  \* the unbounded command channel
    request,   \* messages on the pipe to the user process
    response,  \* and back
    pipe,      \* "none", "open", "broken"
    user,      \* handle_host_terminal: "none", "serving", "done"
    child,     \* "none", "alive", "dead"
    ended,     \* events of the child's threads: its end, once
    events,    \* HostedTerminalEvent channel to the manager
    outcome,   \* what the session shows: "none", "open", "exited", "failed",
               \* "closed" (by a client), "stranded" (its reader stopped)
    early      \* history: the client thread failed before spawn had returned

vars == <<spawn, client, startup, closed, control, commands, request, response, pipe, user,
          child, ended, events, outcome, early>>

Init ==
    /\ spawn = "waiting" /\ client = "connecting" /\ startup = <<>> /\ closed = FALSE
    /\ control = FALSE /\ commands = <<>> /\ request = <<>> /\ response = <<>>
    /\ pipe = "none" /\ user = "none" /\ child = "none" /\ ended = <<>> /\ events = <<>>
    /\ outcome = "none" /\ early = FALSE

-----------------------------------------------------------------------------
(* The caller: spawn and UserHostedTerminalControl                          *)

\* recv_timeout: the answer of the client thread, or ten seconds.
SpawnReceives ==
    /\ spawn = "waiting"
    /\ \/ /\ startup # <<>> /\ startup' = Tail(startup)
          /\ spawn' = IF Head(startup) = "err" THEN "failed" ELSE "answered"
       \/ /\ startup = <<>> /\ spawn' = "failed" /\ UNCHANGED startup
    /\ UNCHANGED <<client, closed, control, commands, request, response, pipe, user, child,
                   ended, events, outcome, early>>

\* spawn returns and drops the startup receiver; create_session goes on.
SpawnReturns ==
    /\ spawn = "answered" /\ spawn' = "ok"
    /\ control' = TRUE /\ outcome' = "open"
    /\ UNCHANGED <<client, startup, closed, commands, request, response, pipe, user, child,
                   ended, events, early>>

\* write_input and resize; an error once the stream is closed.
send ==
    /\ control /\ ~closed /\ client # "done" /\ Len(commands) + Len(request) < MaxInput
    /\ commands' = Append(commands, "input")
    /\ UNCHANGED <<spawn, client, startup, closed, control, request, response, pipe, user,
                   child, ended, events, outcome, early>>

\* close_session of the manager, which closes the control and drops it; or the
\* drop of the control after the session ended by itself.
close ==
    /\ control /\ control' = FALSE
    /\ outcome' = IF outcome \in {"open", "stranded"} THEN "closed" ELSE outcome
    /\ closed' = TRUE
    /\ commands' = IF closed \/ client = "done" THEN commands ELSE Append(commands, "close")
    /\ UNCHANGED <<spawn, client, startup, request, response, pipe, user, child, ended,
                   events, early>>

-----------------------------------------------------------------------------
(* run_user_terminal_client                                                 *)

Gone == spawn \in {"ok", "failed"}   \* the startup receiver is dropped

FailureReportToSpawn ==
    startup' = Append(startup, "err") /\ UNCHANGED events

\* An error of the client thread is reported to spawn, or as a Closed event.
FailureReport ==
    IF closed THEN UNCHANGED <<startup, events>>
    ELSE IF Gone THEN events' = Append(events, "closed") /\ UNCHANGED startup
    ELSE startup' = Append(startup, "err") /\ UNCHANGED events

ClientFails ==
    /\ FailureReport
    /\ closed' = TRUE /\ client' = "done" /\ early' = ~Gone
    /\ pipe' = IF pipe = "open" THEN "broken" ELSE pipe

\* open_active_user_pipe_async retries while the pipe is busy or missing, and
\* verifies the server's login session.
OpensPipe ==
    /\ client = "connecting"
    /\ \/ /\ client' = "starting" /\ pipe' = "open" /\ request' = <<"start">>
          /\ user' = "serving" /\ UNCHANGED <<startup, closed, events, early>>
       \/ /\ ClientFails /\ UNCHANGED <<request, user>>
    /\ UNCHANGED <<spawn, control, commands, response, child, ended, outcome>>

\* The first response is Started or an error; spawn may have given up.
ReadsStarted ==
    /\ client = "starting" /\ response # <<>> /\ response' = Tail(response)
    /\ IF Head(response) = "started" /\ ~Gone
       THEN /\ startup' = Append(startup, "ok") /\ client' = "running"
            /\ UNCHANGED <<closed, events, pipe, early>>
       ELSE ClientFails
    /\ UNCHANGED <<spawn, control, commands, request, user, child, ended, outcome>>

PipeLostUnseen == FALSE

\* A read or a write fails once the answers that arrived have been read.
PipeLost == (client = "starting" \/ client = "running") /\ response = <<>> /\ pipe = "broken"

PipeFails ==
    /\ PipeLost
    /\ ClientFails
    /\ UNCHANGED <<spawn, control, commands, request, response, user, child, ended,
                   outcome>>

\* Close is followed by the end of the request stream.
SendsCommand ==
    /\ client = "running" /\ commands # <<>> /\ commands' = Tail(commands)
    /\ IF pipe = "open"
       THEN /\ request' = Append(request, Head(commands))
            /\ closed' = (closed \/ Head(commands) = "close")
            /\ UNCHANGED <<client, startup, events, pipe, early>>
       ELSE ClientFails /\ UNCHANGED request
    /\ UNCHANGED <<spawn, control, response, user, child, ended, outcome>>

ReadsEvent ==
    /\ client = "running" /\ response # <<>> /\ response' = Tail(response)
    /\ LET event == Head(response)
       IN  IF event = "output"
           THEN /\ events' = Append(events, event)
                /\ UNCHANGED <<client, startup, closed, pipe, early>>
           ELSE IF event \in {"exited", "closed"}
           THEN /\ closed' = TRUE /\ events' = Append(events, event)
                /\ client' = "done" /\ pipe' = "broken"
                /\ UNCHANGED <<startup, early>>
           ELSE ClientFails
    /\ UNCHANGED <<spawn, control, commands, request, user, child, ended, outcome>>

-----------------------------------------------------------------------------
(* The user process: handle_host_terminal                                   *)

Responds(event) ==
    response' = IF pipe = "open" THEN Append(response, event) ELSE response

UserStarts ==
    /\ user = "serving" /\ child = "none" /\ request # <<>> /\ request' = Tail(request)
    /\ \/ child' = "alive" /\ Responds("started") /\ UNCHANGED <<user, pipe>>
       \/ child' = "none" /\ Responds("error") /\ user' = "done" /\ UNCHANGED pipe
    /\ UNCHANGED <<spawn, client, startup, closed, control, commands, ended, events,
                   outcome, early>>

TerminalDroppedNot == UNCHANGED child

\* The drop of the local terminal kills its child.
TerminalDropped == child' = IF child = "none" THEN "none" ELSE "dead"

\* Input may fail: the handler returns and the drop of the terminal kills.
UserReads ==
    /\ user = "serving" /\ child # "none" /\ request # <<>> /\ request' = Tail(request)
    /\ \/ Head(request) = "input" /\ UNCHANGED <<user, child, response, pipe>>
       \/ /\ Head(request) = "input" /\ user' = "done" /\ TerminalDropped /\ pipe' = "broken"
          /\ UNCHANGED response
       \/ /\ Head(request) = "close" /\ user' = "done" /\ TerminalDropped
          /\ Responds("closed") /\ UNCHANGED pipe
    /\ UNCHANGED <<spawn, client, startup, closed, control, commands, ended, events,
                   outcome, early>>

EndOfRequestsIgnored == FALSE

EndOfRequests == user = "serving" /\ request = <<>> /\ pipe = "broken"

\* The end of the requests, or a lost pipe, closes the terminal.
UserSeesEnd ==
    /\ EndOfRequests
    /\ user' = "done" /\ TerminalDropped
    /\ UNCHANGED <<spawn, client, startup, closed, control, commands, request, response,
                   pipe,
                   ended, events, outcome, early>>

ChildWrites ==
    /\ user = "serving" /\ child = "alive" /\ Len(response) + Len(events) < MaxInput
    /\ Responds("output")
    /\ UNCHANGED <<spawn, client, startup, closed, control, commands, request, pipe, user,
                   child, ended, events, outcome, early>>

ChildEnds ==
    /\ user = "serving" /\ child = "alive" /\ ended = <<>>
    /\ child' = "dead" /\ \E e \in {"exited", "closed"} : ended' = <<e>>
    /\ UNCHANGED <<spawn, client, startup, closed, control, commands, request, response,
                   pipe,
                   user, events, outcome, early>>

UserReportsEnd ==
    /\ user = "serving" /\ ended # <<>> /\ ended' = <<>> /\ user' = "done"
    /\ Responds(Head(ended))
    /\ UNCHANGED <<spawn, client, startup, closed, control, commands, request, pipe, child,
                   events, outcome, early>>

\* The user process is killed; Windows ends its children with the ConPTY.
UserDies ==
    /\ user = "serving" /\ user' = "done" /\ pipe' = "broken" /\ request' = <<>>
    /\ child' = (IF child = "none" THEN "none" ELSE "dead") /\ ended' = <<>>
    /\ UNCHANGED <<spawn, client, startup, closed, control, commands, response, events,
                   outcome, early>>

-----------------------------------------------------------------------------
(* spawn_host_event_reader of the manager                                   *)

ManagerReads ==
    /\ outcome \in {"open", "closed"} /\ events # <<>> /\ events' = Tail(events)
    /\ outcome' = IF outcome = "closed" THEN outcome
                  ELSE CASE Head(events) = "exited" -> "exited"
                         [] Head(events) = "closed" -> "failed"
                         [] OTHER -> outcome
    /\ UNCHANGED <<spawn, client, startup, closed, control, commands, request, response,
                   pipe,
                   user, child, ended, early>>

\* The sender is dropped with the client thread.
ManagerSeesDisconnect ==
    /\ outcome = "open" /\ events = <<>> /\ client = "done"
    /\ outcome' = "stranded"
    /\ UNCHANGED <<spawn, client, startup, closed, control, commands, request, response,
                   pipe,
                   user, child, ended, events, early>>

-----------------------------------------------------------------------------
Next ==
    \/ SpawnReceives \/ SpawnReturns \/ send \/ close
    \/ OpensPipe \/ ReadsStarted \/ PipeFails \/ SendsCommand \/ ReadsEvent
    \/ UserStarts \/ UserReads \/ UserSeesEnd \/ ChildWrites \/ ChildEnds
    \/ UserReportsEnd \/ UserDies
    \/ ManagerReads \/ ManagerSeesDisconnect

Spec == Init /\ [][Next]_vars

\* Every thread runs; the child and the clients do as they like.
Fairness ==
    /\ WF_vars(SpawnReceives) /\ WF_vars(SpawnReturns)
    /\ WF_vars(OpensPipe) /\ WF_vars(ReadsStarted) /\ WF_vars(PipeFails)
    /\ WF_vars(SendsCommand) /\ SF_vars(ReadsEvent)
    /\ WF_vars(UserStarts) /\ WF_vars(UserReads) /\ WF_vars(UserSeesEnd)
    /\ WF_vars(UserReportsEnd) /\ WF_vars(ManagerReads) /\ WF_vars(ManagerSeesDisconnect)
FairSpec == Spec /\ Fairness

-----------------------------------------------------------------------------
(* Properties                                                               *)

TypeOK ==
    /\ spawn \in {"waiting", "answered", "ok", "failed"}
    /\ client \in {"connecting", "starting", "running", "done"}
    /\ Len(commands) <= MaxInput + 1 /\ Len(events) <= MaxInput + 1
    /\ outcome \in {"none", "open", "exited", "failed", "closed", "stranded"}
    /\ child = "alive" => user = "serving"
    /\ early \in BOOLEAN

\* terminal_ipc.rs 562-586, windows-user-terminal-ipc.md 88: a terminal whose
\* user process, pipe or protocol is lost is shown as closed with its failure,
\* unless it was lost between the client thread's answer and the return of
\* spawn: the report then goes to the startup channel (582), which nobody reads
\* any more, and the session stays open without a reader.
LossIsReported == outcome = "stranded" => early

\* terminal_ipc.rs 330-420, windows-user-terminal-ipc.md 90: when the session
\* is gone, or spawn gave up on it, the child in the user process is ended.
ChildrenEnd == (spawn = "failed" \/ outcome \in {"closed", "failed", "exited"})
                   ~> (child # "alive")

\* terminal_ipc.rs 455-487: spawn always returns, and the client thread of a
\* session that was closed ends with it.
ClientEnds == (spawn = "failed" \/ outcome = "closed") ~> (client = "done")
=============================================================================
