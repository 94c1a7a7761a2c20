----------------------------- MODULE RpcStreams -----------------------------
(***************************************************************************)
(* Sessions and RPC calls of the WebTransport server (daemon/host/src/     *)
(* server.rs: run_rpc_session, handle_reqres_stream, the dispatchers and   *)
(* the handlers' families).                                                *)
(*                                                                         *)
(* A call is one bidirectional stream of a session, served by a task of    *)
(* the session's JoinSet. A call that may change the host first enters the *)
(* work gate of the update drain and then runs in a task of its own, which *)
(* outlives the response task: a session that ends aborts its response     *)
(* tasks. What a handler does is one step here, its effect; the modules of *)
(* the managers it calls say more.                                         *)
(***************************************************************************)
EXTENDS Integers, FiniteSets

CONSTANTS
    Sessions,  \* RPC sessions
    Calls,     \* streams the clients open
    Procs,     \* procedures the clients name in this instance
    MaxDrains, \* bound on drains of the work gate
    MaxWrites  \* bound on the messages of a stream

-----------------------------------------------------------------------------
(* The procedures: those with a handler, by family, and their stream kinds. *)

InfoProcs == {"GetDaemonInfo", "GetDaemonEnvironment"}
PairingProcs == {"StartPairing", "CompletePairing", "RenewClientCredential", "RemoveClient"}
HostProcs == {"KillProcess", "CreateNodes", "RenamePaths", "DeletePaths", "RestoreTrashItems", "PurgeTrashItems"}
TerminalProcs == {"CreateTerminalSession", "TakeTerminalControl", "CloseTerminalSession"}
CommandProcs ==
    {"RunCommand", "CreateJob", "KillJob", "DeleteJobs", "ClearJobs", "CreateSchedule",
     "UpdateSchedule", "DeleteSchedules", "GetScheduleNextRuns"}
AgentProcs ==
    {"CreateAgentProject", "ListAgentSessions", "CreateAgentSession", "AttachAgentSession",
     "CreateAgentTurn", "ListAgentSessionTurns", "SetAgentSessionConfig", "UpdateAgentSession",
     "RemoveAgentProject"}
UpdateProcs == {"CheckForUpdates", "InstallUpdateConfirmed"}
DesktopProcs ==
    {"GetDesktopCapabilities", "QueryDesktopQualitySupport", "SetDesktopQuality",
     "ConfigureDesktopViewports", "SetDesktopControl", "RenewDesktopLease", "DetachDesktop"}
UnaryProcs ==
    UNION {InfoProcs, PairingProcs, HostProcs, TerminalProcs, CommandProcs, AgentProcs,
           UpdateProcs, DesktopProcs}

FileStreams == {"SubscribeRoots", "SubscribeDirectory", "ReadFile", "SubscribeTrashItems"}
TerminalStreams == {"SubscribeTerminalSessions", "SubscribeAvailableShells", "AttachTerminalSession"}
ProcessStreams ==
    {"SubscribeProcesses", "SubscribeProcessDetail", "SubscribeProcessResourcesInUse",
     "SubscribeProcessSocketsInUse", "SubscribeProcessModules", "SubscribeWindows", "SubscribeWindowDetail"}
TableStreams ==
    {"SubscribeClients", "SubscribeJobs", "SubscribeJobOutput", "SubscribeSchedules",
     "SubscribeAgentProviders", "SubscribeAgentProjects", "SubscribeAgentSession"}
SubscribeUpdateStatus == {"SubscribeUpdateStatus"}
DesktopStreams == {"AttachDesktop", "AttachExistingDesktop"}
ServerProcs ==
    UNION {FileStreams, TerminalStreams, ProcessStreams, TableStreams, SubscribeUpdateStatus, DesktopStreams}
is_server_stream_proc(p) == p \in ServerProcs
is_client_stream_proc(p) == p \in {"WriteFile", "WriteTerminalInput", "WriteDesktopInput"}

Registered(p) == p \in UnaryProcs \/ is_server_stream_proc(p) \/ is_client_stream_proc(p)
requires_authentication(p) == p \notin {"GetDaemonInfo", "StartPairing", "CompletePairing"}

\* updater_authorized is asked again by the handlers of the updater.
Updater(p) == p \in UpdateProcs \cup SubscribeUpdateStatus

RpcAssumption ==
    /\ MaxDrains \in Nat /\ MaxWrites \in Nat
    /\ \A p \in Procs : ~(is_server_stream_proc(p) /\ is_client_stream_proc(p))

-----------------------------------------------------------------------------
VARIABLES
    session,   \* "open" or "closed"
    auth,      \* what the session is authenticated as: "none", "paired", "cluster"
    revoked,   \* sessions whose client or cluster grant is no longer valid
    call,      \* calls: step, session, procedure, shape of the request
    task,      \* calls whose response task is in the JoinSet
    guard,     \* calls that hold a WorkGuard
    draining,  \* Admission.draining
    answers,   \* final answers written for a call
    written,   \* messages of a stream written for a call
    drains

vars == <<session, auth, revoked, call, task, guard, draining, answers, written, drains>>
calls == <<call, task, guard, answers, written>>
state == <<session, auth, revoked>>

NoCall == [at |-> "unused", session |-> CHOOSE s \in Sessions : TRUE, proc |-> "GetDaemonInfo",
           first |-> "unary", extra |-> FALSE, sent |-> FALSE]

Init ==
    /\ session = [s \in Sessions |-> "open"] /\ auth = [s \in Sessions |-> "none"] /\ revoked = {}
    /\ call = [c \in Calls |-> NoCall] /\ task = {} /\ guard = {}
    /\ draining = FALSE /\ drains = 0
    /\ answers = [c \in Calls |-> 0] /\ written = [c \in Calls |-> 0]

At(c, step) == call' = [call EXCEPT ![c].at = step]
Open(c) == session[call[c].session] = "open"
Running(c) == call[c].at \in {"rest", "dispatch", "run", "answer"}

\* The first message decides whether the call enters the gate.
Protected(c) ==
    /\ call[c].first \in {"unary", "start"}
    /\ ~is_server_stream_proc(call[c].proc) \/ call[c].proc = "ReadFile"

\* A plausible bug: a cluster principal is not validated again.
AuthenticatedOnce(s) == auth[s] # "none"

is_authenticated(s) == CASE auth[s] = "cluster" -> s \notin revoked [] OTHER -> auth[s] = "paired"
updater_authorized(s) == auth[s] # "none" /\ s \notin revoked

-----------------------------------------------------------------------------
(* The session                                                              *)

\* accept_bi: a client opens a stream. `first' is the kind of its first message, `extra'
\* whether the client sends a second one where none may follow.
Accept(c, s, p, first, extra) ==
    /\ call[c].at = "unused" /\ session[s] = "open"
    /\ extra => first \in {"unary", "control"}
    /\ first \in {"control", "other"} => p = "GetDaemonInfo"    \* such a message names no procedure
    /\ call' = [call EXCEPT ![c] = [at |-> "first", session |-> s, proc |-> p, first |-> first,
                                    extra |-> extra, sent |-> FALSE]]
    /\ task' = task \cup {c}
    /\ UNCHANGED <<state, guard, draining, answers, written, drains>>

\* The client has sent its request and finishes its side.
Sent(c) ==
    /\ call[c].at # "unused" /\ ~call[c].sent /\ Open(c)
    /\ call' = [call EXCEPT ![c].sent = TRUE]
    /\ UNCHANGED <<state, task, guard, draining, answers, written, drains>>

\* A plausible bug: the admitted operation ends its admission with the response task.
AbortedReleases(s) == {c \in guard : call[c].session = s}

\* The guards a session's end releases: an admitted operation runs in a task of its own.
Aborted(s) == {}

\* The session ends: the client went away, the server confirmed an update, or the tick found
\* the cluster authorization expired. The JoinSet is dropped and aborts the response tasks.
Close(s) ==
    /\ session[s] = "open" /\ session' = [session EXCEPT ![s] = "closed"]
    /\ task' = {c \in task : call[c].session # s}
    /\ call' = [c \in Calls |-> IF call[c].session = s /\ c \in task /\ c \notin guard
                                THEN [call[c] EXCEPT !.at = "aborted"] ELSE call[c]]
    /\ guard' = guard \ Aborted(s)
    /\ UNCHANGED <<auth, revoked, draining, answers, written, drains>>

Disconnect(s) == Close(s)
CloseExpired(s) == auth[s] = "cluster" /\ ~is_authenticated(s) /\ Close(s)

\* The client's credential expires or is removed, or its cluster grant is revoked.
Revoke(s) ==
    /\ auth[s] # "none" /\ s \notin revoked /\ revoked' = revoked \cup {s}
    /\ UNCHANGED <<session, auth, calls, draining, drains>>

-----------------------------------------------------------------------------
(* handle_reqres_stream                                                     *)

\* A plausible bug: the guard is not dropped with the operation.
FinishKeepsGuard(c, step, n) ==
    /\ At(c, step) /\ answers' = [answers EXCEPT ![c] = @ + n] /\ task' = task \ {c}
    /\ UNCHANGED <<state, guard, draining, written, drains>>

Finish(c, step, n) ==
    /\ At(c, step) /\ answers' = [answers EXCEPT ![c] = @ + n]
    /\ task' = task \ {c} /\ guard' = guard \ {c}
    /\ UNCHANGED <<state, draining, written, drains>>

\* An answer reaches a session that is open; a write to one that is closed fails.
Answer(c) == Finish(c, IF Open(c) THEN "done" ELSE "failed", IF Open(c) THEN 1 ELSE 0)

\* A plausible bug: a reader whose session ended waits for more.
ReadFailsOpen(c) == call[c].at \in {"first", "rest"} /\ ~call[c].sent /\ Open(c) /\ Finish(c, "failed", 0)

\* ReqResMessageReader::next fails: the session ended, the message is malformed, incomplete or
\* too large. Nothing is answered.
ReadFails(c) ==
    /\ call[c].at \in {"first", "rest"} /\ ~(call[c].sent /\ Open(c))
    /\ Finish(c, "failed", 0)

\* A plausible bug: a call waits for the drain to end.
AdmitWaits(c) ==
    /\ call[c].at = "first" /\ Open(c) /\ (Protected(c) => ~draining)
    /\ At(c, "rest") /\ guard' = IF Protected(c) THEN guard \cup {c} ELSE guard
    /\ UNCHANGED <<state, task, draining, answers, written, drains>>

\* The first message has arrived. A call that may change the host enters the gate, or is told
\* to come back.
Admit(c) ==
    /\ call[c].at = "first" /\ Open(c)
    /\ IF Protected(c) /\ draining THEN Answer(c)
       ELSE /\ At(c, "rest") /\ guard' = IF Protected(c) THEN guard \cup {c} ELSE guard
            /\ UNCHANGED <<state, task, draining, answers, written, drains>>

\* A plausible bug: the request is dispatched after its error was answered.
ExcessGoesOn(c) ==
    /\ At(c, "dispatch") /\ answers' = [answers EXCEPT ![c] = @ + 1]
    /\ UNCHANGED <<state, task, guard, draining, written, drains>>

Excess(c) == Answer(c)

\* A unary request is the only message of its stream, and so is a session control message:
\* the reader is asked for a second one and must find the end.
Rest(c) ==
    /\ call[c].at = "rest"
    /\ CASE call[c].first = "other" -> Answer(c)
         [] call[c].first \in {"unary", "control"} ->
              call[c].sent /\ IF call[c].extra THEN Excess(c)
                              ELSE /\ At(c, "dispatch")
                                   /\ UNCHANGED <<state, task, guard, draining, answers, written, drains>>
         [] OTHER -> /\ At(c, "dispatch")
                     /\ UNCHANGED <<state, task, guard, draining, answers, written, drains>>

\* A plausible bug: the check before the verification is not repeated.
BecomesLatest(s, as) == as

Becomes(s, as) == IF auth[s] = "none" THEN as ELSE auth[s]

\* authenticate_session_control and AuthenticateClusterClient set what the session is, once.
Authenticate(c, as) ==
    /\ call[c].at = "dispatch" /\ call[c].first = "control"
    /\ auth' = [auth EXCEPT ![call[c].session] = Becomes(call[c].session, as)]
    /\ At(c, "answer")
    /\ UNCHANGED <<session, revoked, task, guard, draining, answers, written, drains>>

\* A plausible bug: a subscription is dispatched without asking who the client is.
RefusedUnlessStream(c) == requires_authentication(call[c].proc) /\ ~is_server_stream_proc(call[c].proc)
                            /\ ~is_authenticated(call[c].session)

Refused(c) == requires_authentication(call[c].proc) /\ ~is_authenticated(call[c].session)

\* dispatch_unary_rpc, dispatch_server_stream_rpc, dispatch_client_stream_rpc: the kind of the
\* stream, the authentication, the payload (which may not decode) and the handler.
Dispatch(c, decodes) ==
    /\ call[c].at = "dispatch" /\ call[c].first # "control"
    /\ LET refused == \/ call[c].first = "start" /\ ~is_client_stream_proc(call[c].proc)
                      \/ Refused(c) \/ ~decodes \/ ~Registered(call[c].proc)
                      \/ Updater(call[c].proc) /\ ~updater_authorized(call[c].session)
       IN  At(c, IF refused THEN "answer" ELSE "run")
    /\ UNCHANGED <<state, task, guard, draining, answers, written, drains>>

\* A handler has done its work, or failed; a client stream's handler has read its last chunk
\* or could not.
Handled(c) ==
    /\ call[c].at = "run" /\ ~is_server_stream_proc(call[c].proc)
    /\ is_client_stream_proc(call[c].proc) => call[c].sent \/ ~Open(c)
    /\ At(c, "answer")
    /\ UNCHANGED <<state, task, guard, draining, answers, written, drains>>

\* A server stream writes a message, as long as its session may still see it. Only the update
\* status asks again whether it may.
WriteEvent(c) ==
    /\ call[c].at = "run" /\ is_server_stream_proc(call[c].proc) /\ Open(c) /\ written[c] < MaxWrites
    /\ Updater(call[c].proc) => updater_authorized(call[c].session)
    /\ written' = [written EXCEPT ![c] = @ + 1]
    /\ UNCHANGED <<state, call, task, guard, answers, draining, drains>>

\* The stream's source ended, its client stopped it, or its authorization ended.
StreamEnds(c) ==
    /\ call[c].at = "run" /\ is_server_stream_proc(call[c].proc)
    /\ At(c, "answer")
    /\ UNCHANGED <<state, task, guard, draining, answers, written, drains>>

Respond(c) == call[c].at = "answer" /\ Answer(c)

-----------------------------------------------------------------------------
(* The update drain (maintenance.rs)                                        *)

MayDrain == ~draining /\ guard = {}

BeginDrain ==
    /\ MayDrain /\ drains < MaxDrains /\ draining' = TRUE /\ drains' = drains + 1
    /\ UNCHANGED <<state, calls>>

EndDrain ==
    /\ draining /\ draining' = FALSE
    /\ UNCHANGED <<state, calls, drains>>

Server(c) ==
    \/ Admit(c) \/ Rest(c) \/ ReadFails(c) \/ Handled(c) \/ Respond(c)
    \/ \E as \in {"paired", "cluster"} : Authenticate(c, as)
    \/ \E d \in BOOLEAN : Dispatch(c, d)

Shapes == {"unary", "start", "control", "other"}

Next ==
    \/ \E c \in Calls, s \in Sessions, p \in Procs, f \in Shapes, e \in BOOLEAN : Accept(c, s, p, f, e)
    \/ \E s \in Sessions : Disconnect(s) \/ CloseExpired(s) \/ Revoke(s)
    \/ \E c \in Calls : Sent(c) \/ WriteEvent(c) \/ StreamEnds(c) \/ Server(c)
    \/ BeginDrain \/ EndDrain

\* The runtime schedules tasks, handlers return, a call on a session that ended fails to read,
\* and the tick of a session runs every 100 ms.
Fairness ==
    /\ \A c \in Calls : WF_vars(Server(c))
    /\ \A s \in Sessions : WF_vars(CloseExpired(s))

Spec == Init /\ [][Next]_vars
FairSpec == Spec /\ Fairness

-----------------------------------------------------------------------------
(* Properties                                                               *)

Steps == {"unused", "first", "rest", "dispatch", "run", "answer", "done", "failed", "aborted"}

\* Types; who holds a guard is running, and a call that ended holds nothing.
TypeOK ==
    /\ session \in [Sessions -> {"open", "closed"}] /\ auth \in [Sessions -> {"none", "paired", "cluster"}]
    /\ revoked \subseteq Sessions /\ draining \in BOOLEAN
    /\ \A c \in Calls : call[c].at \in Steps
    /\ \A c \in guard : Running(c)
    /\ \A c \in task : call[c].at \notin {"unused", "done", "failed", "aborted"}

\* While an update drains the host no admitted operation is running, also none whose session
\* ended in the middle of it ("Aborting the response task must not drop admission while a
\* blocking operation already dispatched by this request can still mutate state").
DrainExclusive == draining => \A c \in Calls : Protected(c) => ~Running(c)

\* A call has one final answer at most, and one that ended on a session that stayed open
\* without a broken request has exactly one.
AnsweredOnce ==
    \A c \in Calls : /\ answers[c] <= 1
                     /\ call[c].at = "done" <=> answers[c] = 1

\* A handler that needs a client runs for a session that is authenticated.
KnownClient ==
    \A c \in Calls : call[c].at = "run" /\ requires_authentication(call[c].proc) => auth[call[c].session] # "none"
\* A session is authenticated as one thing for as long as it lasts, whatever control calls
\* run at once.
AuthOnce == [][\A s \in Sessions : auth[s] # "none" => auth'[s] = auth[s]]_vars

\* A session that ended gives its admission back: no drain waits for a client that is gone.
Released == \A c \in Calls : session[call[c].session] = "closed" ~> c \notin guard

\* A request its client completed is answered, unless the session ends.
Served ==
    \A c \in Calls : (call[c].at = "first" /\ call[c].sent /\ ~is_server_stream_proc(call[c].proc))
                        ~> (answers[c] = 1 \/ ~Open(c))

\* A session whose cluster authorization ended is closed.
ExpiredCloses == \A s \in Sessions : (auth[s] = "cluster" /\ s \in revoked) ~> session[s] = "closed"
=============================================================================
