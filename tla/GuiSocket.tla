------------------------------ MODULE GuiSocket -------------------------------
(***************************************************************************)
(* One GUI process per profile: Listener of daemon/gui/src/transport.rs on *)
(* macOS.                                                                  *)
(*                                                                         *)
(* A process that is started connects to the profile's socket and, when    *)
(* someone answers, asks it to show its window and ends. Otherwise it      *)
(* binds the socket; a name that is taken is looked at again and, when     *)
(* nobody answers there, removed and bound. On the way out it removes the  *)
(* name if it is still its own. A killed process leaves its name behind.   *)
(***************************************************************************)
EXTENDS Integers, FiniteSets

CONSTANTS
    Procs,      \* processes that are started
    Leavers,    \* the ones that may also end
    MaxSockets  \* bound on the sockets ever bound

SocketAssumption == IsFiniteSet(Procs) /\ MaxSockets \in Nat /\ Leavers \subseteq Procs

VARIABLES
    path,      \* the socket the name stands for, 0 for none
    next,      \* sockets bound so far
    pc,        \* where each process is
    sock,      \* the socket each process listens on
    identity,  \* the socket each process took for its own
    gone       \* names removed while their socket was listened on by another

vars == <<path, next, pc, sock, identity, gone>>

Steps == {"new", "connect", "bind", "recheck", "inspect", "unlink", "rebind", "listen", "identify",
          "serving", "leaving", "removing", "shown", "failed", "ended"}

TypeOK ==
    /\ path \in 0..next /\ next \in 0..MaxSockets + 1 /\ gone \in BOOLEAN
    /\ pc \in [Procs -> Steps] /\ sock \in [Procs -> 0..next] /\ identity \in [Procs -> 0..next]
    /\ \A p, q \in Procs : sock[p] # 0 /\ sock[p] = sock[q] => p = q

\* Nothing is there, or a socket that a killed process has left.
Init ==
    /\ next \in {0, 1} /\ path = next /\ gone = FALSE
    /\ pc = [p \in Procs |-> "new"] /\ sock = [p \in Procs |-> 0] /\ identity = [p \in Procs |-> 0]

Goes(p, s) == pc' = [pc EXCEPT ![p] = s]
Owned == path # 0 /\ \E q \in Procs : sock[q] = path
Answered == path # 0 /\ \E q \in Procs : sock[q] = path /\ pc[q] # "listen"
Still == UNCHANGED <<path, next, sock, identity, gone>>

Start(p) == pc[p] = "new" /\ Goes(p, "connect") /\ Still
\* activate: the process that answers shows its window; one that is leaving does not.
Connect(p, at, else) ==
    /\ pc[p] = at
    /\ \/ Answered /\ (\E q \in Procs : sock[q] = path /\ pc[q] \in {"identify", "serving"}) /\ Goes(p, "shown")
       \/ Answered /\ Goes(p, "failed")
       \/ ~Answered /\ Goes(p, else)
    /\ Still
FirstConnect(p) == Connect(p, "connect", "bind")
GivesUp(p) == Connect(p, "recheck", "failed")
Recheck(p) == Connect(p, "recheck", "inspect")

Binds(p) ==
    /\ next <= MaxSockets /\ next' = next + 1 /\ path' = next'
    /\ sock' = [sock EXCEPT ![p] = next'] /\ Goes(p, "listen") /\ UNCHANGED <<identity, gone>>
SharesName(p) ==
    /\ pc[p] = "bind" /\ path # 0 /\ sock' = [sock EXCEPT ![p] = path]
    /\ Goes(p, "listen") /\ UNCHANGED <<path, next, identity, gone>>
Bind(p) ==
    /\ pc[p] = "bind"
    /\ IF path = 0 THEN Binds(p) ELSE Goes(p, "recheck") /\ Still
\* UnixListener::bind is bind(2) and listen(2): between them nobody can connect.
Listen(p) == pc[p] = "listen" /\ Goes(p, "identify") /\ Still
\* symlink_metadata: nothing there is an error.
Inspect(p) == pc[p] = "inspect" /\ Goes(p, IF path = 0 THEN "failed" ELSE "unlink") /\ Still
Unlink(p) ==
    /\ pc[p] = "unlink"
    /\ gone' = (gone \/ Owned)
    /\ IF path = 0 THEN Goes(p, "failed") /\ UNCHANGED path ELSE Goes(p, "rebind") /\ path' = 0
    /\ UNCHANGED <<next, sock, identity>>
Rebind(p) ==
    /\ pc[p] = "rebind"
    /\ IF path = 0 THEN Binds(p) ELSE Goes(p, "failed") /\ Still
\* The identity is read from the name; a name removed meanwhile is an error.
Identify(p) ==
    /\ pc[p] = "identify"
    /\ IF path = 0 THEN Goes(p, "failed") /\ sock' = [sock EXCEPT ![p] = 0] /\ UNCHANGED identity
       ELSE Goes(p, "serving") /\ identity' = [identity EXCEPT ![p] = path] /\ UNCHANGED sock
    /\ UNCHANGED <<path, next, gone>>

-----------------------------------------------------------------------------
\* Drop: the name is compared, then removed, then the socket closed.
IsOwn(p) == path # 0 /\ path = identity[p]
Leave(p) ==
    /\ p \in Leavers /\ pc[p] = "serving" /\ Goes(p, IF IsOwn(p) THEN "removing" ELSE "leaving") /\ Still
Remove(p) ==
    /\ pc[p] = "removing" /\ Goes(p, "leaving") /\ path' = 0
    /\ gone' = (gone \/ (Owned /\ sock[p] # path)) /\ UNCHANGED <<next, sock, identity>>
Close(p) ==
    /\ pc[p] = "leaving" /\ Goes(p, "ended") /\ sock' = [sock EXCEPT ![p] = 0]
    /\ UNCHANGED <<path, next, identity, gone>>

Next ==
    \E p \in Procs :
        \/ Start(p) \/ FirstConnect(p) \/ Bind(p) \/ Listen(p) \/ Recheck(p) \/ Inspect(p) \/ Unlink(p) \/ Rebind(p)
        \/ Identify(p) \/ Leave(p) \/ Remove(p) \/ Close(p)
Spec == Init /\ [][Next]_vars

-----------------------------------------------------------------------------
(* The name of a socket that another process has bound is never removed:   *)
(* only a stale socket is (the second connect of bind, the identity of     *)
(* Drop).                                                                  *)
OnlyStaleRemoved == ~gone

(* However many processes are started on a stale socket, they do not all   *)
(* give way to one another or fail: at least one has come to serve.        *)
SomeoneServes == \E p \in Procs : pc[p] \notin {"shown", "failed"}
=============================================================================
