------------------------------ MODULE WebSession ------------------------------
(***************************************************************************)
(* The browser's connection to a machine: createRpcSessionController of    *)
(* web/src/state/rpc-session.ts.                                           *)
(*                                                                         *)
(* An attempt opens a transport, authenticates and renews its credential,  *)
(* one await after the other, within ten seconds. At every await the       *)
(* session may be lost, the user or the browser may reconnect, disconnect  *)
(* or close, each of which begins a new generation; the attempt of the old *)
(* one goes on and finds that out when its await returns. Each action is a *)
(* task of the event loop with the promise reactions it sets off.          *)
(***************************************************************************)
EXTENDS Integers

CONSTANTS
    MaxAttempts,     \* bound on the attempts ever made
    MaxGenerations   \* bound on the generations at which the user still disconnects

AttemptsAssumption == MaxAttempts \in Nat /\ MaxGenerations \in Nat

VARIABLES
    sessionGeneration, closed, paused,
    retryTimer,   \* whether a retry is scheduled
    rpcSession,   \* the attempt of the current promise, 0 for none
    managed,      \* the attempt whose transport the controller holds, 0 for none
    reachable,    \* the phase of the connection that the page shows
    attempt,      \* the attempts: generation, await, transport
    count         \* attempts made

vars == <<sessionGeneration, closed, paused, retryTimer, rpcSession, managed, reachable, attempt, count>>

Attempts == 1..MaxAttempts
InProgress == {"opening", "authenticating", "renewing"}
Steps == InProgress \cup {"none", "open", "ended"}

AttemptRecords == [generation : Nat, step : Steps, live : BOOLEAN]

TypeOK ==
    /\ sessionGeneration \in Nat /\ count \in 0..MaxAttempts
    /\ closed \in BOOLEAN /\ paused \in BOOLEAN /\ retryTimer \in BOOLEAN /\ reachable \in BOOLEAN
    /\ rpcSession \in 0..MaxAttempts /\ managed \in 0..MaxAttempts
    /\ attempt \in [Attempts -> AttemptRecords]

Init ==
    /\ sessionGeneration = 0 /\ closed = FALSE /\ paused = FALSE /\ retryTimer = TRUE
    /\ rpcSession = 0 /\ managed = 0 /\ reachable = FALSE /\ count = 0
    /\ attempt = [i \in Attempts |-> [generation |-> 0, step |-> "none", live |-> FALSE]]

-----------------------------------------------------------------------------
Current(i) == ~closed /\ attempt[i].generation = sessionGeneration

\* closeManagedRpcSession: the awaits on the transport reject.
Closed(a, i) == [a EXCEPT ![i].live = FALSE]
WithoutManaged(a) == [i \in Attempts |-> IF i = managed THEN [a[i] EXCEPT !.live = FALSE] ELSE a[i]]
\* invalidateSession, on the attempts a.
Invalidates(a) ==
    /\ sessionGeneration' = sessionGeneration + 1
    /\ attempt' = WithoutManaged(a) /\ managed' = 0 /\ rpcSession' = 0
    /\ reachable' = (closed' /\ reachable)
\* loseSession: a retry is scheduled unless the credentials are refused.
RetryCancelled(refused) == FALSE
Retries(refused) == ~paused /\ ~refused
Lose(a, refused) ==
    /\ UNCHANGED closed /\ Invalidates(a) /\ paused' = (paused \/ refused)
    /\ retryTimer' = Retries(refused) /\ UNCHANGED count
\* The promise of an attempt rejects: only the current one is anybody's concern.
Concerns(i) == rpcSession = i
Rejects(i, a, refused) ==
    IF Concerns(i) /\ Current(i)
    THEN Lose([a EXCEPT ![i].step = "ended"], refused)
    ELSE /\ attempt' = [a EXCEPT ![i].step = "ended"]
         /\ UNCHANGED <<sessionGeneration, closed, paused, retryTimer, rpcSession, managed, reachable, count>>

-----------------------------------------------------------------------------
(* getRpcSession: by the retry timer, or by whoever wants the transport *)

StampsBefore(a, g) == [a EXCEPT ![count + 1] = [generation |-> g - 1, step |-> "opening", live |-> FALSE]]
Begun(a, g) == [a EXCEPT ![count + 1] = [generation |-> g, step |-> "opening", live |-> FALSE]]
getRpcSession ==
    /\ ~closed /\ ~paused /\ rpcSession = 0 /\ count < MaxAttempts
    /\ count' = count + 1 /\ rpcSession' = count + 1 /\ retryTimer' = FALSE
    /\ attempt' = Begun(attempt, sessionGeneration)
    /\ UNCHANGED <<sessionGeneration, closed, paused, managed, reachable>>

-----------------------------------------------------------------------------
(* openRpcSession *)

IgnoresGeneration(i) == TRUE
StillWanted(i) == Current(i)
Opened(i) ==
    /\ attempt[i].step = "opening"
    /\ IF StillWanted(i)
       THEN /\ attempt' = [attempt EXCEPT ![i].step = "authenticating", ![i].live = TRUE]
            /\ managed' = i
            /\ UNCHANGED <<sessionGeneration, closed, paused, retryTimer, rpcSession, reachable, count>>
       ELSE Rejects(i, attempt, FALSE)
OpenFails(i) == attempt[i].step = "opening" /\ Rejects(i, attempt, FALSE)
Authenticated(i) ==
    /\ attempt[i].step = "authenticating"
    /\ IF Current(i) /\ attempt[i].live
       THEN /\ attempt' = [attempt EXCEPT ![i].step = "renewing"]
            /\ UNCHANGED <<sessionGeneration, closed, paused, retryTimer, rpcSession, managed, reachable, count>>
       ELSE Rejects(i, Closed(attempt, i), FALSE)
\* Without credentials to authenticate with, the transport is enough.
Unauthenticated(i) ==
    /\ attempt[i].step = "authenticating" /\ Current(i) /\ attempt[i].live
    /\ attempt' = [attempt EXCEPT ![i].step = "open"] /\ reachable' = TRUE
    /\ UNCHANGED <<sessionGeneration, closed, paused, retryTimer, rpcSession, managed, count>>
AuthFails(i, refused) == attempt[i].step = "authenticating" /\ Rejects(i, Closed(attempt, i), refused)
\* renewCredential swallows its own failure.
TrustsRenewal(i) == TRUE
RenewedInTime(i) == Current(i)
Renewed(i) ==
    /\ attempt[i].step = "renewing"
    /\ IF RenewedInTime(i)
       THEN /\ attempt' = [attempt EXCEPT ![i].step = "open"] /\ reachable' = TRUE
            /\ UNCHANGED <<sessionGeneration, closed, paused, retryTimer, rpcSession, managed, count>>
       ELSE Rejects(i, Closed(attempt, i), FALSE)
\* Ten seconds for all of it; the abort rejects the promise, the awaits go on.
Deadline(i) ==
    /\ attempt[i].step \in InProgress /\ rpcSession = i /\ Current(i) /\ Lose(attempt, FALSE)
\* The transport closes, or a ping is not answered.
TransportLost(i) ==
    /\ attempt[i].live
    /\ IF Current(i) THEN Lose(Closed(attempt, i), FALSE)
       ELSE /\ attempt' = Closed(attempt, i)
            /\ UNCHANGED <<sessionGeneration, closed, paused, retryTimer, rpcSession, managed, reachable, count>>

-----------------------------------------------------------------------------
\* The user, or the page when it is shown or online again: an attempt begins at once.
reconnect ==
    /\ ~closed /\ count < MaxAttempts /\ count' = count + 1 /\ paused' = FALSE /\ retryTimer' = FALSE
    /\ sessionGeneration' = sessionGeneration + 1 /\ managed' = 0 /\ rpcSession' = count + 1
    /\ attempt' = Begun(WithoutManaged(attempt), sessionGeneration + 1)
    /\ reachable' = FALSE /\ UNCHANGED closed
closeRpcSession ==
    /\ ~closed /\ sessionGeneration < MaxGenerations /\ UNCHANGED closed /\ Invalidates(attempt) /\ paused' = TRUE /\ retryTimer' = FALSE
    /\ UNCHANGED count
close ==
    /\ ~closed /\ closed' = TRUE /\ Invalidates(attempt) /\ paused' = TRUE /\ retryTimer' = FALSE
    /\ UNCHANGED count

Next ==
    \/ getRpcSession \/ reconnect \/ closeRpcSession \/ close
    \/ \E i \in Attempts :
        \/ Opened(i) \/ OpenFails(i) \/ Authenticated(i) \/ Unauthenticated(i) \/ Renewed(i)
        \/ (\E refused \in BOOLEAN : AuthFails(i, refused)) \/ Deadline(i) \/ TransportLost(i)

Spec == Init /\ [][Next]_vars

-----------------------------------------------------------------------------
(* At most one transport is open, the one the controller holds: whatever   *)
(* was opened for an older generation is closed when it arrives            *)
(* (openRpcSession, invalidateSession).                                    *)
OneTransport ==
    \A i \in Attempts : attempt[i].live => i = managed /\ i = rpcSession /\ Current(i)

(* The page shows a connection only while its transport is open and its    *)
(* attempt was carried to the end in the current generation.               *)
ReachableIsLive ==
    reachable /\ ~closed => rpcSession # 0 /\ attempt[rpcSession].step = "open" /\ attempt[rpcSession].live

(* Unless the user disconnected or the credentials were refused, the       *)
(* controller always has a session, an attempt within its deadline or a    *)
(* retry scheduled: no order of losses and late answers leaves it idle     *)
(* (loseSession, scheduleRetry, cancelRetry).                              *)
AlwaysTrying ==
    ~closed /\ ~paused =>
        \/ retryTimer
        \/ rpcSession # 0 /\ Current(rpcSession)
           /\ (attempt[rpcSession].step \in InProgress \/ attempt[rpcSession].live)

(* The safety of the session controller.                                   *)
SessionSound == OneTransport /\ ReachableIsLive /\ AlwaysTrying

(* What becomes of an attempt of an older generation changes nothing but   *)
(* that attempt (the checks of the generation after every await).          *)
LateChangesNothing ==
    [][\A i \in Attempts :
        attempt[i] # attempt'[i] /\ count' = count /\ ~Current(i) =>
            UNCHANGED <<sessionGeneration, paused, retryTimer, rpcSession, managed, reachable>>]_vars
=============================================================================
