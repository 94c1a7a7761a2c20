-------------------------- MODULE PairingSessions ---------------------------
(***************************************************************************)
(* Pairing and the credentials of paired clients (daemon/host/src/server.rs*)
(* start_pairing, complete_pairing, renew_client_credential, remove_client,*)
(* session authentication; core/src/pairing.rs).                           *)
(*                                                                         *)
(* An attempt is named by its attempt id. A handler holds the lock of      *)
(* PairingState only while it changes it; between its steps other handlers *)
(* run. The credentials are loaded in one step and stored in another; the  *)
(* file and its copy in memory change together under one lock.             *)
(***************************************************************************)
EXTENDS Integers, FiniteSets

CONSTANTS
    Clients,      \* clients paired before
    Sessions,     \* RPC sessions
    Renewals,     \* calls of RenewClientCredential
    Removals,     \* calls of RemoveClient
    MaxAttempts,  \* bound on calls of StartPairing
    MaxTime,      \* bound on the clock
    Ttl           \* PAIRING_TTL_SECONDS

PairingAssumption ==
    /\ MaxAttempts \in Nat /\ MaxTime \in Nat /\ Ttl \in Nat
    /\ Clients \cap Int = {} /\ Renewals \cap Int = {} /\ Removals \cap Int = {}
    /\ Renewals \cap Removals = {}

Attempts == 1..MaxAttempts
None == 0
Anonymous == -1
Keys == Clients \cup {Anonymous}
Ids == Clients \cup Attempts        \* a new client is named by the attempt that made it
Edits == Attempts \cup Renewals \cup Removals
Absent == -1
Old == 0                            \* the secret a client was paired with before

VARIABLES
    next,       \* PairingState.next_attempt_id
    current,    \* PairingState.current_attempts
    challenge,  \* PairingState.active_challenge: its attempt
    attempt,    \* the calls of StartPairing: step, key, session, expiry of the code
    file,       \* the client credentials: the secret of each client
    edit,       \* calls that change the credentials: step, what they loaded, their client
    auth,       \* RpcSessionState.authenticated_client_id
    verified,   \* clients a session's SessionAuthenticate calls have verified
    removed,    \* clients RemoveClient answered for and that did not pair again
    clock       \* now_unix

vars == <<next, current, challenge, attempt, file, edit, auth, verified, removed, clock>>
pairing == <<next, current, challenge, attempt>>
credentials == <<file, edit, removed>>

NoAttempt == [at |-> "unused", key |-> Anonymous, session |-> None, expires |-> 0]
NoEdit == [at |-> "idle", loaded |-> [i \in Ids |-> Absent], client |-> None]

Init ==
    /\ next = 0 /\ current = [k \in Keys |-> None] /\ challenge = None
    /\ attempt = [a \in Attempts |-> NoAttempt]
    /\ file = [i \in Ids |-> IF i \in Clients THEN Old ELSE Absent]
    /\ edit = [e \in Edits |-> NoEdit]
    /\ auth = [s \in Sessions |-> None] /\ verified = [s \in Sessions |-> {}]
    /\ removed = {} /\ clock = 0

-----------------------------------------------------------------------------
(* start_pairing                                                            *)

\* A plausible bug: the challenge of the attempt before stays.
BeginKeeps(k) == challenge

\* begin_pairing_attempt: a newer attempt of a client ends the challenge of an older.
Superseded(k) == IF challenge # None /\ attempt[challenge].key = k THEN None ELSE challenge

StartPairing(k, s) ==
    /\ next < MaxAttempts
    /\ next' = next + 1 /\ current' = [current EXCEPT ![k] = next + 1] /\ challenge' = Superseded(k)
    /\ attempt' = [attempt EXCEPT ![next + 1] = [at |-> "confirming", key |-> k, session |-> s, expires |-> 0]]
    /\ UNCHANGED <<credentials, auth, verified, clock>>

IsCurrent(a) == current[attempt[a].key] = a
Forget(a) == current' = [current EXCEPT ![attempt[a].key] = None]

\* A plausible bug: a failed attempt is given an expiry in the past.
SteppedPast(a, to) == [attempt EXCEPT ![a].at = to, ![a].expires = IF to = "failed" THEN None - 1 ELSE @]

Stepped(a, to) == [attempt EXCEPT ![a].at = to]
Step(a, to) == attempt' = Stepped(a, to)

\* The local user, or the dialogue, rejects the request.
ConfirmFails(a) ==
    /\ attempt[a].at = "confirming" /\ Step(a, "failed")
    /\ IF IsCurrent(a) THEN Forget(a) ELSE UNCHANGED current
    /\ UNCHANGED <<next, challenge, credentials, auth, verified, clock>>

Confirmed(a) ==
    /\ attempt[a].at = "confirming" /\ Step(a, IF IsCurrent(a) THEN "current" ELSE "failed")
    /\ UNCHANGED <<next, current, challenge, credentials, auth, verified, clock>>

\* A plausible bug: the attempt is not looked at again when the code is made.
InstallAlways(a) ==
    /\ attempt[a].at = "current" /\ challenge' = a
    /\ attempt' = [attempt EXCEPT ![a].at = "showing", ![a].expires = clock + Ttl]
    /\ UNCHANGED <<next, current, credentials, auth, verified, clock>>

\* The code is made and becomes the active challenge, whatever challenge there was.
Install(a) ==
    /\ attempt[a].at = "current"
    /\ \/ /\ IsCurrent(a) /\ challenge' = a
          /\ attempt' = [attempt EXCEPT ![a].at = "showing", ![a].expires = clock + Ttl]
       \/ ~IsCurrent(a) /\ Step(a, "failed") /\ UNCHANGED challenge
    /\ UNCHANGED <<next, current, credentials, auth, verified, clock>>

Shown(a) ==
    /\ attempt[a].at = "showing" /\ Step(a, "shown")
    /\ UNCHANGED <<next, current, challenge, credentials, auth, verified, clock>>

\* The code could not be shown.
ShowFails(a) ==
    /\ attempt[a].at = "showing" /\ Step(a, "failed")
    /\ IF challenge = a THEN challenge' = None /\ Forget(a) ELSE UNCHANGED <<challenge, current>>
    /\ UNCHANGED <<next, credentials, auth, verified, clock>>

-----------------------------------------------------------------------------
(* complete_pairing                                                         *)

\* On the session that owns the challenge: a late code ends it, the right code takes
\* it. A wrong code, or another session, changes nothing.
complete_pairing(a) ==
    /\ challenge = a /\ attempt[a].at \in {"showing", "shown"}
    /\ challenge' = None /\ Forget(a)
    /\ \/ clock >= attempt[a].expires /\ Step(a, "expired") /\ UNCHANGED edit
       \/ /\ clock < attempt[a].expires /\ Step(a, "taken")
          /\ edit' = [edit EXCEPT ![a] = [NoEdit EXCEPT !.at = "load"]]
    /\ UNCHANGED <<next, file, removed, auth, verified, clock>>

-----------------------------------------------------------------------------
(* The credentials: load_runtime_client_credentials, then                   *)
(* store_runtime_client_credentials                                         *)

\* RenewClientCredential of an authenticated session; RemoveClient of any client.
RenewBegins(e, s) ==
    /\ e \in Renewals /\ edit[e].at = "idle" /\ auth[s] # None
    /\ edit' = [edit EXCEPT ![e] = [NoEdit EXCEPT !.at = "load", !.client = auth[s]]]
    /\ UNCHANGED <<pairing, file, removed, auth, verified, clock>>

RemoveBegins(e, i) ==
    /\ e \in Removals /\ edit[e].at = "idle"
    /\ edit' = [edit EXCEPT ![e] = [NoEdit EXCEPT !.at = "load", !.client = i]]
    /\ UNCHANGED <<pairing, file, removed, auth, verified, clock>>

\* The client a completed pairing is for: the one it named, if it is still paired, or a
\* new one.
Issued(a, state) ==
    IF attempt[a].key \in Clients /\ state[attempt[a].key] # Absent THEN attempt[a].key ELSE a

Load(e) ==
    /\ edit[e].at = "load"
    /\ LET i == IF e \in Attempts THEN Issued(e, file) ELSE edit[e].client
       IN  edit' = [edit EXCEPT ![e] = [loaded |-> file, client |-> i,
               at |-> IF e \notin Attempts /\ file[i] = Absent THEN "done" ELSE "store"]]
    /\ UNCHANGED <<pairing, file, removed, auth, verified, clock>>

\* What each call makes of what it loaded: a renewal changes the expiry only.
Edited(e) ==
    LET i == edit[e].client IN
    [edit[e].loaded EXCEPT ![i] = IF e \in Attempts THEN e ELSE IF e \in Removals THEN Absent ELSE @]

\* save_client_credentials may fail; then nothing changes.
Store(e) ==
    /\ edit[e].at = "store" /\ edit' = [edit EXCEPT ![e].at = "done"]
    /\ \/ UNCHANGED <<file, removed>>
       \/ /\ file' = Edited(e)
          /\ removed' = IF e \in Removals THEN removed \cup {edit[e].client}
                        ELSE IF e \in Attempts THEN removed \ {edit[e].client} ELSE removed
    /\ UNCHANGED <<pairing, auth, verified, clock>>

-----------------------------------------------------------------------------
(* authenticate_session_control                                             *)

AuthVerifies(s, i) ==
    /\ auth[s] = None /\ file[i] # Absent /\ verified' = [verified EXCEPT ![s] = @ \cup {i}]
    /\ UNCHANGED <<pairing, credentials, auth, clock>>

\* A plausible bug: the session is not looked at again after the verification.
AuthSetsAlways(s, i) ==
    /\ i \in verified[s] /\ verified' = [verified EXCEPT ![s] = @ \ {i}]
    /\ auth' = [auth EXCEPT ![s] = i]
    /\ UNCHANGED <<pairing, credentials, clock>>

\* Under the lock of the session: the first to come here authenticates it.
AuthSets(s, i) ==
    /\ i \in verified[s] /\ verified' = [verified EXCEPT ![s] = @ \ {i}]
    /\ auth' = IF auth[s] = None THEN [auth EXCEPT ![s] = i] ELSE auth
    /\ UNCHANGED <<pairing, credentials, clock>>

Tick ==
    /\ clock < MaxTime /\ clock' = clock + 1
    /\ UNCHANGED <<pairing, credentials, auth, verified>>

Pairing(a) ==
    \/ ConfirmFails(a) \/ Confirmed(a) \/ Install(a) \/ Shown(a) \/ ShowFails(a) \/ complete_pairing(a)

Next ==
    \/ \E k \in Keys, s \in Sessions : StartPairing(k, s)
    \/ \E a \in Attempts : Pairing(a)
    \/ \E e \in Edits : Load(e) \/ Store(e)
    \/ \E e \in Renewals, s \in Sessions : RenewBegins(e, s)
    \/ \E e \in Removals, i \in Ids : RemoveBegins(e, i)
    \/ \E s \in Sessions, i \in Ids : AuthVerifies(s, i) \/ AuthSets(s, i)
    \/ Tick

Spec == Init /\ [][Next]_vars

-----------------------------------------------------------------------------
(* Properties                                                               *)

Steps == {"unused", "confirming", "current", "showing", "shown", "failed", "expired", "taken"}
TypeOK ==
    /\ next \in 0..MaxAttempts /\ current \in [Keys -> 0..MaxAttempts] /\ challenge \in 0..MaxAttempts
    /\ attempt \in [Attempts -> [at : Steps, key : Keys, session : Sessions \cup {None}, expires : Nat]]
    /\ auth \in [Sessions -> Ids \cup {None}] /\ verified \in [Sessions -> SUBSET Ids]
    /\ clock \in Nat
    /\ \A e \in Edits : edit[e].at \in {"idle", "load", "store", "done"}
    /\ \A i \in Ids : file[i] \in Attempts \cup {Old, Absent}

\* The active challenge belongs to the newest attempt of its client, and to one that has
\* a code. Concerns every place that changes current_attempts or active_challenge.
ChallengeCurrent ==
    challenge # None => IsCurrent(challenge) /\ attempt[challenge].at \in {"showing", "shown"}

Begun(b) == attempt[b].at # "unused"

\* A pairing is completed by the newest attempt of its client only: an attempt that was
\* superseded at any step never yields a secret. Concerns start_pairing and complete_pairing.
NewestTaken ==
    [][\A a \in Attempts : (attempt'[a].at = "taken" /\ attempt[a].at # "taken") =>
          \A b \in Attempts : (b > a /\ Begun(b)) => attempt[b].key # attempt[a].key]_vars

\* The client of an authenticated session never changes, though several calls
\* authenticate it at once.
AuthStable == [][\A s \in Sessions : auth[s] # None => auth'[s] = auth[s]]_vars

\* A client that was removed is not among the credentials until it pairs again.
RemovedMustPair == \A i \in removed : file[i] = Absent
=============================================================================
