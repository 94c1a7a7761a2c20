-------------------------- MODULE MCHostServices ----------------------------
(* How a host serves and how a node belongs to its cluster: startup, RPC      *)
(* streams, subscriptions, pairing, the migration, and the node's calls to   *)
(* the primary, its outbox and its peers' challenges.                        *)
(* The components share no state, so one of them runs in each behaviour,     *)
(* once for each question with the bounds that make its case happen.         *)
(* ClusterCalls is extended, so that the run checks the definitions of       *)
(* ClusterCallsProofs themselves.                                            *)
EXTENDS ClusterCalls, Integers, Sequences, FiniteSets

CONSTANTS c1, c2, s1, k1, k2, m1, m2, w1, v1, u1, u2, o1, g1, g2  \* model values

VARIABLES
    part,  \* the component that runs
    \* ServerStartup
    startupFile, pem, boot, bootConfig, ready, startupServed, status, startupTask,
    events, watched, key, trigger, startupRead, edits, startupFaults, watching,
    override,
    \* RpcStreams
    session, rpcAuth, rpcRevoked, rpcCall, rpcTask, guard, draining, answers,
    written, drains,
    \* Subscriptions
    kind, source, health, owed, woken, due, at, rows, subscriptionRead, todo,
    subscriptionWire, view, client, changes, subscriptionFaults,
    \* PairingSessions
    next, current, challenge, attempt, pairingFile, edit, pairingAuth, verified,
    removed, clock,
    \* PairingSessions
    authNext, authCurrent, authChallenge, authAttempt, authFile, authEdit, authAuth,
    authVerified, authRemoved, authClock,
    \* UpdateMigration
    disk, migrationLock, prep, work, job, gui, migrationServed, migrationFaults,
    \* ClusterAdoption
    adoptionLog, local, paired, row, cancelled, expired, adoptionLock,
    adoptionWorker, adoptionWire, late,
    \* PeerChallenges
    now, open, table, asking, given, taken, proving, challengesRevoked, who

Startup == INSTANCE ServerStartup WITH TlsConfigs <- {"filesA"},
    OtherConfigs <- {"managed", "unset", "broken", "badAddr"}, MaxVersion <- 2,
    MaxEdits <- 1, MaxFaults <- 0, file <- startupFile, served <- startupServed,
    task <- startupTask, read <- startupRead, faults <- startupFaults
Rpc == INSTANCE RpcStreams WITH Sessions <- {s1}, Calls <- {c1, c2},
    Procs <- {"GetDaemonInfo", "CreateJob", "SubscribeRoots"}, MaxDrains <- 1,
    MaxWrites <- 0, auth <- rpcAuth, revoked <- rpcRevoked, call <- rpcCall,
    task <- rpcTask
Streaming == INSTANCE RpcStreams WITH Sessions <- {s1}, Calls <- {c1, c2},
    Procs <- {"GetDaemonInfo", "WriteFile"}, MaxDrains <- 1, MaxWrites <- 1,
    auth <- rpcAuth, revoked <- rpcRevoked, call <- rpcCall, task <- rpcTask
Subscription == INSTANCE Subscriptions WITH Keys <- {k1, k2}, MaxVersion <- 1,
    MaxChanges <- 2, MaxFaults <- 1, MaxWire <- 1, read <- subscriptionRead,
    wire <- subscriptionWire, faults <- subscriptionFaults
Pairing == INSTANCE PairingSessions WITH Clients <- {m1}, Sessions <- {s1},
    Renewals <- {}, Removals <- {}, MaxAttempts <- 3, MaxTime <- 0, Ttl <- 1,
    file <- pairingFile, auth <- pairingAuth
Auth == INSTANCE PairingSessions WITH Clients <- {m1, m2}, Sessions <- {s1},
    Renewals <- {w1}, Removals <- {v1}, MaxAttempts <- 1, MaxTime <- 0, Ttl <- 1,
    next <- authNext, current <- authCurrent, challenge <- authChallenge,
    attempt <- authAttempt, file <- authFile, edit <- authEdit, auth <- authAuth,
    verified <- authVerified, removed <- authRemoved, clock <- authClock
Migration == INSTANCE UpdateMigration WITH Users <- {u1, u2}, Pids <- 1..4,
    MaxFaults <- 1, lock <- migrationLock,
    served <- migrationServed, faults <- migrationFaults
Adoption == INSTANCE ClusterAdoption WITH Owners <- {o1}, Grants <- {g1},
    MAX_OUTBOX <- 1, MaxLog <- 3, log <- adoptionLog, lock <- adoptionLock,
    worker <- adoptionWorker, wire <- adoptionWire
Outbox == INSTANCE ClusterAdoption WITH Owners <- {o1}, Grants <- {g1, g2},
    MAX_OUTBOX <- 2, MaxLog <- 1, log <- adoptionLog, lock <- adoptionLock,
    worker <- adoptionWorker, wire <- adoptionWire
Forwards == INSTANCE ClusterCalls WITH MaxEpoch <- 2
Challenges == INSTANCE PeerChallenges WITH Conns <- {c1, c2}, Grants <- {g1},
    Cap <- 1, Life <- 1, MaxTime <- 2, MaxNonces <- 2, revoked <- challengesRevoked

ASSUME BoundsAssumption ==
    /\ Startup!StartupAssumption
    /\ Rpc!RpcAssumption
    /\ Streaming!RpcAssumption
    /\ Subscription!SubscriptionAssumption
    /\ Pairing!PairingAssumption
    /\ Auth!PairingAssumption
    /\ Migration!MigrationAssumption
    /\ Adoption!AdoptionAssumption
    /\ Outbox!AdoptionAssumption
    /\ CallsAssumption
    /\ Forwards!CallsAssumption
    /\ Challenges!ChallengesAssumption

Parts == {"startup", "rpc", "serving", "subscription", "pairing", "auth",
          "migration", "adoption", "outbox", "calls", "answers", "challenges"}
HostInit ==
    /\ part \in Parts
    /\ Startup!Init
    /\ part # "startup" => /\ startupFile = "unset" /\ ~watching /\ ~override
                          /\ pem = [s \in DOMAIN pem |-> [cert |-> 0, key |-> 0]]
    /\ CASE part = "serving" -> Streaming!Init
         [] OTHER -> Rpc!Init
    /\ Subscription!Init
    /\ part # "subscription" => /\ kind = CHOOSE n \in Subscription!Kinds : TRUE
                               /\ source = [k \in {k1, k2} |-> 1]
    /\ Pairing!Init
    /\ Auth!Init
    /\ Migration!Init
    /\ part # "migration" => gui = [u \in {u1, u2} |-> "out"]
    /\ CASE part = "outbox" -> Outbox!Init
         [] OTHER -> Adoption!Init
    /\ CASE part = "answers" -> Forwards!Init
         [] OTHER -> Init
    /\ Challenges!Init

startupVars == <<startupFile, pem, boot, bootConfig, ready, startupServed, status,
    startupTask, events, watched, key, trigger, startupRead, edits, startupFaults,
    watching, override>>
rpcVars == <<session, rpcAuth, rpcRevoked, rpcCall, rpcTask, guard, draining,
    answers, written, drains>>
subscriptionVars == <<kind, source, health, owed, woken, due, at, rows,
    subscriptionRead, todo, subscriptionWire, view, client, changes,
    subscriptionFaults>>
pairingVars == <<next, current, challenge, attempt, pairingFile, edit, pairingAuth,
    verified, removed, clock>>
authVars == <<authNext, authCurrent, authChallenge, authAttempt, authFile, authEdit,
    authAuth, authVerified, authRemoved, authClock>>
migrationVars == <<disk, migrationLock, prep, work, job, gui, migrationServed,
    migrationFaults>>
adoptionVars == <<adoptionLog, local, paired, row, cancelled, expired, adoptionLock,
    adoptionWorker, adoptionWire, late>>
callsVars == <<log, held, lock, valid, call, calls, peer, worker>>
challengesVars == <<now, open, table, asking, given, taken, proving,
    challengesRevoked, who>>

\* One component runs, the others stay as they are.
StartupRuns ==
    /\ part = "startup" /\ Startup!Next
    /\ UNCHANGED <<part, rpcVars, subscriptionVars, pairingVars, authVars,
               migrationVars, adoptionVars, callsVars, challengesVars>>
RpcRuns ==
    /\ part = "rpc" /\ Rpc!Next
    /\ UNCHANGED <<part, startupVars, subscriptionVars, pairingVars, authVars,
               migrationVars, adoptionVars, callsVars, challengesVars>>
StreamingRuns ==
    /\ part = "serving" /\ Streaming!Next
    /\ UNCHANGED <<part, startupVars, subscriptionVars, pairingVars, authVars,
               migrationVars, adoptionVars, callsVars, challengesVars>>
SubscriptionRuns ==
    /\ part = "subscription" /\ Subscription!Next
    /\ UNCHANGED <<part, startupVars, rpcVars, pairingVars, authVars, migrationVars,
               adoptionVars, callsVars, challengesVars>>
PairingRuns ==
    /\ part = "pairing" /\ Pairing!Next
    /\ UNCHANGED <<part, startupVars, rpcVars, subscriptionVars, authVars,
               migrationVars, adoptionVars, callsVars, challengesVars>>
AuthRuns ==
    /\ part = "auth" /\ Auth!Next
    /\ UNCHANGED <<part, startupVars, rpcVars, subscriptionVars, pairingVars,
               migrationVars, adoptionVars, callsVars, challengesVars>>
MigrationRuns ==
    /\ part = "migration" /\ Migration!Next
    /\ UNCHANGED <<part, startupVars, rpcVars, subscriptionVars, pairingVars, authVars,
               adoptionVars, callsVars, challengesVars>>
AdoptionRuns ==
    /\ part = "adoption" /\ Adoption!Next
    /\ UNCHANGED <<part, startupVars, rpcVars, subscriptionVars, pairingVars, authVars,
               migrationVars, callsVars, challengesVars>>
OutboxRuns ==
    /\ part = "outbox" /\ Outbox!Next
    /\ UNCHANGED <<part, startupVars, rpcVars, subscriptionVars, pairingVars, authVars,
               migrationVars, callsVars, challengesVars>>
CallsRuns ==
    /\ part = "calls" /\ Next
    /\ UNCHANGED <<part, startupVars, rpcVars, subscriptionVars, pairingVars, authVars,
               migrationVars, adoptionVars, challengesVars>>
ForwardsRuns ==
    /\ part = "answers" /\ Forwards!Next
    /\ UNCHANGED <<part, startupVars, rpcVars, subscriptionVars, pairingVars, authVars,
               migrationVars, adoptionVars, challengesVars>>
ChallengesRuns ==
    /\ part = "challenges" /\ Challenges!Next
    /\ UNCHANGED <<part, startupVars, rpcVars, subscriptionVars, pairingVars, authVars,
               migrationVars, adoptionVars, callsVars>>

HostNext == StartupRuns \/ RpcRuns \/ StreamingRuns \/ SubscriptionRuns \/ PairingRuns
    \/ AuthRuns \/ MigrationRuns \/ AdoptionRuns \/ OutboxRuns \/ CallsRuns \/
    ForwardsRuns \/ ChallengesRuns
hostVars == <<part, startupVars, rpcVars, subscriptionVars, pairingVars, authVars,
    migrationVars, adoptionVars, callsVars, challengesVars>>

HostSpec == HostInit /\ [][HostNext]_hostVars

\* What is scheduled fairly while a component runs: the Fairness of its module.
StartupFairness ==
    /\ WF_startupVars(part = "startup" /\ Startup!Boot) /\ WF_startupVars(part = "startup" /\ Startup!ReloadTask)
    /\ WF_startupVars(part = "startup" /\ Startup!schedule_certificate_refreshes)
StreamingFairness ==
    /\ \A c \in {c1, c2} : WF_rpcVars(part = "serving" /\ Streaming!Server(c))
    /\ WF_rpcVars(part = "serving" /\ Streaming!CloseExpired(s1))
SubscriptionFairness ==
    /\ WF_subscriptionVars(part = "subscription" /\ Subscription!Announce) /\ WF_subscriptionVars(part = "subscription" /\ Subscription!Timer)
    /\ WF_subscriptionVars(part = "subscription" /\ Subscription!Receive) /\ WF_subscriptionVars(part = "subscription" /\ Subscription!Stream)
MigrationFairness ==
    /\ SF_migrationVars(part = "migration" /\ Migration!prepare /\ migrationLock = "")
    /\ WF_migrationVars(part = "migration" /\ Migration!PrepareSteps) /\ WF_migrationVars(part = "migration" /\ Migration!StopLegacy)
    /\ WF_migrationVars(part = "migration" /\ Migration!WorkerSteps) /\ WF_migrationVars(part = "migration" /\ Migration!DaemonSteps)
AdoptionFairness ==
    /\ WF_adoptionVars(part = "adoption" /\ Adoption!Worker) /\ SF_adoptionVars(part = "adoption" /\ Adoption!Whole)
    /\ WF_adoptionVars(part = "adoption" /\ (Adoption!TimesOut \/ Adoption!SyncFails)) /\ SF_adoptionVars(part = "adoption" /\ Adoption!Answered(g1))
ForwardsFairness ==
    \A n \in Nodes :
        /\ SF_callsVars(part = "answers" /\ Forwards!Locks(n)) /\ SF_callsVars(part = "answers" /\ Forwards!Forward(n))
        /\ SF_callsVars(part = "answers" /\ Forwards!PeerLocks(n)) /\ WF_callsVars(part = "answers" /\ (Forwards!Execute(n) \/ Forwards!Answers(n)))
        /\ WF_callsVars(part = "answers" /\ Forwards!TimesOut(n)) /\ WF_callsVars(part = "answers" /\ Forwards!PeerExecutes(n))

-----------------------------------------------------------------------------
\* A host serves what it says: a certificate with its own key, ready only when it is
\* serving, nothing admitted runs while an update drains it, calls are answered once
\* and by handlers that know their client, a subscriber's copy is what its stream
\* believes to have told it and an end is told last, and the update policy goes on over
\* the whole runtime, the protected registration and no GUI of the old one (start,
\* certificate reload, dispatch, stream loops, migration.rs).
ServesSoundly ==
    /\ part = "startup" => Startup!TypeOK /\ Startup!ServedIsWhole /\
         Startup!ReadyIsServing
    /\ part = "rpc" => Rpc!TypeOK /\ Rpc!DrainExclusive /\ Rpc!AnsweredOnce /\
         Rpc!KnownClient
    /\ part = "subscription" => Subscription!TypeOK /\ Subscription!Follows /\
         Subscription!EndIsTold
    /\ part = "migration" => Migration!TypeOK /\ Migration!NoOldGui /\
         Migration!PolicyIsWhole
    /\ part = "serving" => Streaming!TypeOK
    /\ part = "calls" => TypeOK
    /\ part = "answers" => Forwards!TypeOK

\* An identity is given once and checked when it is used: a session is authenticated as
\* one client for its life, a pairing is completed by the newest attempt of its client
\* only, a peer keeps the identity it proved, and the migration trusts a receipt of
\* this boot only, but for one whose pid the boot has given again.
IdentityIsOnce == Rpc!AuthOnce /\ Auth!AuthStable /\ Pairing!NewestTaken /\
    Challenges!OneIdentity /\ Migration!CompleteSinceStart

\* Challenges and grants count once and in time: a peer nonce on the connection it was
\* given to, within its life and until a newer one, in a table within its capacity; a
\* pairing challenge for the newest attempt; a grant whose owner lost its pairing first
\* is never accepted (peer challenges, current_attempts, the outbox).
ChallengesSound ==
    /\ part = "challenges" => Challenges!TypeOK /\ Challenges!ChallengesSound
    /\ part = "pairing" => Pairing!TypeOK /\ Pairing!ChallengeCurrent
    /\ part = "outbox" => Outbox!TypeOK /\ Outbox!NeverAcceptedLate
    /\ part = "auth" => Auth!TypeOK
    /\ part = "adoption" => Adoption!TypeOK

\* What is asked for comes: a daemon that can start serves and follows its certificate,
\* calls are answered and release the drain, expired sessions close, a subscriber
\* converges to a source at rest, the migration completes, adoptions and cancellations
\* arrive, and nodes that forward to each other are answered.
RequestsEnd ==
    /\ part = "startup" /\ StartupFairness => Startup!ComesUp /\
         Startup!ManagedIsFollowed
    /\ part = "serving" /\ StreamingFairness => Streaming!Released /\ Streaming!Served
         /\ Streaming!ExpiredCloses
    /\ part = "subscription" /\ SubscriptionFairness => Subscription!Converges
    /\ part = "migration" /\ MigrationFairness => Migration!Completes
    /\ part = "adoption" /\ AdoptionFairness => Adoption!CancellationArrives /\
         Adoption!AdoptionArrives
    /\ part = "answers" /\ ForwardsFairness => Forwards!EveryCallAnswered
=============================================================================
