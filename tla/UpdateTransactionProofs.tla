----------------------- MODULE UpdateTransactionProofs -----------------------
(***************************************************************************)
(* The update transaction keeps its promises for any number of releases,   *)
(* transactions and failures.  RecoveryInvariant is inductive: one lemma   *)
(* per action of UpdateTransaction, and in it one step per conjunct.       *)
(***************************************************************************)
EXTENDS UpdateTransaction, TLAPS

\* Exits, Reboot: a receipt whose process has ended is still a receipt.
LEMMA Expired ==
    ASSUME NEW r \in Receipts \cup {None}
    PROVE  (IF r = None THEN None ELSE [r EXCEPT !.live = FALSE])
                \in Receipts \cup {None}
<1>1. CASE r = None
  BY <1>1
<1>2. CASE r # None
  <2>1. r \in Receipts
    BY <1>2
  <2>2. [r EXCEPT !.live = FALSE] \in Receipts
    BY <2>1, Zenon DEF Receipts
  <2> QED BY <1>2, <2>2
<1> QED BY <1>1, <1>2

\* check_candidate: discovery only remembers the installed version it has verified.
LEMMA check_candidate_preserves ==
    ASSUME RecoveryInvariant, check_candidate
    PROVE  RecoveryInvariant'
<1>1. ArtifactTypes' /\ RecordTypes' /\ ProcessTypes'
  BY BoundsAssumption, DigestAssumption DEF check_candidate, artifacts,
     records, guis, RecoveryInvariant, TypeOK, ArtifactTypes, RecordTypes,
     ProcessTypes, Requests, Results, Journals, Versions, None, Phases, Steps,
     Exchanging, Restarting, Finalizing
<1>2. FlagTypes' /\ ready' \in Receipts \cup {None} /\ LockDiscipline' /\
   WorkerPosition' /\ Staging' /\ Consistent' /\ GuiObligation' /\
   ExchangeIsExclusive'
  BY DEF check_candidate, artifacts, records, guis, RecoveryInvariant, TypeOK,
     FlagTypes, LockDiscipline, WorkerPosition, at_target, Staging, validate,
     Consistent, GuiObligation, ExchangeIsExclusive
<1> QED BY <1>1, <1>2 DEF RecoveryInvariant, TypeOK

\* download: a download replaces incoming while no transaction owns it.
LEMMA download_preserves ==
    ASSUME RecoveryInvariant, NEW v \in Versions, download(v)
    PROVE  RecoveryInvariant'
<1>1. ArtifactTypes' /\ RecordTypes' /\ ProcessTypes'
  BY BoundsAssumption, DigestAssumption DEF download, cleanup_pending_locked,
     process, RecoveryInvariant, TypeOK, ArtifactTypes, RecordTypes,
     ProcessTypes, Requests, Results, Journals, Versions, None, Phases, Steps,
     Exchanging, Restarting, Finalizing
<1>2. FlagTypes'
  BY Zenon DEF download, cleanup_pending_locked, process, RecoveryInvariant,
     TypeOK, FlagTypes
<1>3. LockDiscipline'
  BY DEF download, cleanup_pending_locked, process, RecoveryInvariant,
     LockDiscipline, WorkerPosition, Staging, TypeOK, ArtifactTypes,
     ProcessTypes, RecordTypes, Journals, Versions, None, Steps, Exchanging,
     Restarting, Finalizing
<1>4. WorkerPosition'
  BY DEF download, cleanup_pending_locked, process, RecoveryInvariant,
     WorkerPosition, LockDiscipline, at_target, Goal, Terminal, Rolling, None,
     Steps, Exchanging, Restarting, Finalizing
<1>5. ready' \in Receipts \cup {None} /\ Staging' /\ Consistent' /\
   GuiObligation' /\ ExchangeIsExclusive'
  BY DEF download, cleanup_pending_locked, process, RecoveryInvariant, TypeOK,
     Staging, validate, Consistent, at_target, GuiObligation,
     ExchangeIsExclusive
<1> QED BY <1>1, <1>2, <1>3, <1>4, <1>5 DEF RecoveryInvariant, TypeOK

\* prepare_locked: a new journal finds the old app installed and the new one staged.
LEMMA prepare_locked_preserves ==
    ASSUME RecoveryInvariant, NEW c \in BOOLEAN, prepare_locked(c)
    PROVE  RecoveryInvariant'
<1>1. ArtifactTypes' /\ RecordTypes' /\ ProcessTypes'
  BY BoundsAssumption, DigestAssumption DEF prepare_locked,
     rolled_back_candidate, guis, RecoveryInvariant, TypeOK, ArtifactTypes,
     RecordTypes, ProcessTypes, Requests, Results, Journals, Versions, None,
     Phases, Staging, LockDiscipline, WorkerPosition, Steps, Exchanging,
     Restarting, Finalizing
<1>2. WorkerPosition'
  BY DEF prepare_locked, rolled_back_candidate, guis, RecoveryInvariant,
     WorkerPosition, LockDiscipline, at_target, Goal, Terminal, Rolling, None,
     Steps, Exchanging, Restarting, Finalizing
<1>3. Staging'
  BY DEF prepare_locked, rolled_back_candidate, guis, RecoveryInvariant,
     Staging, LockDiscipline, WorkerPosition, Consistent, TypeOK,
     ArtifactTypes, RecordTypes, ProcessTypes, Journals, Requests, Versions,
     None, validate, Goal, Steps, Exchanging, Restarting, Finalizing
<1>4. Consistent'
  BY DEF prepare_locked, rolled_back_candidate, guis, RecoveryInvariant,
     Consistent, at_target, Goal, WorkerPosition, Terminal, Rolling, None,
     Steps, Exchanging, Restarting, Finalizing
<1>5. GuiObligation'
  BY DEF prepare_locked, rolled_back_candidate, guis, RecoveryInvariant,
     GuiObligation, WorkerPosition, None, Steps, Exchanging, Restarting,
     Finalizing
<1>6. FlagTypes' /\ ready' \in Receipts \cup {None} /\ LockDiscipline' /\
   ExchangeIsExclusive'
  BY DEF prepare_locked, rolled_back_candidate, guis, RecoveryInvariant,
     TypeOK, FlagTypes, LockDiscipline, ExchangeIsExclusive
<1> QED BY <1>1, <1>2, <1>3, <1>4, <1>5, <1>6 DEF RecoveryInvariant, TypeOK

\* PreparationFails: a failed preparation leaves no transaction behind.
LEMMA PreparationFails_preserves ==
    ASSUME RecoveryInvariant, PreparationFails
    PROVE  RecoveryInvariant'
<1>1. ArtifactTypes' /\ RecordTypes' /\ ProcessTypes'
  BY BoundsAssumption, DigestAssumption DEF PreparationFails, artifacts,
     records, guis, RecoveryInvariant, TypeOK, ArtifactTypes, RecordTypes,
     ProcessTypes, Requests, Results, Journals, Versions, None, Phases, Steps,
     Exchanging, Restarting, Finalizing
<1>2. FlagTypes' /\ ready' \in Receipts \cup {None} /\ LockDiscipline' /\
   WorkerPosition' /\ Staging' /\ Consistent' /\ GuiObligation' /\
   ExchangeIsExclusive'
  BY DEF PreparationFails, artifacts, records, guis, RecoveryInvariant, TypeOK,
     FlagTypes, LockDiscipline, WorkerPosition, at_target, Staging, validate,
     Consistent, GuiObligation, ExchangeIsExclusive
<1> QED BY <1>1, <1>2 DEF RecoveryInvariant, TypeOK

\* dispatch_attempt: dispatch writes the pessimistic result and submits the worker.
LEMMA dispatch_attempt_preserves ==
    ASSUME RecoveryInvariant, NEW m \in BOOLEAN, NEW s \in BOOLEAN, dispatch_attempt(m, s)
    PROVE  RecoveryInvariant'
<1>1. ArtifactTypes' /\ RecordTypes' /\ ProcessTypes'
  BY BoundsAssumption, DigestAssumption DEF dispatch_attempt,
     rolled_back_candidate, requires_confirmed_retry, artifacts, records, guis,
     process, RecoveryInvariant, TypeOK, ArtifactTypes, RecordTypes,
     ProcessTypes, Requests, Results, Journals, Versions, None, Phases, Steps,
     Exchanging, Restarting, Finalizing
<1>2. LockDiscipline'
  BY DEF dispatch_attempt, rolled_back_candidate, requires_confirmed_retry,
     artifacts, records, guis, process, RecoveryInvariant, LockDiscipline,
     None, Steps, Exchanging, Restarting, Finalizing
<1>3. WorkerPosition'
  BY DEF dispatch_attempt, rolled_back_candidate, requires_confirmed_retry,
     artifacts, records, guis, process, RecoveryInvariant, WorkerPosition,
     at_target, Steps, Exchanging, Restarting, Finalizing
<1>4. FlagTypes' /\ ready' \in Receipts \cup {None} /\ Staging' /\ Consistent'
   /\ GuiObligation' /\ ExchangeIsExclusive'
  BY DEF dispatch_attempt, rolled_back_candidate, requires_confirmed_retry,
     artifacts, records, guis, process, RecoveryInvariant, TypeOK, FlagTypes,
     Staging, validate, Consistent, at_target, GuiObligation,
     ExchangeIsExclusive
<1> QED BY <1>1, <1>2, <1>3, <1>4 DEF RecoveryInvariant, TypeOK

\* DaemonDies: a daemon that dies takes its flock and its receipt's PID along.
LEMMA DaemonDies_preserves ==
    ASSUME RecoveryInvariant, DaemonDies
    PROVE  RecoveryInvariant'
<1>1. ArtifactTypes' /\ RecordTypes' /\ ProcessTypes'
  BY BoundsAssumption, DigestAssumption DEF DaemonDies, Exits, artifacts,
     records, guis, RecoveryInvariant, TypeOK, ArtifactTypes, RecordTypes,
     ProcessTypes, Requests, Results, Journals, Versions, None, Phases, Steps,
     Exchanging, Restarting, Finalizing
<1>2. ready' \in Receipts \cup {None}
  BY Expired DEF DaemonDies, Exits, artifacts, records, guis,
     RecoveryInvariant, TypeOK
<1>3. FlagTypes' /\ LockDiscipline' /\ WorkerPosition' /\ Staging' /\
   Consistent' /\ GuiObligation' /\ ExchangeIsExclusive'
  BY DEF DaemonDies, Exits, artifacts, records, guis, RecoveryInvariant,
     TypeOK, FlagTypes, LockDiscipline, WorkerPosition, at_target, Staging,
     validate, Consistent, GuiObligation, ExchangeIsExclusive
<1> QED BY <1>1, <1>2, <1>3 DEF RecoveryInvariant, TypeOK

\* restart_service: a plain restart happens outside any transaction.
LEMMA restart_service_preserves ==
    ASSUME RecoveryInvariant, restart_service
    PROVE  RecoveryInvariant'
<1>1. ready' \in Receipts \cup {None}
  BY Expired DEF restart_service, Exits, artifacts, records, guis,
     RecoveryInvariant, TypeOK
<1>2. ArtifactTypes' /\ RecordTypes' /\ ProcessTypes' /\ FlagTypes' /\
   LockDiscipline' /\ WorkerPosition' /\ Staging' /\ Consistent' /\
   GuiObligation' /\ ExchangeIsExclusive'
  BY DEF restart_service, Exits, artifacts, records, guis, RecoveryInvariant,
     TypeOK, ArtifactTypes, RecordTypes, ProcessTypes, FlagTypes,
     LockDiscipline, WorkerPosition, at_target, Staging, validate, Consistent,
     GuiObligation, ExchangeIsExclusive
<1> QED BY <1>1, <1>2 DEF RecoveryInvariant, TypeOK

\* StartupServes: startup cleans up a retired transaction before it serves.
LEMMA StartupServes_preserves ==
    ASSUME RecoveryInvariant, StartupServes
    PROVE  RecoveryInvariant'
<1>1. ArtifactTypes' /\ RecordTypes' /\ ProcessTypes'
  BY BoundsAssumption, DigestAssumption DEF StartupServes,
     cleanup_pending_locked, Retired, allowed, rolled_back_candidate,
     requires_confirmed_retry, artifacts, records, guis, RecoveryInvariant,
     TypeOK, ArtifactTypes, RecordTypes, ProcessTypes, Requests, Results,
     Journals, Versions, None, Phases, Steps, Exchanging, Restarting,
     Finalizing
<1>2. FlagTypes'
  BY Zenon DEF StartupServes, cleanup_pending_locked, Retired, allowed,
     rolled_back_candidate, requires_confirmed_retry, artifacts, records, guis,
     RecoveryInvariant, TypeOK, FlagTypes
<1>3. WorkerPosition'
  BY DEF StartupServes, cleanup_pending_locked, Retired, allowed,
     rolled_back_candidate, requires_confirmed_retry, artifacts, records, guis,
     RecoveryInvariant, WorkerPosition, LockDiscipline, at_target, Goal,
     Terminal, Rolling, None, Steps, Exchanging, Restarting, Finalizing
<1>4. ExchangeIsExclusive'
  BY DEF StartupServes, cleanup_pending_locked, Retired, allowed,
     rolled_back_candidate, requires_confirmed_retry, artifacts, records, guis,
     RecoveryInvariant, ExchangeIsExclusive, WorkerPosition, LockDiscipline,
     TypeOK, RecordTypes, ProcessTypes, Journals, Terminal, Rolling, None,
     Steps, Exchanging, Restarting, Finalizing
<1>5. ready' \in Receipts \cup {None} /\ LockDiscipline' /\ Staging' /\
   Consistent' /\ GuiObligation'
  BY DEF StartupServes, cleanup_pending_locked, Retired, allowed,
     rolled_back_candidate, requires_confirmed_retry, artifacts, records, guis,
     RecoveryInvariant, TypeOK, LockDiscipline, Staging, validate, Consistent,
     at_target, GuiObligation
<1> QED BY <1>1, <1>2, <1>3, <1>4, <1>5 DEF RecoveryInvariant, TypeOK

\* StartupParks: a parked instance touches nothing but the worker registration.
LEMMA StartupParks_preserves ==
    ASSUME RecoveryInvariant, NEW f \in BOOLEAN, StartupParks(f)
    PROVE  RecoveryInvariant'
<1>1. LockDiscipline'
  BY DEF StartupParks, allowed, rolled_back_candidate,
     requires_confirmed_retry, artifacts, records, guis, RecoveryInvariant,
     LockDiscipline, None, Steps, Exchanging, Restarting, Finalizing
<1>2. WorkerPosition'
  BY DEF StartupParks, allowed, rolled_back_candidate,
     requires_confirmed_retry, artifacts, records, guis, RecoveryInvariant,
     WorkerPosition, at_target, Steps, Exchanging, Restarting, Finalizing
<1>3. ArtifactTypes' /\ RecordTypes' /\ ProcessTypes' /\ FlagTypes' /\ ready'
   \in Receipts \cup {None} /\ Staging' /\ Consistent' /\ GuiObligation' /\
   ExchangeIsExclusive'
  BY DEF StartupParks, allowed, rolled_back_candidate,
     requires_confirmed_retry, artifacts, records, guis, RecoveryInvariant,
     TypeOK, ArtifactTypes, RecordTypes, ProcessTypes, FlagTypes, Staging,
     validate, Consistent, at_target, GuiObligation, ExchangeIsExclusive
<1> QED BY <1>1, <1>2, <1>3 DEF RecoveryInvariant, TypeOK

\* CandidateMigrates: only a candidate that is installed can have migrated the database.
LEMMA CandidateMigrates_preserves ==
    ASSUME RecoveryInvariant, CandidateMigrates
    PROVE  RecoveryInvariant'
<1>1. FlagTypes'
  BY Zenon DEF CandidateMigrates, artifacts, records, guis, process,
     RecoveryInvariant, TypeOK, FlagTypes
<1>2. ArtifactTypes' /\ RecordTypes' /\ ProcessTypes' /\ ready' \in Receipts
   \cup {None} /\ LockDiscipline' /\ WorkerPosition' /\ Staging' /\ Consistent'
   /\ GuiObligation' /\ ExchangeIsExclusive'
  BY DEF CandidateMigrates, artifacts, records, guis, process,
     RecoveryInvariant, TypeOK, ArtifactTypes, RecordTypes, ProcessTypes,
     LockDiscipline, WorkerPosition, at_target, Staging, validate, Consistent,
     GuiObligation, ExchangeIsExclusive
<1> QED BY <1>1, <1>2 DEF RecoveryInvariant, TypeOK

\* Serves: readiness is a receipt for the captured request.
LEMMA Serves_preserves ==
    ASSUME RecoveryInvariant, Serves
    PROVE  RecoveryInvariant'
<1>1. ready' \in Receipts \cup {None}
  BY DEF Serves, artifacts, records, guis, RecoveryInvariant, TypeOK, None,
     RecordTypes, Receipts, Requests
<1>2. ArtifactTypes' /\ RecordTypes' /\ ProcessTypes' /\ FlagTypes' /\
   LockDiscipline' /\ WorkerPosition' /\ Staging' /\ Consistent' /\
   GuiObligation' /\ ExchangeIsExclusive'
  BY DEF Serves, artifacts, records, guis, RecoveryInvariant, TypeOK,
     ArtifactTypes, RecordTypes, ProcessTypes, FlagTypes, LockDiscipline,
     WorkerPosition, at_target, Staging, validate, Consistent, GuiObligation,
     ExchangeIsExclusive
<1> QED BY <1>1, <1>2 DEF RecoveryInvariant, TypeOK

\* WorkerStarts: the worker takes the lock over, or finishes a retired cleanup.
LEMMA WorkerStarts_preserves ==
    ASSUME RecoveryInvariant, WorkerStarts
    PROVE  RecoveryInvariant'
<1>1. ArtifactTypes' /\ RecordTypes' /\ ProcessTypes'
  <2>1. CASE journal = None
    <3>1. incoming' \in 0..MaxVersion /\ stage' \in Requests \cup {None}
      BY <2>1, BoundsAssumption DEF WorkerStarts, cleanup_pending_locked, Retired,
         RecoveryInvariant, TypeOK, ArtifactTypes
    <3>2. request' \in Requests \cup {None} /\ pending' = None /\ worker' = "none"
      BY <2>1 DEF WorkerStarts, cleanup_pending_locked, RecoveryInvariant, TypeOK,
         RecordTypes
    <3>3. UNCHANGED <<app, service, journal, last, nonces, gui, lock, result, process>>
      BY <2>1 DEF WorkerStarts, cleanup_pending_locked
    <3> QED BY <3>1, <3>2, <3>3 DEF RecoveryInvariant, TypeOK, ArtifactTypes,
           RecordTypes, ProcessTypes, process
  <2>2. CASE journal # None
    <3>1. result' \in Results
      <4>1. journal.nonce \in 1..MaxNonce
        BY <2>2 DEF RecoveryInvariant, TypeOK, RecordTypes, Journals
      <4>2. result' = [nonce |-> journal.nonce, error |-> FALSE, deferred |-> FALSE]
        BY <2>2 DEF WorkerStarts
      <4>3. [nonce |-> journal.nonce, error |-> FALSE, deferred |-> FALSE] \in Results
        BY <4>1, Zenon DEF Results
      <4> QED BY <4>2, <4>3
    <3>2. lock' = "worker" /\ worker' = "resume"
      BY <2>2 DEF WorkerStarts
    <3>3. UNCHANGED <<artifacts, records, guis, request, process>>
      BY <2>2 DEF WorkerStarts
    <3> QED BY <3>1, <3>2, <3>3 DEF RecoveryInvariant, TypeOK, ArtifactTypes,
           RecordTypes, ProcessTypes, Steps, artifacts, records, guis, process
  <2> QED BY <2>1, <2>2
<1>2. FlagTypes'
  BY Zenon DEF WorkerStarts, cleanup_pending_locked, Retired, artifacts,
     records, guis, process, RecoveryInvariant, TypeOK, FlagTypes
<1>3. LockDiscipline'
  BY DEF WorkerStarts, cleanup_pending_locked, Retired, artifacts, records,
     guis, process, RecoveryInvariant, LockDiscipline, None, Steps, Exchanging,
     Restarting, Finalizing
<1>4. WorkerPosition'
  BY DEF WorkerStarts, cleanup_pending_locked, Retired, artifacts, records,
     guis, process, RecoveryInvariant, WorkerPosition, at_target, Steps,
     Exchanging, Restarting, Finalizing
<1>5. ready' \in Receipts \cup {None} /\ Staging' /\ Consistent' /\
   GuiObligation' /\ ExchangeIsExclusive'
  BY DEF WorkerStarts, cleanup_pending_locked, Retired, artifacts, records,
     guis, process, RecoveryInvariant, TypeOK, Staging, validate, Consistent,
     at_target, GuiObligation, ExchangeIsExclusive
<1> QED BY <1>1, <1>2, <1>3, <1>4, <1>5 DEF RecoveryInvariant, TypeOK

\* resume_locked: recovery publishes the stage before it leaves phase Prepared.
LEMMA resume_locked_preserves ==
    ASSUME RecoveryInvariant, resume_locked
    PROVE  RecoveryInvariant'
<1>1. ArtifactTypes' /\ RecordTypes' /\ ProcessTypes'
  BY BoundsAssumption, DigestAssumption DEF resume_locked, At, save,
     stage_runtime, validate, at_target, Goal, guis, process,
     RecoveryInvariant, TypeOK, ArtifactTypes, RecordTypes, ProcessTypes,
     Requests, Results, Journals, Versions, None, Phases, Staging,
     LockDiscipline, WorkerPosition, Steps, Exchanging, Restarting, Finalizing
<1>2. LockDiscipline'
  BY DEF resume_locked, At, save, stage_runtime, validate, at_target, Goal,
     guis, process, RecoveryInvariant, LockDiscipline, None, Steps, Exchanging,
     Restarting, Finalizing
<1>3. WorkerPosition'
  BY DEF resume_locked, At, save, stage_runtime, validate, at_target, Goal,
     guis, process, RecoveryInvariant, WorkerPosition, LockDiscipline, TypeOK,
     RecordTypes, ProcessTypes, Journals, GuiObligation, Consistent, Terminal,
     Rolling, None, Steps, Exchanging, Restarting, Finalizing
<1>4. Staging'
  BY DEF resume_locked, At, save, stage_runtime, validate, at_target, Goal,
     guis, process, RecoveryInvariant, Staging, LockDiscipline, WorkerPosition,
     Consistent, TypeOK, ArtifactTypes, RecordTypes, ProcessTypes, Journals,
     Requests, Versions, None, Steps, Exchanging, Restarting, Finalizing
<1>5. Consistent'
  BY DEF resume_locked, At, save, stage_runtime, validate, at_target, Goal,
     guis, process, RecoveryInvariant, Consistent, Staging, LockDiscipline,
     WorkerPosition, TypeOK, RecordTypes, ProcessTypes, Journals, Terminal,
     Rolling, None, Steps, Exchanging, Restarting, Finalizing
<1>6. GuiObligation'
  BY DEF resume_locked, At, save, stage_runtime, validate, at_target, Goal,
     guis, process, RecoveryInvariant, GuiObligation, WorkerPosition,
     LockDiscipline, TypeOK, RecordTypes, ProcessTypes, Journals, None, Steps,
     Exchanging, Restarting, Finalizing
<1>7. ExchangeIsExclusive'
  BY DEF resume_locked, At, save, stage_runtime, validate, at_target, Goal,
     guis, process, RecoveryInvariant, ExchangeIsExclusive, WorkerPosition,
     LockDiscipline, TypeOK, RecordTypes, ProcessTypes, Journals, Terminal,
     Rolling, None, Steps, Exchanging, Restarting, Finalizing
<1>8. FlagTypes' /\ ready' \in Receipts \cup {None}
  BY DEF resume_locked, At, save, stage_runtime, validate, at_target, Goal,
     guis, process, RecoveryInvariant, TypeOK, FlagTypes
<1> QED BY <1>1, <1>2, <1>3, <1>4, <1>5, <1>6, <1>7, <1>8 DEF
   RecoveryInvariant, TypeOK

\* QuiesceGuis: the GUI sessions to restore only grow.
LEMMA QuiesceGuis_preserves ==
    ASSUME RecoveryInvariant, QuiesceGuis
    PROVE  RecoveryInvariant'
<1>1. ArtifactTypes' /\ RecordTypes' /\ ProcessTypes'
  BY DEF QuiesceGuis, At, artifacts, records, process, RecoveryInvariant,
     TypeOK, ArtifactTypes, RecordTypes, ProcessTypes, Steps, Exchanging,
     Restarting, Finalizing
<1>2. FlagTypes'
  BY Zenon DEF QuiesceGuis, At, artifacts, records, process, RecoveryInvariant,
     TypeOK, FlagTypes
<1>3. LockDiscipline'
  BY DEF QuiesceGuis, At, artifacts, records, process, RecoveryInvariant,
     LockDiscipline, None, Steps, Exchanging, Restarting, Finalizing
<1>4. WorkerPosition'
  BY DEF QuiesceGuis, At, artifacts, records, process, RecoveryInvariant,
     WorkerPosition, LockDiscipline, TypeOK, RecordTypes, ProcessTypes,
     Journals, GuiObligation, Consistent, Terminal, Rolling, None, at_target,
     Goal, Steps, Exchanging, Restarting, Finalizing
<1>5. ready' \in Receipts \cup {None} /\ Staging' /\ Consistent' /\
   GuiObligation' /\ ExchangeIsExclusive'
  BY DEF QuiesceGuis, At, artifacts, records, process, RecoveryInvariant,
     TypeOK, Staging, validate, Consistent, at_target, GuiObligation,
     ExchangeIsExclusive
<1> QED BY <1>1, <1>2, <1>3, <1>4, <1>5 DEF RecoveryInvariant, TypeOK

\* request_exit: the GUIs stop after their obligation is durable.
LEMMA request_exit_preserves ==
    ASSUME RecoveryInvariant, request_exit
    PROVE  RecoveryInvariant'
<1>1. ArtifactTypes' /\ RecordTypes' /\ ProcessTypes'
  BY BoundsAssumption, DigestAssumption DEF request_exit, At, Exits, artifacts,
     records, process, RecoveryInvariant, TypeOK, ArtifactTypes, RecordTypes,
     ProcessTypes, Requests, Results, Journals, Versions, None, Phases, Steps,
     Exchanging, Restarting, Finalizing
<1>2. ready' \in Receipts \cup {None}
  BY Expired DEF request_exit, At, Exits, artifacts, records, process,
     RecoveryInvariant, TypeOK
<1>3. LockDiscipline'
  BY DEF request_exit, At, Exits, artifacts, records, process,
     RecoveryInvariant, LockDiscipline, None, Steps, Exchanging, Restarting,
     Finalizing
<1>4. WorkerPosition'
  BY DEF request_exit, At, Exits, artifacts, records, process,
     RecoveryInvariant, WorkerPosition, at_target, Steps, Exchanging,
     Restarting, Finalizing
<1>5. GuiObligation'
  BY DEF request_exit, At, Exits, artifacts, records, process,
     RecoveryInvariant, GuiObligation, WorkerPosition, None, Steps, Exchanging,
     Restarting, Finalizing
<1>6. FlagTypes' /\ Staging' /\ Consistent' /\ ExchangeIsExclusive'
  BY DEF request_exit, At, Exits, artifacts, records, process,
     RecoveryInvariant, TypeOK, FlagTypes, Staging, validate, Consistent,
     at_target, ExchangeIsExclusive
<1> QED BY <1>1, <1>2, <1>3, <1>4, <1>5, <1>6 DEF RecoveryInvariant, TypeOK

\* StopDaemon: after bootout the system job is down.
LEMMA StopDaemon_preserves ==
    ASSUME RecoveryInvariant, StopDaemon
    PROVE  RecoveryInvariant'
<1>1. ArtifactTypes' /\ RecordTypes' /\ ProcessTypes'
  BY BoundsAssumption, DigestAssumption DEF StopDaemon, At, Exits, artifacts,
     records, guis, RecoveryInvariant, TypeOK, ArtifactTypes, RecordTypes,
     ProcessTypes, Requests, Results, Journals, Versions, None, Phases, Steps,
     Exchanging, Restarting, Finalizing
<1>2. ready' \in Receipts \cup {None}
  BY Expired DEF StopDaemon, At, Exits, artifacts, records, guis,
     RecoveryInvariant, TypeOK
<1>3. LockDiscipline'
  BY DEF StopDaemon, At, Exits, artifacts, records, guis, RecoveryInvariant,
     LockDiscipline, None, Steps, Exchanging, Restarting, Finalizing
<1>4. WorkerPosition'
  BY DEF StopDaemon, At, Exits, artifacts, records, guis, RecoveryInvariant,
     WorkerPosition, LockDiscipline, TypeOK, RecordTypes, ProcessTypes,
     Journals, GuiObligation, Consistent, Terminal, Rolling, None, at_target,
     Goal, Steps, Exchanging, Restarting, Finalizing
<1>5. FlagTypes' /\ Staging' /\ Consistent' /\ GuiObligation' /\
   ExchangeIsExclusive'
  BY DEF StopDaemon, At, Exits, artifacts, records, guis, RecoveryInvariant,
     TypeOK, FlagTypes, Staging, validate, Consistent, at_target,
     GuiObligation, ExchangeIsExclusive
<1> QED BY <1>1, <1>2, <1>3, <1>4, <1>5 DEF RecoveryInvariant, TypeOK

\* CheckStopped: the exchange begins on an unmigrated database with the daemon down.
LEMMA CheckStopped_preserves ==
    ASSUME RecoveryInvariant, CheckStopped
    PROVE  RecoveryInvariant'
<1>1. ArtifactTypes' /\ RecordTypes' /\ ProcessTypes'
  BY BoundsAssumption, DigestAssumption DEF CheckStopped, At, save, validate,
     artifacts, guis, process, RecoveryInvariant, TypeOK, ArtifactTypes,
     RecordTypes, ProcessTypes, Requests, Results, Journals, Versions, None,
     Phases, Steps, Exchanging, Restarting, Finalizing
<1>2. LockDiscipline'
  BY DEF CheckStopped, At, save, validate, artifacts, guis, process,
     RecoveryInvariant, LockDiscipline, None, Steps, Exchanging, Restarting,
     Finalizing
<1>3. WorkerPosition'
  BY DEF CheckStopped, At, save, validate, artifacts, guis, process,
     RecoveryInvariant, WorkerPosition, LockDiscipline, TypeOK, RecordTypes,
     ProcessTypes, Journals, GuiObligation, Consistent, Terminal, Rolling,
     None, at_target, Goal, Steps, Exchanging, Restarting, Finalizing
<1>4. Staging'
  BY DEF CheckStopped, At, save, validate, artifacts, guis, process,
     RecoveryInvariant, Staging, LockDiscipline, WorkerPosition, Consistent,
     TypeOK, ArtifactTypes, RecordTypes, ProcessTypes, Journals, Requests,
     Versions, None, Goal, Steps, Exchanging, Restarting, Finalizing
<1>5. Consistent'
  BY DEF CheckStopped, At, save, validate, artifacts, guis, process,
     RecoveryInvariant, Consistent, Staging, LockDiscipline, WorkerPosition,
     TypeOK, RecordTypes, ProcessTypes, Journals, Terminal, Rolling, None,
     at_target, Goal, Steps, Exchanging, Restarting, Finalizing
<1>6. GuiObligation'
  BY DEF CheckStopped, At, save, validate, artifacts, guis, process,
     RecoveryInvariant, GuiObligation, WorkerPosition, LockDiscipline, TypeOK,
     RecordTypes, ProcessTypes, Journals, None, Steps, Exchanging, Restarting,
     Finalizing
<1>7. ExchangeIsExclusive'
  BY DEF CheckStopped, At, save, validate, artifacts, guis, process,
     RecoveryInvariant, ExchangeIsExclusive, WorkerPosition, None, Steps,
     Exchanging, Restarting, Finalizing
<1>8. FlagTypes' /\ ready' \in Receipts \cup {None}
  BY DEF CheckStopped, At, save, validate, artifacts, guis, process,
     RecoveryInvariant, TypeOK, FlagTypes
<1> QED BY <1>1, <1>2, <1>3, <1>4, <1>5, <1>6, <1>7, <1>8 DEF
   RecoveryInvariant, TypeOK

\* exchange_app: exchanging the app keeps both app artifacts.
LEMMA exchange_app_preserves ==
    ASSUME RecoveryInvariant, exchange_app
    PROVE  RecoveryInvariant'
<1>1. ArtifactTypes' /\ RecordTypes' /\ ProcessTypes'
  BY BoundsAssumption, DigestAssumption DEF exchange_app, At, Goal, records,
     guis, process, RecoveryInvariant, TypeOK, ArtifactTypes, RecordTypes,
     ProcessTypes, Requests, Results, Journals, Versions, None, Phases,
     Staging, LockDiscipline, WorkerPosition, Steps, Exchanging, Restarting,
     Finalizing
<1>2. LockDiscipline'
  BY DEF exchange_app, At, Goal, records, guis, process, RecoveryInvariant,
     LockDiscipline, None, Steps, Exchanging, Restarting, Finalizing
<1>3. WorkerPosition'
  BY DEF exchange_app, At, Goal, records, guis, process, RecoveryInvariant,
     WorkerPosition, at_target, Steps, Exchanging, Restarting, Finalizing
<1>4. Staging'
  BY DEF exchange_app, At, Goal, records, guis, process, RecoveryInvariant,
     Staging, validate, WorkerPosition, Steps, Exchanging, Restarting,
     Finalizing
<1>5. Consistent'
  BY DEF exchange_app, At, Goal, records, guis, process, RecoveryInvariant,
     Consistent, at_target, WorkerPosition, Terminal, Rolling, None, Steps,
     Exchanging, Restarting, Finalizing
<1>6. FlagTypes' /\ ready' \in Receipts \cup {None} /\ GuiObligation' /\
   ExchangeIsExclusive'
  BY DEF exchange_app, At, Goal, records, guis, process, RecoveryInvariant,
     TypeOK, FlagTypes, GuiObligation, ExchangeIsExclusive
<1> QED BY <1>1, <1>2, <1>3, <1>4, <1>5, <1>6 DEF RecoveryInvariant, TypeOK

\* exchange_service: exchanging the runtime keeps both runtimes.
LEMMA exchange_service_preserves ==
    ASSUME RecoveryInvariant, exchange_service
    PROVE  RecoveryInvariant'
<1>1. ArtifactTypes' /\ RecordTypes' /\ ProcessTypes'
  BY BoundsAssumption, DigestAssumption DEF exchange_service, At, Goal,
     records, guis, process, RecoveryInvariant, TypeOK, ArtifactTypes,
     RecordTypes, ProcessTypes, Requests, Results, Journals, Versions, None,
     Phases, Staging, LockDiscipline, WorkerPosition, Steps, Exchanging,
     Restarting, Finalizing
<1>2. LockDiscipline'
  BY DEF exchange_service, At, Goal, records, guis, process, RecoveryInvariant,
     LockDiscipline, None, Steps, Exchanging, Restarting, Finalizing
<1>3. WorkerPosition'
  BY DEF exchange_service, At, Goal, records, guis, process, RecoveryInvariant,
     WorkerPosition, at_target, Steps, Exchanging, Restarting, Finalizing
<1>4. Staging'
  BY DEF exchange_service, At, Goal, records, guis, process, RecoveryInvariant,
     Staging, LockDiscipline, WorkerPosition, Consistent, TypeOK,
     ArtifactTypes, RecordTypes, ProcessTypes, Journals, Requests, Versions,
     None, validate, Steps, Exchanging, Restarting, Finalizing
<1>5. Consistent'
  BY DEF exchange_service, At, Goal, records, guis, process, RecoveryInvariant,
     Consistent, at_target, WorkerPosition, Terminal, Rolling, None, Steps,
     Exchanging, Restarting, Finalizing
<1>6. FlagTypes' /\ ready' \in Receipts \cup {None} /\ GuiObligation' /\
   ExchangeIsExclusive'
  BY DEF exchange_service, At, Goal, records, guis, process, RecoveryInvariant,
     TypeOK, FlagTypes, GuiObligation, ExchangeIsExclusive
<1> QED BY <1>1, <1>2, <1>3, <1>4, <1>5, <1>6 DEF RecoveryInvariant, TypeOK

\* SaveStarting: both artifacts are at the target before a start is journalled.
LEMMA SaveStarting_preserves ==
    ASSUME RecoveryInvariant, SaveStarting
    PROVE  RecoveryInvariant'
<1>1. ArtifactTypes' /\ RecordTypes' /\ ProcessTypes'
  BY BoundsAssumption, DigestAssumption DEF SaveStarting, At, save, at_target,
     Goal, artifacts, guis, process, RecoveryInvariant, TypeOK, ArtifactTypes,
     RecordTypes, ProcessTypes, Requests, Results, Journals, Versions, None,
     Phases, Steps, Exchanging, Restarting, Finalizing
<1>2. LockDiscipline'
  BY DEF SaveStarting, At, save, at_target, Goal, artifacts, guis, process,
     RecoveryInvariant, LockDiscipline, None, Steps, Exchanging, Restarting,
     Finalizing
<1>3. WorkerPosition'
  BY DEF SaveStarting, At, save, at_target, Goal, artifacts, guis, process,
     RecoveryInvariant, WorkerPosition, LockDiscipline, TypeOK, RecordTypes,
     ProcessTypes, Journals, GuiObligation, Consistent, Terminal, Rolling,
     None, Steps, Exchanging, Restarting, Finalizing
<1>4. Staging'
  BY DEF SaveStarting, At, save, at_target, Goal, artifacts, guis, process,
     RecoveryInvariant, Staging, LockDiscipline, WorkerPosition, Consistent,
     TypeOK, ArtifactTypes, RecordTypes, ProcessTypes, Journals, Requests,
     Versions, None, validate, Steps, Exchanging, Restarting, Finalizing
<1>5. Consistent'
  BY DEF SaveStarting, At, save, at_target, Goal, artifacts, guis, process,
     RecoveryInvariant, Consistent, Staging, LockDiscipline, WorkerPosition,
     TypeOK, RecordTypes, ProcessTypes, Journals, Terminal, Rolling, None,
     Steps, Exchanging, Restarting, Finalizing
<1>6. GuiObligation'
  BY DEF SaveStarting, At, save, at_target, Goal, artifacts, guis, process,
     RecoveryInvariant, GuiObligation, WorkerPosition, LockDiscipline, TypeOK,
     RecordTypes, ProcessTypes, Journals, None, Steps, Exchanging, Restarting,
     Finalizing
<1>7. ExchangeIsExclusive'
  BY DEF SaveStarting, At, save, at_target, Goal, artifacts, guis, process,
     RecoveryInvariant, ExchangeIsExclusive, WorkerPosition, None, Steps,
     Exchanging, Restarting, Finalizing
<1>8. FlagTypes' /\ ready' \in Receipts \cup {None}
  BY DEF SaveStarting, At, save, at_target, Goal, artifacts, guis, process,
     RecoveryInvariant, TypeOK, FlagTypes
<1> QED BY <1>1, <1>2, <1>3, <1>4, <1>5, <1>6, <1>7, <1>8 DEF
   RecoveryInvariant, TypeOK

\* RequestStart: the start request names the runtime that is installed.
LEMMA RequestStart_preserves ==
    ASSUME RecoveryInvariant, RequestStart
    PROVE  RecoveryInvariant'
<1>1. ArtifactTypes' /\ RecordTypes' /\ ProcessTypes'
  BY BoundsAssumption, DigestAssumption DEF RequestStart, At, RequestFor, Goal,
     artifacts, records, guis, process, RecoveryInvariant, TypeOK,
     ArtifactTypes, RecordTypes, ProcessTypes, Requests, Results, Journals,
     Versions, None, Phases, Staging, LockDiscipline, WorkerPosition, Steps,
     Exchanging, Restarting, Finalizing
<1>2. LockDiscipline'
  BY DEF RequestStart, At, RequestFor, Goal, artifacts, records, guis, process,
     RecoveryInvariant, LockDiscipline, None, Steps, Exchanging, Restarting,
     Finalizing
<1>3. WorkerPosition'
  BY DEF RequestStart, At, RequestFor, Goal, artifacts, records, guis, process,
     RecoveryInvariant, WorkerPosition, at_target, Steps, Exchanging,
     Restarting, Finalizing
<1>4. FlagTypes' /\ ready' \in Receipts \cup {None} /\ Staging' /\ Consistent'
   /\ GuiObligation' /\ ExchangeIsExclusive'
  BY DEF RequestStart, At, RequestFor, Goal, artifacts, records, guis, process,
     RecoveryInvariant, TypeOK, FlagTypes, Staging, validate, Consistent,
     at_target, GuiObligation, ExchangeIsExclusive
<1> QED BY <1>1, <1>2, <1>3, <1>4 DEF RecoveryInvariant, TypeOK

\* Bootstrap: bootstrap launches the job that was booted out.
LEMMA Bootstrap_preserves ==
    ASSUME RecoveryInvariant, Bootstrap
    PROVE  RecoveryInvariant'
<1>1. ArtifactTypes' /\ RecordTypes' /\ ProcessTypes'
  BY DEF Bootstrap, At, artifacts, records, guis, RecoveryInvariant, TypeOK,
     ArtifactTypes, RecordTypes, ProcessTypes, Steps, Exchanging, Restarting,
     Finalizing
<1>2. LockDiscipline'
  BY DEF Bootstrap, At, artifacts, records, guis, RecoveryInvariant,
     LockDiscipline, None, Steps, Exchanging, Restarting, Finalizing
<1>3. WorkerPosition'
  BY DEF Bootstrap, At, artifacts, records, guis, RecoveryInvariant,
     WorkerPosition, at_target, Steps, Exchanging, Restarting, Finalizing
<1>4. FlagTypes' /\ ready' \in Receipts \cup {None} /\ Staging' /\ Consistent'
   /\ GuiObligation' /\ ExchangeIsExclusive'
  BY DEF Bootstrap, At, artifacts, records, guis, RecoveryInvariant, TypeOK,
     FlagTypes, Staging, validate, Consistent, at_target, GuiObligation,
     ExchangeIsExclusive
<1> QED BY <1>1, <1>2, <1>3, <1>4 DEF RecoveryInvariant, TypeOK

\* Ready: a durable outcome is journalled at its target only.
LEMMA Ready_preserves ==
    ASSUME RecoveryInvariant, Ready
    PROVE  RecoveryInvariant'
<1>1. ArtifactTypes' /\ RecordTypes' /\ ProcessTypes'
  BY BoundsAssumption, DigestAssumption DEF Ready, save, matches, Goal,
     artifacts, guis, process, RecoveryInvariant, TypeOK, ArtifactTypes,
     RecordTypes, ProcessTypes, Requests, Results, Journals, Versions, None,
     Phases, Steps, Exchanging, Restarting, Finalizing
<1>2. LockDiscipline'
  BY DEF Ready, save, matches, Goal, artifacts, guis, process,
     RecoveryInvariant, LockDiscipline, None, Steps, Exchanging, Restarting,
     Finalizing
<1>3. WorkerPosition'
  BY DEF Ready, save, matches, Goal, artifacts, guis, process,
     RecoveryInvariant, WorkerPosition, LockDiscipline, TypeOK, RecordTypes,
     ProcessTypes, Journals, GuiObligation, Consistent, Terminal, Rolling,
     None, at_target, Steps, Exchanging, Restarting, Finalizing
<1>4. Staging'
  BY DEF Ready, save, matches, Goal, artifacts, guis, process,
     RecoveryInvariant, Staging, LockDiscipline, WorkerPosition, Consistent,
     TypeOK, ArtifactTypes, RecordTypes, ProcessTypes, Journals, Requests,
     Versions, None, validate, Steps, Exchanging, Restarting, Finalizing
<1>5. Consistent'
  BY DEF Ready, save, matches, Goal, artifacts, guis, process,
     RecoveryInvariant, Consistent, Staging, LockDiscipline, WorkerPosition,
     TypeOK, RecordTypes, ProcessTypes, Journals, Terminal, Rolling, None,
     at_target, Steps, Exchanging, Restarting, Finalizing
<1>6. GuiObligation'
  BY DEF Ready, save, matches, Goal, artifacts, guis, process,
     RecoveryInvariant, GuiObligation, WorkerPosition, LockDiscipline, TypeOK,
     RecordTypes, ProcessTypes, Journals, None, Steps, Exchanging, Restarting,
     Finalizing
<1>7. ExchangeIsExclusive'
  BY DEF Ready, save, matches, Goal, artifacts, guis, process,
     RecoveryInvariant, ExchangeIsExclusive, WorkerPosition, LockDiscipline,
     TypeOK, RecordTypes, ProcessTypes, Journals, Terminal, Rolling, None,
     Steps, Exchanging, Restarting, Finalizing
<1>8. FlagTypes' /\ ready' \in Receipts \cup {None}
  BY DEF Ready, save, matches, Goal, artifacts, guis, process,
     RecoveryInvariant, TypeOK, FlagTypes
<1> QED BY <1>1, <1>2, <1>3, <1>4, <1>5, <1>6, <1>7, <1>8 DEF
   RecoveryInvariant, TypeOK

\* CandidateFails: a failed candidate turns the transaction around.
LEMMA CandidateFails_preserves ==
    ASSUME RecoveryInvariant, CandidateFails
    PROVE  RecoveryInvariant'
<1>1. ArtifactTypes' /\ RecordTypes' /\ ProcessTypes'
  BY BoundsAssumption, DigestAssumption DEF CandidateFails, save, artifacts,
     guis, process, RecoveryInvariant, TypeOK, ArtifactTypes, RecordTypes,
     ProcessTypes, Requests, Results, Journals, Versions, None, Phases, Steps,
     Exchanging, Restarting, Finalizing
<1>2. LockDiscipline'
  BY DEF CandidateFails, save, artifacts, guis, process, RecoveryInvariant,
     LockDiscipline, None, Steps, Exchanging, Restarting, Finalizing
<1>3. WorkerPosition'
  BY DEF CandidateFails, save, artifacts, guis, process, RecoveryInvariant,
     WorkerPosition, LockDiscipline, TypeOK, RecordTypes, ProcessTypes,
     Journals, GuiObligation, Consistent, Terminal, Rolling, None, at_target,
     Goal, Steps, Exchanging, Restarting, Finalizing
<1>4. Staging'
  BY DEF CandidateFails, save, artifacts, guis, process, RecoveryInvariant,
     Staging, LockDiscipline, WorkerPosition, Consistent, TypeOK,
     ArtifactTypes, RecordTypes, ProcessTypes, Journals, Requests, Versions,
     None, validate, Goal, Steps, Exchanging, Restarting, Finalizing
<1>5. Consistent'
  BY DEF CandidateFails, save, artifacts, guis, process, RecoveryInvariant,
     Consistent, at_target, Goal, WorkerPosition, Terminal, Rolling, None,
     Steps, Exchanging, Restarting, Finalizing
<1>6. GuiObligation'
  BY DEF CandidateFails, save, artifacts, guis, process, RecoveryInvariant,
     GuiObligation, WorkerPosition, LockDiscipline, TypeOK, RecordTypes,
     ProcessTypes, Journals, None, Steps, Exchanging, Restarting, Finalizing
<1>7. FlagTypes' /\ ready' \in Receipts \cup {None} /\ ExchangeIsExclusive'
  BY DEF CandidateFails, save, artifacts, guis, process, RecoveryInvariant,
     TypeOK, FlagTypes, ExchangeIsExclusive
<1> QED BY <1>1, <1>2, <1>3, <1>4, <1>5, <1>6, <1>7 DEF RecoveryInvariant,
   TypeOK

\* NotServing: a finished transaction may have to start its daemon again.
LEMMA NotServing_preserves ==
    ASSUME RecoveryInvariant, NotServing
    PROVE  RecoveryInvariant'
<1>1. ArtifactTypes' /\ RecordTypes' /\ ProcessTypes'
  BY DEF NotServing, At, artifacts, records, guis, process, RecoveryInvariant,
     TypeOK, ArtifactTypes, RecordTypes, ProcessTypes, Steps, Exchanging,
     Restarting, Finalizing
<1>2. LockDiscipline'
  BY DEF NotServing, At, artifacts, records, guis, process, RecoveryInvariant,
     LockDiscipline, None, Steps, Exchanging, Restarting, Finalizing
<1>3. WorkerPosition'
  BY DEF NotServing, At, artifacts, records, guis, process, RecoveryInvariant,
     WorkerPosition, at_target, Steps, Exchanging, Restarting, Finalizing
<1>4. FlagTypes' /\ ready' \in Receipts \cup {None} /\ Staging' /\ Consistent'
   /\ GuiObligation' /\ ExchangeIsExclusive'
  BY DEF NotServing, At, artifacts, records, guis, process, RecoveryInvariant,
     TypeOK, FlagTypes, Staging, validate, Consistent, at_target,
     GuiObligation, ExchangeIsExclusive
<1> QED BY <1>1, <1>2, <1>3, <1>4 DEF RecoveryInvariant, TypeOK

\* restore_guis: after restoration no GUI is owed.
LEMMA restore_guis_preserves ==
    ASSUME RecoveryInvariant, restore_guis
    PROVE  RecoveryInvariant'
<1>1. ArtifactTypes' /\ RecordTypes' /\ ProcessTypes'
  BY DEF restore_guis, At, artifacts, records, process, RecoveryInvariant,
     TypeOK, ArtifactTypes, RecordTypes, ProcessTypes, Steps, Exchanging,
     Restarting, Finalizing
<1>2. LockDiscipline'
  BY DEF restore_guis, At, artifacts, records, process, RecoveryInvariant,
     LockDiscipline, None, Steps, Exchanging, Restarting, Finalizing
<1>3. WorkerPosition'
  BY DEF restore_guis, At, artifacts, records, process, RecoveryInvariant,
     WorkerPosition, LockDiscipline, TypeOK, RecordTypes, ProcessTypes,
     Journals, GuiObligation, Consistent, Terminal, Rolling, None, at_target,
     Goal, Steps, Exchanging, Restarting, Finalizing
<1>4. FlagTypes' /\ ready' \in Receipts \cup {None} /\ Staging' /\ Consistent'
   /\ GuiObligation' /\ ExchangeIsExclusive'
  BY DEF restore_guis, At, artifacts, records, process, RecoveryInvariant,
     TypeOK, FlagTypes, Staging, validate, Consistent, at_target,
     GuiObligation, ExchangeIsExclusive
<1> QED BY <1>1, <1>2, <1>3, <1>4 DEF RecoveryInvariant, TypeOK

\* SaveResult: the evidence is written while the journal still stands.
LEMMA SaveResult_preserves ==
    ASSUME RecoveryInvariant, SaveResult
    PROVE  RecoveryInvariant'
<1>1. ArtifactTypes' /\ RecordTypes' /\ ProcessTypes'
  BY DEF SaveResult, At, artifacts, guis, process, RecoveryInvariant, TypeOK,
     ArtifactTypes, RecordTypes, ProcessTypes, Steps, Exchanging, Restarting,
     Finalizing
<1>2. LockDiscipline'
  BY DEF SaveResult, At, artifacts, guis, process, RecoveryInvariant,
     LockDiscipline, None, Steps, Exchanging, Restarting, Finalizing
<1>3. WorkerPosition'
  BY DEF SaveResult, At, artifacts, guis, process, RecoveryInvariant,
     WorkerPosition, at_target, Steps, Exchanging, Restarting, Finalizing
<1>4. FlagTypes' /\ ready' \in Receipts \cup {None} /\ Staging' /\ Consistent'
   /\ GuiObligation' /\ ExchangeIsExclusive'
  BY DEF SaveResult, At, artifacts, guis, process, RecoveryInvariant, TypeOK,
     FlagTypes, Staging, validate, Consistent, at_target, GuiObligation,
     ExchangeIsExclusive
<1> QED BY <1>1, <1>2, <1>3, <1>4 DEF RecoveryInvariant, TypeOK

\* SavePending: so is the intent to clean up.
LEMMA SavePending_preserves ==
    ASSUME RecoveryInvariant, SavePending
    PROVE  RecoveryInvariant'
<1>1. ArtifactTypes' /\ RecordTypes' /\ ProcessTypes'
  BY DEF SavePending, At, artifacts, guis, process, RecoveryInvariant, TypeOK,
     ArtifactTypes, RecordTypes, ProcessTypes, Steps, Exchanging, Restarting,
     Finalizing
<1>2. LockDiscipline'
  BY DEF SavePending, At, artifacts, guis, process, RecoveryInvariant,
     LockDiscipline, None, Steps, Exchanging, Restarting, Finalizing
<1>3. WorkerPosition'
  BY DEF SavePending, At, artifacts, guis, process, RecoveryInvariant,
     WorkerPosition, at_target, Steps, Exchanging, Restarting, Finalizing
<1>4. Staging'
  BY DEF SavePending, At, artifacts, guis, process, RecoveryInvariant, Staging,
     validate, WorkerPosition, Steps, Exchanging, Restarting, Finalizing
<1>5. FlagTypes' /\ ready' \in Receipts \cup {None} /\ Consistent' /\
   GuiObligation' /\ ExchangeIsExclusive'
  BY DEF SavePending, At, artifacts, guis, process, RecoveryInvariant, TypeOK,
     FlagTypes, Consistent, at_target, GuiObligation, ExchangeIsExclusive
<1> QED BY <1>1, <1>2, <1>3, <1>4, <1>5 DEF RecoveryInvariant, TypeOK

\* Retire: retirement leaves a consistent pair behind.
LEMMA Retire_preserves ==
    ASSUME RecoveryInvariant, Retire
    PROVE  RecoveryInvariant'
<1>1. ArtifactTypes' /\ RecordTypes' /\ ProcessTypes'
  BY DEF Retire, At, artifacts, guis, process, RecoveryInvariant, TypeOK,
     ArtifactTypes, RecordTypes, ProcessTypes, Steps, Exchanging, Restarting,
     Finalizing
<1>2. LockDiscipline'
  BY DEF Retire, At, artifacts, guis, process, RecoveryInvariant,
     LockDiscipline, None, Steps, Exchanging, Restarting, Finalizing
<1>3. WorkerPosition'
  BY DEF Retire, At, artifacts, guis, process, RecoveryInvariant,
     WorkerPosition, at_target, Steps, Exchanging, Restarting, Finalizing
<1>4. Staging'
  BY DEF Retire, At, artifacts, guis, process, RecoveryInvariant, Staging,
     validate, WorkerPosition, Steps, Exchanging, Restarting, Finalizing
<1>5. Consistent'
  BY DEF Retire, At, artifacts, guis, process, RecoveryInvariant, Consistent,
     at_target, Goal, WorkerPosition, Terminal, Rolling, None, Steps,
     Exchanging, Restarting, Finalizing
<1>6. GuiObligation'
  BY DEF Retire, At, artifacts, guis, process, RecoveryInvariant,
     GuiObligation, WorkerPosition, None, Steps, Exchanging, Restarting,
     Finalizing
<1>7. FlagTypes' /\ ready' \in Receipts \cup {None} /\ ExchangeIsExclusive'
  BY DEF Retire, At, artifacts, guis, process, RecoveryInvariant, TypeOK,
     FlagTypes, ExchangeIsExclusive
<1> QED BY <1>1, <1>2, <1>3, <1>4, <1>5, <1>6, <1>7 DEF RecoveryInvariant,
   TypeOK

\* Cleanup: cleanup removes private staging of a retired transaction only.
LEMMA Cleanup_preserves ==
    ASSUME RecoveryInvariant, Cleanup
    PROVE  RecoveryInvariant'
<1>1. ArtifactTypes' /\ RecordTypes' /\ ProcessTypes'
  BY BoundsAssumption, DigestAssumption DEF Cleanup, At, records, process,
     RecoveryInvariant, TypeOK, ArtifactTypes, RecordTypes, ProcessTypes,
     Requests, Results, Journals, Versions, None, Phases, Steps, Exchanging,
     Restarting, Finalizing
<1>2. FlagTypes'
  BY Zenon DEF Cleanup, At, records, process, RecoveryInvariant, TypeOK,
     FlagTypes
<1>3. Staging'
  BY DEF Cleanup, At, records, process, RecoveryInvariant, Staging, validate,
     WorkerPosition, Steps, Exchanging, Restarting, Finalizing
<1>4. GuiObligation'
  BY DEF Cleanup, At, records, process, RecoveryInvariant, GuiObligation,
     WorkerPosition, None, Steps, Exchanging, Restarting, Finalizing
<1>5. ready' \in Receipts \cup {None} /\ LockDiscipline' /\ WorkerPosition' /\
   Consistent' /\ ExchangeIsExclusive'
  BY DEF Cleanup, At, records, process, RecoveryInvariant, TypeOK,
     LockDiscipline, WorkerPosition, at_target, Consistent, ExchangeIsExclusive
<1> QED BY <1>1, <1>2, <1>3, <1>4, <1>5 DEF RecoveryInvariant, TypeOK

\* Cleaned: the intent goes when nothing is left to clean up.
LEMMA Cleaned_preserves ==
    ASSUME RecoveryInvariant, Cleaned
    PROVE  RecoveryInvariant'
<1>1. ArtifactTypes' /\ RecordTypes' /\ ProcessTypes'
  BY BoundsAssumption, DigestAssumption DEF Cleaned, At, artifacts, guis,
     process, RecoveryInvariant, TypeOK, ArtifactTypes, RecordTypes,
     ProcessTypes, Requests, Results, Journals, Versions, None, Phases,
     Staging, LockDiscipline, WorkerPosition, Steps, Exchanging, Restarting,
     Finalizing
<1>2. LockDiscipline'
  BY DEF Cleaned, At, artifacts, guis, process, RecoveryInvariant,
     LockDiscipline, None, Steps, Exchanging, Restarting, Finalizing
<1>3. WorkerPosition'
  BY DEF Cleaned, At, artifacts, guis, process, RecoveryInvariant,
     WorkerPosition, at_target, Steps, Exchanging, Restarting, Finalizing
<1>4. FlagTypes' /\ ready' \in Receipts \cup {None} /\ Staging' /\ Consistent'
   /\ GuiObligation' /\ ExchangeIsExclusive'
  BY DEF Cleaned, At, artifacts, guis, process, RecoveryInvariant, TypeOK,
     FlagTypes, Staging, validate, Consistent, at_target, GuiObligation,
     ExchangeIsExclusive
<1> QED BY <1>1, <1>2, <1>3, <1>4 DEF RecoveryInvariant, TypeOK

\* WorkerFails: an error keeps the journal as it stands.
LEMMA WorkerFails_preserves ==
    ASSUME RecoveryInvariant, NEW d \in BOOLEAN, WorkerFails(d)
    PROVE  RecoveryInvariant'
<1>1. ArtifactTypes' /\ RecordTypes' /\ ProcessTypes'
  BY BoundsAssumption, DigestAssumption DEF WorkerFails, artifacts, records,
     process, RecoveryInvariant, TypeOK, ArtifactTypes, RecordTypes,
     ProcessTypes, Requests, Results, Journals, Versions, None, Phases,
     Staging, LockDiscipline, WorkerPosition, Steps, Exchanging, Restarting,
     Finalizing
<1>2. LockDiscipline'
  BY DEF WorkerFails, artifacts, records, process, RecoveryInvariant,
     LockDiscipline, None, Steps, Exchanging, Restarting, Finalizing
<1>3. WorkerPosition'
  BY DEF WorkerFails, artifacts, records, process, RecoveryInvariant,
     WorkerPosition, at_target, Steps, Exchanging, Restarting, Finalizing
<1>4. FlagTypes' /\ ready' \in Receipts \cup {None} /\ Staging' /\ Consistent'
   /\ GuiObligation' /\ ExchangeIsExclusive'
  BY DEF WorkerFails, artifacts, records, process, RecoveryInvariant, TypeOK,
     FlagTypes, Staging, validate, Consistent, at_target, GuiObligation,
     ExchangeIsExclusive
<1> QED BY <1>1, <1>2, <1>3, <1>4 DEF RecoveryInvariant, TypeOK

\* WorkerDies: so does the death of the worker.
LEMMA WorkerDies_preserves ==
    ASSUME RecoveryInvariant, WorkerDies
    PROVE  RecoveryInvariant'
<1>1. LockDiscipline'
  BY DEF WorkerDies, artifacts, records, guis, process, RecoveryInvariant,
     LockDiscipline, None, Steps, Exchanging, Restarting, Finalizing
<1>2. WorkerPosition'
  BY DEF WorkerDies, artifacts, records, guis, process, RecoveryInvariant,
     WorkerPosition, at_target, Steps, Exchanging, Restarting, Finalizing
<1>3. ArtifactTypes' /\ RecordTypes' /\ ProcessTypes' /\ FlagTypes' /\ ready'
   \in Receipts \cup {None} /\ Staging' /\ Consistent' /\ GuiObligation' /\
   ExchangeIsExclusive'
  BY DEF WorkerDies, artifacts, records, guis, process, RecoveryInvariant,
     TypeOK, ArtifactTypes, RecordTypes, ProcessTypes, FlagTypes, Staging,
     validate, Consistent, at_target, GuiObligation, ExchangeIsExclusive
<1> QED BY <1>1, <1>2, <1>3 DEF RecoveryInvariant, TypeOK

\* Reboot: so does a reboot, which forgets every process.
LEMMA Reboot_preserves ==
    ASSUME RecoveryInvariant, Reboot
    PROVE  RecoveryInvariant'
<1>1. ArtifactTypes' /\ RecordTypes' /\ ProcessTypes'
  BY BoundsAssumption, DigestAssumption DEF Reboot, artifacts, records,
     RecoveryInvariant, TypeOK, ArtifactTypes, RecordTypes, ProcessTypes,
     Requests, Results, Journals, Versions, None, Phases, Steps, Exchanging,
     Restarting, Finalizing
<1>2. ready' \in Receipts \cup {None}
  BY Expired DEF Reboot, artifacts, records, RecoveryInvariant, TypeOK
<1>3. LockDiscipline'
  BY DEF Reboot, artifacts, records, RecoveryInvariant, LockDiscipline, None,
     Steps, Exchanging, Restarting, Finalizing
<1>4. WorkerPosition'
  BY DEF Reboot, artifacts, records, RecoveryInvariant, WorkerPosition,
     at_target, Steps, Exchanging, Restarting, Finalizing
<1>5. FlagTypes' /\ Staging' /\ Consistent' /\ GuiObligation' /\
   ExchangeIsExclusive'
  BY DEF Reboot, artifacts, records, RecoveryInvariant, TypeOK, FlagTypes,
     Staging, validate, Consistent, at_target, GuiObligation,
     ExchangeIsExclusive
<1> QED BY <1>1, <1>2, <1>3, <1>4, <1>5 DEF RecoveryInvariant, TypeOK

-----------------------------------------------------------------------------
\* Whatever the daemon, the worker or a failure does next, RecoveryInvariant
\* holds afterwards.
LEMMA NextPreserves ==
    ASSUME RecoveryInvariant, [Next]_vars
    PROVE  RecoveryInvariant'
<1>1. CASE UNCHANGED vars
  BY <1>1 DEF vars, artifacts, records, guis, process, RecoveryInvariant, TypeOK,
     ArtifactTypes, RecordTypes, ProcessTypes, FlagTypes, LockDiscipline,
     WorkerPosition, Staging, Consistent, GuiObligation, ExchangeIsExclusive,
     validate, at_target
<1>2. CASE DaemonStep
  BY <1>2, check_candidate_preserves, download_preserves,
     prepare_locked_preserves, PreparationFails_preserves,
     dispatch_attempt_preserves, DaemonDies_preserves,
     restart_service_preserves, StartupServes_preserves,
     StartupParks_preserves, CandidateMigrates_preserves, Serves_preserves DEF
     DaemonStep
<1>3. CASE WorkerStep
  BY <1>3, WorkerStarts_preserves, resume_locked_preserves,
     QuiesceGuis_preserves, request_exit_preserves, StopDaemon_preserves,
     CheckStopped_preserves, exchange_app_preserves,
     exchange_service_preserves, SaveStarting_preserves,
     RequestStart_preserves, Bootstrap_preserves, Ready_preserves,
     CandidateFails_preserves, NotServing_preserves, restore_guis_preserves,
     SaveResult_preserves, SavePending_preserves, Retire_preserves,
     Cleanup_preserves, Cleaned_preserves DEF WorkerStep
<1>4. CASE Failure
  BY <1>4, WorkerFails_preserves, WorkerDies_preserves, Reboot_preserves DEF
     Failure
<1> QED BY <1>1, <1>2, <1>3, <1>4 DEF Next

\* A freshly migrated machine satisfies it: one release is installed, nothing
\* is staged or journalled and the daemon serves.
LEMMA InitEstablishes == Init => RecoveryInvariant
<1> SUFFICES ASSUME Init PROVE RecoveryInvariant
  OBVIOUS
<1>1. ArtifactTypes /\ RecordTypes /\ ProcessTypes /\ ready \in Receipts \cup {None}
  BY BoundsAssumption, DigestAssumption DEF Init, ArtifactTypes, RecordTypes,
     ProcessTypes, Versions
<1>4. FlagTypes
  BY DEF Init, FlagTypes
<1>2. LockDiscipline /\ WorkerPosition /\ Staging
  BY DEF Init, LockDiscipline, WorkerPosition, Staging, Steps, Exchanging,
     Restarting, Finalizing
<1>3. Consistent /\ GuiObligation /\ ExchangeIsExclusive
  BY DEF Init, Consistent, GuiObligation, ExchangeIsExclusive
<1> QED BY <1>1, <1>2, <1>3, <1>4 DEF RecoveryInvariant, TypeOK

\* RecoveryInvariant holds of every behaviour of the updater.
THEOREM TransactionIsSound == Spec => []RecoveryInvariant
<1>1. Init => RecoveryInvariant
  BY InitEstablishes
<1>2. RecoveryInvariant /\ [Next]_vars => RecoveryInvariant'
  BY NextPreserves
<1> QED BY <1>1, <1>2, PTL DEF Spec

\* The updater's files stay well formed (store.rs and the records of
\* transaction.rs, receipt.rs and runtime.rs).
THEOREM TypeCorrect == Spec => []TypeOK
<1>1. RecoveryInvariant => TypeOK
  BY DEF RecoveryInvariant
<1> QED BY <1>1, TransactionIsSound, PTL

\* validate never refuses a recovery for want of an artifact: at every point a
\* crash can strike, both apps and both runtimes are where it looks for them.
THEOREM AlwaysRecoverable == Spec => []Recoverable
<1>1. RecoveryInvariant => Recoverable
  <2> SUFFICES ASSUME RecoveryInvariant, journal # None
               PROVE  validate(journal, stage_runtime(journal))
    BY DEF Recoverable
  <2>1. CASE stage = None
    <3>1. incoming = journal.new /\ {app, incoming} = {journal.old, journal.new}
      BY <2>1 DEF RecoveryInvariant, Staging, TypeOK, ArtifactTypes, RecordTypes,
         Journals, Versions
    <3> QED BY <2>1, <3>1 DEF RecoveryInvariant, Staging, stage_runtime, validate
  <2>2. CASE stage # None
    BY <2>2 DEF RecoveryInvariant, Staging, stage_runtime
  <2> QED BY <2>1, <2>2
<1> QED BY <1>1, TransactionIsSound, PTL

\* Outside a transaction, and as soon as its outcome is durable, the installed
\* app and the root runtime belong together (finalize and at_target).
THEOREM AlwaysConsistent == Spec => []Consistent
<1>1. RecoveryInvariant => Consistent
  BY DEF RecoveryInvariant
<1> QED BY <1>1, TransactionIsSound, PTL

\* The runtime that preceded a migration of the database is never started on it
\* (the schema checks of resume_locked and rollback).
THEOREM NoDowngrade == Spec => []NeverDowngrades
<1>1. RecoveryInvariant => NeverDowngrades
  BY DEF RecoveryInvariant, Staging, NeverDowngrades
<1> QED BY <1>1, TransactionIsSound, PTL

\* A GUI session the updater has stopped stays on record until it is restored
\* (quiesce_inner and restore_saved_guis).
THEOREM GuiIsOwed == Spec => []GuiObligation
<1>1. RecoveryInvariant => GuiObligation
  BY DEF RecoveryInvariant
<1> QED BY <1>1, TransactionIsSound, PTL

\* No daemon runs while the pair is exchanged for the candidate (startup).
THEOREM ExclusiveExchange == Spec => []ExchangeIsExclusive
<1>1. RecoveryInvariant => ExchangeIsExclusive
  BY DEF RecoveryInvariant
<1> QED BY <1>1, TransactionIsSound, PTL
=============================================================================
