------------------------- MODULE UpdateDrainProofs -------------------------
(***************************************************************************)
(* The drain protocol keeps DrainInvariant, for any number of attempts,    *)
(* processes and pieces of work.  One lemma per action; under it one step  *)
(* per part the action can disturb and one for the parts whose variables   *)
(* it leaves alone.                                                        *)
(***************************************************************************)
EXTENDS UpdateDrain, TLAPS

\* An absent record carries the nonce no attempt draws.
LEMMA Nothing == None.nonce = 0
  BY DEF None

\* A daemon that serves without leases, requests and work satisfies it.
LEMMA Established == Init => DrainInvariant
<1> SUFFICES ASSUME Init PROVE DrainInvariant
  OBVIOUS
<1>1. AttemptTypes /\ ReportTypes
  BY DrainAssumption DEF Init, AttemptTypes, ReportTypes
<1>2. LeaseTypes
  BY DEF Init, LeaseTypes
<1>3. WorkTypes
  BY DrainAssumption DEF Init, WorkTypes, Counts
<1>4. LeaseIsIdle /\ FrozenObservation /\ NoWorkUnlessServing
  BY DEF Init, LeaseIsIdle, FrozenObservation, NoWorkUnlessServing
<1>5. StopsOnlyTheGone /\ AcknowledgedIsGone
  BY DEF Init, StopsOnlyTheGone, AcknowledgedIsGone
<1>6. NoncesWereDrawn
  BY Nothing DEF Init, NoncesWereDrawn
<1>7. RequestIsOwned
  BY DEF Init, RequestIsOwned
<1> QED
  BY <1>1, <1>2, <1>3, <1>4, <1>5, <1>6, <1>7 DEF DrainInvariant, TypeOK

\* A new attempt's nonce is above every one in use, so nothing matches it yet.
LEMMA AskPreserves ==
  ASSUME DrainInvariant, NEW m \in BOOLEAN, Ask(m)
  PROVE  DrainInvariant'
<1>1. AttemptTypes'
  BY DrainAssumption DEF DrainInvariant, TypeOK, AttemptTypes, ReportTypes,
     Attempts, Ask, lease
<1>2. ReportTypes'
  BY DEF DrainInvariant, TypeOK, ReportTypes, Ask, process
<1>3. StopsOnlyTheGone'
  BY DEF StopsOnlyTheGone, Ask
<1>4. NoncesWereDrawn'
  BY Nothing DEF DrainInvariant, NoncesWereDrawn, TypeOK, AttemptTypes, Ask, lease
<1>5. RequestIsOwned'
  BY Nothing DEF DrainInvariant, RequestIsOwned, NoncesWereDrawn, TypeOK,
     AttemptTypes, Ask, lease
<1>6. AcknowledgedIsGone'
  BY DEF AcknowledgedIsGone, Ask
<1>7. (LeaseTypes /\ WorkTypes /\ LeaseIsIdle /\ FrozenObservation /\
        NoWorkUnlessServing)'
  BY DEF DrainInvariant, TypeOK, LeaseTypes, WorkTypes, LeaseIsIdle,
     FrozenObservation, NoWorkUnlessServing, Ask, lease, work, process
<1>q. QED
  BY <1>1, <1>2, <1>3, <1>4, <1>5, <1>6, <1>7 DEF DrainInvariant, TypeOK

\* Without a PID the process asked for has exited.
LEMMA NothingToStopPreserves ==
  ASSUME DrainInvariant, NothingToStop
  PROVE  DrainInvariant'
<1>1. AttemptTypes'
  BY DrainAssumption DEF DrainInvariant, TypeOK, AttemptTypes, ReportTypes,
     NothingToStop, files, lease
<1>2. StopsOnlyTheGone'
  BY DEF StopsOnlyTheGone, Gone, NothingToStop, process
<1>3. NoncesWereDrawn'
  BY DEF DrainInvariant, NoncesWereDrawn, TypeOK, AttemptTypes, NothingToStop,
     files, lease
<1>4. RequestIsOwned'
  BY DEF DrainInvariant, RequestIsOwned, NothingToStop, files, lease
<1>5. (ReportTypes /\ LeaseTypes /\ WorkTypes /\ LeaseIsIdle /\ FrozenObservation
        /\ NoWorkUnlessServing /\ AcknowledgedIsGone)'
  BY DEF DrainInvariant, TypeOK, ReportTypes, LeaseTypes, WorkTypes, LeaseIsIdle,
     FrozenObservation, NoWorkUnlessServing, AcknowledgedIsGone, Gone,
     NothingToStop, files, lease, work, process
<1>q. QED
  BY <1>1, <1>2, <1>3, <1>4, <1>5 DEF DrainInvariant, TypeOK

\* A commit repeats the request the asker still owns.
LEMMA CommitPreserves ==
  ASSUME DrainInvariant, Commit
  PROVE  DrainInvariant'
<1>1. AttemptTypes'
  BY DEF DrainInvariant, TypeOK, AttemptTypes, RequestIsOwned, Commit, lease
<1>2. StopsOnlyTheGone'
  BY DEF StopsOnlyTheGone, Commit
<1>3. NoncesWereDrawn'
  BY DEF DrainInvariant, NoncesWereDrawn, Commit, lease
<1>4. RequestIsOwned'
  BY Nothing DEF DrainInvariant, RequestIsOwned, TypeOK, ReportTypes, Attempts,
     Commit, Answered, lease
<1>5. (ReportTypes /\ LeaseTypes /\ WorkTypes /\ LeaseIsIdle /\ FrozenObservation
        /\ NoWorkUnlessServing /\ AcknowledgedIsGone)'
  BY DEF DrainInvariant, TypeOK, ReportTypes, LeaseTypes, WorkTypes, LeaseIsIdle,
     FrozenObservation, NoWorkUnlessServing, AcknowledgedIsGone, Commit, Answered,
     lease, work, process
<1>q. QED
  BY <1>1, <1>2, <1>3, <1>4, <1>5 DEF DrainInvariant, TypeOK

\* The acknowledgement names this attempt and the PID it was sent to.
LEMMA AcknowledgedPreserves ==
  ASSUME DrainInvariant, Acknowledged
  PROVE  DrainInvariant'
<1>1. AttemptTypes'
  BY DEF DrainInvariant, TypeOK, AttemptTypes, Acknowledged, files, lease
<1>2. StopsOnlyTheGone'
  BY DEF DrainInvariant, StopsOnlyTheGone, AcknowledgedIsGone, Gone, Acknowledged,
     Answered, process
<1>3. NoncesWereDrawn'
  BY DEF DrainInvariant, NoncesWereDrawn, Acknowledged, files, lease
<1>4. RequestIsOwned'
  BY DEF DrainInvariant, RequestIsOwned, Acknowledged, files, lease
<1>5. (ReportTypes /\ LeaseTypes /\ WorkTypes /\ LeaseIsIdle /\ FrozenObservation
        /\ NoWorkUnlessServing /\ AcknowledgedIsGone)'
  BY DEF DrainInvariant, TypeOK, ReportTypes, LeaseTypes, WorkTypes, LeaseIsIdle,
     FrozenObservation, NoWorkUnlessServing, AcknowledgedIsGone, Gone,
     Acknowledged, files, lease, work, process
<1>q. QED
  BY <1>1, <1>2, <1>3, <1>4, <1>5 DEF DrainInvariant, TypeOK

\* A deferral withdraws the request; a lease for it no longer matches anything.
LEMMA DeferredPreserves ==
  ASSUME DrainInvariant, Deferred
  PROVE  DrainInvariant'
<1>1. AttemptTypes'
  BY DEF DrainInvariant, TypeOK, AttemptTypes, Deferred, lease
<1>2. StopsOnlyTheGone'
  BY DEF StopsOnlyTheGone, Deferred
<1>3. NoncesWereDrawn'
  BY Nothing DEF DrainInvariant, NoncesWereDrawn, TypeOK, AttemptTypes, Deferred,
     lease
<1>4. RequestIsOwned'
  BY DEF RequestIsOwned, Deferred
<1>5. (ReportTypes /\ LeaseTypes /\ WorkTypes /\ LeaseIsIdle /\ FrozenObservation
        /\ NoWorkUnlessServing /\ AcknowledgedIsGone)'
  BY DEF DrainInvariant, TypeOK, ReportTypes, LeaseTypes, WorkTypes, LeaseIsIdle,
     FrozenObservation, NoWorkUnlessServing, AcknowledgedIsGone, Gone, Deferred,
     lease, work, process
<1>q. QED
  BY <1>1, <1>2, <1>3, <1>4, <1>5 DEF DrainInvariant, TypeOK

\* A dead asker owes nothing; its request stays.
LEMMA AskerDiesPreserves ==
  ASSUME DrainInvariant, AskerDies
  PROVE  DrainInvariant'
<1>1. AttemptTypes'
  BY DEF DrainInvariant, TypeOK, AttemptTypes, AskerDies, files, lease
<1>2. StopsOnlyTheGone'
  BY DEF StopsOnlyTheGone, AskerDies
<1>3. NoncesWereDrawn'
  BY DEF DrainInvariant, NoncesWereDrawn, AskerDies, files, lease
<1>4. RequestIsOwned'
  BY DEF DrainInvariant, RequestIsOwned, AskerDies, files, lease
<1>5. (ReportTypes /\ LeaseTypes /\ WorkTypes /\ LeaseIsIdle /\ FrozenObservation
        /\ NoWorkUnlessServing /\ AcknowledgedIsGone)'
  BY DEF DrainInvariant, TypeOK, ReportTypes, LeaseTypes, WorkTypes, LeaseIsIdle,
     FrozenObservation, NoWorkUnlessServing, AcknowledgedIsGone, Gone, AskerDies,
     files, lease, work, process
<1>q. QED
  BY <1>1, <1>2, <1>3, <1>4, <1>5 DEF DrainInvariant, TypeOK

\* Without a request the tick drops the lease and its guards.
LEMMA NoRequestPreserves ==
  ASSUME DrainInvariant, NoRequest
  PROVE  DrainInvariant'
<1>1. AttemptTypes'
  BY DrainAssumption DEF DrainInvariant, TypeOK, AttemptTypes, NoRequest, files
<1>2. LeaseTypes'
  BY DEF LeaseTypes, NoRequest, Ticks, Drop
<1>3. WorkTypes'
  BY DEF DrainInvariant, TypeOK, WorkTypes, NoRequest, Drop, Release
<1>4. LeaseIsIdle'
  BY DEF LeaseIsIdle, NoRequest, Drop
<1>5. NoncesWereDrawn'
  BY DEF DrainInvariant, NoncesWereDrawn, NoRequest, Drop, files
<1>6. RequestIsOwned'
  BY DEF DrainInvariant, RequestIsOwned, NoRequest, files
<1>7. FrozenObservation'
  BY DEF FrozenObservation, NoRequest, Ticks
<1>8. NoWorkUnlessServing'
  BY DEF DrainInvariant, NoWorkUnlessServing, NoRequest, Drop, Release, process
<1>9. (ReportTypes /\ StopsOnlyTheGone /\ AcknowledgedIsGone)'
  BY DEF DrainInvariant, TypeOK, ReportTypes, StopsOnlyTheGone,
     AcknowledgedIsGone, Gone, NoRequest, files, process
<1>q. QED
  BY <1>1, <1>2, <1>3, <1>4, <1>5, <1>6, <1>7, <1>8, <1>9 DEF DrainInvariant, TypeOK

\* An expired lease goes with its guards.
LEMMA ExpirePreserves ==
  ASSUME DrainInvariant, Expire
  PROVE  DrainInvariant'
<1>1. AttemptTypes'
  BY DEF DrainInvariant, TypeOK, AttemptTypes, Attempts, Expire, LeaseFor
<1>2. ReportTypes'
  BY DEF DrainInvariant, TypeOK, ReportTypes, LeaseTypes, Leases, Expire, Report, Message,
     LeaseFor, process
<1>3. LeaseTypes'
  BY DEF LeaseTypes, Expire, Ticks, Drop
<1>4. WorkTypes'
  BY DEF DrainInvariant, TypeOK, WorkTypes, Expire, Drop, Release
<1>5. LeaseIsIdle'
  BY DEF LeaseIsIdle, Expire, Drop
<1>6. NoncesWereDrawn'
  BY DEF DrainInvariant, NoncesWereDrawn, Expire, Ticks, Drop, Report, Message
<1>7. RequestIsOwned'
  BY DEF DrainInvariant, RequestIsOwned, Expire, Drop
<1>8. FrozenObservation'
  BY DEF DrainInvariant, FrozenObservation, Expire, LeaseFor
<1>9. NoWorkUnlessServing'
  BY DEF DrainInvariant, NoWorkUnlessServing, Expire, Drop, Release, process
<1>10. AcknowledgedIsGone'
  BY DEF AcknowledgedIsGone, Expire, Report, Message
<1>11. StopsOnlyTheGone'
  BY DEF DrainInvariant, StopsOnlyTheGone, Gone, Expire, process
<1>q. QED
  BY <1>1, <1>2, <1>3, <1>4, <1>5, <1>6, <1>7, <1>8, <1>9, <1>10, <1>11 DEF DrainInvariant, TypeOK

\* Renewing a lease only repeats its report.
LEMMA RenewPreserves ==
  ASSUME DrainInvariant, Renew
  PROVE  DrainInvariant'
<1>1. ReportTypes'
  BY DEF DrainInvariant, TypeOK, ReportTypes, LeaseTypes, Leases, Renew, Report, Message,
     LeaseFor, process
<1>2. NoncesWereDrawn'
  BY DEF DrainInvariant, NoncesWereDrawn, Renew, Report, Message, lease
<1>3. AcknowledgedIsGone'
  BY DEF AcknowledgedIsGone, Renew, Report, Message
<1>4. (AttemptTypes /\ LeaseTypes /\ WorkTypes /\ LeaseIsIdle /\ StopsOnlyTheGone
        /\ RequestIsOwned /\ FrozenObservation /\ NoWorkUnlessServing)'
  BY DEF DrainInvariant, TypeOK, AttemptTypes, LeaseTypes, WorkTypes, LeaseIsIdle,
     StopsOnlyTheGone, RequestIsOwned, FrozenObservation, NoWorkUnlessServing,
     Gone, Renew, lease, work, process
<1>q. QED
  BY <1>1, <1>2, <1>3, <1>4 DEF DrainInvariant, TypeOK

\* The daemon exits from a running lease; its acknowledgement names a gone PID.
LEMMA ExitPreserves ==
  ASSUME DrainInvariant, Exit
  PROVE  DrainInvariant'
<1>1. AttemptTypes'
  BY DrainAssumption DEF DrainInvariant, TypeOK, AttemptTypes, Exit
<1>2. ReportTypes'
  BY DEF DrainInvariant, TypeOK, ReportTypes, LeaseTypes, Leases, Exit, Report, Message,
     LeaseFor
<1>3. LeaseTypes'
  BY DEF LeaseTypes, Exit
<1>4. WorkTypes'
  BY DrainAssumption DEF WorkTypes, Counts, Exit
<1>5. LeaseIsIdle'
  BY DEF LeaseIsIdle, Exit
<1>6. StopsOnlyTheGone'
  BY DEF DrainInvariant, StopsOnlyTheGone, Gone, Exit
<1>7. NoncesWereDrawn'
  BY DEF DrainInvariant, NoncesWereDrawn, Exit, Ticks, Report, Message
<1>8. RequestIsOwned'
  BY DEF DrainInvariant, RequestIsOwned, Exit
<1>9. FrozenObservation'
  BY DEF FrozenObservation, Exit
<1>10. NoWorkUnlessServing'
  BY DEF NoWorkUnlessServing, Exit
<1>11. AcknowledgedIsGone'
  BY DEF AcknowledgedIsGone, Gone, Exit, Report, Message
<1>q. QED
  BY <1>1, <1>2, <1>3, <1>4, <1>5, <1>6, <1>7, <1>8, <1>9, <1>10, <1>11 DEF DrainInvariant, TypeOK

\* A request that grants nothing only ends the lease before it.
LEMMA SupersededPreserves ==
  ASSUME DrainInvariant, Superseded
  PROVE  DrainInvariant'
<1>1. LeaseTypes'
  BY DEF LeaseTypes, Superseded, Ticks, Drop
<1>2. WorkTypes'
  BY DEF DrainInvariant, TypeOK, WorkTypes, Superseded, Drop, Release
<1>3. LeaseIsIdle'
  BY DEF LeaseIsIdle, Superseded, Drop
<1>4. NoncesWereDrawn'
  BY DEF DrainInvariant, NoncesWereDrawn, Superseded, Ticks, Drop, files
<1>5. RequestIsOwned'
  BY DEF DrainInvariant, RequestIsOwned, Superseded, Drop, files
<1>6. FrozenObservation'
  BY DEF FrozenObservation, Superseded, Ticks
<1>7. NoWorkUnlessServing'
  BY DEF DrainInvariant, NoWorkUnlessServing, Superseded, Drop, Release, process
<1>8. (AttemptTypes /\ ReportTypes /\ StopsOnlyTheGone /\ AcknowledgedIsGone)'
  BY DEF DrainInvariant, TypeOK, AttemptTypes, ReportTypes, StopsOnlyTheGone,
     AcknowledgedIsGone, Gone, Superseded, files, process
<1>q. QED
  BY <1>1, <1>2, <1>3, <1>4, <1>5, <1>6, <1>7, <1>8 DEF DrainInvariant, TypeOK

\* The observation starts on frozen admission when no call was admitted.
LEMMA ObservePreserves ==
  ASSUME DrainInvariant, Observe
  PROVE  DrainInvariant'
<1>1. LeaseTypes'
  BY DEF DrainInvariant, TypeOK, AttemptTypes, LeaseTypes, WorkTypes,
     Observations, Observe, Grantable
<1>2. WorkTypes'
  BY DEF DrainInvariant, TypeOK, WorkTypes, Observe
<1>3. LeaseIsIdle'
  BY DEF LeaseIsIdle, Observe
<1>4. NoncesWereDrawn'
  BY DEF DrainInvariant, NoncesWereDrawn, Observe, Ticks, files
<1>5. RequestIsOwned'
  BY DEF DrainInvariant, RequestIsOwned, Observe, files
<1>6. FrozenObservation'
  BY DEF DrainInvariant, FrozenObservation, TypeOK, AttemptTypes, WorkTypes,
     Counts, Observe, Grantable, process
<1>7. NoWorkUnlessServing'
  BY DEF NoWorkUnlessServing, Observe, process
<1>8. (AttemptTypes /\ ReportTypes /\ StopsOnlyTheGone /\ AcknowledgedIsGone)'
  BY DEF DrainInvariant, TypeOK, AttemptTypes, ReportTypes, StopsOnlyTheGone,
     AcknowledgedIsGone, Gone, Observe, files, process
<1>q. QED
  BY <1>1, <1>2, <1>3, <1>4, <1>5, <1>6, <1>7, <1>8 DEF DrainInvariant, TypeOK

\* A process that never listened has no work to observe.
LEMMA GrantUnstartedPreserves ==
  ASSUME DrainInvariant, GrantUnstarted
  PROVE  DrainInvariant'
<1>1. ReportTypes'
  BY DEF DrainInvariant, TypeOK, AttemptTypes, ReportTypes, GrantUnstarted,
     Report, Message, Grantable, process
<1>2. LeaseTypes'
  BY DEF DrainInvariant, TypeOK, AttemptTypes, LeaseTypes, Leases, GrantUnstarted,
     Grantable
<1>3. LeaseIsIdle'
  BY DEF DrainInvariant, LeaseIsIdle, NoWorkUnlessServing, GrantUnstarted, work,
     process
<1>4. NoncesWereDrawn'
  BY DEF DrainInvariant, NoncesWereDrawn, GrantUnstarted, Report, Message
<1>5. RequestIsOwned'
  BY DEF DrainInvariant, RequestIsOwned, GrantUnstarted
<1>6. FrozenObservation'
  BY DEF DrainInvariant, FrozenObservation, GrantUnstarted
<1>7. AcknowledgedIsGone'
  BY DEF AcknowledgedIsGone, GrantUnstarted, Report, Message
<1>8. (AttemptTypes /\ WorkTypes /\ StopsOnlyTheGone /\ NoWorkUnlessServing)'
  BY DEF DrainInvariant, TypeOK, AttemptTypes, WorkTypes, StopsOnlyTheGone,
     NoWorkUnlessServing, Gone, GrantUnstarted, work, process
<1>q. QED
  BY <1>1, <1>2, <1>3, <1>4, <1>5, <1>6, <1>7, <1>8 DEF DrainInvariant, TypeOK

\* A failing hook gives the lease up, and with it everything it promised.
LEMMA HookFailsKeepsTheRest ==
  ASSUME DrainInvariant, HookFails
  PROVE  (AttemptTypes /\ LeaseTypes /\ WorkTypes /\ LeaseIsIdle /\ RequestIsOwned /\
            FrozenObservation /\ NoWorkUnlessServing)'
<1>1. AttemptTypes'
  BY DEF DrainInvariant, TypeOK, AttemptTypes, Attempts, HookFails, LeaseFor
<1>2. LeaseTypes'
  BY DEF LeaseTypes, HookFails, Ticks, Drop
<1>3. WorkTypes'
  BY DEF DrainInvariant, TypeOK, WorkTypes, HookFails, Drop, Release
<1>4. LeaseIsIdle'
  BY DEF LeaseIsIdle, HookFails, Drop
<1>5. RequestIsOwned'
  BY DEF DrainInvariant, RequestIsOwned, HookFails, Drop
<1>6. FrozenObservation'
  BY DEF FrozenObservation, HookFails, Ticks
<1>7. NoWorkUnlessServing'
  BY DEF DrainInvariant, NoWorkUnlessServing, HookFails, Drop, Release
<1> QED
  BY <1>1, <1>2, <1>3, <1>4, <1>5, <1>6, <1>7

\* The report that failed may be visible: then it is one of a request or a lease
\* in use, and the PID of an exit that is not one is remembered.
LEMMA HookFailsPreserves ==
  ASSUME DrainInvariant, HookFails
  PROVE  DrainInvariant'
<1> DEFINE Leased == request # None /\ LeaseFor(request)
<1>1. CASE response' = response
  <2>1. misled' = misled
    BY <1>1 DEF HookFails
  <2>2. ReportTypes' /\ StopsOnlyTheGone' /\ AcknowledgedIsGone'
    BY <1>1, <2>1 DEF DrainInvariant, TypeOK, ReportTypes, StopsOnlyTheGone,
       AcknowledgedIsGone, Gone, HookFails
  <2>3. NoncesWereDrawn'
    BY <1>1 DEF DrainInvariant, NoncesWereDrawn, HookFails, Ticks, Drop
  <2> QED
    BY <2>2, <2>3, HookFailsKeepsTheRest DEF DrainInvariant, TypeOK
<1>2. CASE response' = Due /\ Leased
  <2> DEFINE state == IF elapsed THEN "expired"
                      ELSE IF request.commit THEN "exiting" ELSE "granted"
  <2>1. response' = Message(drain.nonce, state)
    BY <1>2 DEF Due
  <2>2. state = "exiting" => response' = response \/ misled' = misled \cup {pid}
    BY <1>2, <2>1 DEF HookFails, Due, Message
  <2>3. misled' \in {misled, misled \cup {pid}}
    BY DEF HookFails
  <2>4. ReportTypes'
    BY <1>2, <2>1, <2>3 DEF DrainInvariant, TypeOK, ReportTypes, LeaseTypes, Leases,
       LeaseFor, Message, HookFails
  <2>5. StopsOnlyTheGone'
    BY <2>3 DEF DrainInvariant, StopsOnlyTheGone, Gone, HookFails
  <2>6. AcknowledgedIsGone'
    BY <2>1, <2>2, <2>3 DEF DrainInvariant, AcknowledgedIsGone, Gone, Message, HookFails
  <2>7. NoncesWereDrawn'
    BY <1>2, <2>1 DEF DrainInvariant, NoncesWereDrawn, HookFails, Ticks, Drop, LeaseFor,
       Message
  <2> QED
    BY <2>4, <2>5, <2>6, <2>7, HookFailsKeepsTheRest DEF DrainInvariant, TypeOK
<1>3. CASE response' = Due /\ ~Leased /\ Due # response
  <2>1. request # None /\ response' = Message(request.nonce, "granted")
    BY <1>3 DEF Due, Grantable
  <2>2. misled' \in {misled, misled \cup {pid}}
    BY DEF HookFails
  <2>3. ReportTypes'
    BY <2>1, <2>2 DEF DrainInvariant, TypeOK, ReportTypes, AttemptTypes, Message, HookFails
  <2>4. StopsOnlyTheGone' /\ AcknowledgedIsGone'
    BY <2>1, <2>2 DEF DrainInvariant, StopsOnlyTheGone, AcknowledgedIsGone, Gone, Message,
       HookFails
  <2>5. NoncesWereDrawn'
    BY <2>1 DEF DrainInvariant, NoncesWereDrawn, HookFails, Ticks, Drop, Message
  <2> QED
    BY <2>3, <2>4, <2>5, HookFailsKeepsTheRest DEF DrainInvariant, TypeOK
<1>4. response' \in {response, Due}
  BY DEF HookFails
<1> QED
  BY <1>1, <1>2, <1>3, <1>4

\* What was seen on frozen admission still holds when the lease is granted.
LEMMA ObservedPreserves ==
  ASSUME DrainInvariant, NEW r \in BOOLEAN, Observed(r)
  PROVE  DrainInvariant'
<1>1. ReportTypes'
  BY DEF DrainInvariant, TypeOK, ReportTypes, LeaseTypes, Observations, Observed,
     Report, Message, process
<1>2. LeaseTypes'
  <2>1. \/ drain' = None
        \/ drain' = [nonce |-> observing.nonce, manual |-> observing.manual]
    BY DEF Observed
  <2>2. observing.nonce \in Attempts /\ observing.manual \in BOOLEAN
    BY DEF DrainInvariant, Observed, TypeOK, LeaseTypes, Observations
  <2>3. drain' \in Leases \cup {None}
    BY <2>1, <2>2 DEF Leases
  <2>4. elapsed' = FALSE /\ observing' = None
    BY DEF Observed
  <2> QED
    BY <2>3, <2>4 DEF LeaseTypes
<1>3. WorkTypes'
  BY DEF DrainInvariant, TypeOK, WorkTypes, Observed
<1>4. LeaseIsIdle'
  BY DEF DrainInvariant, LeaseIsIdle, FrozenObservation, TypeOK, WorkTypes,
     Counts, Observed, blocks_update
<1>5. NoncesWereDrawn'
  BY Nothing DEF DrainInvariant, NoncesWereDrawn, TypeOK, AttemptTypes, Observed,
     Report, Message
<1>6. RequestIsOwned'
  BY DEF DrainInvariant, RequestIsOwned, Observed
<1>7. FrozenObservation'
  BY DEF FrozenObservation, Observed
<1>8. NoWorkUnlessServing'
  BY DEF DrainInvariant, NoWorkUnlessServing, Observed, process
<1>9. AcknowledgedIsGone'
  BY DEF DrainInvariant, AcknowledgedIsGone, Gone, Observed, Report, Message, process
<1>10. (AttemptTypes /\ StopsOnlyTheGone)'
  BY DEF DrainInvariant, TypeOK, AttemptTypes, StopsOnlyTheGone, Gone, Observed,
     process
<1>q. QED
  BY <1>1, <1>2, <1>3, <1>4, <1>5, <1>6, <1>7, <1>8, <1>9, <1>10 DEF DrainInvariant, TypeOK

\* Time only marks the lease.
LEMMA ElapsePreserves ==
  ASSUME DrainInvariant, Elapse
  PROVE  DrainInvariant'
<1>1. LeaseTypes'
  BY DEF DrainInvariant, TypeOK, LeaseTypes, Elapse
<1>2. (AttemptTypes /\ ReportTypes /\ WorkTypes /\ LeaseIsIdle /\ StopsOnlyTheGone
        /\ NoncesWereDrawn /\ RequestIsOwned /\ FrozenObservation /\
        NoWorkUnlessServing /\ AcknowledgedIsGone)'
  BY DEF DrainInvariant, TypeOK, AttemptTypes, ReportTypes, WorkTypes,
     LeaseIsIdle, StopsOnlyTheGone, NoncesWereDrawn, RequestIsOwned,
     FrozenObservation, NoWorkUnlessServing, AcknowledgedIsGone, Gone, Elapse,
     files, work, process
<1>q. QED
  BY <1>1, <1>2 DEF DrainInvariant, TypeOK

\* A client ends an automatic lease before it is counted.
LEMMA AcceptPreserves ==
  ASSUME DrainInvariant, Accept
  PROVE  DrainInvariant'
<1>1. AttemptTypes'
  BY DEF DrainInvariant, TypeOK, AttemptTypes, LeaseTypes, Leases, Attempts,
     Accept
<1>2. ReportTypes'
  BY DEF DrainInvariant, TypeOK, ReportTypes, LeaseTypes, Leases, Accept, Report, Message,
     process
<1>3. LeaseTypes'
  BY DEF DrainInvariant, TypeOK, LeaseTypes, Accept, Drop
<1>4. WorkTypes'
  BY DrainAssumption DEF DrainInvariant, TypeOK, WorkTypes, Counts, Accept, Drop,
     Release
<1>5. LeaseIsIdle'
  BY DEF LeaseIsIdle, Accept, Drop
<1>6. NoncesWereDrawn'
  BY DEF DrainInvariant, NoncesWereDrawn, Accept, Report, Message, Drop
<1>7. RequestIsOwned'
  BY DEF DrainInvariant, RequestIsOwned, Accept, Drop
<1>8. FrozenObservation'
  BY DEF FrozenObservation, Accept
<1>9. NoWorkUnlessServing'
  BY DEF NoWorkUnlessServing, Accept, process
<1>10. AcknowledgedIsGone'
  BY DEF DrainInvariant, AcknowledgedIsGone, Gone, Accept, Report, Message, process
<1>11. StopsOnlyTheGone'
  BY DEF DrainInvariant, StopsOnlyTheGone, Gone, Accept, process
<1>q. QED
  BY <1>1, <1>2, <1>3, <1>4, <1>5, <1>6, <1>7, <1>8, <1>9, <1>10, <1>11 DEF DrainInvariant, TypeOK

\* A client leaving cannot make a lease busy.
LEMMA DisconnectPreserves ==
  ASSUME DrainInvariant, Disconnect
  PROVE  DrainInvariant'
<1>1. WorkTypes'
  BY DrainAssumption DEF DrainInvariant, TypeOK, WorkTypes, Counts, Disconnect
<1>2. LeaseIsIdle'
  BY DEF DrainInvariant, LeaseIsIdle, Disconnect, lease, process
<1>3. FrozenObservation'
  BY DEF DrainInvariant, FrozenObservation, TypeOK, LeaseTypes, WorkTypes,
     Observations, Counts, Disconnect, lease, process
<1>4. NoWorkUnlessServing'
  BY DEF DrainInvariant, NoWorkUnlessServing, Disconnect, process
<1>5. (AttemptTypes /\ ReportTypes /\ LeaseTypes /\ StopsOnlyTheGone /\
        NoncesWereDrawn /\ RequestIsOwned /\ AcknowledgedIsGone)'
  BY DEF DrainInvariant, TypeOK, AttemptTypes, ReportTypes, LeaseTypes,
     StopsOnlyTheGone, NoncesWereDrawn, RequestIsOwned, AcknowledgedIsGone, Gone,
     Disconnect, files, lease, process
<1>q. QED
  BY <1>1, <1>2, <1>3, <1>4, <1>5 DEF DrainInvariant, TypeOK

\* Admission is refused while it is frozen.
LEMMA enterPreserves ==
  ASSUME DrainInvariant, enter
  PROVE  DrainInvariant'
<1>1. WorkTypes'
  BY DrainAssumption DEF DrainInvariant, TypeOK, WorkTypes, Counts, enter,
     draining
<1>2. LeaseIsIdle'
  BY DEF LeaseIsIdle, enter, draining, lease
<1>3. FrozenObservation'
  BY DEF DrainInvariant, FrozenObservation, enter, draining, lease, process
<1>4. NoWorkUnlessServing'
  BY DEF NoWorkUnlessServing, enter, draining, process
<1>5. (AttemptTypes /\ ReportTypes /\ LeaseTypes /\ StopsOnlyTheGone /\
        NoncesWereDrawn /\ RequestIsOwned /\ AcknowledgedIsGone)'
  BY DEF DrainInvariant, TypeOK, AttemptTypes, ReportTypes, LeaseTypes,
     StopsOnlyTheGone, NoncesWereDrawn, RequestIsOwned, AcknowledgedIsGone, Gone,
     enter, draining, files, lease, process
<1>q. QED
  BY <1>1, <1>2, <1>3, <1>4, <1>5 DEF DrainInvariant, TypeOK

\* Only an admitted call leaves work behind, and a leased daemon has none.
LEMMA LeavePreserves ==
  ASSUME DrainInvariant, Leave
  PROVE  DrainInvariant'
<1>1. WorkTypes'
  BY DrainAssumption DEF DrainInvariant, TypeOK, WorkTypes, Counts, Leave
<1>2. LeaseIsIdle'
  BY DEF DrainInvariant, LeaseIsIdle, Leave, lease
<1>3. FrozenObservation'
  BY DEF DrainInvariant, FrozenObservation, Leave, lease, process
<1>4. NoWorkUnlessServing'
  BY DEF DrainInvariant, NoWorkUnlessServing, Leave, process
<1>5. (AttemptTypes /\ ReportTypes /\ LeaseTypes /\ StopsOnlyTheGone /\
        NoncesWereDrawn /\ RequestIsOwned /\ AcknowledgedIsGone)'
  BY DEF DrainInvariant, TypeOK, AttemptTypes, ReportTypes, LeaseTypes,
     StopsOnlyTheGone, NoncesWereDrawn, RequestIsOwned, AcknowledgedIsGone, Gone,
     Leave, files, lease, process
<1>q. QED
  BY <1>1, <1>2, <1>3, <1>4, <1>5 DEF DrainInvariant, TypeOK

\* Work that ends cannot make a lease busy.
LEMMA WorkEndsPreserves ==
  ASSUME DrainInvariant, WorkEnds
  PROVE  DrainInvariant'
<1>1. WorkTypes'
  BY DrainAssumption DEF DrainInvariant, TypeOK, WorkTypes, Counts, WorkEnds
<1>2. LeaseIsIdle'
  BY DEF DrainInvariant, LeaseIsIdle, WorkEnds, lease
<1>3. FrozenObservation'
  BY DEF DrainInvariant, FrozenObservation, TypeOK, LeaseTypes, WorkTypes,
     Observations, Counts, WorkEnds, lease, process
<1>4. NoWorkUnlessServing'
  BY DEF DrainInvariant, NoWorkUnlessServing, WorkEnds, process
<1>5. (AttemptTypes /\ ReportTypes /\ LeaseTypes /\ StopsOnlyTheGone /\
        NoncesWereDrawn /\ RequestIsOwned /\ AcknowledgedIsGone)'
  BY DEF DrainInvariant, TypeOK, AttemptTypes, ReportTypes, LeaseTypes,
     StopsOnlyTheGone, NoncesWereDrawn, RequestIsOwned, AcknowledgedIsGone, Gone,
     WorkEnds, files, lease, process
<1>q. QED
  BY <1>1, <1>2, <1>3, <1>4, <1>5 DEF DrainInvariant, TypeOK

\* The scheduler waits while the drain holds its gate.
LEMMA SchedulerWakesPreserves ==
  ASSUME DrainInvariant, SchedulerWakes
  PROVE  DrainInvariant'
<1>1. WorkTypes'
  BY DEF DrainInvariant, TypeOK, WorkTypes, SchedulerWakes
<1>2. LeaseIsIdle'
  BY DEF DrainInvariant, LeaseIsIdle, SchedulerWakes, lease
<1>3. FrozenObservation'
  BY DEF DrainInvariant, FrozenObservation, SchedulerWakes, lease, process
<1>4. NoWorkUnlessServing'
  BY DEF NoWorkUnlessServing, SchedulerWakes, process
<1>5. (AttemptTypes /\ ReportTypes /\ LeaseTypes /\ StopsOnlyTheGone /\
        NoncesWereDrawn /\ RequestIsOwned /\ AcknowledgedIsGone)'
  BY DEF DrainInvariant, TypeOK, AttemptTypes, ReportTypes, LeaseTypes,
     StopsOnlyTheGone, NoncesWereDrawn, RequestIsOwned, AcknowledgedIsGone, Gone,
     SchedulerWakes, files, lease, process
<1>q. QED
  BY <1>1, <1>2, <1>3, <1>4, <1>5 DEF DrainInvariant, TypeOK

\* Only a scheduler that holds its gate starts jobs.
LEMMA SchedulerStartsPreserves ==
  ASSUME DrainInvariant, SchedulerStarts
  PROVE  DrainInvariant'
<1>1. WorkTypes'
  BY DrainAssumption DEF DrainInvariant, TypeOK, WorkTypes, Counts,
     SchedulerStarts
<1>2. LeaseIsIdle'
  BY DEF DrainInvariant, LeaseIsIdle, NoWorkUnlessServing, SchedulerStarts, lease
<1>3. NoWorkUnlessServing'
  BY DEF DrainInvariant, NoWorkUnlessServing, SchedulerStarts, process
<1>4. (AttemptTypes /\ ReportTypes /\ LeaseTypes /\ StopsOnlyTheGone /\
        NoncesWereDrawn /\ RequestIsOwned /\ FrozenObservation /\
        AcknowledgedIsGone)'
  BY DEF DrainInvariant, TypeOK, AttemptTypes, ReportTypes, LeaseTypes,
     StopsOnlyTheGone, NoncesWereDrawn, RequestIsOwned, FrozenObservation,
     AcknowledgedIsGone, Gone, SchedulerStarts, files, lease, process
<1>q. QED
  BY <1>1, <1>2, <1>3, <1>4 DEF DrainInvariant, TypeOK

\* The scheduler gives back a gate no lease holds.
LEMMA SchedulerSleepsPreserves ==
  ASSUME DrainInvariant, SchedulerSleeps
  PROVE  DrainInvariant'
<1>1. WorkTypes'
  BY DEF DrainInvariant, TypeOK, WorkTypes, SchedulerSleeps
<1>2. LeaseIsIdle'
  BY DEF DrainInvariant, LeaseIsIdle, SchedulerSleeps, lease, process
<1>3. FrozenObservation'
  BY DEF DrainInvariant, FrozenObservation, SchedulerSleeps, lease, process
<1>4. NoWorkUnlessServing'
  BY DEF DrainInvariant, NoWorkUnlessServing, SchedulerSleeps, process
<1>5. (AttemptTypes /\ ReportTypes /\ LeaseTypes /\ StopsOnlyTheGone /\
        NoncesWereDrawn /\ RequestIsOwned /\ AcknowledgedIsGone)'
  BY DEF DrainInvariant, TypeOK, AttemptTypes, ReportTypes, LeaseTypes,
     StopsOnlyTheGone, NoncesWereDrawn, RequestIsOwned, AcknowledgedIsGone, Gone,
     SchedulerSleeps, files, lease, process
<1>q. QED
  BY <1>1, <1>2, <1>3, <1>4, <1>5 DEF DrainInvariant, TypeOK

\* A new process makes every earlier PID a gone one.
LEMMA LaunchPreserves ==
  ASSUME DrainInvariant, Launch
  PROVE  DrainInvariant'
<1>1. AttemptTypes'
  BY DrainAssumption DEF DrainInvariant, TypeOK, AttemptTypes, Launch, files
<1>2. ReportTypes'
  BY DrainAssumption DEF DrainInvariant, TypeOK, ReportTypes, Launch, files
<1>3. LeaseTypes'
  BY DEF LeaseTypes, Launch
<1>4. WorkTypes'
  BY DrainAssumption DEF WorkTypes, Counts, Launch
<1>5. LeaseIsIdle'
  BY DEF LeaseIsIdle, Launch
<1>6. StopsOnlyTheGone'
  BY DEF DrainInvariant, StopsOnlyTheGone, Gone, TypeOK, AttemptTypes,
     ReportTypes, Launch
<1>7. NoncesWereDrawn'
  BY Nothing DEF DrainInvariant, NoncesWereDrawn, TypeOK, AttemptTypes, Launch,
     files
<1>8. RequestIsOwned'
  BY DEF DrainInvariant, RequestIsOwned, Launch, files
<1>9. FrozenObservation'
  BY DEF FrozenObservation, Launch
<1>10. NoWorkUnlessServing'
  BY DEF NoWorkUnlessServing, Launch
<1>11. AcknowledgedIsGone'
  BY DEF DrainInvariant, AcknowledgedIsGone, Gone, TypeOK, ReportTypes, Launch,
     files
<1>q. QED
  BY <1>1, <1>2, <1>3, <1>4, <1>5, <1>6, <1>7, <1>8, <1>9, <1>10, <1>11 DEF DrainInvariant, TypeOK

\* A process starts to serve without a lease and without work.
LEMMA ReadyPreserves ==
  ASSUME DrainInvariant, Ready
  PROVE  DrainInvariant'
<1>1. AttemptTypes'
  BY DrainAssumption DEF DrainInvariant, TypeOK, AttemptTypes, Ready, files
<1>2. ReportTypes'
  BY DEF DrainInvariant, TypeOK, ReportTypes, Ready, files
<1>3. LeaseTypes'
  BY DEF DrainInvariant, TypeOK, LeaseTypes, Ready
<1>4. LeaseIsIdle'
  BY DEF LeaseIsIdle, Ready
<1>5. StopsOnlyTheGone'
  BY DEF DrainInvariant, StopsOnlyTheGone, Gone, Ready
<1>6. NoncesWereDrawn'
  BY Nothing DEF DrainInvariant, NoncesWereDrawn, TypeOK, AttemptTypes, Ready,
     files
<1>7. RequestIsOwned'
  BY DEF DrainInvariant, RequestIsOwned, Ready, files
<1>8. FrozenObservation'
  BY DEF DrainInvariant, FrozenObservation, Ready
<1>9. NoWorkUnlessServing'
  BY DEF NoWorkUnlessServing, Ready
<1>10. AcknowledgedIsGone'
  BY DEF DrainInvariant, AcknowledgedIsGone, Gone, Ready, files
<1>11. WorkTypes'
  BY DEF DrainInvariant, TypeOK, WorkTypes, Ready, work
<1>q. QED
  BY <1>1, <1>2, <1>3, <1>4, <1>5, <1>6, <1>7, <1>8, <1>9, <1>10, <1>11 DEF DrainInvariant, TypeOK

\* Nothing changes in a stuttering step.
LEMMA StutterPreserves ==
  ASSUME DrainInvariant, UNCHANGED vars
  PROVE  DrainInvariant'
<1>1. (AttemptTypes /\ ReportTypes /\ LeaseTypes /\ WorkTypes)'
  BY DEF DrainInvariant, TypeOK, AttemptTypes, ReportTypes, LeaseTypes, WorkTypes,
         vars, files, lease, work, process
<1>2. (LeaseIsIdle /\ FrozenObservation /\ NoWorkUnlessServing)'
  BY DEF DrainInvariant, LeaseIsIdle, FrozenObservation, NoWorkUnlessServing,
         vars, files, lease, work, process
<1>3. (StopsOnlyTheGone /\ AcknowledgedIsGone)'
  BY DEF DrainInvariant, StopsOnlyTheGone, AcknowledgedIsGone, Gone,
         vars, files, lease, work, process
<1>4. (NoncesWereDrawn /\ RequestIsOwned)'
  BY DEF DrainInvariant, NoncesWereDrawn, RequestIsOwned,
         vars, files, lease, work, process
<1> QED
  BY <1>1, <1>2, <1>3, <1>4 DEF DrainInvariant, TypeOK

\* No step of the asker, the daemon, its clients or its timers breaks it.
LEMMA Preserved == DrainInvariant /\ [Next]_vars => DrainInvariant'
<1> SUFFICES ASSUME DrainInvariant, [Next]_vars PROVE DrainInvariant'
  OBVIOUS
<1>1. CASE Asker
  BY <1>1, AskPreserves, NothingToStopPreserves, CommitPreserves,
     AcknowledgedPreserves, DeferredPreserves, AskerDiesPreserves
     DEF Asker
<1>2. CASE Tick
  BY <1>2, NoRequestPreserves, ExpirePreserves, RenewPreserves, ExitPreserves,
     SupersededPreserves, ObservePreserves, GrantUnstartedPreserves
     DEF Tick
<1>3. CASE HookFails \/ \E r \in BOOLEAN : Observed(r)
  BY <1>3, HookFailsPreserves, ObservedPreserves
<1>4. CASE Work
  BY <1>4, AcceptPreserves, DisconnectPreserves, enterPreserves, LeavePreserves,
     WorkEndsPreserves, SchedulerWakesPreserves, SchedulerStartsPreserves,
     SchedulerSleepsPreserves
     DEF Work
<1>5. CASE Elapse \/ Launch \/ Ready
  BY <1>5, ElapsePreserves, LaunchPreserves, ReadyPreserves
<1>6. CASE UNCHANGED vars
  BY <1>6, StutterPreserves
<1> QED
  BY <1>1, <1>2, <1>3, <1>4, <1>5, <1>6 DEF Next

-----------------------------------------------------------------------------
\* The invariant of the drain protocol: leases, observations, requests and
\* acknowledgements agree with the daemon's work in every reachable state.
THEOREM DrainIsSound == Spec => []DrainInvariant
<1>1. Init => DrainInvariant
  BY Established
<1>2. DrainInvariant /\ [Next]_vars => DrainInvariant'
  BY Preserved
<1> QED
  BY <1>1, <1>2, PTL DEF Spec

\* Both files, the lease and the counters stay well typed.
THEOREM DrainTypeCorrect == Spec => []TypeOK
<1>1. DrainInvariant => TypeOK
  BY DEF DrainInvariant
<1> QED
  BY <1>1, DrainIsSound, PTL

\* A daemon leased to an updater is idle: no call, no terminal, no job, a paused
\* scheduler, and no client unless the user confirmed the installation.
THEOREM LeasedIsIdle == Spec => []LeaseIsIdle
<1>1. DrainInvariant => LeaseIsIdle
  BY DEF DrainInvariant
<1> QED
  BY <1>1, DrainIsSound, PTL

\* request_exit returns Ok only for a process that has gone by itself, or that
\* reported its exit and then could not sync the directory.
THEOREM AcknowledgedHasGone == Spec => []StopsOnlyTheGone
<1>1. DrainInvariant => StopsOnlyTheGone
  BY DEF DrainInvariant
<1> QED
  BY <1>1, DrainIsSound, PTL

\* What a daemon must be free of in the step in which it exits.
ExitStepIsIdle ==
    proc # "exited" /\ proc' = "exited" =>
        /\ active = 0 /\ terminals = 0 /\ jobs = 0
        /\ scheduler # "running"
        /\ request.manual \/ conns = 0

\* Exit is the only step that ends a process, and its lease makes it idle; the
\* confirmation the lease was granted under is the request's own.
LEMMA ExitIsIdle == DrainInvariant /\ [Next]_vars => ExitStepIsIdle
<1> SUFFICES ASSUME DrainInvariant, [Next]_vars, proc # "exited", proc' = "exited"
             PROVE  /\ active = 0 /\ terminals = 0 /\ jobs = 0
                    /\ scheduler # "running"
                    /\ request.manual \/ conns = 0
  BY DEF ExitStepIsIdle
<1>1. Exit
  <2>1. ~Asker
    BY DEF Asker, Ask, NothingToStop, Commit, Acknowledged, Deferred, AskerDies, process
  <2>2. Tick => Exit
    BY DEF Tick, NoRequest, Expire, Renew, Superseded, Observe, GrantUnstarted, process
  <2>3. ~(HookFails \/ \E r \in BOOLEAN : Observed(r))
    BY DEF HookFails, Observed, process
  <2>4. ~Work
    BY DEF Work, Accept, Disconnect, enter, Leave, WorkEnds, SchedulerWakes,
           SchedulerStarts, SchedulerSleeps, process
  <2>5. ~(Elapse \/ Launch \/ Ready)
    BY DEF Elapse, Launch, Ready, process
  <2>6. ~UNCHANGED vars
    BY DEF vars, process
  <2> QED
    BY <2>1, <2>2, <2>3, <2>4, <2>5, <2>6 DEF Next
<1>2. drain # None /\ request # None /\ drain.nonce = request.nonce
  BY <1>1 DEF Exit, LeaseFor
<1>3. active = 0 /\ terminals = 0 /\ jobs = 0
  BY <1>2 DEF DrainInvariant, LeaseIsIdle
<1>4. scheduler # "running"
  BY <1>2 DEF DrainInvariant, LeaseIsIdle, NoWorkUnlessServing
<1>5. request.manual \/ conns = 0
  BY <1>2 DEF DrainInvariant, LeaseIsIdle, RequestIsOwned
<1> QED
  BY <1>3, <1>4, <1>5

\* No exit the daemon acknowledges ends a call, a terminal, a job or an agent, nor
\* a client that the user has not agreed to disconnect.
THEOREM ExitsIdle == Spec => IdleExit
<1>1. DrainInvariant /\ [Next]_vars => ExitStepIsIdle
  BY ExitIsIdle
<1>2. [][ExitStepIsIdle]_vars => IdleExit
  BY PTL DEF IdleExit, ExitStepIsIdle
<1> QED
  BY <1>1, <1>2, DrainIsSound, PTL DEF Spec
=============================================================================
