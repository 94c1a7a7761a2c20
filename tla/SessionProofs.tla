---------------------------- MODULE SessionProofs ----------------------------
(***************************************************************************)
(* The two ends of a session: the web client's session controller          *)
(* (WebSession), and the desktop input broker of the daemon it talks to    *)
(* (DesktopInput, the second section).                                     *)
(*                                                                         *)
(* The session controller is sound for any number of attempts and          *)
(* generations. What makes it inductive: the current generation belongs to *)
(* the attempt of the current promise alone (OnlyAttempt), so an await of  *)
(* any other attempt finds itself out of date, and the current attempt is  *)
(* opening or has a live transport (Underway).                             *)
(***************************************************************************)
EXTENDS WebSession, FiniteSetTheorems, TLAPS

\* Attempts that were not made yet are blank, and none is of a later generation.
MadeSoFar ==
    /\ rpcSession <= count /\ managed <= count
    /\ \A i \in Attempts :
        /\ attempt[i].generation <= sessionGeneration
        /\ i > count => attempt[i].step = "none" /\ ~attempt[i].live

\* An attempt of the current generation is that of the current promise ...
OnlyAttempt ==
    \A i \in Attempts :
        attempt[i].step # "none" /\ attempt[i].generation = sessionGeneration => i = rpcSession

\* ... which is of the current generation, and opening or live.
Underway ==
    rpcSession # 0 =>
        /\ ~closed /\ attempt[rpcSession].generation = sessionGeneration
        /\ \/ attempt[rpcSession].step = "opening"
           \/ /\ attempt[rpcSession].step \in {"authenticating", "renewing", "open"}
              /\ attempt[rpcSession].live

\* Without a promise there is a retry, and nothing is shown.
RetryOrRest ==
    rpcSession = 0 /\ ~closed => (paused \/ retryTimer) /\ ~reachable
ShownIsOpen ==
    reachable /\ ~closed => attempt[rpcSession].step = "open"

SessionInvariant ==
    /\ TypeOK /\ OneTransport
    /\ MadeSoFar /\ OnlyAttempt /\ Underway /\ RetryOrRest /\ ShownIsOpen

-----------------------------------------------------------------------------
\* The invariant says all that the controller promises.
LEMMA SoundSession ==
  ASSUME AttemptsAssumption, SessionInvariant PROVE SessionSound
<1> USE DEF SessionInvariant
<1>1. OneTransport
  OBVIOUS
<1>2. ReachableIsLive
  BY DEF ReachableIsLive, RetryOrRest, ShownIsOpen, Underway
<1>3. AlwaysTrying
  BY DEF AlwaysTrying, RetryOrRest, Underway, Current, InProgress
<1> QED
  BY <1>1, <1>2, <1>3 DEF SessionSound

LEMMA RecordTypes ==
  /\ \A g \in Nat, s \in Steps, l \in BOOLEAN :
        [generation |-> g, step |-> s, live |-> l] \in AttemptRecords
  /\ \A r \in AttemptRecords : [r EXCEPT !.live = FALSE] \in AttemptRecords
  /\ \A r \in AttemptRecords : [r EXCEPT !.live = TRUE] \in AttemptRecords
  /\ \A r \in AttemptRecords, s \in Steps : [r EXCEPT !.step = s] \in AttemptRecords
  BY DEF AttemptRecords

LEMMA Established ==
  ASSUME AttemptsAssumption, Init PROVE SessionInvariant
<1> USE DEF AttemptsAssumption, Init, Attempts
<1>1. attempt \in [Attempts -> AttemptRecords]
  BY RecordTypes DEF Steps, InProgress
<1>2. TypeOK
  <2>1. sessionGeneration \in Nat /\ {count, rpcSession, managed} \subseteq 0..MaxAttempts
    OBVIOUS
  <2>2. {closed, paused, retryTimer, reachable} \subseteq BOOLEAN
    OBVIOUS
  <2> QED
    BY <1>1, <2>1, <2>2, Zenon DEF TypeOK
<1>3. OneTransport /\ MadeSoFar /\ OnlyAttempt /\ Underway /\ RetryOrRest /\ ShownIsOpen
  BY DEF OneTransport, MadeSoFar, OnlyAttempt, Underway, RetryOrRest, ShownIsOpen
<1> QED
  BY <1>2, <1>3 DEF SessionInvariant

\* TypeOK in the parts the provers take one by one.
Numbers == sessionGeneration \in Nat /\ {count, rpcSession, managed} \subseteq 0..MaxAttempts
Flags == {closed, paused, retryTimer, reachable} \subseteq BOOLEAN
LEMMA TypeParts == TypeOK <=> Numbers /\ Flags /\ attempt \in [Attempts -> AttemptRecords]
  BY Zenon DEF TypeOK, Numbers, Flags
LEMMA TypePartsNext ==
  ASSUME Numbers', Flags', attempt' \in [Attempts -> AttemptRecords] PROVE TypeOK'
  BY Zenon DEF TypeOK, Numbers, Flags

\* An attempt begun at the next place, by a call or by the retry timer.
LEMMA GetPreserves ==
  ASSUME AttemptsAssumption, SessionInvariant, getRpcSession PROVE SessionInvariant'
<1> USE DEF AttemptsAssumption, SessionInvariant, getRpcSession, Begun, Attempts
<1>1. attempt' \in [Attempts -> AttemptRecords]
  BY RecordTypes DEF TypeOK, Steps, InProgress
<1>2. Numbers' /\ Flags'
  <2>1. Numbers'
    BY DEF TypeOK, Numbers
  <2>2. Flags'
    BY DEF TypeOK, Flags
  <2> QED
    BY <2>1, <2>2
<1>3. OneTransport'
  BY DEF TypeOK, OneTransport, Current, MadeSoFar
<1>4. (MadeSoFar /\ OnlyAttempt)'
  BY DEF TypeOK, MadeSoFar, OnlyAttempt
<1>5. (Underway /\ RetryOrRest /\ ShownIsOpen)'
  BY DEF TypeOK, Underway, RetryOrRest, ShownIsOpen
<1> QED
  BY <1>1, <1>2, <1>3, <1>4, <1>5, TypePartsNext

\* A new generation: no transport is left, and no attempt is of it. The attempts a
\* differ from the ones there are in that one may have ended.
LEMMA InvalidatesPreserves ==
  ASSUME AttemptsAssumption, SessionInvariant,
         NEW a \in [Attempts -> AttemptRecords],
         \A i \in Attempts :
            /\ a[i].generation = attempt[i].generation /\ (a[i].live => attempt[i].live)
            /\ i > count => a[i].step = "none",
         Invalidates(a), count' = count, {closed', paused', retryTimer'} \subseteq BOOLEAN,
         closed' \/ paused' \/ retryTimer'
  PROVE  SessionInvariant'
<1> USE DEF AttemptsAssumption, SessionInvariant, Invalidates, WithoutManaged, Attempts
<1>1. attempt' \in [Attempts -> AttemptRecords]
  <2>1. \A i \in Attempts : [a[i] EXCEPT !.live = FALSE] \in AttemptRecords /\ a[i] \in AttemptRecords
    BY RecordTypes
  <2> QED
    BY <2>1
<1>2. Numbers' /\ Flags'
  <2>1. reachable' \in BOOLEAN
    BY Zenon DEF TypeOK
  <2> QED
    BY <2>1 DEF TypeOK, Numbers, Flags
<1>3. \A i \in Attempts : /\ ~attempt'[i].live
                          /\ attempt'[i].generation = attempt[i].generation
                          /\ i > count => attempt'[i].step = "none"
  BY DEF OneTransport, AttemptRecords
<1>4. OneTransport'
  BY <1>3 DEF OneTransport
<1>5. (MadeSoFar /\ OnlyAttempt)'
  BY <1>3 DEF TypeOK, AttemptRecords, MadeSoFar, OnlyAttempt
<1>6. (Underway /\ RetryOrRest /\ ShownIsOpen)'
  BY DEF TypeOK, Underway, RetryOrRest, ShownIsOpen
<1> QED
  BY <1>1, <1>2, <1>4, <1>5, <1>6, TypePartsNext

\* The session is lost: a retry is scheduled or the controller is paused.
LEMMA LosePreserves ==
  ASSUME AttemptsAssumption, SessionInvariant,
         NEW a \in [Attempts -> AttemptRecords],
         \A i \in Attempts :
            /\ a[i].generation = attempt[i].generation /\ (a[i].live => attempt[i].live)
            /\ i > count => a[i].step = "none",
         NEW refused \in BOOLEAN, Lose(a, refused)
  PROVE  SessionInvariant'
<1>1. {closed', paused', retryTimer'} \subseteq BOOLEAN /\ (closed' \/ paused' \/ retryTimer')
  BY DEF SessionInvariant, TypeOK, Lose, Retries
<1>2. Invalidates(a) /\ count' = count
  BY DEF Lose
<1> QED
  BY <1>1, <1>2, InvalidatesPreserves

\* An attempt that is not the current one ends or loses its transport.
LEMMA OthersPreserve ==
  ASSUME AttemptsAssumption, SessionInvariant,
         attempt' \in [Attempts -> AttemptRecords],
         UNCHANGED <<sessionGeneration, closed, paused, retryTimer, rpcSession, managed,
                     reachable, count>>,
         \A i \in Attempts :
            /\ attempt'[i].generation = attempt[i].generation
            /\ attempt'[i].live => attempt[i].live
            /\ attempt'[i].step # "none" => attempt[i].step # "none"
            /\ i = rpcSession => attempt'[i] = attempt[i]
  PROVE  SessionInvariant'
<1> USE DEF AttemptsAssumption, SessionInvariant, Attempts
<1>1. Numbers' /\ Flags'
  BY DEF TypeOK, Numbers, Flags
<1>2. OneTransport'
  BY DEF OneTransport, Current
<1>3. (MadeSoFar /\ OnlyAttempt)'
  BY DEF TypeOK, MadeSoFar, OnlyAttempt
<1>4. (Underway /\ RetryOrRest /\ ShownIsOpen)'
  BY DEF TypeOK, Underway, RetryOrRest, ShownIsOpen
<1> QED
  BY <1>1, <1>2, <1>3, <1>4, TypePartsNext

\* The promise of an attempt rejects: the current one is lost, another one only ends.
LEMMA RejectsPreserves ==
  ASSUME AttemptsAssumption, SessionInvariant, NEW i \in Attempts,
         attempt[i].step # "none", NEW refused \in BOOLEAN,
         NEW a \in [Attempts -> AttemptRecords], a = attempt \/ a = Closed(attempt, i),
         Rejects(i, a, refused)
  PROVE  SessionInvariant'
<1> DEFINE b == [a EXCEPT ![i].step = "ended"]
<1>1. b \in [Attempts -> AttemptRecords]
  <2>1. [a[i] EXCEPT !.step = "ended"] \in AttemptRecords
    BY RecordTypes DEF Steps
  <2> QED
    BY <2>1
<1>2. \A j \in Attempts :
        /\ b[j].generation = attempt[j].generation /\ (b[j].live => attempt[j].live)
        /\ j > count => b[j].step = "none"
        /\ b[j].step # "none" => attempt[j].step # "none"
        /\ j # i => b[j] = attempt[j]
  BY DEF SessionInvariant, TypeOK, AttemptRecords, MadeSoFar, Closed
<1>3. CASE Concerns(i) /\ Current(i)
  <2>1. Lose(b, refused)
    BY <1>3 DEF Rejects
  <2> HIDE DEF b
  <2> QED
    BY <1>1, <1>2, <2>1, LosePreserves
<1>4. CASE ~(Concerns(i) /\ Current(i))
  <2>1. i # rpcSession
    BY <1>4 DEF Concerns, Current, SessionInvariant, Underway, Attempts
  <2>2. /\ attempt' = b
        /\ UNCHANGED <<sessionGeneration, closed, paused, retryTimer, rpcSession, managed,
                       reachable, count>>
    BY <1>4 DEF Rejects
  <2> HIDE DEF b
  <2> QED
    BY <1>1, <1>2, <2>1, <2>2, OthersPreserve
<1> QED
  BY <1>3, <1>4

\* An attempt of the current generation is the current one, and takes its next step.
LEMMA CurrentIsOnly ==
  ASSUME AttemptsAssumption, SessionInvariant, NEW i \in Attempts,
         attempt[i].step # "none", Current(i)
  PROVE  i = rpcSession /\ i # 0
  BY DEF SessionInvariant, OnlyAttempt, Current, Attempts

LEMMA StepPreserves ==
  ASSUME AttemptsAssumption, SessionInvariant, NEW i \in Attempts, i = rpcSession, i # 0,
         attempt' \in [Attempts -> AttemptRecords], reachable' \in {reachable, TRUE},
         attempt'[i].generation = attempt[i].generation, attempt'[i].live, managed' = i,
         attempt'[i].step \in {"authenticating", "renewing", "open"},
         reachable' /\ ~closed => attempt'[i].step = "open",
         \A j \in Attempts : j # i => attempt'[j] = attempt[j],
         UNCHANGED <<sessionGeneration, closed, paused, retryTimer, rpcSession, count>>
  PROVE  SessionInvariant'
<1> USE DEF AttemptsAssumption, SessionInvariant, Attempts
<1>1. Numbers'
  BY DEF TypeOK, Numbers
<1>2. Flags'
  BY DEF TypeOK, Flags
<1>3. OneTransport'
  BY DEF OneTransport, Current, Underway
<1>4. (MadeSoFar /\ OnlyAttempt)'
  BY DEF TypeOK, MadeSoFar, OnlyAttempt
<1>5. (Underway /\ RetryOrRest /\ ShownIsOpen)'
  BY DEF TypeOK, Underway, RetryOrRest, ShownIsOpen
<1> QED
  BY <1>1, <1>2, <1>3, <1>4, <1>5, TypePartsNext

\* openRpcSession, one await after the other.
LEMMA OpenedPreserves ==
  ASSUME AttemptsAssumption, SessionInvariant, NEW i \in Attempts, Opened(i)
  PROVE  SessionInvariant'
<1>1. attempt[i].step = "opening" /\ attempt \in [Attempts -> AttemptRecords]
  BY DEF Opened, SessionInvariant, TypeOK
<1>2. CASE StillWanted(i)
  <2>1. i = rpcSession /\ i # 0
    BY <1>1, <1>2, CurrentIsOnly DEF StillWanted
  <2>2. [[attempt[i] EXCEPT !.step = "authenticating"] EXCEPT !.live = TRUE] \in AttemptRecords
    BY <1>1, RecordTypes DEF Steps, InProgress
  <2>3. attempt' \in [Attempts -> AttemptRecords]
    BY <1>1, <1>2, <2>2 DEF Opened
  <2>4. ~(reachable' /\ ~closed)
    BY <1>1, <1>2, <2>1 DEF Opened, SessionInvariant, ShownIsOpen
  <2> QED
    BY <1>1, <1>2, <2>1, <2>3, <2>4, StepPreserves DEF Opened, AttemptRecords
<1>3. CASE ~StillWanted(i)
  BY <1>1, <1>3, RejectsPreserves DEF Opened
<1> QED
  BY <1>2, <1>3

LEMMA ClosedTypes ==
  ASSUME SessionInvariant, NEW i \in Attempts
  PROVE  Closed(attempt, i) \in [Attempts -> AttemptRecords] /\ attempt \in [Attempts -> AttemptRecords]
<1>1. attempt \in [Attempts -> AttemptRecords]
  BY DEF SessionInvariant, TypeOK
<1>2. [attempt[i] EXCEPT !.live = FALSE] \in AttemptRecords
  BY <1>1, RecordTypes
<1> QED
  BY <1>1, <1>2 DEF Closed

LEMMA AuthenticatedPreserves ==
  ASSUME AttemptsAssumption, SessionInvariant, NEW i \in Attempts, Authenticated(i)
  PROVE  SessionInvariant'
<1>1. attempt[i].step = "authenticating" /\ attempt \in [Attempts -> AttemptRecords]
  BY DEF Authenticated, SessionInvariant, TypeOK
<1>2. CASE Current(i) /\ attempt[i].live
  <2>1. i = rpcSession /\ i # 0 /\ managed = i
    BY <1>1, <1>2, CurrentIsOnly DEF SessionInvariant, OneTransport
  <2>2. [attempt[i] EXCEPT !.step = "renewing"] \in AttemptRecords
    BY <1>1, RecordTypes DEF Steps, InProgress
  <2>3. attempt' \in [Attempts -> AttemptRecords]
    BY <1>1, <1>2, <2>2 DEF Authenticated
  <2>4. ~(reachable' /\ ~closed)
    BY <1>1, <1>2, <2>1 DEF Authenticated, SessionInvariant, ShownIsOpen
  <2> QED
    BY <1>1, <1>2, <2>1, <2>3, <2>4, StepPreserves DEF Authenticated, AttemptRecords
<1>3. CASE ~(Current(i) /\ attempt[i].live)
  BY <1>1, <1>3, ClosedTypes, RejectsPreserves DEF Authenticated
<1> QED
  BY <1>2, <1>3

LEMMA UnauthenticatedPreserves ==
  ASSUME AttemptsAssumption, SessionInvariant, NEW i \in Attempts, Unauthenticated(i)
  PROVE  SessionInvariant'
<1>1. attempt[i].step = "authenticating" /\ attempt \in [Attempts -> AttemptRecords]
  BY DEF Unauthenticated, SessionInvariant, TypeOK
<1>2. i = rpcSession /\ i # 0 /\ managed = i
  BY <1>1, CurrentIsOnly DEF Unauthenticated, SessionInvariant, OneTransport
<1>3. [attempt[i] EXCEPT !.step = "open"] \in AttemptRecords
  BY <1>1, RecordTypes DEF Steps, InProgress
<1>4. attempt' \in [Attempts -> AttemptRecords]
  BY <1>1, <1>3 DEF Unauthenticated
<1> QED
  BY <1>1, <1>2, <1>4, StepPreserves DEF Unauthenticated, AttemptRecords

\* The renewal is trusted only in its own generation, where the transport is live.
LEMMA RenewedPreserves ==
  ASSUME AttemptsAssumption, SessionInvariant, NEW i \in Attempts, Renewed(i)
  PROVE  SessionInvariant'
<1>1. attempt[i].step = "renewing" /\ attempt \in [Attempts -> AttemptRecords]
  BY DEF Renewed, SessionInvariant, TypeOK
<1>2. CASE RenewedInTime(i)
  <2>1. i = rpcSession /\ i # 0
    BY <1>1, <1>2, CurrentIsOnly DEF RenewedInTime
  <2>2. attempt[i].live /\ managed = i
    BY <1>1, <2>1 DEF SessionInvariant, Underway, OneTransport
  <2>3. [attempt[i] EXCEPT !.step = "open"] \in AttemptRecords
    BY <1>1, RecordTypes DEF Steps, InProgress
  <2>4. attempt' \in [Attempts -> AttemptRecords]
    BY <1>1, <1>2, <2>3 DEF Renewed
  <2> QED
    BY <1>1, <1>2, <2>1, <2>2, <2>4, StepPreserves DEF Renewed, AttemptRecords
<1>3. CASE ~RenewedInTime(i)
  BY <1>1, <1>3, ClosedTypes, RejectsPreserves DEF Renewed
<1> QED
  BY <1>2, <1>3

LEMMA FailuresPreserve ==
  ASSUME AttemptsAssumption, SessionInvariant, NEW i \in Attempts,
         OpenFails(i) \/ \E refused \in BOOLEAN : AuthFails(i, refused)
  PROVE  SessionInvariant'
<1>1. CASE OpenFails(i)
  BY <1>1, ClosedTypes, RejectsPreserves DEF OpenFails
<1>2. ASSUME NEW refused \in BOOLEAN, AuthFails(i, refused) PROVE SessionInvariant'
  BY <1>2, ClosedTypes, RejectsPreserves DEF AuthFails
<1> QED
  BY <1>1, <1>2

LEMMA DeadlinePreserves ==
  ASSUME AttemptsAssumption, SessionInvariant, NEW i \in Attempts, Deadline(i)
  PROVE  SessionInvariant'
<1>1. Lose(attempt, FALSE) /\ attempt \in [Attempts -> AttemptRecords]
  BY DEF Deadline, SessionInvariant, TypeOK
<1>2. \A j \in Attempts : j > count => attempt[j].step = "none"
  BY DEF SessionInvariant, MadeSoFar
<1> QED
  BY <1>1, <1>2, LosePreserves

LEMMA TransportLostPreserves ==
  ASSUME AttemptsAssumption, SessionInvariant, NEW i \in Attempts, TransportLost(i)
  PROVE  SessionInvariant'
<1>1. Current(i)
  BY DEF TransportLost, SessionInvariant, OneTransport
<1>2. Lose(Closed(attempt, i), FALSE) /\ Closed(attempt, i) \in [Attempts -> AttemptRecords]
  BY <1>1, ClosedTypes DEF TransportLost
<1>3. \A j \in Attempts :
        /\ Closed(attempt, i)[j].generation = attempt[j].generation
        /\ Closed(attempt, i)[j].live => attempt[j].live
        /\ j > count => Closed(attempt, i)[j].step = "none"
  BY ClosedTypes DEF SessionInvariant, MadeSoFar, Closed, AttemptRecords
<1> QED
  BY <1>2, <1>3, LosePreserves

-----------------------------------------------------------------------------
\* The user's actions begin a generation, and reconnect an attempt of it.
LEMMA ReconnectPreserves ==
  ASSUME AttemptsAssumption, SessionInvariant, reconnect
  PROVE  SessionInvariant'
<1> USE DEF AttemptsAssumption, SessionInvariant, reconnect, Attempts
<1> DEFINE a == WithoutManaged(attempt)
<1>1. a \in [Attempts -> AttemptRecords]
  <2>1. \A i \in Attempts : /\ [attempt[i] EXCEPT !.live = FALSE] \in AttemptRecords
                            /\ attempt[i] \in AttemptRecords
    BY RecordTypes DEF TypeOK
  <2> QED
    BY <2>1 DEF WithoutManaged
<1>2. \A i \in Attempts : /\ ~a[i].live /\ a[i].generation = attempt[i].generation
                          /\ a[i].step = attempt[i].step
  BY DEF OneTransport, WithoutManaged, TypeOK, AttemptRecords
<1>3. attempt' = [a EXCEPT ![count + 1] =
                    [generation |-> sessionGeneration + 1, step |-> "opening", live |-> FALSE]]
  BY DEF Begun
<1> HIDE DEF a
<1>4. attempt' \in [Attempts -> AttemptRecords]
  <2>1. sessionGeneration + 1 \in Nat /\ "opening" \in Steps
    BY DEF TypeOK, Steps, InProgress
  <2>2. [generation |-> sessionGeneration + 1, step |-> "opening", live |-> FALSE] \in AttemptRecords
    BY <2>1, RecordTypes
  <2> QED
    BY <1>1, <1>3, <2>2
<1>5. Numbers'
  BY DEF TypeOK, Numbers
<1>6. Flags'
  BY DEF TypeOK, Flags
<1>7. OneTransport'
  BY <1>1, <1>2, <1>3 DEF OneTransport, TypeOK
<1>8. (MadeSoFar /\ OnlyAttempt)'
  BY <1>1, <1>2, <1>3 DEF TypeOK, MadeSoFar, OnlyAttempt, AttemptRecords
<1>9. (Underway /\ RetryOrRest /\ ShownIsOpen)'
  BY <1>1, <1>3 DEF TypeOK, Underway, RetryOrRest, ShownIsOpen
<1> QED
  BY <1>4, <1>5, <1>6, <1>7, <1>8, <1>9, TypePartsNext

LEMMA ClosePreserves ==
  ASSUME AttemptsAssumption, SessionInvariant, closeRpcSession \/ close
  PROVE  SessionInvariant'
<1>1. Invalidates(attempt) /\ count' = count /\ paused' = TRUE /\ retryTimer' = FALSE
      /\ (closed' = TRUE \/ closed' = closed)
  BY DEF closeRpcSession, close
<1>2. {closed', paused', retryTimer'} \subseteq BOOLEAN
  BY <1>1 DEF SessionInvariant, TypeOK
<1>3. \A j \in Attempts : j > count => attempt[j].step = "none"
  BY DEF SessionInvariant, MadeSoFar
<1>4. attempt \in [Attempts -> AttemptRecords]
  BY DEF SessionInvariant, TypeOK
<1> QED
  BY <1>1, <1>2, <1>3, <1>4, InvalidatesPreserves

LEMMA NextPreserves ==
  ASSUME AttemptsAssumption, SessionInvariant, [Next]_vars
  PROVE  SessionInvariant'
<1>1. CASE UNCHANGED vars
  BY <1>1 DEF vars, SessionInvariant, TypeOK, OneTransport, Current, MadeSoFar, OnlyAttempt,
     Underway, RetryOrRest, ShownIsOpen
<1>2. CASE Next
  BY <1>2, GetPreserves, ReconnectPreserves, ClosePreserves, OpenedPreserves, FailuresPreserve,
     AuthenticatedPreserves, UnauthenticatedPreserves, RenewedPreserves, DeadlinePreserves,
     TransportLostPreserves DEF Next
<1> QED
  BY <1>1, <1>2

\* The inductive invariant holds in every state of the controller.
THEOREM SessionIsSound == ASSUME AttemptsAssumption PROVE Spec => []SessionInvariant
  BY Established, NextPreserves, PTL DEF Spec

\* One transport at most, shown only while it is live, and always a session, an
\* attempt or a retry unless the user or a refusal ended it (openRpcSession,
\* invalidateSession, loseSession).
THEOREM AlwaysSound == ASSUME AttemptsAssumption PROVE Spec => []SessionSound
  BY SessionIsSound, SoundSession, PTL

-----------------------------------------------------------------------------
\* A new generation leaves alone what was not of the current one: its transport is
\* closed already.
LEMMA InvalidatesCurrent ==
  ASSUME SessionInvariant, NEW a \in [Attempts -> AttemptRecords], Invalidates(a),
         NEW i \in Attempts, ~Current(i), a[i] = attempt[i]
  PROVE  attempt'[i] = attempt[i]
<1>1. attempt[i].live = FALSE /\ attempt[i] \in AttemptRecords
  BY DEF SessionInvariant, OneTransport, TypeOK, AttemptRecords
<1>2. [attempt[i] EXCEPT !.live = FALSE] = attempt[i]
  BY <1>1 DEF AttemptRecords
<1> QED
  BY <1>2 DEF Invalidates, WithoutManaged

LEMMA RejectsLate ==
  ASSUME SessionInvariant, NEW j \in Attempts, NEW refused,
         NEW a \in [Attempts -> AttemptRecords], a = attempt \/ a = Closed(attempt, j),
         Rejects(j, a, refused), NEW i \in Attempts, ~Current(i), attempt'[i] # attempt[i]
  PROVE  UNCHANGED <<sessionGeneration, paused, retryTimer, rpcSession, managed, reachable>>
<1> DEFINE b == [a EXCEPT ![j].step = "ended"]
<1>1. CASE Concerns(j) /\ Current(j)
  <2>1. i # j /\ Invalidates(b)
    BY <1>1 DEF Rejects, Lose
  <2>2. b \in [Attempts -> AttemptRecords]
    <3>1. [a[j] EXCEPT !.step = "ended"] \in AttemptRecords
      BY RecordTypes DEF Steps
    <3> QED
      BY <3>1
  <2>3. b[i] = attempt[i]
    BY <2>1 DEF SessionInvariant, TypeOK, Closed
  <2> HIDE DEF b
  <2> QED
    BY <2>1, <2>2, <2>3, InvalidatesCurrent
<1>2. CASE ~(Concerns(j) /\ Current(j))
  BY <1>2 DEF Rejects
<1> QED
  BY <1>1, <1>2

LEMMA LateStep ==
  ASSUME AttemptsAssumption, SessionInvariant, [Next]_vars, NEW i \in Attempts,
         attempt[i] # attempt'[i], count' = count, ~Current(i)
  PROVE  UNCHANGED <<sessionGeneration, paused, retryTimer, rpcSession, managed, reachable>>
<1> DEFINE Same == UNCHANGED <<sessionGeneration, paused, retryTimer, rpcSession, managed, reachable>>
<1>0. attempt \in [Attempts -> AttemptRecords] /\ count \in Nat
  BY DEF SessionInvariant, TypeOK, AttemptsAssumption
<1>1. CASE UNCHANGED vars
  BY <1>1 DEF vars
<1>2. CASE getRpcSession \/ reconnect
  BY <1>0, <1>2 DEF getRpcSession, reconnect
<1>3. CASE closeRpcSession \/ close
  BY <1>0, <1>3, InvalidatesCurrent DEF closeRpcSession, close
<1>4. ASSUME NEW j \in Attempts,
             \/ Opened(j) \/ OpenFails(j) \/ Authenticated(j) \/ Unauthenticated(j) \/ Renewed(j)
             \/ \E refused \in BOOLEAN : AuthFails(j, refused)
      PROVE  Same
  <2>1. CASE \E refused \in BOOLEAN, a \in {attempt, Closed(attempt, j)} : Rejects(j, a, refused)
    BY <2>1, ClosedTypes, RejectsLate
  <2>2. CASE ~\E refused \in BOOLEAN, a \in {attempt, Closed(attempt, j)} : Rejects(j, a, refused)
    <3>1. Current(j) /\ \E s \in Steps, l \in BOOLEAN :
            attempt' = [attempt EXCEPT ![j].step = s, ![j].live = l] \/ attempt' = [attempt EXCEPT ![j].step = s]
      BY <1>4, <2>2 DEF Opened, OpenFails, Authenticated, Unauthenticated, Renewed, AuthFails,
         StillWanted, RenewedInTime, Steps, InProgress
    <3> QED
      BY <1>0, <3>1
  <2> QED
    BY <2>1, <2>2
<1>5. ASSUME NEW j \in Attempts, Deadline(j) \/ TransportLost(j) PROVE Same
  <2>1. CASE Deadline(j)
    BY <1>0, <2>1, InvalidatesCurrent DEF Deadline, Lose
  <2>2. CASE TransportLost(j)
    <3>1. Current(j) /\ i # j
      BY <2>2 DEF TransportLost, SessionInvariant, OneTransport
    <3>2. Invalidates(Closed(attempt, j)) /\ Closed(attempt, j)[i] = attempt[i]
      BY <1>0, <2>2, <3>1 DEF TransportLost, Lose, Closed
    <3> QED
      BY <3>2, ClosedTypes, InvalidatesCurrent
  <2> QED
    BY <1>5, <2>1, <2>2
<1> QED
  BY <1>1, <1>2, <1>3, <1>4, <1>5 DEF Next

\* What becomes of an attempt of an older generation changes nothing but that attempt.
THEOREM LateIsHarmless == ASSUME AttemptsAssumption PROVE Spec => LateChangesNothing
<1>1. ASSUME SessionInvariant, [Next]_vars
      PROVE  [\A i \in Attempts :
                attempt[i] # attempt'[i] /\ count' = count /\ ~Current(i) =>
                UNCHANGED <<sessionGeneration, paused, retryTimer, rpcSession, managed, reachable>>]_vars
  BY <1>1, LateStep
<1> QED
  BY <1>1, SessionIsSound, PTL DEF Spec, LateChangesNothing

-----------------------------------------------------------------------------

(***************************************************************************)
(* The desktop input broker (DesktopInput).  Every operation of the broker *)
(* is a set of results computed from the pair [d, down]; what they all     *)
(* keep is After: the result is Good (everything that is down was pressed  *)
(* by the attachment in control, in this control period, and is in the     *)
(* books, unless the broker is poisoned), no attachment is made, and a     *)
(* poisoned broker gives nothing away.  After is transitive, so a handler  *)
(* that runs expire, then its own operation, then a release keeps it too.  *)
(* The handlers only add the credential lock, the layout and the streams.  *)
(***************************************************************************)
CONSTANTS Connections, Clients, ClientOf, Keys, Buttons, Modes, MaxAttached, MaxId, MaxEpoch,
          MaxLayout, Lease, Displays, MaxGeneration
VARIABLES d, down, generation, displays, layout_displays, seen, streams, guards, viewers, open,
          auth, valid, gate
I == INSTANCE DesktopInput

\* The values of Desktop: its attachments by id, and what the operating system holds.
Books == UNION {[S -> I!Attachment] : S \in SUBSET I!Ids}
Broker == [attachments : Books, holder : I!Ids \cup {I!NoHolder}, epoch : 1..MaxEpoch,
    next_id : 0..MaxId, layout_epoch : 1..MaxLayout, keys : SUBSET Keys, buttons : SUBSET Buttons,
    poisoned : BOOLEAN, backend_generation : 0..MaxGeneration]
Press == [what : Keys \cup Buttons, by : I!Ids, epoch : 1..MaxEpoch]
Results == {"ok", "Backend", "Limit", "NotFound", "Unauthorized", "Busy", "Stale", "Invalid",
            "Unsupported"}
Pairs == [d : Broker, down : SUBSET Press]
Outcomes == [d : Broker, down : SUBSET Press, r : Results]

\* Everything but who made the presses.
Sane(x) ==
    /\ x \in Pairs \cup Outcomes
    /\ I!Attached(x) \subseteq 1..x.d.next_id
    /\ x.d.holder # I!NoHolder => x.d.holder \in I!Attached(x)
    /\ x.down # {} => I!Attached(x) # {}
    /\ \A i \in I!Attached(x) : x.d.attachments[i].view \in {0, x.d.layout_epoch}

Holding(x) == ~x.d.poisoned =>
    \A p \in x.down : /\ p.by = x.d.holder /\ p.epoch = x.d.epoch
                      /\ p.by \in I!Attached(x) /\ p.what \in x.d.keys \cup x.d.buttons
Good(x) == Sane(x) /\ Holding(x)

\* What no operation does: make an attachment (but attach), forget a poisoning, or under
\* one give control, press or drop an attachment.
Fenced(x, o) ==
    x.d.poisoned => /\ o.d.poisoned /\ o.d.holder \in {x.d.holder, I!NoHolder}
                    /\ o.down \subseteq x.down /\ I!Attached(x) \subseteq I!Attached(o)
After(x, o) ==
    /\ Good(o) /\ o \in Outcomes /\ Fenced(x, o) /\ I!Attached(o) \subseteq I!Attached(x)
    /\ o.d.backend_generation = x.d.backend_generation

\* The fields of a pair, whether it is a state or the result of an operation.
LEMMA Fields ==
    ASSUME NEW x \in Pairs \cup Outcomes
    PROVE  /\ x.d \in Broker /\ x.down \in SUBSET Press
           /\ x.d.attachments \in Books /\ I!Attached(x) \subseteq I!Ids
           /\ x.d.attachments \in [I!Attached(x) -> I!Attachment]
           /\ x.d.holder \in I!Ids \cup {I!NoHolder} /\ x.d.epoch \in 1..MaxEpoch
           /\ x.d.next_id \in 0..MaxId /\ x.d.layout_epoch \in 1..MaxLayout
           /\ x.d.keys \in SUBSET Keys /\ x.d.buttons \in SUBSET Buttons
           /\ x.d.poisoned \in BOOLEAN /\ x.d.backend_generation \in 0..MaxGeneration
  <1>1. x.d \in Broker /\ x.down \in SUBSET Press
    BY DEF Pairs, Outcomes
  <1>2. x.d.attachments \in Books
    BY <1>1 DEF Broker
  <1>3. I!Attached(x) \subseteq I!Ids /\ x.d.attachments \in [I!Attached(x) -> I!Attachment]
    BY <1>2 DEF Books, I!Attached
  <1> QED  BY <1>1, <1>2, <1>3 DEF Broker

\* A release gives everything up, or poisons.
LEMMA ReleaseHeld ==
    ASSUME NEW x, Sane(x), NEW o \in I!release_held(x)
    PROVE  /\ Good(o) /\ o \in Outcomes /\ o.d.attachments = x.d.attachments
           /\ o.d.holder = x.d.holder /\ o.d.epoch = x.d.epoch /\ o.down \subseteq x.down
           /\ x.d.poisoned => o.d.poisoned
           /\ o.r = "ok" => o.down = {}
           /\ o.r # "ok" => o.d.poisoned
           /\ o.d.backend_generation = x.d.backend_generation
           /\ o.d.layout_epoch = x.d.layout_epoch
  <1>0. x.d \in Broker /\ x.down \in SUBSET Press
    BY Fields DEF Sane
  <1> USE DEF Sane
  <1>1. CASE o = [d |-> [x.d EXCEPT !.keys = {}, !.buttons = {}], down |-> {}, r |-> "ok"]
    <2>1. o.d = [x.d EXCEPT !.keys = {}, !.buttons = {}] /\ o.down = {} /\ o.r = "ok"
      BY <1>1
    <2>2. o.d \in Broker
      BY <1>0, <2>1 DEF Broker
    <2>4. o \in Outcomes
      BY <1>1, <2>1, <2>2 DEF Outcomes, Results
    <2>3. /\ o.d.attachments = x.d.attachments /\ o.d.holder = x.d.holder /\ o.d.epoch = x.d.epoch
          /\ o.d.next_id = x.d.next_id /\ o.d.layout_epoch = x.d.layout_epoch
          /\ o.d.poisoned = x.d.poisoned /\ o.d.backend_generation = x.d.backend_generation
      BY <1>0, <2>1 DEF Broker
    <2> QED  BY <2>1, <2>2, <2>3, <2>4 DEF Good, Holding, I!Attached
  <1>2. ASSUME NEW rest \in SUBSET x.down,
               o = [d |-> [x.d EXCEPT !.poisoned = TRUE], down |-> rest, r |-> "Backend"]
        PROVE  /\ Good(o) /\ o \in Outcomes /\ o.d.attachments = x.d.attachments
           /\ o.d.holder = x.d.holder /\ o.d.epoch = x.d.epoch /\ o.down \subseteq x.down
           /\ o.d.poisoned /\ o.r # "ok"
           /\ o.d.backend_generation = x.d.backend_generation
           /\ o.d.layout_epoch = x.d.layout_epoch
    <2>1. o.d = [x.d EXCEPT !.poisoned = TRUE] /\ o.down \subseteq x.down /\ o.r = "Backend"
      BY <1>2
    <2>2. o.d \in Broker /\ o.d.poisoned
      BY <1>0, <2>1 DEF Broker
    <2>4. o \in Outcomes
      BY <1>0, <1>2, <2>1, <2>2 DEF Outcomes, Results
    <2>3. /\ o.d.attachments = x.d.attachments /\ o.d.holder = x.d.holder /\ o.d.epoch = x.d.epoch
          /\ o.d.next_id = x.d.next_id /\ o.d.layout_epoch = x.d.layout_epoch
          /\ o.d.backend_generation = x.d.backend_generation
      BY <1>0, <2>1 DEF Broker
    <2> QED  BY <2>1, <2>2, <2>3, <2>4 DEF Good, Holding, I!Attached
  <1> QED  BY <1>1, <1>2 DEF I!release_held

\* release: a new control period, then everything is given up; or, with the epochs used
\* up or a backend that fails, the broker is poisoned.
LEMMA Release ==
    ASSUME I!ConstantsAssumption, NEW x, Sane(x), NEW o \in I!release(x)
    PROVE  /\ After(x, o) /\ o.d.attachments = x.d.attachments
           /\ o.d.holder = I!NoHolder /\ o.down \subseteq x.down
           /\ o.r = "ok" => o.down = {}
           /\ o.r # "ok" => o.d.poisoned
           /\ o.d.layout_epoch = x.d.layout_epoch
  <1>0. Sane(x) /\ x \in Pairs \cup Outcomes
    BY DEF Sane
  <1>b. x.d \in Broker /\ x.down \in SUBSET Press
    BY <1>0, Fields
  <1>1. CASE x.d.epoch = MaxEpoch
    <2> DEFINE y == [x EXCEPT !.d.holder = I!NoHolder, !.d.poisoned = TRUE]
    <2>1. o = I!Err(y, "Limit")
      BY <1>1 DEF I!release
    <2>2. y.d = [[x.d EXCEPT !.holder = I!NoHolder] EXCEPT !.poisoned = TRUE] /\ y.down = x.down
      BY <1>0 DEF Pairs, Outcomes
    <2> HIDE DEF y
    <2>3. /\ o.d = [[x.d EXCEPT !.holder = I!NoHolder] EXCEPT !.poisoned = TRUE] /\ o.down = x.down
          /\ o.r = "Limit" /\ o = [d |-> o.d, down |-> o.down, r |-> o.r]
      BY <2>1, <2>2 DEF I!Err
    <2>4. o.d \in Broker /\ o.d.poisoned
      <3>1. [x.d EXCEPT !.holder = I!NoHolder] \in Broker
        BY <1>b DEF Broker
      <3> QED  BY <2>3, <3>1 DEF Broker
    <2>6. o \in Outcomes
      BY <1>b, <2>3, <2>4 DEF Outcomes, Results
    <2>5. /\ o.d.attachments = x.d.attachments /\ o.d.holder = I!NoHolder
          /\ o.d.next_id = x.d.next_id /\ o.d.layout_epoch = x.d.layout_epoch
          /\ o.d.backend_generation = x.d.backend_generation
      BY <1>b, <2>3 DEF Broker
    <2> QED  BY <1>0, <2>3, <2>4, <2>5, <2>6 DEF After, Good, Sane, Holding, Fenced, I!Attached
  <1>2. CASE x.d.epoch # MaxEpoch
    <2> DEFINE y == [x EXCEPT !.d.holder = I!NoHolder, !.d.epoch = @ + 1]
    <2>1. o \in I!release_held(y)
      BY <1>2 DEF I!release
    <2> DEFINE z == [x.d EXCEPT !.holder = I!NoHolder]
    <2>z. /\ z \in Broker /\ z.attachments = x.d.attachments /\ z.holder = I!NoHolder
          /\ z.next_id = x.d.next_id /\ z.layout_epoch = x.d.layout_epoch
          /\ z.backend_generation = x.d.backend_generation /\ z.poisoned = x.d.poisoned
      BY <1>b DEF Broker
    <2>2. /\ y.d = [z EXCEPT !.epoch = x.d.epoch + 1]
          /\ y.down = x.down /\ y = [x EXCEPT !.d = y.d]
      BY <1>0, Fields DEF Pairs, Outcomes, Broker
    <2>3. x.d.epoch + 1 \in 1..MaxEpoch
      BY <1>0, <1>2, Fields DEF I!ConstantsAssumption
    <2> HIDE DEF z, y
    <2>4. y.d \in Broker
      BY <2>2, <2>3, <2>z DEF Broker
    <2>5. y \in Pairs \cup Outcomes
      <3>1. CASE x \in Pairs
        BY <2>2, <2>4, <3>1 DEF Pairs
      <3>2. CASE x \in Outcomes
        BY <2>2, <2>4, <3>2 DEF Outcomes
      <3> QED  BY <1>0, <3>1, <3>2
    <2>6. /\ y.d.attachments = x.d.attachments /\ y.d.holder = I!NoHolder
          /\ y.d.next_id = x.d.next_id /\ y.d.layout_epoch = x.d.layout_epoch
          /\ y.d.backend_generation = x.d.backend_generation /\ y.d.poisoned = x.d.poisoned
      BY <2>2, <2>z DEF Broker
    <2> HIDE DEF y
    <2>7. Sane(y)
      BY <1>0, <2>2, <2>5, <2>6 DEF Sane, I!Attached
    <2> QED  BY <2>1, <2>2, <2>6, <2>7, ReleaseHeld DEF After, Fenced, I!Attached
  <1> QED  BY <1>1, <1>2

\* What several operations in a row keep.
LEMMA AfterTransitive ==
    ASSUME NEW x, NEW y, NEW z, After(x, y), After(y, z)
    PROVE  After(x, z)
  BY DEF After, Fenced

\* Returning the pair as it is, accepted or refused.
LEMMA AsItIs ==
    ASSUME NEW x, Good(x), NEW e \in Results
    PROVE  After(x, I!Ok(x)) /\ After(x, I!Err(x, e)) /\ I!Ok(x).r = "ok" /\ I!Err(x, e).r = e
  <1>1. x.d \in Broker /\ x.down \in SUBSET Press
    BY Fields DEF Good, Sane
  <1>2. I!Ok(x) \in Outcomes /\ I!Err(x, e) \in Outcomes
    BY <1>1 DEF I!Ok, I!Err, Outcomes, Results
  <1>3. /\ I!Ok(x).d = x.d /\ I!Ok(x).down = x.down /\ I!Ok(x).r = "ok"
        /\ I!Err(x, e).d = x.d /\ I!Err(x, e).down = x.down /\ I!Err(x, e).r = e
    BY DEF I!Ok, I!Err
  <1> QED  BY <1>2, <1>3 DEF After, Good, Sane, Holding, Fenced, I!Attached

\* A result is the state the next operation runs on.
LEMMA PairOf ==
    ASSUME NEW x, Good(x)
    PROVE  /\ Good([d |-> x.d, down |-> x.down])
           /\ \A o : After([d |-> x.d, down |-> x.down], o) <=> After(x, o)
  <1>1. x.d \in Broker /\ x.down \in SUBSET Press
    BY Fields DEF Good, Sane
  <1> DEFINE y == [d |-> x.d, down |-> x.down]
  <1>2. y \in Pairs /\ y.d = x.d /\ y.down = x.down
    BY <1>1 DEF Pairs
  <1> HIDE DEF y
  <1>3. Good(y)
    BY <1>2 DEF Good, Sane, Holding, I!Attached
  <1>4. \A o : After(y, o) <=> After(x, o)
    BY <1>2 DEF After, Fenced, I!Attached
  <1> QED  BY <1>3, <1>4 DEF y

\* Attachments without control leave; the last of them with nothing down.
LEMMA WithoutKeeps ==
    ASSUME NEW x, Good(x), NEW ids, x.d.holder \notin ids,
           x.down = {} \/ I!Attached(x) \ ids # {}
    PROVE  LET y == I!Without(x, ids) IN
           /\ Good(y) /\ y.down = x.down /\ I!Attached(y) = I!Attached(x) \ ids
           /\ x \in Outcomes => y \in Outcomes /\ y.r = x.r
           /\ y.d.backend_generation = x.d.backend_generation
           /\ y.d.poisoned = x.d.poisoned /\ y.d.holder = x.d.holder
  <1> DEFINE y == I!Without(x, ids)
             f == [i \in I!Attached(x) \ ids |-> x.d.attachments[i]]
  <1>0. x \in Pairs \cup Outcomes /\ x.d \in Broker /\ x.down \in SUBSET Press
    BY Fields DEF Good, Sane
  <1>1. y.d = [x.d EXCEPT !.attachments = f] /\ y.down = x.down /\ y = [x EXCEPT !.d = y.d]
    BY <1>0 DEF I!Without, Pairs, Outcomes, Broker
  <1>2. /\ f \in Books /\ DOMAIN f = I!Attached(x) \ ids
        /\ \A i \in I!Attached(x) \ ids : f[i] = x.d.attachments[i]
    <2>1. /\ I!Attached(x) \ ids \in SUBSET I!Ids
          /\ \A i \in I!Attached(x) \ ids : x.d.attachments[i] \in I!Attachment
      BY <1>0, Fields
    <2>2. f \in [I!Attached(x) \ ids -> I!Attachment]
      BY <2>1
    <2> QED  BY <2>1, <2>2 DEF Books
  <1> HIDE DEF y, f
  <1>3. y.d \in Broker
    BY <1>0, <1>1, <1>2 DEF Broker
  <1>4. /\ y.d.attachments = f /\ y.d.holder = x.d.holder /\ y.d.epoch = x.d.epoch
        /\ y.d.next_id = x.d.next_id /\ y.d.layout_epoch = x.d.layout_epoch
        /\ y.d.keys = x.d.keys /\ y.d.buttons = x.d.buttons
        /\ y.d.poisoned = x.d.poisoned /\ y.d.backend_generation = x.d.backend_generation
    BY <1>0, <1>1 DEF Broker
  <1>5. y \in Pairs \cup Outcomes /\ (x \in Outcomes => y \in Outcomes /\ y.r = x.r)
    <2>1. CASE x \in Pairs
      BY <1>0, <1>1, <1>3, <2>1 DEF Pairs, Outcomes
    <2>2. CASE x \in Outcomes
      BY <1>0, <1>1, <1>3, <2>2 DEF Outcomes
    <2> QED  BY <1>0, <2>1, <2>2
  <1>6. I!Attached(y) = I!Attached(x) \ ids
    BY <1>2, <1>4 DEF I!Attached
  <1>7. Sane(y)
    BY <1>1, <1>2, <1>4, <1>5, <1>6 DEF Good, Sane
  <1>8. Holding(y)
    BY <1>1, <1>4, <1>6 DEF Good, Holding
  <1> QED  BY <1>1, <1>4, <1>5, <1>6, <1>7, <1>8 DEF y, Good

\* The loops of expire and disconnect.
LEMMA RemoveAllKeeps ==
    ASSUME I!ConstantsAssumption, NEW x, Good(x), NEW ids \in SUBSET I!Attached(x),
           NEW o \in I!removeAll(x, ids)
    PROVE  After(x, o)
  <1>1. CASE ids = {}
    BY <1>1, AsItIs DEF I!removeAll, Results
  <1>2. CASE ids # {} /\ x.d.poisoned
    BY <1>2, AsItIs DEF I!removeAll, Results
  <1>3. ASSUME ids # {}, ~x.d.poisoned, x.d.holder \in ids PROVE After(x, o)
    <2>1. PICK n \in I!release(x) :
             o = IF n.r = "ok" THEN I!Ok(I!Without(n, ids))
                 ELSE I!Err(I!Without(n, {i \in ids : i < x.d.holder}), n.r)
      BY <1>3 DEF I!removeAll
    <2>2. /\ After(x, n) /\ I!Attached(n) = I!Attached(x) /\ n.d.holder = I!NoHolder
          /\ n.r = "ok" => n.down = {}
          /\ Good(n) /\ n \in Outcomes /\ n.r \in Results
      BY Release DEF Good, After, I!Attached, Outcomes
    <2>3. I!NoHolder \notin ids
      BY Fields DEF Good, Sane, I!NoHolder, I!Ids
    <2>4. CASE n.r = "ok"
      <3> DEFINE y == I!Without(n, ids)
      <3>1. /\ Good(y) /\ I!Attached(y) = I!Attached(x) \ ids /\ o = I!Ok(y)
            /\ y.d.backend_generation = x.d.backend_generation
        BY <2>1, <2>2, <2>3, <2>4, WithoutKeeps DEF After
      <3> HIDE DEF y
      <3>2. After(y, o)
        BY <3>1, AsItIs DEF Results
      <3> QED  BY <1>3, <3>1, <3>2 DEF After, Fenced
    <2>5. CASE n.r # "ok"
      <3> DEFINE s == {i \in ids : i < x.d.holder}
                 y == I!Without(n, s)
      <3>0. s \subseteq I!Attached(n) /\ I!NoHolder \notin s /\ x.d.holder \in I!Attached(n) \ s
        BY <1>3, <2>2, <2>3, Fields DEF Good, Sane, I!Ids
      <3>1. /\ Good(y) /\ I!Attached(y) = I!Attached(x) \ s /\ o = I!Err(y, n.r)
            /\ y.d.backend_generation = x.d.backend_generation
        <4> HIDE DEF s
        <4> QED  BY <2>1, <2>2, <2>5, <3>0, WithoutKeeps DEF After, s
      <3> HIDE DEF y
      <3>2. After(y, o)
        BY <2>2, <3>1, AsItIs
      <3> QED  BY <1>3, <3>1, <3>2 DEF After, Fenced
    <2> QED  BY <2>4, <2>5
  <1>4. ASSUME ids # {}, ~x.d.poisoned, x.d.holder \notin ids PROVE After(x, o)
    <2> DEFINE y == I!Without(x, ids)
    <2>1. x.down = {} \/ I!Attached(x) \ ids # {}
      BY <1>4 DEF Good, Holding
    <2>2. /\ Good(y) /\ I!Attached(y) = I!Attached(x) \ ids /\ o = I!Ok(y)
          /\ y.d.backend_generation = x.d.backend_generation
      BY <1>4, <2>1, WithoutKeeps DEF I!removeAll
    <2> HIDE DEF y
    <2>3. After(y, o)
      BY <2>2, AsItIs DEF Results
    <2> QED  BY <1>4, <2>2, <2>3 DEF After, Fenced
  <1> QED  BY <1>1, <1>2, <1>3, <1>4

\* remove: the holder releases before it goes, the others just go.
LEMMA RemoveKeeps ==
    ASSUME I!ConstantsAssumption, NEW x, Good(x), NEW id \in I!Ids, NEW o \in I!remove(x, id)
    PROVE  After(x, o)
  <1>0. id # I!NoHolder
    BY DEF I!NoHolder, I!Ids
  <1>1. CASE x.d.poisoned
    BY <1>1, AsItIs DEF I!remove, Results
  <1>2. ASSUME ~x.d.poisoned, x.d.holder = id PROVE After(x, o)
    <2>1. PICK n \in I!release(x) : o = IF n.r = "ok" THEN I!Ok(I!Without(n, {id})) ELSE n
      BY <1>2 DEF I!remove
    <2>2. /\ After(x, n) /\ I!Attached(n) = I!Attached(x) /\ n.d.holder = I!NoHolder
          /\ n.r = "ok" => n.down = {}
          /\ Good(n) /\ n \in Outcomes
      BY Release DEF Good, After, I!Attached
    <2>3. CASE n.r = "ok"
      <3> DEFINE y == I!Without(n, {id})
      <3>1. /\ Good(y) /\ I!Attached(y) = I!Attached(x) \ {id} /\ o = I!Ok(y)
            /\ y.d.backend_generation = x.d.backend_generation
        BY <1>0, <2>1, <2>2, <2>3, WithoutKeeps DEF After
      <3> HIDE DEF y
      <3>2. After(y, o)
        BY <3>1, AsItIs DEF Results
      <3> QED  BY <1>2, <3>1, <3>2 DEF After, Fenced
    <2> QED  BY <2>1, <2>2, <2>3
  <1>3. ASSUME ~x.d.poisoned, x.d.holder # id PROVE After(x, o)
    <2> DEFINE y == I!Without(x, {id})
    <2>1. x.down = {} \/ I!Attached(x) \ {id} # {}
      BY <1>3 DEF Good, Holding
    <2>2. /\ Good(y) /\ I!Attached(y) = I!Attached(x) \ {id} /\ o = I!Ok(y)
          /\ y.d.backend_generation = x.d.backend_generation
      BY <1>3, <2>1, WithoutKeeps DEF I!remove
    <2> HIDE DEF y
    <2>3. After(y, o)
      BY <2>2, AsItIs DEF Results
    <2> QED  BY <1>3, <2>2, <2>3 DEF After, Fenced
  <1> QED  BY <1>1, <1>2, <1>3

\* expire: whoever has no lease or no credential is removed.
LEMMA ExpireKeeps ==
    ASSUME I!ConstantsAssumption, NEW x, Good(x), NEW cred, NEW c,
           NEW o \in I!expire(x, cred) \cup I!disconnect(x, c)
    PROVE  After(x, o)
  BY RemoveAllKeeps DEF I!expire, I!disconnect

\* An accepted authorization speaks of an attachment, and of a broker that is usable.
LEMMA AuthorizeKeeps ==
    ASSUME I!ConstantsAssumption, NEW x, Good(x), NEW cred, NEW c, NEW id,
           NEW o \in I!authorize(x, cred, c, id)
    PROVE  /\ After(x, o)
           /\ o.r = "ok" => id \in I!Attached(o) /\ ~o.d.poisoned /\ o.d.attachments[id].conn = c
  <1>1. PICK n \in I!expire(x, cred) :
           o = IF n.r # "ok" THEN n
               ELSE IF id \notin I!Attached(n) THEN I!Err(n, "NotFound")
               ELSE IF n.d.attachments[id].conn # c THEN I!Err(n, "Unauthorized")
               ELSE IF n.d.poisoned THEN I!Err(n, "Backend")
               ELSE n
    BY DEF I!authorize
  <1>2. After(x, n) /\ Good(n)
    BY ExpireKeeps DEF After
  <1>3. \A e \in Results : After(n, I!Err(n, e)) /\ I!Err(n, e).r = e
    BY <1>2, AsItIs
  <1>4. {"NotFound", "Unauthorized", "Backend"} \subseteq Results
    BY DEF Results
  <1>5. CASE o = n
    BY <1>1, <1>2, <1>5, <1>3, <1>4
  <1>6. ASSUME NEW e \in {"NotFound", "Unauthorized", "Backend"}, o = I!Err(n, e)
        PROVE  After(x, o) /\ o.r # "ok"
    BY <1>2, <1>3, <1>4, <1>6, AfterTransitive
  <1> QED  BY <1>1, <1>5, <1>6

\* Editing the attachments alone, none more and none less, no viewport of another layout.
LEMMA EditedKeeps ==
    ASSUME NEW x, Good(x), NEW y, NEW f, y = [x EXCEPT !.d = y.d],
           y.d = [x.d EXCEPT !.attachments = f], f \in [I!Attached(x) -> I!Attachment],
           \A i \in I!Attached(x) : f[i].view \in {0, x.d.layout_epoch}, x \in Outcomes
    PROVE  After(x, y) /\ y.r = x.r
  <1>0. x.d \in Broker /\ x.down \in SUBSET Press /\ I!Attached(x) \in SUBSET I!Ids
    BY Fields DEF Good, Sane
  <1>1. f \in Books /\ DOMAIN f = I!Attached(x)
    BY <1>0 DEF Books
  <1>2. y.d \in Broker
    BY <1>0, <1>1 DEF Broker
  <1>3. y \in Outcomes /\ y.r = x.r /\ y.down = x.down
    BY <1>0, <1>2 DEF Outcomes
  <1>4. /\ y.d.attachments = f /\ y.d.holder = x.d.holder /\ y.d.epoch = x.d.epoch
        /\ y.d.next_id = x.d.next_id /\ y.d.layout_epoch = x.d.layout_epoch
        /\ y.d.keys = x.d.keys /\ y.d.buttons = x.d.buttons
        /\ y.d.poisoned = x.d.poisoned /\ y.d.backend_generation = x.d.backend_generation
    BY <1>0 DEF Broker
  <1>5. I!Attached(y) = I!Attached(x)
    BY <1>1, <1>4 DEF I!Attached
  <1>6. Sane(y)
    BY <1>3, <1>4, <1>5 DEF Good, Sane
  <1>7. Holding(y)
    BY <1>3, <1>4, <1>5 DEF Good, Holding
  <1> QED  BY <1>3, <1>4, <1>5, <1>6, <1>7 DEF After, Good, Fenced

\* renew sets one lease.
LEMMA RenewKeeps ==
    ASSUME I!ConstantsAssumption, NEW x, Good(x), NEW cred, NEW c, NEW id,
           NEW o \in I!renew(x, cred, c, id)
    PROVE  After(x, o)
  <1>1. PICK n \in I!authorize(x, cred, c, id) :
           o = IF n.r = "ok" THEN [n EXCEPT !.d.attachments[id].lease = Lease] ELSE n
    BY DEF I!renew
  <1>2. After(x, n) /\ Good(n) /\ n \in Outcomes /\ (n.r = "ok" => id \in I!Attached(n))
    BY AuthorizeKeeps DEF After
  <1>3. CASE n.r = "ok"
    <2> DEFINE f == [n.d.attachments EXCEPT ![id].lease = Lease]
    <2>0. n.d \in Broker /\ n.d.attachments \in [I!Attached(n) -> I!Attachment]
      BY <1>2, Fields DEF Good, Sane
    <2>1. o.d = [n.d EXCEPT !.attachments = f] /\ o = [n EXCEPT !.d = o.d]
      BY <1>1, <1>2, <1>3, <2>0 DEF Outcomes, Broker
    <2>2. f \in [I!Attached(n) -> I!Attachment]
      BY <1>2, <1>3, <2>0 DEF I!Attachment, I!ConstantsAssumption
    <2>3. \A i \in I!Attached(n) : f[i].view = n.d.attachments[i].view
      BY <1>2, <1>3, <2>0 DEF I!Attachment
    <2> HIDE DEF f
    <2>4. \A i \in I!Attached(n) : f[i].view \in {0, n.d.layout_epoch}
      BY <1>2, <2>3 DEF Good, Sane
    <2>5. After(n, o)
      BY <1>2, <2>1, <2>2, <2>4, EditedKeeps
    <2> QED  BY <1>2, <2>5, AfterTransitive
  <1> QED  BY <1>1, <1>2, <1>3

\* configure_viewports accepts the layout of now only.
LEMMA ConfigureKeeps ==
    ASSUME I!ConstantsAssumption, NEW x, Good(x), NEW cred, NEW c, NEW id, NEW layout,
           NEW o \in I!configure(x, cred, c, id, layout)
    PROVE  After(x, o)
  <1>1. PICK n \in I!authorize(x, cred, c, id) :
           o = IF n.r # "ok" THEN n
               ELSE IF layout # n.d.layout_epoch THEN I!Err(n, "Stale")
               ELSE [n EXCEPT !.d.attachments[id].view = layout]
    BY DEF I!configure
  <1>2. After(x, n) /\ Good(n) /\ n \in Outcomes /\ (n.r = "ok" => id \in I!Attached(n))
    BY AuthorizeKeeps DEF After
  <1>3. After(n, I!Err(n, "Stale"))
    BY <1>2, AsItIs DEF Results
  <1>4. CASE n.r = "ok" /\ layout = n.d.layout_epoch
    <2> DEFINE f == [n.d.attachments EXCEPT ![id].view = layout]
    <2>0. n.d \in Broker /\ n.d.attachments \in [I!Attached(n) -> I!Attachment]
          /\ n.d.layout_epoch \in 0..MaxLayout
      BY <1>2, Fields DEF Good, Sane
    <2>1. o.d = [n.d EXCEPT !.attachments = f] /\ o = [n EXCEPT !.d = o.d]
      BY <1>1, <1>2, <1>4, <2>0 DEF Outcomes, Broker
    <2>2. f \in [I!Attached(n) -> I!Attachment]
      BY <1>2, <1>4, <2>0 DEF I!Attachment
    <2>3. \A i \in I!Attached(n) : f[i].view \in {n.d.attachments[i].view, n.d.layout_epoch}
      BY <1>2, <1>4, <2>0 DEF I!Attachment
    <2> HIDE DEF f
    <2>4. \A i \in I!Attached(n) : f[i].view \in {0, n.d.layout_epoch}
      BY <1>2, <2>3 DEF Good, Sane
    <2>5. After(n, o)
      BY <1>2, <2>1, <2>2, <2>4, EditedKeeps
    <2> QED  BY <1>2, <2>5, AfterTransitive
  <1> QED  BY <1>1, <1>2, <1>3, <1>4, AfterTransitive

\* detach removes the attachment of its own connection.
LEMMA DetachKeeps ==
    ASSUME I!ConstantsAssumption, NEW x, Good(x), NEW cred, NEW c, NEW id \in I!Ids,
           NEW o \in I!detach(x, cred, c, id)
    PROVE  After(x, o)
  <1>1. PICK n \in I!authorize(x, cred, c, id) :
           o \in IF n.r = "ok" THEN I!remove([d |-> n.d, down |-> n.down], id) ELSE {n}
    BY DEF I!detach
  <1>2. After(x, n) /\ Good(n)
    BY AuthorizeKeeps DEF After
  <1>3. CASE n.r = "ok"
    <2>1. After([d |-> n.d, down |-> n.down], o)
      BY <1>1, <1>2, <1>3, PairOf, RemoveKeeps
    <2> QED  BY <1>2, <2>1, PairOf, AfterTransitive
  <1> QED  BY <1>1, <1>2, <1>3

\* A release of a result, as the handlers that fail half way do it.
LEMMA ReleasePair ==
    ASSUME I!ConstantsAssumption, NEW x, Good(x), NEW o \in I!release([d |-> x.d, down |-> x.down])
    PROVE  /\ After(x, o) /\ o.d.attachments = x.d.attachments
           /\ o.r = "ok" => o.down = {}
  <1> DEFINE y == [d |-> x.d, down |-> x.down]
  <1>1. Good(y) /\ y.d = x.d
    BY PairOf
  <1>2. \A n : After(y, n) <=> After(x, n)
    BY PairOf
  <1> HIDE DEF y
  <1>3. o \in I!release(y)
    BY DEF y
  <1>4. After(y, o) /\ o.d.attachments = y.d.attachments /\ (o.r = "ok" => o.down = {})
    BY <1>1, <1>3, Release DEF Good
  <1> QED  BY <1>1, <1>2, <1>4

\* set_control: acquiring and taking over begin a new control period, with nothing down.
LEMMA SetControlKeeps ==
    ASSUME I!ConstantsAssumption, NEW x, Good(x), NEW cred, NEW c, NEW id, NEW action,
           NEW o \in I!set_control(x, cred, c, id, action)
    PROVE  After(x, o)
  <1>1. PICK n \in I!authorize(x, cred, c, id) :
           \/ o = n
           \/ n.r = "ok" /\ o \in I!release([d |-> n.d, down |-> n.down])
           \/ o = I!Err(n, "Busy")
           \/ /\ n.r = "ok"
              /\ \E m \in I!release([d |-> n.d, down |-> n.down]) :
                    o = IF m.r = "ok" THEN [m EXCEPT !.d.holder = id] ELSE m
    BY DEF I!set_control
  <1>2. /\ After(x, n) /\ Good(n) /\ n \in Outcomes
        /\ n.r = "ok" => id \in I!Attached(n) /\ ~n.d.poisoned
    BY AuthorizeKeeps DEF After
  <1>3. After(n, I!Err(n, "Busy"))
    BY <1>2, AsItIs DEF Results
  <1>4. ASSUME n.r = "ok", NEW m \in I!release([d |-> n.d, down |-> n.down]), m.r = "ok",
               o = [m EXCEPT !.d.holder = id]
        PROVE  After(n, o)
    <2>1. After(n, m) /\ I!Attached(m) = I!Attached(n) /\ m.down = {} /\ m \in Outcomes /\ Sane(m)
      BY <1>2, <1>4, ReleasePair DEF I!Attached, After, Good
    <2>2. m.d \in Broker /\ id \in I!Ids
      BY <1>2, <1>4, <2>1, Fields
    <2>3. o.d = [m.d EXCEPT !.holder = id] /\ o.down = {} /\ o = [m EXCEPT !.d = o.d]
      BY <1>4, <2>1, <2>2 DEF Outcomes, Broker
    <2>4. o.d \in Broker
      BY <2>2, <2>3 DEF Broker
    <2>5. o \in Outcomes
      BY <2>1, <2>3, <2>4 DEF Outcomes
    <2>6. /\ o.d.attachments = m.d.attachments /\ o.d.holder = id
          /\ o.d.next_id = m.d.next_id /\ o.d.layout_epoch = m.d.layout_epoch
          /\ o.d.backend_generation = m.d.backend_generation
      BY <2>2, <2>3 DEF Broker
    <2>7. I!Attached(o) = I!Attached(n) /\ id \in I!Attached(n)
      BY <1>2, <1>4, <2>1, <2>6 DEF I!Attached
    <2>8. Good(o)
      BY <2>1, <2>3, <2>5, <2>6, <2>7 DEF Good, Sane, Holding, I!Attached
    <2> QED  BY <1>2, <1>4, <2>1, <2>5, <2>6, <2>7, <2>8 DEF After, Fenced
  <1>5. ASSUME NEW m \in I!release([d |-> n.d, down |-> n.down]) PROVE After(n, m)
    BY <1>2, <1>5, ReleasePair
  <1> QED  BY <1>1, <1>2, <1>3, <1>4, <1>5, AfterTransitive

\* attach makes the one attachment its new identifier names, never under poison and never
\* with the gate closed.
LEMMA AttachKeeps ==
    ASSUME I!ConstantsAssumption, NEW x, Good(x), NEW cred, NEW c \in Connections,
           NEW mode \in Modes, NEW admit \in BOOLEAN, NEW o \in I!attach(x, cred, c, mode, admit)
    PROVE  /\ Good(o) /\ o \in Outcomes /\ Fenced(x, o)
           /\ o.d.backend_generation = x.d.backend_generation
           /\ ~admit => I!Attached(o) \subseteq I!Attached(x)
           /\ o.r = "ok" => o.d.next_id \in I!Ids
  <1>1. PICK n \in I!expire(x, cred) :
           \/ o = n /\ n.r # "ok"
           \/ \E e \in {"Unauthorized", "Backend", "Limit", "Busy"} : o = I!Err(n, e)
           \/ /\ n.r = "ok" /\ ~n.d.poisoned /\ admit /\ n.d.next_id # MaxId
              /\ o = I!Ok([n EXCEPT !.d.next_id = @ + 1,
                       !.d.attachments = [i \in I!Attached(n) \cup {n.d.next_id + 1} |->
                           IF i \in I!Attached(n) THEN @[i]
                           ELSE [conn |-> c, mode |-> mode, lease |-> Lease, view |-> 0]]])
    BY DEF I!attach
  <1>2. After(x, n) /\ Good(n) /\ n \in Outcomes
    BY ExpireKeeps DEF After
  <1>3. \A e \in Results : After(n, I!Err(n, e)) /\ I!Err(n, e).r = e
    BY <1>2, AsItIs
  <1>4. ASSUME NEW e \in {"Unauthorized", "Backend", "Limit", "Busy"}, o = I!Err(n, e)
        PROVE  After(x, o) /\ o.r # "ok"
    BY <1>2, <1>3, <1>4, AfterTransitive DEF Results
  <1>5. ASSUME n.r = "ok", ~n.d.poisoned, admit, n.d.next_id # MaxId,
               o = I!Ok([n EXCEPT !.d.next_id = @ + 1,
                       !.d.attachments = [i \in I!Attached(n) \cup {n.d.next_id + 1} |->
                           IF i \in I!Attached(n) THEN @[i]
                           ELSE [conn |-> c, mode |-> mode, lease |-> Lease, view |-> 0]]])
        PROVE  /\ Good(o) /\ o \in Outcomes /\ Fenced(x, o) /\ o.d.next_id \in I!Ids
               /\ o.d.backend_generation = x.d.backend_generation
    <2> DEFINE k == n.d.next_id + 1
               a == [conn |-> c, mode |-> mode, lease |-> Lease, view |-> 0]
               f == [i \in I!Attached(n) \cup {k} |->
                        IF i \in I!Attached(n) THEN n.d.attachments[i] ELSE a]
               z == [n.d EXCEPT !.next_id = k]
    <2>0. /\ n.d \in Broker /\ n.down \in SUBSET Press /\ I!Attached(n) \in SUBSET I!Ids
          /\ n.d.attachments \in [I!Attached(n) -> I!Attachment] /\ n.d.next_id \in 0..MaxId
      BY <1>2, Fields DEF Good, Sane
    <2>1. k \in I!Ids /\ k \in 0..MaxId /\ k \notin I!Attached(n) /\ a \in I!Attachment
      BY <1>2, <1>5, <2>0 DEF Good, Sane, I!Ids, I!ConstantsAssumption, I!Attachment
    <2>2. o = [d |-> [z EXCEPT !.attachments = f], down |-> n.down, r |-> "ok"]
      BY <1>2, <1>5, <2>0 DEF I!Ok, Outcomes, Broker
    <2>3. /\ z \in Broker /\ z.next_id = k /\ z.holder = n.d.holder /\ z.epoch = n.d.epoch
          /\ z.layout_epoch = n.d.layout_epoch /\ z.keys = n.d.keys /\ z.buttons = n.d.buttons
          /\ z.poisoned = n.d.poisoned /\ z.backend_generation = n.d.backend_generation
      BY <2>0, <2>1 DEF Broker
    <2>4. /\ f \in [I!Attached(n) \cup {k} -> I!Attachment] /\ DOMAIN f = I!Attached(n) \cup {k}
          /\ \A i \in I!Attached(n) : f[i] = n.d.attachments[i]
          /\ f[k] = a
      BY <2>0, <2>1
    <2>v. a.view = 0
      OBVIOUS
    <2> HIDE DEF k, a, f, z
    <2>s. I!Attached(n) \cup {k} \in SUBSET I!Ids
      BY <2>0, <2>1
    <2>5. f \in Books /\ a.view = 0
      BY <2>4, <2>s, <2>v DEF Books
    <2>6. o.d = [z EXCEPT !.attachments = f] /\ o.down = n.down
      BY <2>2
    <2>7. o.d \in Broker
      BY <2>3, <2>5, <2>6 DEF Broker
    <2>8. /\ o.d.attachments = f /\ o.d.next_id = k
          /\ o.d.holder = n.d.holder /\ o.d.epoch = n.d.epoch
          /\ o.d.layout_epoch = n.d.layout_epoch /\ o.d.keys = n.d.keys /\ o.d.buttons = n.d.buttons
          /\ o.d.poisoned = n.d.poisoned /\ o.d.backend_generation = n.d.backend_generation
      BY <2>3, <2>6 DEF Broker
    <2>9. o \in Outcomes
      BY <2>0, <2>2, <2>6, <2>7 DEF Outcomes, Results
    <2>10. I!Attached(o) = I!Attached(n) \cup {k}
      BY <2>4, <2>8 DEF I!Attached
    <2>11. I!Attached(o) \subseteq 1..o.d.next_id
      BY <1>2, <2>0, <2>8, <2>10 DEF Good, Sane, I!Ids, k
    <2>12. \A i \in I!Attached(o) : o.d.attachments[i].view \in {0, o.d.layout_epoch}
      BY <1>2, <2>4, <2>5, <2>8, <2>10 DEF Good, Sane
    <2>13. Sane(o)
      BY <1>2, <2>6, <2>8, <2>9, <2>10, <2>11, <2>12 DEF Good, Sane
    <2>14. Holding(o)
      BY <1>2, <2>6, <2>8, <2>10 DEF Good, Holding
    <2> QED  BY <1>2, <1>5, <2>1, <2>8, <2>9, <2>13, <2>14 DEF After, Good, Fenced
  <1>6. CASE o = n /\ n.r # "ok"
    BY <1>2, <1>6 DEF After
  <1>7. \/ o = n /\ n.r # "ok"
        \/ \E e \in {"Unauthorized", "Backend", "Limit", "Busy"} : o = I!Err(n, e)
        \/ /\ n.r = "ok" /\ ~n.d.poisoned /\ admit /\ n.d.next_id # MaxId
           /\ o = I!Ok([n EXCEPT !.d.next_id = @ + 1,
                       !.d.attachments = [i \in I!Attached(n) \cup {n.d.next_id + 1} |->
                           IF i \in I!Attached(n) THEN @[i]
                           ELSE [conn |-> c, mode |-> mode, lease |-> Lease, view |-> 0]]])
    BY <1>1
  <1> QED  BY <1>4, <1>5, <1>6, <1>7 DEF After

\* With an older layout its viewports go.
LEMMA LayoutKeeps ==
    ASSUME I!ConstantsAssumption, NEW x, Good(x)
    PROVE  After(x, I!layout_changed(x))
  <1>0. /\ x \in Pairs \cup Outcomes /\ x.d \in Broker /\ x.down \in SUBSET Press
        /\ I!Attached(x) \in SUBSET I!Ids /\ x.d.layout_epoch \in 1..MaxLayout
        /\ x.d.attachments \in [I!Attached(x) -> I!Attachment]
    BY Fields DEF Good, Sane
  <1>1. CASE x.d.layout_epoch = MaxLayout
    BY <1>1, AsItIs DEF I!layout_changed, Results
  <1>2. CASE x.d.layout_epoch # MaxLayout
    <2> DEFINE l == x.d.layout_epoch + 1
               f == [i \in I!Attached(x) |-> [x.d.attachments[i] EXCEPT !.view = 0]]
               z == [x.d EXCEPT !.layout_epoch = l]
               o == I!layout_changed(x)
    <2>1. o = [d |-> [z EXCEPT !.attachments = f], down |-> x.down, r |-> "ok"]
      BY <1>0, <1>2 DEF I!layout_changed, I!Ok, Pairs, Outcomes, Broker
    <2>2. l \in 1..MaxLayout
      BY <1>0, <1>2 DEF I!ConstantsAssumption
    <2>3. /\ z \in Broker /\ z.layout_epoch = l /\ z.holder = x.d.holder /\ z.epoch = x.d.epoch
          /\ z.next_id = x.d.next_id /\ z.keys = x.d.keys /\ z.buttons = x.d.buttons
          /\ z.poisoned = x.d.poisoned /\ z.backend_generation = x.d.backend_generation
      BY <1>0, <2>2 DEF Broker
    <2>4. 0 \in 0..MaxLayout
      BY DEF I!ConstantsAssumption
    <2>5. f \in [I!Attached(x) -> I!Attachment] /\ \A i \in I!Attached(x) : f[i].view = 0
      <3>1. ASSUME NEW b \in I!Attachment
            PROVE  [b EXCEPT !.view = 0] \in I!Attachment /\ [b EXCEPT !.view = 0].view = 0
        BY <2>4 DEF I!Attachment
      <3> QED  BY <1>0, <3>1
    <2>6. f \in Books /\ DOMAIN f = I!Attached(x)
      BY <1>0, <2>5 DEF Books
    <2> HIDE DEF l, f, z, o
    <2>7. o.d = [z EXCEPT !.attachments = f] /\ o.down = x.down
      BY <2>1
    <2>8. o.d \in Broker
      BY <2>3, <2>6, <2>7 DEF Broker
    <2>9. /\ o.d.attachments = f /\ o.d.next_id = x.d.next_id /\ o.d.holder = x.d.holder
          /\ o.d.epoch = x.d.epoch
          /\ o.d.layout_epoch = l /\ o.d.keys = x.d.keys /\ o.d.buttons = x.d.buttons
          /\ o.d.poisoned = x.d.poisoned /\ o.d.backend_generation = x.d.backend_generation
      BY <2>3, <2>7 DEF Broker
    <2>10. o \in Outcomes
      BY <1>0, <2>1, <2>7, <2>8 DEF Outcomes, Results
    <2>11. I!Attached(o) = I!Attached(x)
      BY <2>6, <2>9 DEF I!Attached
    <2>12. Sane(o)
      BY <2>5, <2>7, <2>9, <2>10, <2>11 DEF Good, Sane
    <2>13. Holding(o)
      BY <2>7, <2>9, <2>11 DEF Good, Holding
    <2> QED  BY <2>7, <2>9, <2>10, <2>11, <2>12, <2>13 DEF After, Good, Fenced, o
  <1> QED  BY <1>1, <1>2

\* A display change the broker applies releases control and drops the viewports.
LEMMA RelaidKeeps ==
    ASSUME I!ConstantsAssumption, NEW x, Good(x), NEW v \in Displays,
           layout_displays \in Displays \cup {I!NoDisplays}, NEW n \in I!Relaid(x, v)
    PROVE  After(x, n.o) /\ n.shown \in Displays \cup {I!NoDisplays}
  <1>1. CASE n = [o |-> I!Ok(x), shown |-> v]
    BY <1>1, AsItIs DEF Results
  <1>2. ASSUME NEW m \in IF x.d.holder # I!NoHolder THEN I!release_held(x) ELSE {I!Ok(x)}, NEW y,
               y = IF m.r = "ok" THEN I!layout_changed([d |-> m.d, down |-> m.down]) ELSE m,
               n = [o |-> y, shown |-> IF y.r = "ok" THEN v ELSE layout_displays]
        PROVE  After(x, n.o) /\ n.shown \in Displays \cup {I!NoDisplays}
    <2>1. After(x, m)
      <3>1. CASE x.d.holder # I!NoHolder
        <4>1. Good(m) /\ m \in Outcomes /\ Fenced(x, m)
          BY <1>2, <3>1, ReleaseHeld DEF Good, Fenced, I!Attached
        <4>2. I!Attached(m) = I!Attached(x) /\ m.d.backend_generation = x.d.backend_generation
          BY <1>2, <3>1, ReleaseHeld DEF Good, I!Attached
        <4> QED  BY <4>1, <4>2 DEF After
      <3>2. CASE x.d.holder = I!NoHolder
        BY <1>2, <3>2, AsItIs DEF Results
      <3> QED  BY <3>1, <3>2
    <2>2. Good(m)
      BY <2>1 DEF After
    <2>3. After(m, I!layout_changed([d |-> m.d, down |-> m.down]))
      BY <2>2, PairOf, LayoutKeeps
    <2>4. After(x, y)
      BY <1>2, <2>1, <2>3, AfterTransitive
    <2> QED  BY <1>2, <2>4
  <1> QED  BY <1>1, <1>2 DEF I!Relaid

\* Feedback changes nothing of the broker.
LEMMA FeedbackKeeps ==
    ASSUME I!ConstantsAssumption, NEW x, Good(x), NEW cred, NEW c, NEW f,
           NEW o \in I!feedback(x, cred, c, f)
    PROVE  After(x, o)
  <1>1. PICK n \in I!authorize(x, cred, c, f.id) : o = n \/ o = I!Err(n, "Stale")
    BY DEF I!feedback
  <1>2. After(x, n) /\ Good(n)
    BY AuthorizeKeeps DEF After
  <1> QED  BY <1>1, <1>2, AsItIs, AfterTransitive DEF Results

\* Booking an event changes which keys and buttons are in the books, nothing else.
LEMMA BookedFields ==
    ASSUME NEW b \in Broker, NEW w \in SUBSET Press, NEW ev \in I!Events
    PROVE  LET y == I!Booked([d |-> b, down |-> w], ev) IN
           /\ y \in Pairs /\ y.down = w
           /\ y.d.attachments = b.attachments /\ y.d.holder = b.holder /\ y.d.epoch = b.epoch
           /\ y.d.next_id = b.next_id /\ y.d.layout_epoch = b.layout_epoch
           /\ y.d.poisoned = b.poisoned /\ y.d.backend_generation = b.backend_generation
           /\ ev.kind \in {"key", "button"} /\ ev.down =>
                 b.keys \cup b.buttons \cup {ev.what} \subseteq y.d.keys \cup y.d.buttons
           /\ ev.kind \in {"key", "button"} /\ ~ev.down =>
                 (b.keys \cup b.buttons) \ {ev.what} \subseteq y.d.keys \cup y.d.buttons
           /\ ev.kind \notin {"key", "button", "releaseAll"} =>
                 y.d.keys \cup y.d.buttons = b.keys \cup b.buttons
  <1> DEFINE x == [d |-> b, down |-> w]
             y == I!Booked(x, ev)
  <1>0. x \in Pairs /\ x.d = b /\ x.down = w
    BY DEF Pairs
  <1>2. \E K \in SUBSET Keys, B \in SUBSET Buttons :
          /\ y = [d |-> [[b EXCEPT !.keys = K] EXCEPT !.buttons = B], down |-> w]
          /\ ev.kind \in {"key", "button"} /\ ev.down =>
                b.keys \cup b.buttons \cup {ev.what} \subseteq K \cup B
          /\ ev.kind \in {"key", "button"} /\ ~ev.down =>
                (b.keys \cup b.buttons) \ {ev.what} \subseteq K \cup B
          /\ ev.kind \notin {"key", "button", "releaseAll"} => K \cup B = b.keys \cup b.buttons
    <2>0. /\ b.keys \in SUBSET Keys /\ b.buttons \in SUBSET Buttons
          /\ b = [[b EXCEPT !.keys = b.keys] EXCEPT !.buttons = b.buttons]
          /\ \A K : [b EXCEPT !.keys = K] = [[b EXCEPT !.keys = K] EXCEPT !.buttons = b.buttons]
          /\ \A B : [b EXCEPT !.buttons = B] = [[b EXCEPT !.keys = b.keys] EXCEPT !.buttons = B]
      BY DEF Broker
    <2>k. ev.kind = "key" => ev.what \in Keys
      BY DEF I!Events
    <2>b. ev.kind = "button" => ev.what \in Buttons
      BY DEF I!Events
    <2>1. CASE ev.kind = "key" /\ ev.down
      <3>1. y = [d |-> [b EXCEPT !.keys = b.keys \cup {ev.what}], down |-> w]
        BY <2>1 DEF I!Booked
      <3> DEFINE K == b.keys \cup {ev.what}
      <3> HIDE DEF y
      <3>2. K \in SUBSET Keys
        BY <2>0, <2>1, <2>k
      <3>3. y = [d |-> [[b EXCEPT !.keys = K] EXCEPT !.buttons = b.buttons], down |-> w]
        BY <2>0, <3>1
      <3>4. b.keys \cup b.buttons \cup {ev.what} \subseteq K \cup b.buttons
        OBVIOUS
      <3> HIDE DEF K
      <3> QED  BY <2>0, <2>1, <3>2, <3>3, <3>4
    <2>2. CASE ev.kind = "key" /\ ~ev.down
      <3>1. y = [d |-> [b EXCEPT !.keys = b.keys \ {ev.what}], down |-> w]
        BY <2>2 DEF I!Booked
      <3> DEFINE K == b.keys \ {ev.what}
      <3> HIDE DEF y
      <3>2. K \in SUBSET Keys
        BY <2>0, <2>2, <2>k
      <3>3. y = [d |-> [[b EXCEPT !.keys = K] EXCEPT !.buttons = b.buttons], down |-> w]
        BY <2>0, <3>1
      <3>4. (b.keys \cup b.buttons) \ {ev.what} \subseteq K \cup b.buttons
        OBVIOUS
      <3> HIDE DEF K
      <3> QED  BY <2>0, <2>2, <3>2, <3>3, <3>4
    <2>3. CASE ev.kind = "button" /\ ev.down
      <3>1. y = [d |-> [b EXCEPT !.buttons = b.buttons \cup {ev.what}], down |-> w]
        BY <2>3 DEF I!Booked
      <3> DEFINE B == b.buttons \cup {ev.what}
      <3> HIDE DEF y
      <3>2. B \in SUBSET Buttons
        BY <2>0, <2>3, <2>b
      <3>3. y = [d |-> [[b EXCEPT !.keys = b.keys] EXCEPT !.buttons = B], down |-> w]
        BY <2>0, <3>1
      <3>4. b.keys \cup b.buttons \cup {ev.what} \subseteq b.keys \cup B
        OBVIOUS
      <3> HIDE DEF B
      <3> QED  BY <2>0, <2>3, <3>2, <3>3, <3>4
    <2>4. CASE ev.kind = "button" /\ ~ev.down
      <3>1. y = [d |-> [b EXCEPT !.buttons = b.buttons \ {ev.what}], down |-> w]
        BY <2>4 DEF I!Booked
      <3> DEFINE B == b.buttons \ {ev.what}
      <3> HIDE DEF y
      <3>2. B \in SUBSET Buttons
        BY <2>0, <2>4, <2>b
      <3>3. y = [d |-> [[b EXCEPT !.keys = b.keys] EXCEPT !.buttons = B], down |-> w]
        BY <2>0, <3>1
      <3>4. (b.keys \cup b.buttons) \ {ev.what} \subseteq b.keys \cup B
        OBVIOUS
      <3> HIDE DEF B
      <3> QED  BY <2>0, <2>4, <3>2, <3>3, <3>4
    <2>5. CASE ev.kind = "releaseAll"
      <3>1. y = [d |-> [[b EXCEPT !.keys = {}] EXCEPT !.buttons = {}], down |-> w]
        BY <2>5 DEF I!Booked
      <3> QED  BY <2>5, <3>1
    <2>6. CASE ev.kind \notin {"key", "button", "releaseAll"}
      <3>1. y = [d |-> b, down |-> w]
        BY <2>6 DEF I!Booked
      <3> QED  BY <2>0, <2>6, <3>1
    <2> QED  BY <2>1, <2>2, <2>3, <2>4, <2>5, <2>6
  <1> HIDE DEF y
  <1>3. PICK K \in SUBSET Keys, B \in SUBSET Buttons :
          /\ y = [d |-> [[b EXCEPT !.keys = K] EXCEPT !.buttons = B], down |-> w]
          /\ ev.kind \in {"key", "button"} /\ ev.down =>
                b.keys \cup b.buttons \cup {ev.what} \subseteq K \cup B
          /\ ev.kind \in {"key", "button"} /\ ~ev.down =>
                (b.keys \cup b.buttons) \ {ev.what} \subseteq K \cup B
          /\ ev.kind \notin {"key", "button", "releaseAll"} => K \cup B = b.keys \cup b.buttons
    BY <1>2
  <1>4. /\ y \in Pairs /\ y.down = w /\ y.d.keys = K /\ y.d.buttons = B
        /\ y.d.attachments = b.attachments /\ y.d.holder = b.holder /\ y.d.epoch = b.epoch
        /\ y.d.next_id = b.next_id /\ y.d.layout_epoch = b.layout_epoch
        /\ y.d.poisoned = b.poisoned /\ y.d.backend_generation = b.backend_generation
    <2> DEFINE e == [b EXCEPT !.keys = K]
    <2>1. e \in Broker /\ e.keys = K
          /\ e.attachments = b.attachments /\ e.holder = b.holder /\ e.epoch = b.epoch
          /\ e.next_id = b.next_id /\ e.layout_epoch = b.layout_epoch
          /\ e.poisoned = b.poisoned /\ e.backend_generation = b.backend_generation
      BY DEF Broker
    <2> HIDE DEF e
    <2>2. y = [d |-> [e EXCEPT !.buttons = B], down |-> w]
      BY <1>3 DEF e
    <2>3. y.d = [e EXCEPT !.buttons = B] /\ y.down = w /\ y = [d |-> y.d, down |-> y.down]
      BY <2>2
    <2>4. y.d \in Broker
      BY <2>1, <2>3 DEF Broker
    <2>5. /\ y.d.keys = K /\ y.d.buttons = B
          /\ y.d.attachments = b.attachments /\ y.d.holder = b.holder /\ y.d.epoch = b.epoch
          /\ y.d.next_id = b.next_id /\ y.d.layout_epoch = b.layout_epoch
          /\ y.d.poisoned = b.poisoned /\ y.d.backend_generation = b.backend_generation
      BY <2>1, <2>3 DEF Broker
    <2>6. y \in Pairs
      BY <2>3, <2>4 DEF Pairs
    <2> QED  BY <2>3, <2>5, <2>6
  <1> QED  BY <1>3, <1>4 DEF y

\* What the OS holds after an event is what it held and the event's own press.
LEMMA InjectedIs ==
    ASSUME I!ConstantsAssumption, NEW w \in SUBSET Press, NEW ev \in I!Events, NEW id \in I!Ids,
           NEW e \in 1..MaxEpoch
    PROVE  /\ I!Injected(w, ev, id, e) \in SUBSET Press
           /\ \A p \in I!Injected(w, ev, id, e) :
                 \/ p \in w /\ (ev.kind \in {"key", "button"} => p.what # ev.what)
                    /\ ev.kind # "releaseAll"
                 \/ /\ p.what = ev.what /\ p.by = id /\ p.epoch = e
                    /\ ev.kind \in {"key", "button"} /\ ev.down
  <1>1. ev.kind \in {"key", "button"} => ev.what \in Keys \cup Buttons
    BY DEF I!Events
  <1>2. CASE ev.kind \in {"key", "button"} /\ ev.down
    <2> DEFINE n == [what |-> ev.what, by |-> id, epoch |-> e]
    <2>1. I!Injected(w, ev, id, e) = {p \in w : p.what # ev.what} \cup {n}
      BY <1>2 DEF I!Injected
    <2>2. n \in Press /\ n.what = ev.what /\ n.by = id /\ n.epoch = e
      BY <1>1, <1>2 DEF Press
    <2> HIDE DEF n
    <2> QED  BY <1>2, <2>1, <2>2
  <1>3. CASE ev.kind \in {"key", "button"} /\ ~ev.down
    BY <1>3 DEF I!Injected
  <1>4. CASE ev.kind = "releaseAll"
    BY <1>4 DEF I!Injected
  <1>5. CASE ev.kind \notin {"key", "button", "releaseAll"}
    BY <1>5 DEF I!Injected
  <1> QED  BY <1>2, <1>3, <1>4, <1>5

\* send_viewport: the press is booked and the holder's, or control is gone.
LEMMA SentKeeps ==
    ASSUME I!ConstantsAssumption, NEW x, Good(x), ~x.d.poisoned,
           NEW ev \in I!Events, NEW id \in I!Ids,
           x.d.holder = id, id \in I!Attached(x),
           NEW o \in I!Sent(I!Booked([d |-> x.d, down |-> x.down], ev), ev, id, x.d.epoch)
    PROVE  After(x, o)
  <1> DEFINE y == I!Booked([d |-> x.d, down |-> x.down], ev)
             v == I!Injected(x.down, ev, id, x.d.epoch)
  <1>0. /\ x.d \in Broker /\ x.down \in SUBSET Press /\ x.d.epoch \in 1..MaxEpoch
    BY Fields DEF Good, Sane
  <1>1. /\ y \in Pairs /\ y.down = x.down
        /\ y.d.attachments = x.d.attachments /\ y.d.holder = x.d.holder /\ y.d.epoch = x.d.epoch
        /\ y.d.next_id = x.d.next_id /\ y.d.layout_epoch = x.d.layout_epoch
        /\ y.d.poisoned = x.d.poisoned /\ y.d.backend_generation = x.d.backend_generation
        /\ ev.kind \in {"key", "button"} /\ ev.down =>
              x.d.keys \cup x.d.buttons \cup {ev.what} \subseteq y.d.keys \cup y.d.buttons
        /\ ev.kind \in {"key", "button"} /\ ~ev.down =>
              (x.d.keys \cup x.d.buttons) \ {ev.what} \subseteq y.d.keys \cup y.d.buttons
        /\ ev.kind \notin {"key", "button", "releaseAll"} =>
              y.d.keys \cup y.d.buttons = x.d.keys \cup x.d.buttons
    BY <1>0, BookedFields
  <1>2. /\ v \in SUBSET Press
        /\ \A p \in v :
              \/ p \in x.down /\ (ev.kind \in {"key", "button"} => p.what # ev.what)
                 /\ ev.kind # "releaseAll"
              \/ /\ p.what = ev.what /\ p.by = id /\ p.epoch = x.d.epoch
                 /\ ev.kind \in {"key", "button"} /\ ev.down
    BY <1>0, InjectedIs
  <1>3. \/ o = [d |-> y.d, down |-> v, r |-> "ok"]
        \/ \E held \in {x.down, v} :
               \E n \in I!release([d |-> y.d, down |-> held]) : o = I!Err(n, "Backend")
    BY <1>1 DEF I!Sent
  <1> HIDE DEF y, v
  <1>4. y.d \in Broker
    BY <1>1 DEF Pairs
  <1>5. CASE o = [d |-> y.d, down |-> v, r |-> "ok"]
    <2>1. o.d = y.d /\ o.down = v /\ o \in Outcomes
      BY <1>2, <1>4, <1>5 DEF Outcomes, Results
    <2>2. I!Attached(o) = I!Attached(x)
      BY <1>1, <2>1 DEF I!Attached
    <2>3. Sane(o)
      BY <1>1, <2>1, <2>2 DEF Good, Sane
    <2>4. Holding(o)
      <3> SUFFICES ASSUME NEW p \in v
                   PROVE  /\ p.by = x.d.holder /\ p.epoch = x.d.epoch
                          /\ p.by \in I!Attached(x) /\ p.what \in y.d.keys \cup y.d.buttons
        BY <1>1, <2>1, <2>2 DEF Holding
      <3>1. CASE p \in x.down /\ (ev.kind \in {"key", "button"} => p.what # ev.what)
                 /\ ev.kind # "releaseAll"
        <4>1. /\ p.by = x.d.holder /\ p.epoch = x.d.epoch
              /\ p.by \in I!Attached(x) /\ p.what \in x.d.keys \cup x.d.buttons
          BY <3>1 DEF Good, Holding
        <4> QED  BY <1>1, <3>1, <4>1
      <3>2. CASE /\ p.what = ev.what /\ p.by = id /\ p.epoch = x.d.epoch
                 /\ ev.kind \in {"key", "button"} /\ ev.down
        BY <1>1, <3>2
      <3> QED  BY <1>2, <3>1, <3>2
    <2> QED  BY <1>1, <2>1, <2>2, <2>3, <2>4 DEF After, Good, Fenced
  <1>6. ASSUME NEW held \in {x.down, v}, NEW n \in I!release([d |-> y.d, down |-> held]),
               o = I!Err(n, "Backend")
        PROVE  After(x, o)
    <2> DEFINE z == [d |-> y.d, down |-> held]
    <2>1. z \in Pairs /\ z.d = y.d
      BY <1>0, <1>2, <1>4, <1>6 DEF Pairs
    <2> HIDE DEF z
    <2>2. I!Attached(z) = I!Attached(x)
      BY <1>1, <2>1 DEF I!Attached
    <2>3. Sane(z)
      BY <1>1, <2>1, <2>2 DEF Good, Sane
    <2>4. After(z, n) /\ Good(n)
      BY <1>6, <2>3, Release DEF z, After
    <2>5. After(n, o)
      BY <1>6, <2>4, AsItIs DEF Results
    <2> QED  BY <1>1, <2>1, <2>2, <2>4, <2>5 DEF After, Fenced
  <1> QED  BY <1>3, <1>5, <1>6

\* An accepted input event, booked and sent.
LEMMA InputKeeps ==
    ASSUME I!ConstantsAssumption, NEW x, Good(x), NEW cred, NEW c, NEW f, f.id \in I!Ids,
           f.ev \in I!Events, NEW o \in I!input(x, cred, c, f)
    PROVE  After(x, o)
  <1>1. PICK n \in I!authorize(x, cred, c, f.id) :
           \/ o = n
           \/ \E e \in {"Stale", "Invalid", "Unsupported"} :
                 o = I!Err(n, e) \/ o = I!Err([d |-> n.d, down |-> n.down], e)
           \/ /\ n.r = "ok" /\ n.d.holder = f.id /\ f.epoch = n.d.epoch
              /\ o \in I!Sent(I!Booked([d |-> n.d, down |-> n.down], f.ev), f.ev, f.id, f.epoch)
    BY DEF I!input
  <1>2. /\ After(x, n) /\ Good(n)
        /\ n.r = "ok" => f.id \in I!Attached(n) /\ ~n.d.poisoned
    BY AuthorizeKeeps DEF After
  <1>3. ASSUME NEW e \in {"Stale", "Invalid", "Unsupported"}
        PROVE  After(n, I!Err(n, e)) /\ After(n, I!Err([d |-> n.d, down |-> n.down], e))
    <2>1. e \in Results
      BY DEF Results
    <2> QED  BY <1>2, <2>1, AsItIs, PairOf
  <1>4. CASE /\ n.r = "ok" /\ n.d.holder = f.id /\ f.epoch = n.d.epoch
             /\ o \in I!Sent(I!Booked([d |-> n.d, down |-> n.down], f.ev), f.ev, f.id, f.epoch)
    <2>1. After(n, o)
      BY <1>2, <1>4, SentKeeps
    <2> QED  BY <1>2, <2>1, AfterTransitive
  <1> QED  BY <1>1, <1>2, <1>3, <1>4, AfterTransitive

-----------------------------------------------------------------------------
(* The actions                                                              *)

Auths == [conn : Connections, valid : SUBSET Clients]
Guard == [id : I!Ids, conn : Connections, epoch : 1..MaxEpoch]
Others ==
    /\ generation \in 0..MaxGeneration /\ d.backend_generation \in 0..generation
    /\ displays \in Displays /\ layout_displays \in Displays \cup {I!NoDisplays}
    /\ seen \subseteq Displays /\ streams \subseteq I!Ids /\ viewers \subseteq I!Ids
    /\ open \subseteq Connections /\ guards \subseteq Guard
    /\ valid \subseteq Clients /\ gate \in BOOLEAN /\ auth \in {I!NoAuth} \cup Auths

\* The inductive invariant: a good broker, and nobody attached while an update has the gate.
InputInvariant == Good(I!X) /\ Others /\ (~gate => I!Attached(I!X) = {})

\* What PoisonFences asks of one step.
Fence == d.poisoned /\ d'.poisoned =>
    /\ d'.holder \in {d.holder, I!NoHolder} /\ down' \subseteq down
    /\ DOMAIN d.attachments \subseteq DOMAIN d'.attachments

\* What a step does to the broker.
Moves(o) ==
    /\ Good(o) /\ Fenced(I!X, o) /\ o.d.backend_generation = d.backend_generation
    /\ ~gate => I!Attached(o) \subseteq I!Attached(I!X)
    /\ I!Becomes(o)
Sound == Good(I!X)' /\ Fence /\ (~gate => I!Attached(I!X)' = {})

\* An operation that becomes the state is such a step, ...
LEMMA AfterMoves ==
    ASSUME NEW o, After(I!X, o), I!Becomes(o)
    PROVE  Moves(o)
  BY DEF After, Moves, I!X

\* ... which keeps the invariant's part of the broker; ...
LEMMA MovesSoundly ==
    ASSUME InputInvariant, NEW o, Moves(o)
    PROVE  Sound /\ d'.backend_generation = d.backend_generation
  <1>1. I!X' = [d |-> o.d, down |-> o.down] /\ d' = o.d /\ down' = o.down
    BY DEF Moves, I!Becomes, I!X
  <1>2. Good(I!X)'
    BY <1>1, PairOf DEF Moves, Good, Sane, Holding, I!Attached
  <1>3. Fence
    BY <1>1 DEF Moves, Fenced, Fence, I!X, I!Attached
  <1>4. ~gate => I!Attached(I!X)' = {}
    BY <1>1 DEF Moves, InputInvariant, I!Attached, I!X
  <1> QED  BY <1>1, <1>2, <1>3, <1>4 DEF Moves, Sound

\* ... and so does a step that leaves the broker alone.
LEMMA StaysSoundly ==
    ASSUME InputInvariant, d' = d, down' = down
    PROVE  Sound /\ d'.backend_generation = d.backend_generation
  <1>1. I!X' = I!X
    BY DEF I!X
  <1> QED  BY <1>1 DEF Sound, Fence, InputInvariant, Good, Sane, Holding, I!Attached

\* Runtime::mutate applies the result of its operation, or fails as it is.
LEMMA MutateKeeps ==
    ASSUME Good(I!X), NEW S, \A o \in S : After(I!X, o), NEW o \in I!mutate(S)
    PROVE  After(I!X, o)
  BY AsItIs DEF I!mutate, Results

\* Every operation a handler names keeps After.
LEMMA OperationsKeep ==
    ASSUME I!ConstantsAssumption, Good(I!X), NEW cred, NEW c, NEW id \in I!Ids
    PROVE  /\ \A o \in I!expire(I!X, cred) : After(I!X, o)
           /\ \A o \in I!disconnect(I!X, c) : After(I!X, o)
           /\ \A o \in I!remove(I!X, id) : After(I!X, o)
           /\ \A o \in I!authorize(I!X, cred, c, id) : After(I!X, o)
           /\ \A o \in I!renew(I!X, cred, c, id) : After(I!X, o)
           /\ \A o \in I!detach(I!X, cred, c, id) : After(I!X, o)
           /\ \A l : \A o \in I!configure(I!X, cred, c, id, l) : After(I!X, o)
           /\ \A a : \A o \in I!set_control(I!X, cred, c, id, a) : After(I!X, o)
  BY ExpireKeeps, RemoveKeeps, AuthorizeKeeps, RenewKeeps, DetachKeeps, ConfigureKeeps,
     SetControlKeeps

\* The handlers of control, leases, viewports and detaching.
LEMMA HandlersKeep ==
    ASSUME I!ConstantsAssumption, InputInvariant, NEW id \in I!Ids,
           \/ \E action \in {"Acquire", "Takeover", "Release"} : I!SetDesktopControl(id, action)
           \/ I!RenewDesktopLease(id) \/ I!DetachDesktop(id)
           \/ \E l \in {d.layout_epoch, d.layout_epoch - 1} : I!ConfigureDesktopViewports(id, l)
    PROVE  InputInvariant' /\ Fence
  <1>1. PICK S : (\A o \in S : After(I!X, o)) /\ I!HandlerStep(S)
                  /\ UNCHANGED <<layout_displays, seen, streams, guards, viewers>>
    BY OperationsKeep DEF InputInvariant, I!SetDesktopControl, I!RenewDesktopLease, I!DetachDesktop,
                          I!ConfigureDesktopViewports
  <1>2. PICK o \in I!mutate(S) : I!Becomes(o)
    BY <1>1 DEF I!HandlerStep
  <1>3. Sound /\ d'.backend_generation = d.backend_generation
    BY <1>1, <1>2, MutateKeeps, AfterMoves, MovesSoundly DEF InputInvariant
  <1>4. Others'
    BY <1>1, <1>3 DEF InputInvariant, Others, I!HandlerStep
  <1> QED  BY <1>1, <1>3, <1>4 DEF InputInvariant, Sound, I!HandlerStep

\* begin_input opens a guard on the control period it found.
LEMMA BeginInputKeeps ==
    ASSUME I!ConstantsAssumption, InputInvariant, NEW id \in I!Ids, I!begin_input(id)
    PROVE  InputInvariant' /\ Fence
  <1>1. PICK o \in I!mutate(I!authorize(I!X, auth.valid, auth.conn, id)) :
           /\ I!Becomes(o)
           /\ \/ UNCHANGED <<streams, guards>>
              \/ /\ streams' = streams \cup {id}
                 /\ guards' = guards \cup {[id |-> id, conn |-> auth.conn, epoch |-> o.d.epoch]}
    BY DEF I!begin_input
  <1>2. After(I!X, o)
    BY <1>1, OperationsKeep, MutateKeeps DEF InputInvariant
  <1>3. Sound /\ d'.backend_generation = d.backend_generation
    BY <1>1, <1>2, AfterMoves, MovesSoundly
  <1>4. o.d.epoch \in 1..MaxEpoch
    BY <1>2, Fields DEF After
  <1>5. auth.conn \in Connections
    BY DEF I!begin_input, InputInvariant, Others, Auths
  <1>6. [id |-> id, conn |-> auth.conn, epoch |-> o.d.epoch] \in Guard
    BY <1>4, <1>5 DEF Guard
  <1>7. streams' \subseteq I!Ids /\ guards' \subseteq Guard
    BY <1>1, <1>6 DEF InputInvariant, Others
  <1>8. Others'
    BY <1>3, <1>7 DEF InputInvariant, Others, I!begin_input
  <1> QED  BY <1>3, <1>8 DEF InputInvariant, Sound, I!begin_input

\* The attach handler, whose attach is refused or makes an attachment.
LEMMA AttachDesktopKeeps ==
    ASSUME I!ConstantsAssumption, InputInvariant, NEW mode \in Modes, I!AttachDesktop(mode)
    PROVE  InputInvariant' /\ Fence
  <1>0. auth.conn \in Connections /\ auth' = I!NoAuth
    BY DEF I!AttachDesktop, InputInvariant, Others, Auths
  <1>1. CASE UNCHANGED <<d, down, layout_displays, viewers>>
    <2>1. Sound /\ d'.backend_generation = d.backend_generation
      BY <1>1, StaysSoundly
    <2>2. Others'
      BY <1>0, <1>1 DEF InputInvariant, Others, I!AttachDesktop
    <2> QED  BY <2>1, <2>2 DEF InputInvariant, Sound, I!AttachDesktop
  <1>2. ASSUME NEW n \in I!Relaid(I!X, displays), layout_displays' = n.shown,
               \/ I!Becomes(n.o) /\ UNCHANGED viewers
               \/ \E o \in I!attach([d |-> n.o.d, down |-> n.o.down],
                                    auth.valid, auth.conn, mode, gate) :
                    /\ I!Becomes(o)
                    /\ viewers' = IF o.r = "ok" THEN viewers \cup {o.d.next_id} ELSE viewers
        PROVE  InputInvariant' /\ Fence
    <2>1. After(I!X, n.o) /\ n.shown \in Displays \cup {I!NoDisplays} /\ Good(n.o)
      BY <1>2, RelaidKeeps DEF InputInvariant, Others, After
    <2>2. \E o : Moves(o) /\ (viewers' \subseteq I!Ids)
      <3>1. CASE I!Becomes(n.o) /\ UNCHANGED viewers
        BY <2>1, <3>1, AfterMoves DEF InputInvariant, Others
      <3>2. ASSUME NEW o \in I!attach([d |-> n.o.d, down |-> n.o.down],
                                      auth.valid, auth.conn, mode, gate),
                   I!Becomes(o),
                   viewers' = IF o.r = "ok" THEN viewers \cup {o.d.next_id} ELSE viewers
            PROVE  \E p : Moves(p) /\ (viewers' \subseteq I!Ids)
        <4> DEFINE y == [d |-> n.o.d, down |-> n.o.down]
        <4>1. Good(y) /\ y.d = n.o.d /\ y.down = n.o.down
          BY <2>1, PairOf
        <4> HIDE DEF y
        <4>2. /\ Good(o) /\ Fenced(y, o) /\ o.d.backend_generation = y.d.backend_generation
              /\ ~gate => I!Attached(o) \subseteq I!Attached(y)
              /\ o.r = "ok" => o.d.next_id \in I!Ids
          BY <1>0, <3>2, <4>1, AttachKeeps DEF InputInvariant, Others, y
        <4>3. Fenced(I!X, o) /\ o.d.backend_generation = d.backend_generation
              /\ (~gate => I!Attached(o) \subseteq I!Attached(I!X))
          BY <2>1, <4>1, <4>2 DEF After, Fenced, I!Attached, I!X
        <4>4. Moves(o)
          BY <3>2, <4>2, <4>3 DEF Moves
        <4>5. viewers' \subseteq I!Ids
          BY <3>2, <4>2 DEF InputInvariant, Others
        <4> QED  BY <4>4, <4>5
      <3> QED  BY <1>2, <3>1, <3>2
    <2>3. Sound /\ d'.backend_generation = d.backend_generation
      BY <2>2, MovesSoundly
    <2>4. Others'
      BY <1>0, <1>2, <2>1, <2>2, <2>3 DEF InputInvariant, Others, I!AttachDesktop
    <2> QED  BY <2>3, <2>4 DEF InputInvariant, Sound, I!AttachDesktop
  <1> QED  BY <1>1, <1>2 DEF I!AttachDesktop

\* A frame that is not accepted ends its stream, and with it the control it began in.
LEMMA FrameKeeps ==
    ASSUME I!ConstantsAssumption, InputInvariant, NEW g \in guards, NEW S,
           \A o \in S : After(I!X, o), I!Frame(g, S)
    PROVE  InputInvariant' /\ Fence
  <1>1. PICK o \in I!mutate(S) :
           \/ I!Becomes(o) /\ UNCHANGED <<guards, streams>>
           \/ /\ \E n \in I!Dropped(g, o) : I!Becomes(n)
              /\ guards' = guards \ {g} /\ streams' = streams \ {g.id}
    BY DEF I!Frame
  <1>2. After(I!X, o) /\ Good(o)
    BY <1>1, MutateKeeps DEF InputInvariant, After
  <1>3. \A n \in I!Dropped(g, o) : After(I!X, n)
    BY <1>2, ReleasePair, AfterTransitive DEF I!Dropped
  <1>4. Sound /\ d'.backend_generation = d.backend_generation
    BY <1>1, <1>2, <1>3, AfterMoves, MovesSoundly
  <1>5. Others'
    BY <1>1, <1>4 DEF InputInvariant, Others, I!Frame
  <1> QED  BY <1>4, <1>5 DEF InputInvariant, Sound, I!Frame

\* Input and feedback frames.
LEMMA WritesKeep ==
    ASSUME I!ConstantsAssumption, InputInvariant, NEW g \in guards,
           \/ \E f \in I!Frames(g, I!Events) : I!WriteDesktopInput(g, f)
           \/ \E f \in I!Frames(g, {I!FeedbackEvent}) : I!WriteFeedback(g, f)
    PROVE  InputInvariant' /\ Fence
  <1>0. g.id \in I!Ids
    BY DEF InputInvariant, Others, Guard
  <1>1. ASSUME NEW f \in I!Frames(g, I!Events), I!WriteDesktopInput(g, f)
        PROVE  InputInvariant' /\ Fence
    <2>1. f.id = g.id /\ f.ev \in I!Events
      BY <1>1 DEF I!Frames
    <2>2. \A o \in I!input(I!X, auth.valid, auth.conn, f) : After(I!X, o)
      BY <1>0, <2>1, InputKeeps DEF InputInvariant
    <2> QED  BY <1>1, <2>2, FrameKeeps DEF I!WriteDesktopInput
  <1>2. ASSUME NEW f \in I!Frames(g, {I!FeedbackEvent}), I!WriteFeedback(g, f)
        PROVE  InputInvariant' /\ Fence
    <2>1. \A o \in I!feedback(I!X, auth.valid, auth.conn, f) : After(I!X, o)
      BY FeedbackKeeps DEF InputInvariant
    <2> QED  BY <1>2, <2>1, FrameKeeps DEF I!WriteFeedback
  <1> QED  BY <1>1, <1>2

\* A lost helper's recovery releases what it left; then nothing old remains.
LEMMA ReconcileKeeps ==
    ASSUME I!ConstantsAssumption, InputInvariant, I!ReconcileOk \/ I!ReconcileExhausted
    PROVE  /\ Sound /\ d'.backend_generation \in 0..generation
           /\ I!ReconcileOk => /\ layout_displays' \in Displays \cup {I!NoDisplays}
                             /\ streams' \subseteq I!Ids
  <1>0. /\ d \in Broker /\ I!X \in Pairs /\ I!X.d = d /\ I!X.down = down
        /\ d.epoch \in 1..MaxEpoch /\ d.layout_epoch \in 1..MaxLayout
        /\ generation \in 0..MaxGeneration
    <2>1. I!X.d = d /\ I!X.down = down
      BY DEF I!X
    <2>2. I!X \in Pairs \cup Outcomes
      BY DEF InputInvariant, Good, Sane
    <2>3. /\ d \in Broker /\ down \in SUBSET Press
          /\ d.epoch \in 1..MaxEpoch /\ d.layout_epoch \in 1..MaxLayout
      BY <2>1, <2>2, Fields
    <2> QED  BY <2>1, <2>3 DEF I!X, Pairs, InputInvariant, Others
  <1>1. CASE ~I!Lost /\ I!ReconcileOk
    BY <1>1, StaysSoundly DEF I!ReconcileOk, InputInvariant, Others
  <1>2. CASE I!Lost /\ I!ReconcileOk
    <2> DEFINE e == d.epoch + 1
               l == d.layout_epoch + 1
               none == [i \in {} |-> 0]
    <2>1. /\ e \in 1..MaxEpoch /\ l \in 1..MaxLayout
      BY <1>0, <1>2 DEF I!ReconcileOk, I!ConstantsAssumption
    <2>2. none \in Books /\ DOMAIN none = {}
      <3>1. {} \in SUBSET I!Ids /\ none \in [{} -> I!Attachment]
        OBVIOUS
      <3> QED  BY <3>1 DEF Books
    <2>3. d' = [attachments |-> none, holder |-> I!NoHolder, epoch |-> e, next_id |-> d.next_id,
                layout_epoch |-> l, keys |-> {}, buttons |-> {}, poisoned |-> FALSE,
                backend_generation |-> generation]
      BY <1>0, <1>2 DEF I!ReconcileOk, Broker
    <2>4. down' = {} /\ layout_displays' = I!NoDisplays /\ streams' = {}
      BY <1>2 DEF I!ReconcileOk
    <2> HIDE DEF e, l, none
    <2>5. /\ d'.attachments = none /\ d'.holder = I!NoHolder /\ d'.next_id = d.next_id
          /\ d'.layout_epoch = l /\ d'.poisoned = FALSE /\ d'.backend_generation = generation
      BY <2>3
    <2>6. d.next_id \in 0..MaxId
      BY <1>0 DEF Broker
    <2>7. d' \in Broker
      BY <1>0, <2>1, <2>2, <2>3, <2>6 DEF Broker
    <2>8. I!X' \in Pairs /\ I!X'.d = d' /\ I!X'.down = {} /\ I!Attached(I!X)' = {}
      BY <2>2, <2>4, <2>5, <2>7 DEF I!X, Pairs, I!Attached
    <2>9. Good(I!X)'
      BY <2>5, <2>8 DEF Good, Sane, Holding, I!Attached
    <2> QED  BY <1>0, <2>4, <2>5, <2>8, <2>9 DEF Sound, Fence
  <1>3. CASE I!ReconcileExhausted
    <2>1. down' = {}
      BY <1>3 DEF I!ReconcileExhausted
    <2>2. CASE d' = d
      <3>1. Good(I!X)' /\ I!Attached(I!X)' = I!Attached(I!X)
        <4>1. I!X' = [d |-> d, down |-> {}] /\ I!X'.d = d /\ I!X'.down = {}
          BY <2>1, <2>2 DEF I!X
        <4>2. I!X' \in Pairs
          BY <1>0, <4>1 DEF Pairs
        <4> QED  BY <1>0, <4>1, <4>2 DEF InputInvariant, Good, Sane, Holding, I!Attached
      <3> QED  BY <1>0, <2>1, <2>2, <3>1 DEF Sound, Fence, InputInvariant, Others, I!ReconcileOk,
               I!ReconcileExhausted
    <2>3. ASSUME d.epoch # MaxEpoch, d' = [d EXCEPT !.epoch = @ + 1]
          PROVE  Sound /\ d'.backend_generation \in 0..generation
      <3>1. d.epoch + 1 \in 1..MaxEpoch
        BY <1>0, <2>3 DEF I!ConstantsAssumption
      <3>2. d' \in Broker
        BY <1>0, <2>3, <3>1 DEF Broker
      <3>3. /\ d'.attachments = d.attachments /\ d'.holder = d.holder /\ d'.next_id = d.next_id
            /\ d'.layout_epoch = d.layout_epoch /\ d'.poisoned = d.poisoned
            /\ d'.backend_generation = d.backend_generation
        BY <1>0, <2>3 DEF Broker
      <3>4. I!X' \in Pairs /\ I!X'.d = d' /\ I!X'.down = {} /\ I!Attached(I!X)' = I!Attached(I!X)
        BY <1>0, <2>1, <3>2, <3>3 DEF I!X, Pairs, I!Attached
      <3>5. Good(I!X)'
        BY <1>0, <3>3, <3>4 DEF InputInvariant, Good, Sane, Holding, I!Attached
      <3> QED  BY <1>0, <2>1, <3>3, <3>4, <3>5 DEF Sound, Fence, InputInvariant, Others
    <2> QED  BY <1>3, <2>2, <2>3 DEF I!ReconcileExhausted, I!ReconcileOk, I!Lost
  <1> QED  BY <1>1, <1>2, <1>3

\* desktop_auth: the backend's recovery and the expiry every handler begins with.
LEMMA AuthKeeps ==
    ASSUME I!ConstantsAssumption, InputInvariant, NEW c \in Connections, I!desktop_auth(c)
    PROVE  InputInvariant' /\ Fence
  <1>1. [conn |-> c, valid |-> valid] \in Auths
    BY DEF InputInvariant, Others, Auths
  <1>2. auth' \in {I!NoAuth} \cup Auths
    BY <1>1 DEF I!desktop_auth, InputInvariant, Others
  <1>3. CASE I!ReconcileOk \/ I!ReconcileExhausted
    <2>1. Sound /\ d'.backend_generation \in 0..generation
      BY <1>3, ReconcileKeeps
    <2>2. layout_displays' \in Displays \cup {I!NoDisplays} /\ streams' \subseteq I!Ids
      BY <1>3, ReconcileKeeps DEF I!ReconcileExhausted, InputInvariant, Others
    <2>3. Others'
      BY <1>2, <2>1, <2>2 DEF InputInvariant, Others, I!desktop_auth
    <2> QED  BY <2>1, <2>3 DEF InputInvariant, Sound, I!desktop_auth
  <1>4. ASSUME UNCHANGED <<layout_displays, streams>>,
               NEW o \in I!mutate(I!expire(I!X, valid)) \cup I!expire(I!X, valid), I!Becomes(o)
        PROVE  InputInvariant' /\ Fence
    <2>1. After(I!X, o)
      BY <1>4, ExpireKeeps, MutateKeeps DEF InputInvariant
    <2>2. Sound /\ d'.backend_generation = d.backend_generation
      BY <1>4, <2>1, AfterMoves, MovesSoundly
    <2>3. Others'
      BY <1>2, <1>4, <2>2 DEF InputInvariant, Others, I!desktop_auth
    <2> QED  BY <2>2, <2>3 DEF InputInvariant, Sound, I!desktop_auth
  <1> QED  BY <1>3, <1>4 DEF I!desktop_auth

\* What runs outside the credential lock.
LEMMA CleanupKeeps ==
    ASSUME I!ConstantsAssumption, InputInvariant,
           \/ \E g \in guards : I!StreamBreaks(g)
           \/ \E id \in viewers : I!AttachStreamEnds(id)
           \/ \E c \in open : I!ConnectionEnds(c)
           \/ \E readable \in BOOLEAN : I!ExpireTick(readable)
    PROVE  InputInvariant' /\ Fence
  <1>1. \E o : After(I!X, o) /\ I!Becomes(o)
    <2>1. ASSUME NEW g \in guards, I!StreamBreaks(g) PROVE \E o : After(I!X, o) /\ I!Becomes(o)
      <3>1. PICK o \in I!Dropped(g, I!Ok(I!X)) : I!Becomes(o)
        BY <2>1 DEF I!StreamBreaks
      <3>2. After(I!X, I!Ok(I!X)) /\ Good(I!Ok(I!X))
        BY AsItIs DEF InputInvariant, After, Results
      <3>3. After(I!X, o)
        BY <3>1, <3>2, ReleasePair, AfterTransitive DEF I!Dropped
      <3> QED  BY <3>1, <3>3
    <2>2. ASSUME NEW id \in viewers, I!AttachStreamEnds(id)
          PROVE  \E o : After(I!X, o) /\ I!Becomes(o)
      BY <2>2, RemoveKeeps, MutateKeeps DEF InputInvariant, Others, I!AttachStreamEnds
    <2>3. ASSUME NEW c \in open, I!ConnectionEnds(c) PROVE \E o : After(I!X, o) /\ I!Becomes(o)
      BY <2>3, ExpireKeeps, MutateKeeps DEF InputInvariant, I!ConnectionEnds
    <2>4. ASSUME NEW r \in BOOLEAN, I!ExpireTick(r) PROVE \E o : After(I!X, o) /\ I!Becomes(o)
      BY <2>4, ExpireKeeps, MutateKeeps DEF InputInvariant, I!ExpireTick
    <2> QED  BY <2>1, <2>2, <2>3, <2>4
  <1>2. Sound /\ d'.backend_generation = d.backend_generation
    BY <1>1, AfterMoves, MovesSoundly
  <1>3. Others' /\ gate' = gate
    BY <1>2 DEF InputInvariant, Others, I!StreamBreaks, I!AttachStreamEnds, I!ConnectionEnds,
       I!ExpireTick
  <1> QED  BY <1>2, <1>3 DEF InputInvariant, Sound

\* refresh_layout: the display change is read first and applied later.
LEMMA RefreshKeeps ==
    ASSUME I!ConstantsAssumption, InputInvariant,
           I!RefreshReads \/ \E v \in seen : I!RefreshLayout(v)
    PROVE  InputInvariant' /\ Fence
  <1>1. CASE I!RefreshReads
    <2>1. /\ Sound /\ d'.backend_generation \in 0..generation
          /\ layout_displays' \in Displays \cup {I!NoDisplays} /\ streams' \subseteq I!Ids
      BY <1>1, ReconcileKeeps DEF I!RefreshReads
    <2>2. Others' /\ gate' = gate
      BY <1>1, <2>1 DEF InputInvariant, Others, I!RefreshReads
    <2> QED  BY <2>1, <2>2 DEF InputInvariant, Sound
  <1>2. ASSUME NEW v \in seen, I!RefreshLayout(v) PROVE InputInvariant' /\ Fence
    <2>1. CASE UNCHANGED <<d, down, layout_displays>>
      <3>1. Sound /\ d'.backend_generation = d.backend_generation
        BY <2>1, StaysSoundly
      <3>2. Others' /\ gate' = gate
        BY <1>2, <2>1 DEF InputInvariant, Others, I!RefreshLayout
      <3> QED  BY <3>1, <3>2 DEF InputInvariant, Sound
    <2>2. ASSUME NEW n \in I!Relaid(I!X, v), I!Becomes(n.o), layout_displays' = n.shown
          PROVE  InputInvariant' /\ Fence
      <3>1. After(I!X, n.o) /\ n.shown \in Displays \cup {I!NoDisplays}
        BY <1>2, <2>2, RelaidKeeps DEF InputInvariant, Others
      <3>2. Sound /\ d'.backend_generation = d.backend_generation
        BY <2>2, <3>1, AfterMoves, MovesSoundly
      <3>3. Others' /\ gate' = gate
        BY <1>2, <2>2, <3>1, <3>2 DEF InputInvariant, Others, I!RefreshLayout
      <3> QED  BY <3>2, <3>3 DEF InputInvariant, Sound
    <2> QED  BY <1>2, <2>1, <2>2 DEF I!RefreshLayout, I!RefreshApplies
  <1> QED  BY <1>1, <1>2

\* Time only shortens leases.
LEMMA TickKeeps ==
    ASSUME I!ConstantsAssumption, InputInvariant, I!Tick
    PROVE  InputInvariant' /\ Fence
  <1> DEFINE f == [i \in DOMAIN d.attachments |->
                      [d.attachments[i] EXCEPT !.lease = IF @ > 0 THEN @ - 1 ELSE 0]]
             o == [d |-> d', down |-> down, r |-> "ok"]
  <1>1. Good(I!Ok(I!X)) /\ I!Ok(I!X) \in Outcomes /\ After(I!X, I!Ok(I!X))
    BY AsItIs DEF InputInvariant, After, Results
  <1>2. I!Ok(I!X).d = d /\ I!Ok(I!X).down = down /\ I!Ok(I!X) = [d |-> d, down |-> down, r |-> "ok"]
        /\ I!Attached(I!Ok(I!X)) = DOMAIN d.attachments
    BY DEF I!Ok, I!X, I!Attached
  <1>3. d \in Broker /\ d.attachments \in [DOMAIN d.attachments -> I!Attachment]
    BY <1>1, <1>2, Fields DEF I!Attached
  <1>4. d' = [d EXCEPT !.attachments = f]
    BY DEF I!Tick
  <1>5. f \in [DOMAIN d.attachments -> I!Attachment]
        /\ \A i \in DOMAIN d.attachments : f[i].view = d.attachments[i].view
    <2>1. ASSUME NEW a \in I!Attachment
          PROVE  /\ [a EXCEPT !.lease = IF @ > 0 THEN @ - 1 ELSE 0] \in I!Attachment
                 /\ [a EXCEPT !.lease = IF @ > 0 THEN @ - 1 ELSE 0].view = a.view
      BY DEF I!Attachment, I!ConstantsAssumption
    <2> QED  BY <1>3, <2>1
  <1> HIDE DEF f
  <1>12. o = [I!Ok(I!X) EXCEPT !.d = d'] /\ o.d = d'
    BY <1>2
  <1> HIDE DEF o
  <1>6. \A i \in DOMAIN d.attachments : f[i].view \in {0, d.layout_epoch}
    BY <1>1, <1>2, <1>5 DEF Good, Sane
  <1>7. After(I!Ok(I!X), o)
    BY <1>1, <1>2, <1>4, <1>5, <1>6, <1>12, EditedKeeps
  <1>8. After(I!X, o)
    BY <1>1, <1>7, AfterTransitive
  <1>9. I!Becomes(o)
    BY <1>4, <1>12 DEF I!Becomes, I!Tick, o
  <1>10. Sound /\ d'.backend_generation = d.backend_generation
    BY <1>8, <1>9, AfterMoves, MovesSoundly
  <1>11. Others' /\ gate' = gate
    BY <1>10 DEF InputInvariant, Others, I!Tick
  <1> QED  BY <1>10, <1>11 DEF InputInvariant, Sound

\* The steps that do not touch the broker.
LEMMA QuietKeeps ==
    ASSUME I!ConstantsAssumption, InputInvariant,
           \/ I!AuthDropped \/ \E g \in guards : I!StreamCompletes(g)
           \/ I!DisplaysChange \/ I!HelperLost \/ \E k \in valid : I!Revoked(k)
           \/ I!UpdateFreezes \/ UNCHANGED I!vars
    PROVE  InputInvariant' /\ Fence
  <1>1. d' = d /\ down' = down
    BY DEF I!AuthDropped, I!StreamCompletes, I!DisplaysChange, I!HelperLost, I!Revoked,
           I!UpdateFreezes, I!vars
  <1>2. Sound
    BY <1>1, StaysSoundly
  <1>3. Others'
    <2>1. CASE I!AuthDropped
      BY <1>1, <2>1 DEF InputInvariant, Others, I!AuthDropped
    <2>2. CASE \E g \in guards : I!StreamCompletes(g)
      BY <1>1, <2>2 DEF InputInvariant, Others, I!StreamCompletes
    <2>3. CASE I!DisplaysChange
      BY <1>1, <2>3 DEF InputInvariant, Others, I!DisplaysChange
    <2>4. CASE I!HelperLost
      BY <1>1, <2>4 DEF InputInvariant, Others, I!HelperLost, I!ConstantsAssumption
    <2>5. CASE \E k \in valid : I!Revoked(k)
      BY <1>1, <2>5 DEF InputInvariant, Others, I!Revoked
    <2>6. CASE I!UpdateFreezes
      BY <1>1, <2>6 DEF InputInvariant, Others, I!UpdateFreezes
    <2>7. CASE UNCHANGED I!vars
      BY <1>1, <2>7 DEF InputInvariant, Others, I!vars
    <2> QED  BY <2>1, <2>2, <2>3, <2>4, <2>5, <2>6, <2>7
  <1>4. ~gate' => I!Attached(I!X)' = {}
    <2>1. CASE gate' = gate
      BY <1>2, <2>1 DEF Sound
    <2>2. CASE I!UpdateFreezes
      BY <1>1, <2>2 DEF I!UpdateFreezes, I!Attached, I!X
    <2> QED
      BY <2>1, <2>2 DEF I!AuthDropped, I!StreamCompletes, I!DisplaysChange, I!HelperLost,
         I!Revoked, I!vars
  <1> QED  BY <1>2, <1>3, <1>4 DEF InputInvariant, Sound

\* The broker begins with nobody attached.
LEMMA InputEstablished ==
    ASSUME I!ConstantsAssumption, I!Init
    PROVE  InputInvariant
  <1> DEFINE none == [i \in {} |-> 0]
  <1>1. none \in Books /\ DOMAIN none = {}
    <2>1. {} \in SUBSET I!Ids /\ none \in [{} -> I!Attachment]
      OBVIOUS
    <2> QED  BY <2>1 DEF Books
  <1>2. d = [attachments |-> none, holder |-> I!NoHolder, epoch |-> 1, next_id |-> 0,
            layout_epoch |-> 1, keys |-> {}, buttons |-> {}, poisoned |-> FALSE,
            backend_generation |-> 0] /\ down = {}
    BY DEF I!Init
  <1> HIDE DEF none
  <1>3. /\ d.attachments = none /\ d.holder = I!NoHolder /\ d.backend_generation = 0
    BY <1>2
  <1>4. d \in Broker
    BY <1>1, <1>2 DEF Broker, I!ConstantsAssumption
  <1>5. I!X \in Pairs /\ I!X.d = d /\ I!X.down = {} /\ I!Attached(I!X) = {}
    BY <1>1, <1>2, <1>3, <1>4 DEF I!X, Pairs, I!Attached
  <1>6. Good(I!X)
    BY <1>3, <1>5 DEF Good, Sane, Holding, I!Attached
  <1>7. Others
    BY <1>3 DEF I!Init, Others, I!ConstantsAssumption
  <1> QED  BY <1>5, <1>6, <1>7 DEF InputInvariant

\* Every step keeps the invariant and the fence of a poisoned broker.
LEMMA InputPreserved ==
    ASSUME I!ConstantsAssumption, InputInvariant, [I!Next]_I!vars
    PROVE  InputInvariant' /\ Fence
  <1>1. CASE \E c \in Connections : I!desktop_auth(c)
    BY <1>1, AuthKeeps
  <1>2. CASE I!Handler
    BY <1>2, HandlersKeep, BeginInputKeeps, AttachDesktopKeeps, WritesKeep, QuietKeeps DEF I!Handler
  <1>3. CASE \E g \in guards : I!StreamCompletes(g) \/ I!StreamBreaks(g)
    BY <1>3, QuietKeeps, CleanupKeeps
  <1>4. CASE \/ \E id \in viewers : I!AttachStreamEnds(id)
             \/ \E readable \in BOOLEAN : I!ExpireTick(readable)
    BY <1>4, CleanupKeeps
  <1>5. CASE I!RefreshReads \/ \E v \in seen : I!RefreshLayout(v)
    BY <1>5, RefreshKeeps
  <1>6. CASE I!Environment
    BY <1>6, CleanupKeeps, QuietKeeps, TickKeeps DEF I!Environment
  <1>7. CASE UNCHANGED I!vars
    BY <1>7, QuietKeeps
  <1> QED  BY <1>1, <1>2, <1>3, <1>4, <1>5, <1>6, <1>7 DEF I!Next

\* The inductive invariant holds in every state of the broker, whatever runs between its
\* locks: RPC handlers, the expiry tick, cleanup tasks and display changes (desktop.rs,
\* desktop_rpc.rs).
THEOREM InputIsSound ==
    ASSUME I!ConstantsAssumption PROVE I!Spec => []InputInvariant
  <1>1. I!Init => InputInvariant
    BY InputEstablished
  <1>2. InputInvariant /\ [I!Next]_I!vars => InputInvariant'
    BY InputPreserved
  <1> QED  BY <1>1, <1>2, PTL DEF I!Spec

\* What the invariant says in the words of the properties.
LEMMA InputImplies ==
    ASSUME I!ConstantsAssumption, InputInvariant
    PROVE  I!TypeOK /\ I!HeldByHolder /\ I!NoUpdateOverStuckInput /\ I!ViewportsAreCurrent
  <1>1. /\ I!X.d = d /\ I!X.down = down /\ I!X \in Pairs \cup Outcomes
        /\ I!Attached(I!X) = DOMAIN d.attachments
    BY DEF I!X, InputInvariant, Good, Sane, I!Attached
  <1>2. /\ d \in Broker /\ down \in SUBSET Press
        /\ d.attachments \in [DOMAIN d.attachments -> I!Attachment]
        /\ d.holder \in I!Ids \cup {I!NoHolder} /\ d.epoch \in 1..MaxEpoch
        /\ d.next_id \in 0..MaxId /\ d.layout_epoch \in 1..MaxLayout
        /\ d.keys \in SUBSET Keys /\ d.buttons \in SUBSET Buttons /\ d.poisoned \in BOOLEAN
    BY <1>1, Fields
  <1>3. I!TypeOK
    BY <1>1, <1>2 DEF I!TypeOK, InputInvariant, Good, Sane, Others, Press, Guard
  <1>4. I!HeldByHolder
    BY <1>1 DEF I!HeldByHolder, InputInvariant, Good, Holding
  <1>5. I!NoUpdateOverStuckInput
    BY <1>1 DEF I!NoUpdateOverStuckInput, InputInvariant, Good, Sane
  <1>6. I!ViewportsAreCurrent
    BY <1>1 DEF I!ViewportsAreCurrent, InputInvariant, Good, Sane
  <1> QED  BY <1>3, <1>4, <1>5, <1>6

\* While the broker is usable, whatever the operating system holds down was pressed by the
\* attachment in control and in this control period (set_control, remove, release_held); a
\* host that an update has frozen has nothing held down (the release guard); and no viewport
\* of an older display arrangement survives (layout_changed).
THEOREM HolderHoldsAll ==
    ASSUME I!ConstantsAssumption
    PROVE  I!Spec => [](/\ I!TypeOK /\ I!HeldByHolder
                        /\ I!NoUpdateOverStuckInput /\ I!ViewportsAreCurrent)
  <1>1. InputInvariant => /\ I!TypeOK /\ I!HeldByHolder
                          /\ I!NoUpdateOverStuckInput /\ I!ViewportsAreCurrent
    BY InputImplies
  <1> QED  BY <1>1, InputIsSound, PTL

\* Once a release has failed, until the backend is replaced, nobody gains control, nothing new
\* is pressed and no attachment is dropped (the poisoned checks of desktop.rs).
THEOREM PoisonIsFenced ==
    ASSUME I!ConstantsAssumption PROVE I!Spec => I!PoisonFences
  <1>1. InputInvariant /\ [I!Next]_I!vars => [Fence]_I!vars
    BY InputPreserved
  <1>2. [][Fence]_I!vars <=> I!PoisonFences
    BY PTL DEF I!PoisonFences, Fence
  <1> QED  BY <1>1, <1>2, InputIsSound, PTL DEF I!Spec
=============================================================================
