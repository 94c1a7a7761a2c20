------------------------- MODULE ClusterCallsProofs -------------------------
(***************************************************************************)
(* Only the primary writes, a removed client has no more effect            *)
(* (ClusterCalls) and what it left in the outbox is never adopted          *)
(* (ClusterAdoption, below): for any number of nodes, calls, transfers and *)
(* grants. The first rests on the log alone (LogInvariant): the primary of *)
(* an epoch is the one that seals it, and holds a later one ever after     *)
(* (HandedOver), so that a node that holds an epoch of its own holds the   *)
(* last. The second rests on the mutexes alone (MutexInvariant): a call    *)
(* past its lookup holds the mutex a removal takes.                        *)
(***************************************************************************)
EXTENDS ClusterCalls, SequenceTheorems, TLAPS

\* The primary of an epoch that has ended knows that it has.
HandedOver == \A i \in 1..(Epoch - 1) : held[log.primary[i]] > i
LogShape ==
    /\ log = [primary |-> log.primary, entries |-> log.entries]
    /\ log.primary \in Seq(Nodes) /\ Epoch \in 1..MaxEpoch
    /\ held \in [Nodes -> 1..MaxEpoch] /\ \A n \in Nodes : held[n] <= Epoch
EntriesOfEpochs == \A e \in log.entries : e.epoch \in 1..Epoch
LogInvariant == LogShape /\ HandedOver /\ EntriesOfEpochs /\ OnlyPrimaryWrites

\* What a step may do to the log and to what the nodes hold of it.
LogStep ==
    \/ UNCHANGED <<log, held>>
    \/ \E n \in Nodes, c \in {<<"worker">>} \cup {<<m, k>> : m \in Nodes, k \in Nat} :
         PrimaryAt(n) = n /\ Commit(n, c) /\ held' = held
    \/ \E n, m \in Nodes : Seal(n, m)
    \/ \E n \in Nodes : Import(n)

-----------------------------------------------------------------------------
LEMMA LogNumbers ==
  ASSUME CallsAssumption, LogInvariant
  PROVE  /\ Epoch \in Nat \ {0} /\ MaxEpoch \in Nat /\ Epoch <= MaxEpoch
         /\ \A n \in Nodes : held[n] \in Nat \ {0} /\ held[n] <= Epoch
         /\ \A i \in 1..Epoch : log.primary[i] \in Nodes
<1>1. Epoch \in Nat \ {0} /\ MaxEpoch \in Nat /\ Epoch <= MaxEpoch
  BY DEF CallsAssumption, LogInvariant, LogShape
<1>2. \A n \in Nodes : held[n] \in 1..MaxEpoch /\ held[n] <= Epoch
  BY DEF LogInvariant, LogShape
<1>3. \A i \in 1..Epoch : log.primary[i] \in Nodes
  BY DEF LogInvariant, LogShape, Epoch
<1> QED
  BY <1>1, <1>2, <1>3

\* A node that holds an epoch of its own holds the last one.
LEMMA PrimaryHoldsLast ==
  ASSUME LogInvariant, NEW n \in Nodes, PrimaryAt(n) = n PROVE held[n] = Epoch
  BY DEF LogInvariant, LogShape, HandedOver, PrimaryAt, Epoch

LEMMA CommitKeepsLog ==
  ASSUME CallsAssumption, LogInvariant, NEW n \in Nodes, NEW c,
         PrimaryAt(n) = n, Commit(n, c), held' = held
  PROVE  LogInvariant'
<1>1. held[n] = Epoch
  BY PrimaryHoldsLast
<1>2. log' = [primary |-> log.primary, entries |-> log.entries \cup {Entry(n, c)}]
  BY DEF LogInvariant, LogShape, Commit
<1>3. log'.primary = log.primary /\ log'.entries = log.entries \cup {Entry(n, c)} /\ Epoch' = Epoch
  BY <1>2 DEF Epoch
<1>4. LogShape' /\ HandedOver'
  BY <1>2, <1>3 DEF LogInvariant, LogShape, HandedOver
<1>5. Entry(n, c).epoch = Epoch /\ Entry(n, c).at = Epoch /\ Entry(n, c).by = n
  BY <1>1 DEF Entry
<1>6. EntriesOfEpochs' /\ OnlyPrimaryWrites'
  BY <1>1, <1>3, <1>5 DEF LogInvariant, LogShape, EntriesOfEpochs, OnlyPrimaryWrites, PrimaryAt
<1> QED
  BY <1>4, <1>6 DEF LogInvariant

LEMMA SealKeepsLog ==
  ASSUME CallsAssumption, LogInvariant, NEW n \in Nodes, NEW m \in Nodes, Seal(n, m)
  PROVE  LogInvariant'
<1>1. held[n] = Epoch
  BY PrimaryHoldsLast DEF Seal, IsPrimary
<1>2. /\ log' = [primary |-> Append(log.primary, m), entries |-> log.entries]
      /\ held' = [held EXCEPT ![n] = Epoch + 1] /\ Epoch < MaxEpoch /\ PrimaryAt(n) = n
  BY DEF LogInvariant, LogShape, Seal, IsPrimary
<1>3. /\ log'.primary = Append(log.primary, m) /\ log'.entries = log.entries
      /\ log'.primary \in Seq(Nodes) /\ Epoch' = Epoch + 1
      /\ \A i \in 1..Epoch : log'.primary[i] = log.primary[i]
      /\ \A i \in 1..Epoch : log.primary[i] \in Nodes
  BY <1>2 DEF LogInvariant, LogShape, Epoch
<1>4. LogShape'
  BY <1>2, <1>3 DEF LogInvariant, LogShape, CallsAssumption
<1>5. HandedOver'
  <2> SUFFICES ASSUME NEW i \in 1..Epoch PROVE held'[log'.primary[i]] > i
    <3>1. (1..(Epoch - 1))' = 1..Epoch
      BY <1>3, LogNumbers
    <3> QED
      BY <3>1 DEF HandedOver
  <2>1. held'[n] > i
    BY <1>2 DEF LogInvariant, LogShape
  <2>2. CASE log.primary[i] = n
    BY <2>1, <2>2, <1>3
  <2>3. CASE log.primary[i] # n
    <3>1. i < Epoch
      BY <1>1, <1>2, <2>3 DEF PrimaryAt, LogInvariant, LogShape
    <3>2. held'[log'.primary[i]] > i
      <4>1. held[log.primary[i]] > i
        BY <3>1, LogNumbers DEF LogInvariant, HandedOver
      <4>2. held'[log.primary[i]] = held[log.primary[i]]
        BY <1>2, <1>3, <2>3 DEF LogInvariant, LogShape
      <4> QED
        BY <4>1, <4>2, <1>3
    <3> QED
      BY <3>2
  <2> QED
    BY <2>2, <2>3
<1>6. EntriesOfEpochs'
  BY <1>3, LogNumbers DEF LogInvariant, EntriesOfEpochs
<1>7. OnlyPrimaryWrites'
  BY <1>3 DEF LogInvariant, EntriesOfEpochs, OnlyPrimaryWrites
<1> QED
  BY <1>4, <1>5, <1>6, <1>7 DEF LogInvariant

LEMMA ImportKeepsLog ==
  ASSUME CallsAssumption, LogInvariant, NEW n \in Nodes, Import(n) PROVE LogInvariant'
<1>1. PICK e \in (held[n] + 1)..Epoch : held' = [held EXCEPT ![n] = e]
  BY DEF Import
<1>2. log' = log /\ Epoch' = Epoch
  BY DEF Import, Epoch
<1>3. LogShape'
  <2>1. e \in 1..MaxEpoch /\ e <= Epoch
    BY <1>1, LogNumbers
  <2> QED
    BY <1>1, <1>2, <2>1 DEF LogInvariant, LogShape
<1>4. HandedOver'
  <2>1. \A m \in Nodes : held'[m] \in Nat /\ held'[m] >= held[m]
    BY <1>1, LogNumbers DEF LogInvariant, LogShape
  <2> QED
    BY <1>2, <2>1, LogNumbers DEF LogInvariant, HandedOver
<1> QED
  BY <1>2, <1>3, <1>4 DEF LogInvariant, EntriesOfEpochs, OnlyPrimaryWrites

LEMMA LogStepKeeps ==
  ASSUME CallsAssumption, LogInvariant, LogStep PROVE LogInvariant'
<1>1. CASE UNCHANGED <<log, held>>
  BY <1>1 DEF LogInvariant, LogShape, HandedOver, EntriesOfEpochs, OnlyPrimaryWrites, Epoch
<1> QED
  BY <1>1, CommitKeepsLog, SealKeepsLog, ImportKeepsLog DEF LogStep

-----------------------------------------------------------------------------
\* What the calls, the peer requests and the workers are.
UnderWay == {"commit", "await", "sent", "answered"}
CallRecords == [step : UnderWay \cup {"lock", "relock"}, epoch : Nat]
PeerRecords == [step : {"lock", "commit"}, from : Nodes \X Nat, epoch : Nat]
WorkerRecords == [step : {"commit"}, epoch : Nat]
CallTypes ==
    /\ lock \in [Nodes -> {"", "call", "peer"}] /\ calls \in [Nodes -> 0..MaxCalls]
    /\ call \in [Nodes -> {None} \cup CallRecords]
    /\ peer \in [Nodes -> {None} \cup PeerRecords]
    /\ worker \in [Nodes -> {None} \cup WorkerRecords]
ValidType == valid \in [Nodes -> BOOLEAN]

\* A call past its lookup has the mutex and a client that is still paired; a
\* peer's request is another node's.
MutexHeld ==
    \A n \in Nodes :
        /\ lock[n] = "call" <=> call[n].step \in UnderWay
        /\ lock[n] = "peer" <=> peer[n].step = "commit"
PairedUnderWay == \A n \in Nodes : call[n].step \in UnderWay => valid[n]
FromElsewhere == \A m \in Nodes : peer[m] # None => peer[m].from[1] # m
MutexInvariant == CallTypes /\ ValidType /\ MutexHeld /\ PairedUnderWay /\ FromElsewhere

CallsInvariant == LogInvariant /\ MutexInvariant

LEMMA NoneStep == None.step = "none" /\ \A r \in CallRecords \cup PeerRecords \cup WorkerRecords : r.step # "none"
  BY DEF None, CallRecords, PeerRecords, WorkerRecords, UnderWay

LEMMA InvariantImpliesType ==
  ASSUME CallsInvariant PROVE TypeOK
<1>1. /\ log.primary \in Seq(Nodes) /\ Epoch \in 1..MaxEpoch
      /\ held \in [Nodes -> 1..MaxEpoch] /\ \A n \in Nodes : held[n] <= Epoch
  BY DEF CallsInvariant, LogInvariant, LogShape
<1>2. lock \in [Nodes -> {"", "call", "peer"}] /\ calls \in [Nodes -> 0..MaxCalls]
  BY DEF CallsInvariant, MutexInvariant, CallTypes
<1>3. ASSUME NEW n \in Nodes
      PROVE  /\ call[n].step \in {"none", "lock", "commit", "relock", "await", "sent", "answered"}
             /\ peer[n].step \in {"none", "lock", "commit"} /\ worker[n].step \in {"none", "commit"}
  <2>1. call[n] \in {None} \cup CallRecords /\ peer[n] \in {None} \cup PeerRecords
        /\ worker[n] \in {None} \cup WorkerRecords
    BY DEF CallsInvariant, MutexInvariant, CallTypes
  <2> QED
    BY <2>1, NoneStep DEF CallRecords, PeerRecords, WorkerRecords, UnderWay
<1>4. valid \in [Nodes -> BOOLEAN]
  BY Zenon DEF CallsInvariant, MutexInvariant, ValidType
<1>5. \A n \in Nodes : /\ lock[n] = "call" <=> call[n].step \in {"commit", "await", "sent", "answered"}
                       /\ lock[n] = "peer" <=> peer[n].step = "commit"
  BY DEF CallsInvariant, MutexInvariant, MutexHeld, UnderWay
<1> QED
  BY <1>1, <1>2, <1>3, <1>4, <1>5, Zenon DEF TypeOK

LEMMA CallsEstablished ==
  ASSUME CallsAssumption, Init PROVE CallsInvariant
<1>1. LogInvariant
  <2>1. Epoch = 1 /\ log.primary = <<Founder>> /\ log.entries = {}
    BY DEF Init, Epoch
  <2>2. LogShape
    <3>1. MaxEpoch \in Nat \ {0} /\ <<Founder>> \in Seq(Nodes)
      BY DEF CallsAssumption
    <3>2. held \in [Nodes -> 1..MaxEpoch] /\ \A n \in Nodes : held[n] = 1
      <4>1. held = [n \in Nodes |-> 1]
        BY Zenon DEF Init
      <4>2. 1 \in 1..MaxEpoch
        BY <3>1
      <4> QED
        BY <4>1, <4>2, Zenon
    <3>3. log = [primary |-> log.primary, entries |-> log.entries]
      BY DEF Init
    <3> QED
      BY <2>1, <3>1, <3>2, <3>3 DEF LogShape
  <2>3. HandedOver /\ EntriesOfEpochs /\ OnlyPrimaryWrites
    BY <2>1 DEF HandedOver, EntriesOfEpochs, OnlyPrimaryWrites
  <2> QED
    BY <2>2, <2>3 DEF LogInvariant
<1>2. MutexInvariant
  <2>1. CallTypes
    <3>1. MaxCalls \in Nat
      BY DEF CallsAssumption
    <3>2. calls \in [Nodes -> 0..MaxCalls]
      <4>1. calls = [n \in Nodes |-> 0]
        BY Zenon DEF Init
      <4>2. 0 \in 0..MaxCalls
        BY <3>1
      <4> QED
        BY <4>1, <4>2, Zenon
    <3>3. lock \in [Nodes -> {"", "call", "peer"}]
      BY DEF Init
    <3>4. /\ call \in [Nodes -> {None} \cup CallRecords]
          /\ peer \in [Nodes -> {None} \cup PeerRecords]
          /\ worker \in [Nodes -> {None} \cup WorkerRecords]
      BY Zenon DEF Init
    <3> QED
      BY <3>2, <3>3, <3>4 DEF CallTypes
  <2>2. ValidType
    BY DEF Init, ValidType
  <2>3. MutexHeld /\ PairedUnderWay /\ FromElsewhere
    BY DEF Init, MutexHeld, PairedUnderWay, FromElsewhere, None, UnderWay
  <2> QED
    BY <2>1, <2>2, <2>3 DEF MutexInvariant
<1> QED
  BY <1>1, <1>2 DEF CallsInvariant

\* A step of the log is one of the four kinds.
LEMMA NextIsLogStep ==
  ASSUME CallsAssumption, CallsInvariant, Next PROVE LogStep
<1>1. PICK n \in Nodes :
        \/ Start(n) \/ Calling(n) \/ Serving(n) \/ WorkerReads(n) \/ commit_authorized(n)
        \/ Import(n) \/ Remove(n) \/ Arrives(n) \/ \E m \in Nodes : Seal(n, m)
  BY DEF Next
<1>2. calls[n] \in Nat
  <2>1. calls[n] \in 0..MaxCalls
    BY DEF CallsInvariant, MutexInvariant, CallTypes
  <2> QED
    BY <2>1
<1>3. CASE Start(n) \/ Locks(n) \/ Forward(n) \/ Answers(n) \/ TimesOut(n) \/ PeerLocks(n)
            \/ WorkerReads(n) \/ Remove(n) \/ Arrives(n)
  BY <1>3 DEF Start, Locks, Forward, Answers, TimesOut, PeerLocks, WorkerReads, Remove, Arrives, LogStep
<1>4. CASE Execute(n)
  <2>1. held' = held
    BY <1>4 DEF Execute
  <2>2. CASE IsPrimary(n, call[n].epoch) /\ Commit(n, <<n, calls[n]>>)
    BY <1>2, <2>1, <2>2 DEF IsPrimary, LogStep
  <2>3. CASE log' = log
    BY <2>1, <2>3 DEF LogStep
  <2> QED
    BY <1>4, <2>2, <2>3 DEF Execute
<1>5. CASE PeerExecutes(n)
  <2>1. held' = held
    BY <1>5 DEF PeerExecutes
  <2>2. peer[n].from \in {<<m, k>> : m \in Nodes, k \in Nat}
    <3>1. peer[n] \in PeerRecords
      BY <1>5, NoneStep DEF PeerExecutes, CallsInvariant, MutexInvariant, CallTypes
    <3> QED
      BY <3>1 DEF PeerRecords
  <2>3. CASE IsPrimary(n, peer[n].epoch) /\ Commit(n, peer[n].from)
    BY <2>1, <2>2, <2>3 DEF IsPrimary, LogStep
  <2>4. CASE log' = log
    BY <2>1, <2>4 DEF LogStep
  <2> QED
    BY <1>5, <2>3, <2>4 DEF PeerExecutes
<1>6. CASE commit_authorized(n)
  <2>1. held' = held
    BY <1>6 DEF commit_authorized
  <2>2. CASE IsPrimary(n, worker[n].epoch) /\ Commit(n, <<"worker">>)
    BY <2>1, <2>2 DEF IsPrimary, LogStep
  <2>3. CASE log' = log
    BY <2>1, <2>3 DEF LogStep
  <2> QED
    BY <1>6, <2>2, <2>3 DEF commit_authorized
<1>7. CASE Import(n) \/ \E m \in Nodes : Seal(n, m)
  BY <1>7 DEF LogStep
<1> QED
  BY <1>1, <1>3, <1>4, <1>5, <1>6, <1>7 DEF Calling, Serving

-----------------------------------------------------------------------------
LEMMA CallMoves ==
  \A r \in CallRecords, s \in UnderWay \cup {"lock", "relock"} :
    [r EXCEPT !.step = s] \in CallRecords /\ [r EXCEPT !.step = s].step = s
  BY DEF CallRecords

\* The client's call of n takes a step, with the mutex if it is past its lookup.
LEMMA CallChanges ==
  ASSUME MutexInvariant, NEW n \in Nodes,
         NEW l \in {"", "call", "peer"}, NEW c \in {None} \cup CallRecords,
         l = "call" <=> c.step \in UnderWay, l = "peer" <=> lock[n] = "peer",
         c.step \in UnderWay => valid[n],
         lock' = [lock EXCEPT ![n] = l], call' = [call EXCEPT ![n] = c],
         calls' \in [Nodes -> 0..MaxCalls], UNCHANGED <<valid, peer, worker>>
  PROVE  MutexInvariant'
<1>1. CallTypes'
  BY DEF MutexInvariant, CallTypes
<1>2. ValidType'
  BY Zenon DEF MutexInvariant, ValidType
<1>3. \A k \in Nodes : /\ lock'[k] = (IF k = n THEN l ELSE lock[k])
                       /\ call'[k] = (IF k = n THEN c ELSE call[k])
  BY DEF MutexInvariant, CallTypes
<1>4. MutexHeld'
  BY <1>3 DEF MutexInvariant, MutexHeld
<1>5. PairedUnderWay'
  BY <1>3 DEF MutexInvariant, PairedUnderWay
<1>6. FromElsewhere'
  BY DEF MutexInvariant, FromElsewhere
<1> QED
  BY <1>1, <1>2, <1>4, <1>5, <1>6 DEF MutexInvariant

\* The request executing at m takes a step; no call is looked up or ends by it.
LEMMA PeerChanges ==
  ASSUME MutexInvariant, NEW m \in Nodes,
         NEW l \in {"", "call", "peer"}, NEW p \in {None} \cup PeerRecords,
         l = "peer" <=> p.step = "commit", l = "call" <=> lock[m] = "call",
         p # None => p.from[1] # m,
         lock' = [lock EXCEPT ![m] = l], peer' = [peer EXCEPT ![m] = p],
         call' \in [Nodes -> {None} \cup CallRecords],
         \A k \in Nodes : call'[k].step \in UnderWay <=> call[k].step \in UnderWay,
         UNCHANGED <<valid, calls, worker>>
  PROVE  MutexInvariant'
<1>1. CallTypes'
  BY DEF MutexInvariant, CallTypes
<1>2. ValidType'
  BY Zenon DEF MutexInvariant, ValidType
<1>3. \A k \in Nodes : /\ lock'[k] = (IF k = m THEN l ELSE lock[k])
                       /\ peer'[k] = (IF k = m THEN p ELSE peer[k])
  BY DEF MutexInvariant, CallTypes
<1>4. MutexHeld'
  <2> SUFFICES ASSUME NEW k \in Nodes
               PROVE  /\ lock'[k] = "call" <=> call'[k].step \in UnderWay
                      /\ lock'[k] = "peer" <=> peer'[k].step = "commit"
    BY DEF MutexHeld
  <2>1. /\ lock[k] = "call" <=> call[k].step \in UnderWay
        /\ lock[k] = "peer" <=> peer[k].step = "commit"
    BY DEF MutexInvariant, MutexHeld
  <2> QED
    BY <1>3, <2>1
<1>5. PairedUnderWay'
  BY DEF MutexInvariant, PairedUnderWay
<1>6. FromElsewhere'
  BY <1>3 DEF MutexInvariant, FromElsewhere
<1> QED
  BY <1>1, <1>2, <1>4, <1>5, <1>6 DEF MutexInvariant

\* What a node's parts are, one by one.
LEMMA NodeTypes ==
  ASSUME MutexInvariant, NEW n \in Nodes
  PROVE  /\ call[n].step # "none" => call[n] \in CallRecords
         /\ peer[n].step # "none" => peer[n] \in PeerRecords
         /\ call[n] \in {None} \cup CallRecords /\ peer[n] \in {None} \cup PeerRecords
         /\ lock[n] \in {"", "call", "peer"} /\ calls[n] \in 0..MaxCalls
         /\ lock = [lock EXCEPT ![n] = lock[n]] /\ call = [call EXCEPT ![n] = call[n]]
<1>1. /\ call[n] \in {None} \cup CallRecords /\ peer[n] \in {None} \cup PeerRecords
      /\ lock[n] \in {"", "call", "peer"}
  BY DEF MutexInvariant, CallTypes
<1>2. calls[n] \in 0..MaxCalls
  BY Zenon DEF MutexInvariant, CallTypes
<1>3. lock = [lock EXCEPT ![n] = lock[n]] /\ call = [call EXCEPT ![n] = call[n]]
  BY DEF MutexInvariant, CallTypes
<1> QED
  BY <1>1, <1>2, <1>3, NoneStep

LEMMA StartNumbers ==
  ASSUME CallsAssumption, LogInvariant, MutexInvariant, NEW n \in Nodes, Start(n)
  PROVE  calls[n] + 1 \in 0..MaxCalls /\ \A e \in 1..held[n] : e \in Nat
<1>1. calls[n] \in 0..MaxCalls /\ calls[n] < MaxCalls
  BY NodeTypes, Zenon DEF Start
<1>2. MaxCalls \in Nat /\ held[n] \in Nat
  BY LogNumbers DEF CallsAssumption
<1> QED
  BY <1>1, <1>2

LEMMA CallingKeepsMutex ==
  ASSUME CallsAssumption, MutexInvariant, LogInvariant, NEW n \in Nodes, Start(n) \/ Calling(n)
  PROVE  MutexInvariant'
<1> USE NodeTypes, CallMoves, NoneStep
<1>0. calls \in [Nodes -> 0..MaxCalls]
  BY DEF MutexInvariant, CallTypes
<1>1. CASE Start(n)
  <2>1. PICK e \in 1..held[n] : call' = [call EXCEPT ![n] = [step |-> "lock", epoch |-> e]]
    BY <1>1 DEF Start
  <2>2. [step |-> "lock", epoch |-> e] \in CallRecords /\ [step |-> "lock", epoch |-> e].step \notin UnderWay
    <3>1. e \in Nat
      BY <1>1, StartNumbers
    <3> QED
      BY <3>1 DEF CallRecords, UnderWay
  <2>3. calls' \in [Nodes -> 0..MaxCalls]
    <3>1. calls[n] + 1 \in 0..MaxCalls
      BY <1>1, StartNumbers
    <3> QED
      BY <1>0, <1>1, <3>1 DEF Start
  <2>4. lock[n] # "call"
    BY <1>1 DEF Start, MutexInvariant, MutexHeld, UnderWay
  <2>5. lock' = [lock EXCEPT ![n] = lock[n]] /\ UNCHANGED <<valid, peer, worker>>
    BY <1>1 DEF Start
  <2> QED
    BY <2>1, <2>2, <2>3, <2>4, <2>5, CallChanges
<1>2. CASE Locks(n)
  <2>1. calls' \in [Nodes -> 0..MaxCalls] /\ UNCHANGED <<valid, peer, worker>> /\ lock[n] = ""
    BY <1>0, <1>2 DEF Locks, Free
  <2>2. CASE valid[n] /\ lock' = [lock EXCEPT ![n] = "call"] /\ To(n, "commit")
    <3>1. call' = [call EXCEPT ![n] = [call[n] EXCEPT !.step = "commit"]] /\ call[n] \in CallRecords
      BY <1>2, <2>2 DEF Locks, At, To
    <3> QED
      BY <2>1, <2>2, <3>1, CallChanges DEF UnderWay
  <2>3. CASE call' = [call EXCEPT ![n] = None] /\ UNCHANGED lock
    BY <2>1, <2>3, CallChanges DEF UnderWay
  <2> QED
    BY <1>2, <2>2, <2>3 DEF Locks
<1>3. CASE Execute(n)
  <2>1. calls' \in [Nodes -> 0..MaxCalls] /\ UNCHANGED <<valid, peer, worker>>
        /\ lock' = [lock EXCEPT ![n] = ""] /\ lock[n] = "call"
    BY <1>0, <1>3 DEF Execute, Unlocked, At, MutexInvariant, MutexHeld, UnderWay
  <2>2. CASE call' = [call EXCEPT ![n] = None]
    BY <2>1, <2>2, CallChanges DEF UnderWay
  <2>3. CASE To(n, "relock")
    <3>1. call' = [call EXCEPT ![n] = [call[n] EXCEPT !.step = "relock"]] /\ call[n] \in CallRecords
      BY <1>3, <2>3 DEF Execute, At, To
    <3> QED
      BY <2>1, <3>1, CallChanges DEF UnderWay
  <2> QED
    BY <1>3, <2>2, <2>3 DEF Execute
<1>4. CASE Forward(n)
  <2>1. calls' \in [Nodes -> 0..MaxCalls] /\ UNCHANGED <<valid, peer, worker>> /\ lock[n] = ""
    BY <1>0, <1>4 DEF Forward, Free
  <2>2. CASE /\ valid[n] /\ lock' = [lock EXCEPT ![n] = "call"]
             /\ call' = [call EXCEPT ![n] = [@ EXCEPT !.step = "await"]]
    <3>1. call' = [call EXCEPT ![n] = [call[n] EXCEPT !.step = "await"]] /\ call[n] \in CallRecords
      BY <1>4, <2>2 DEF Forward, At
    <3> QED
      BY <2>1, <2>2, <3>1, CallChanges DEF UnderWay
  <2>3. CASE call' = [call EXCEPT ![n] = None] /\ UNCHANGED lock
    BY <2>1, <2>3, CallChanges DEF UnderWay
  <2> QED
    BY <1>4, <2>2, <2>3 DEF Forward, Recheck
<1>5. CASE Answers(n) \/ TimesOut(n)
  <2>1. calls' \in [Nodes -> 0..MaxCalls] /\ UNCHANGED <<valid, peer, worker>>
        /\ lock' = [lock EXCEPT ![n] = ""] /\ lock[n] = "call" /\ call' = [call EXCEPT ![n] = None]
    BY <1>0, <1>5 DEF Answers, TimesOut, TimeLimit, Unlocked, At, MutexInvariant, MutexHeld, UnderWay
  <2> QED
    BY <2>1, CallChanges DEF UnderWay
<1> QED
  BY <1>1, <1>2, <1>3, <1>4, <1>5 DEF Calling

LEMMA ServingKeepsMutex ==
  ASSUME CallsAssumption, LogInvariant, MutexInvariant, NEW n \in Nodes, Serving(n) \/ Arrives(n)
  PROVE  MutexInvariant'
<1>0. call \in [Nodes -> {None} \cup CallRecords]
  BY DEF MutexInvariant, CallTypes
<1>1. CASE PeerLocks(n)
  <2>1. lock' = [lock EXCEPT ![n] = "peer"] /\ lock[n] = "" /\ peer[n].step = "lock"
        /\ peer' = [peer EXCEPT ![n] = [peer[n] EXCEPT !.step = "commit"]]
        /\ call' = call /\ UNCHANGED <<valid, calls, worker>>
    BY <1>1 DEF PeerLocks, Free
  <2>2. peer[n] \in PeerRecords
    BY <2>1, NodeTypes
  <2>3. /\ [peer[n] EXCEPT !.step = "commit"] \in PeerRecords
        /\ [peer[n] EXCEPT !.step = "commit"].step = "commit"
        /\ [peer[n] EXCEPT !.step = "commit"].from = peer[n].from
    BY <2>2 DEF PeerRecords
  <2>4. peer[n].from[1] # n
    BY <2>2, NoneStep DEF MutexInvariant, FromElsewhere
  <2> QED
    BY <1>0, <2>1, <2>3, <2>4, PeerChanges
<1>2. CASE PeerExecutes(n)
  <2>1. lock' = [lock EXCEPT ![n] = ""] /\ peer[n].step = "commit" /\ peer' = [peer EXCEPT ![n] = None]
        /\ UNCHANGED <<valid, calls, worker>>
    BY <1>2 DEF PeerExecutes, Unlocked
  <2>2. lock[n] = "peer"
    BY <2>1 DEF MutexInvariant, MutexHeld
  <2>3. /\ call' \in [Nodes -> {None} \cup CallRecords]
        /\ \A k \in Nodes : call'[k].step \in UnderWay <=> call[k].step \in UnderWay
    <3> DEFINE k == peer[n].from[1]
    <3>1. k \in Nodes
      <4>1. peer[n] \in PeerRecords
        BY <2>1, NodeTypes
      <4> QED
        BY <4>1 DEF PeerRecords
    <3>2. CASE At(k, "sent") /\ To(k, "answered")
      <4>1. call[k] \in CallRecords /\ call[k].step = "sent"
        BY <3>1, <3>2, NodeTypes DEF At
      <4>2. /\ [call[k] EXCEPT !.step = "answered"] \in CallRecords
            /\ [call[k] EXCEPT !.step = "answered"].step = "answered"
        BY <4>1, CallMoves DEF UnderWay
      <4>3. call' = [call EXCEPT ![k] = [call[k] EXCEPT !.step = "answered"]]
        BY <3>2 DEF To
      <4> HIDE DEF k
      <4> QED
        BY <1>0, <3>1, <4>1, <4>2, <4>3 DEF UnderWay
    <3>3. CASE call' = call
      BY <1>0, <3>3
    <3> QED
      BY <1>2, <3>2, <3>3 DEF PeerExecutes
  <2> QED
    BY <2>1, <2>2, <2>3, NoneStep, PeerChanges
<1>3. CASE Arrives(n)
  <2> DEFINE m == PrimaryAt(n)
             p == [step |-> "lock", from |-> <<n, calls[n]>>, epoch |-> call[n].epoch]
  <2>1. At(n, "await") /\ To(n, "sent") /\ m # n /\ peer[m] = None /\ peer' = [peer EXCEPT ![m] = p]
        /\ UNCHANGED <<lock, valid, calls, worker>>
    BY <1>3 DEF Arrives
  <2>2. m \in Nodes
    <3>1. held[n] \in 1..Epoch
      BY LogNumbers
    <3> QED
      BY <3>1, LogNumbers DEF PrimaryAt
  <2>3. call[n] \in CallRecords /\ call[n].step = "await"
    BY <2>1, NodeTypes DEF At
  <2>4. p \in PeerRecords /\ p.step = "lock" /\ p.from[1] = n
    <3>1. calls[n] \in Nat
      <4>1. calls[n] \in 0..MaxCalls
        BY NodeTypes
      <4> QED
        BY <4>1
    <3> QED
      BY <2>3, <3>1 DEF PeerRecords, CallRecords
  <2>5. /\ call' \in [Nodes -> {None} \cup CallRecords]
        /\ \A k \in Nodes : call'[k].step \in UnderWay <=> call[k].step \in UnderWay
    <3>1. /\ [call[n] EXCEPT !.step = "sent"] \in CallRecords
          /\ [call[n] EXCEPT !.step = "sent"].step = "sent"
      BY <2>3, CallMoves DEF UnderWay
    <3>2. call' = [call EXCEPT ![n] = [call[n] EXCEPT !.step = "sent"]]
      BY <2>1 DEF To
    <3> QED
      BY <1>0, <2>3, <3>1, <3>2 DEF UnderWay
  <2>6. lock' = [lock EXCEPT ![m] = lock[m]] /\ lock[m] \in {"", "call", "peer"} /\ lock[m] # "peer"
    <3>1. lock[m] # "peer"
      BY <2>1, <2>2, NoneStep DEF MutexInvariant, MutexHeld
    <3> QED
      BY <2>1, <2>2, <3>1 DEF MutexInvariant, CallTypes
  <2> HIDE DEF m, p
  <2> QED
    BY <2>1, <2>2, <2>4, <2>5, <2>6, PeerChanges
<1> QED
  BY <1>1, <1>2, <1>3 DEF Serving

LEMMA RestKeepsMutex ==
  ASSUME CallsAssumption, LogInvariant, MutexInvariant, NEW n \in Nodes,
         WorkerReads(n) \/ commit_authorized(n) \/ Import(n) \/ Remove(n) \/ \E m \in Nodes : Seal(n, m)
  PROVE  MutexInvariant'
<1>1. UNCHANGED <<lock, call, calls, peer>>
  BY DEF WorkerReads, commit_authorized, Import, Remove, Seal
<1>2. worker' \in [Nodes -> {None} \cup WorkerRecords]
  <2>1. worker \in [Nodes -> {None} \cup WorkerRecords]
    BY DEF MutexInvariant, CallTypes
  <2>2. CASE WorkerReads(n)
    <3>1. [step |-> "commit", epoch |-> held[n]] \in WorkerRecords
      <4>1. held[n] \in Nat
        BY LogNumbers
      <4> QED
        BY <4>1 DEF WorkerRecords
    <3> QED
      BY <2>1, <2>2, <3>1 DEF WorkerReads
  <2>3. CASE ~WorkerReads(n)
    BY <2>1, <2>3 DEF commit_authorized, Import, Remove, Seal
  <2> QED
    BY <2>2, <2>3
<1>3. CallTypes'
  BY <1>1, <1>2 DEF MutexInvariant, CallTypes
<1>4. MutexHeld' /\ FromElsewhere'
  BY <1>1 DEF MutexInvariant, MutexHeld, FromElsewhere
<1>5. CASE UNCHANGED valid
  <2>1. ValidType'
    BY <1>5, Zenon DEF MutexInvariant, ValidType
  <2>2. PairedUnderWay'
    BY <1>1, <1>5, Zenon DEF MutexInvariant, PairedUnderWay
  <2> QED
    BY <1>3, <1>4, <2>1, <2>2 DEF MutexInvariant
<1>6. CASE Remove(n)
  <2>1. ValidType'
    BY <1>6 DEF MutexInvariant, ValidType, Remove
  <2>2. \A k \in Nodes : k # n => valid'[k] = valid[k]
    BY <1>6, Zenon DEF MutexInvariant, ValidType, Remove
  <2>3. call[n].step \notin UnderWay
    BY <1>6 DEF Remove, RemoveLocked, Free, MutexInvariant, MutexHeld
  <2>4. PairedUnderWay'
    BY <1>1, <2>2, <2>3, Zenon DEF MutexInvariant, PairedUnderWay
  <2> QED
    BY <1>3, <1>4, <2>1, <2>4 DEF MutexInvariant
<1> QED
  BY <1>5, <1>6 DEF WorkerReads, commit_authorized, Import, Seal

LEMMA CallsPreserved ==
  ASSUME CallsAssumption, CallsInvariant, [Next]_vars PROVE CallsInvariant'
<1>1. CASE Next
  <2>1. LogInvariant'
    BY <1>1, NextIsLogStep, LogStepKeeps DEF CallsInvariant
  <2>2. MutexInvariant'
    BY <1>1, CallingKeepsMutex, ServingKeepsMutex, RestKeepsMutex DEF Next, CallsInvariant
  <2> QED
    BY <2>1, <2>2 DEF CallsInvariant
<1>2. CASE UNCHANGED vars
  <2>1. LogStep
    BY <1>2 DEF vars, LogStep
  <2>2. CallTypes' /\ MutexHeld' /\ FromElsewhere'
    BY <1>2 DEF vars, CallsInvariant, MutexInvariant, CallTypes, MutexHeld, FromElsewhere
  <2>3. ValidType' /\ PairedUnderWay'
    BY <1>2, Zenon DEF vars, CallsInvariant, MutexInvariant, ValidType, PairedUnderWay
  <2> QED
    BY <2>1, <2>2, <2>3, LogStepKeeps DEF CallsInvariant, MutexInvariant
<1> QED
  BY <1>1, <1>2

-----------------------------------------------------------------------------
(* Every reachable state has the types and satisfies both invariants.       *)
THEOREM CallsAreSound ==
  ASSUME CallsAssumption PROVE Spec => [](TypeOK /\ CallsInvariant)
<1>1. CallsInvariant => TypeOK /\ CallsInvariant
  BY InvariantImpliesType
<1>2. Init => CallsInvariant
  BY CallsEstablished
<1>3. CallsInvariant /\ [Next]_vars => CallsInvariant'
  BY CallsPreserved
<1> QED
  BY <1>1, <1>2, <1>3, PTL DEF Spec

(* An entry is written by the primary of the epoch it is written in, which  *)
(* is the last one: however old the log a call, a peer request or a worker  *)
(* has read (append, commit_authorized).                                    *)
THEOREM PrimaryWritesAlone ==
  ASSUME CallsAssumption PROVE Spec => []OnlyPrimaryWrites
<1>1. CallsInvariant => OnlyPrimaryWrites
  BY DEF CallsInvariant, LogInvariant
<1> QED
  BY <1>1, CallsAreSound, PTL

\* What a client's call adds to the log, and when a call comes to be dispatched.
Ignored(n) ==
    /\ \A e \in log'.entries \ log.entries : ~(e.by = n /\ e.client = <<n, calls[n]>>)
    /\ At(n, "await")' => At(n, "await")

LEMMA CommitAdds ==
  ASSUME LogInvariant, NEW n, NEW c, Commit(n, c)
  PROVE  \A e \in log'.entries \ log.entries : e.by = n /\ e.client = c
<1>1. log'.entries = log.entries \cup {Entry(n, c)}
  BY DEF LogInvariant, LogShape, Commit
<1> QED
  BY <1>1 DEF Entry

LEMMA RemovedIsIgnored ==
  ASSUME CallsAssumption, CallsInvariant, Next, NEW n \in Nodes, ~valid[n]
  PROVE  Ignored(n)
<1> USE DEF CallsInvariant
<1>1. call[n].step \notin UnderWay
  BY DEF MutexInvariant, PairedUnderWay
<1>2. PICK m \in Nodes :
        \/ Start(m) \/ Calling(m) \/ Serving(m) \/ WorkerReads(m) \/ commit_authorized(m)
        \/ Import(m) \/ Remove(m) \/ Arrives(m) \/ \E k \in Nodes : Seal(m, k)
  BY DEF Next
<1>3. CASE m = n /\ Calling(n)
  <2>1. log' = log
    BY <1>1, <1>3 DEF Calling, Locks, Execute, Forward, Answers, TimesOut, At, UnderWay
  <2>2. ~At(n, "await")'
    <3>1. CASE Locks(n) \/ Forward(n)
      BY <3>1, NoneStep DEF Locks, Forward, Recheck, At, MutexInvariant, CallTypes
    <3>2. CASE Execute(n) \/ Answers(n) \/ TimesOut(n)
      BY <1>1, <3>2 DEF Execute, Answers, TimesOut, TimeLimit, At, UnderWay
    <3> QED
      BY <1>3, <3>1, <3>2 DEF Calling
  <2> QED
    BY <2>1, <2>2 DEF Ignored
<1>4. CASE ~(m = n /\ Calling(n))
  <2>1. call'[n].step # "await"
    <3>1. CASE call' = call
      BY <1>1, <3>1 DEF UnderWay
    <3>2. CASE Start(m)
      <4>1. PICK e : call' = [call EXCEPT ![m] = [step |-> "lock", epoch |-> e]]
        BY <3>2 DEF Start
      <4> QED
        BY <1>1, <4>1 DEF UnderWay, MutexInvariant, CallTypes
    <3>3. CASE m # n /\ (Calling(m) \/ Arrives(m))
      <4>1. call'[n] = call[n]
        BY <3>3 DEF Calling, Locks, Execute, Forward, Answers, TimesOut, Arrives, To, MutexInvariant, CallTypes
      <4> QED
        BY <1>1, <4>1 DEF UnderWay
    <3>4. CASE PeerExecutes(m)
      <4> DEFINE j == peer[m].from[1]
      <4>1. CASE At(j, "sent") /\ To(j, "answered")
        <5>1. j # n
          BY <1>1, <4>1 DEF At, UnderWay
        <5>2. call' = [call EXCEPT ![j] = [call[j] EXCEPT !.step = "answered"]]
          BY <4>1 DEF To
        <5> HIDE DEF j
        <5>3. call'[n] = call[n]
          BY <5>1, <5>2 DEF MutexInvariant, CallTypes
        <5> QED
          BY <1>1, <5>3 DEF UnderWay
      <4> QED
        BY <3>1, <3>4, <4>1 DEF PeerExecutes
    <3>5. CASE m = n /\ Arrives(n)
      BY <1>1, <3>5 DEF Arrives, At, UnderWay
    <3> QED
      BY <1>2, <1>4, <3>1, <3>2, <3>3, <3>4, <3>5
         DEF Serving, PeerLocks, WorkerReads, commit_authorized, Import, Remove, Seal
  <2>2. ASSUME NEW e \in log'.entries \ log.entries, e.by = n, e.client = <<n, calls[n]>> PROVE FALSE
    <3>1. CASE log'.entries = log.entries
      BY <2>2, <3>1
    <3>2. CASE m # n /\ Commit(m, <<m, calls[m]>>)
      BY <2>2, <3>2, CommitAdds
    <3>3. CASE Commit(m, <<"worker">>)
      BY <2>2, <3>3, CommitAdds
    <3>4. CASE Commit(m, peer[m].from) /\ peer[m].step = "commit"
      <4>1. e.by = m /\ e.client = peer[m].from
        BY <2>2, <3>4, CommitAdds
      <4>2. peer[m].from[1] # m
        BY <3>4, NoneStep DEF MutexInvariant, FromElsewhere
      <4> QED
        BY <2>2, <4>1, <4>2
    <3>5. CASE \E k \in Nodes : Seal(m, k)
      BY <3>1, <3>5 DEF Seal, LogInvariant, LogShape
    <3> QED
      BY <1>2, <1>4, <3>1, <3>2, <3>3, <3>4, <3>5
         DEF Start, Calling, Locks, Execute, Forward, Answers, TimesOut, Serving, PeerLocks, PeerExecutes,
             WorkerReads, commit_authorized, Import, Remove, Arrives
  <2> QED
    BY <2>1, <2>2 DEF Ignored, At
<1> QED
  BY <1>3, <1>4

(* A client whose credential was removed has no more effect: nothing of its *)
(* own is written at its node, and no call of it is dispatched (cluster_rpc *)
(* holds the credential guard through the transaction, and looks again      *)
(* before it forwards).                                                     *)
THEOREM RemovedHasNoEffect ==
  ASSUME CallsAssumption PROVE Spec => NothingAfterRemoval
<1> DEFINE Step == \A n \in Nodes : ~valid[n] => Ignored(n)
<1>1. CallsInvariant /\ [Next]_vars => [Step]_vars
  BY RemovedIsIgnored
<1>2. [][Step]_vars <=> NothingAfterRemoval
  BY PTL DEF NothingAfterRemoval, Ignored
<1> HIDE DEF Step
<1> QED
  BY <1>1, <1>2, CallsAreSound, PTL DEF Spec

-----------------------------------------------------------------------------
(***************************************************************************)
(* The adoption of clients (ClusterAdoption), for any number of owners and *)
(* grants and any history. A grant whose owner has left is never accepted  *)
(* any more: its row is cancelled while it waits in the outbox, unless the *)
(* issuer has not seen it accepted yet (LateRows), and whoever is the      *)
(* primary has seen the whole history (PrimaryHoldsAll).                   *)
(***************************************************************************)
CONSTANTS Owners, Grants, MAX_OUTBOX, MaxLog
VARIABLES grantLog, local, paired, row, cancelled, expired, dispatching, outboxWorker, wire, late
A == INSTANCE ClusterAdoption WITH log <- grantLog, lock <- dispatching, worker <- outboxWorker

\* The first k entries of the history.
Prefix(s, k) == SubSeq(s, 1, k)

\* The values of the state.
AdoptionTypes ==
    /\ \E S : grantLog \in Seq(S)
    /\ local \in 0..Len(grantLog) /\ paired \subseteq Owners
    /\ row \in [Grants -> A!Rows \cup {A!None}]
    /\ cancelled \subseteq Grants /\ expired \subseteq Grants /\ late \subseteq Grants

\* A node that is the primary holds the whole log, and so it will when it learns that it is.
PrimaryHoldsAll ==
    \A k \in local..Len(grantLog) :
        A!PrimaryOf(Prefix(grantLog, k)) = "issuer" => k = Len(grantLog)

\* A grant whose owner left keeps a row until it expires, and while it is in the outbox it is
\* cancelled unless the issuer has not seen it accepted.
LateRows ==
    \A g \in late :
        /\ row[g] = A!None => g \in expired
        /\ row[g] # A!None => row[g].owner \notin paired
        /\ row[g].type = "outbox" => g \in cancelled \/ g \notin A!Active(A!Held)
        /\ row[g].type = "receipt" => g \in A!Revoked(A!Held)

\* Inductive together.
AdoptionInvariant == AdoptionTypes /\ PrimaryHoldsAll /\ LateRows

\* What SubSeq gives of a prefix.
LEMMA PrefixFacts ==
    ASSUME NEW S, NEW s \in Seq(S), NEW k \in 0..Len(s)
    PROVE  /\ Prefix(s, k) \in Seq(S) /\ Len(Prefix(s, k)) = k
           /\ \A i \in 1..k : Prefix(s, k)[i] = s[i]
           /\ Prefix(s, Len(s)) = s
  <1>1. /\ SubSeq(s, 1, k) \in Seq(S)
        /\ Len(SubSeq(s, 1, k)) = IF 1 <= k THEN k - 1 + 1 ELSE 0
        /\ \A i \in 1 .. k - 1 + 1 : SubSeq(s, 1, k)[i] = s[1 + i - 1]
    BY SubSeqProperties
  <1>2. SubSeq(s, 1, Len(s)) = s
    BY SubSeqFull
  <1>3. k - 1 + 1 = k /\ \A i \in 1..k : 1 + i - 1 = i
    OBVIOUS
  <1> QED  BY <1>1, <1>2, <1>3 DEF Prefix

\* A longer history holds the shorter one as its prefix.
LEMMA AppendFacts ==
    ASSUME NEW S, NEW s \in Seq(S), NEW e
    PROVE  /\ Append(s, e) \in Seq(S \cup {e}) /\ Len(Append(s, e)) = Len(s) + 1
           /\ \A i \in 1..Len(s) : Append(s, e)[i] = s[i]
           /\ Append(s, e)[Len(s) + 1] = e
           /\ \A k \in 0..Len(s) : Prefix(Append(s, e), k) = Prefix(s, k)
  <1>0. s \in Seq(S \cup {e}) /\ Len(s) \in Nat /\ DOMAIN s = 1..Len(s)
    OBVIOUS
  <1>1. /\ Append(s, e) \in Seq(S \cup {e}) /\ Len(Append(s, e)) = Len(s) + 1
        /\ \A i \in 1..Len(s) : Append(s, e)[i] = s[i]
        /\ Append(s, e)[Len(s) + 1] = e
    BY <1>0, AppendProperties
  <1>2. ASSUME NEW k \in 0..Len(s) PROVE Prefix(Append(s, e), k) = Prefix(s, k)
    <2>1. k \in 0..Len(Append(s, e))
      BY <1>0, <1>1
    <2>2. /\ Prefix(Append(s, e), k) \in Seq(S \cup {e}) /\ Len(Prefix(Append(s, e), k)) = k
          /\ \A i \in 1..k : Prefix(Append(s, e), k)[i] = Append(s, e)[i]
      BY <1>1, <2>1, PrefixFacts
    <2>3. /\ Prefix(s, k) \in Seq(S \cup {e}) /\ Len(Prefix(s, k)) = k
          /\ \A i \in 1..k : Prefix(s, k)[i] = s[i]
      BY <1>0, PrefixFacts
    <2>4. \A i \in 1..k : i \in 1..Len(s)
      BY <1>0
    <2>5. \A i \in 1..k : Prefix(Append(s, e), k)[i] = Prefix(s, k)[i]
      BY <1>1, <2>2, <2>3, <2>4
    <2> HIDE DEF Prefix
    <2> QED  BY <2>2, <2>3, <2>5, SeqEqual
  <1> QED  BY <1>1, <1>2

\* A longer history has accepted and revoked what a shorter one has.
LEMMA LongerHasMore ==
    ASSUME NEW S, NEW s \in Seq(S), NEW k \in 0..Len(s), NEW j \in 0..k, NEW type
    PROVE  A!GrantsOf(Prefix(s, j), type) \subseteq A!GrantsOf(Prefix(s, k), type)
  <1>1. /\ DOMAIN Prefix(s, j) = 1..j /\ \A i \in 1..j : Prefix(s, j)[i] = s[i]
        /\ DOMAIN Prefix(s, k) = 1..k /\ \A i \in 1..k : Prefix(s, k)[i] = s[i]
    <2>1. j \in 0..Len(s)
      OBVIOUS
    <2> QED  BY <2>1, PrefixFacts
  <1>2. 1..j \subseteq 1..k
    OBVIOUS
  <1> HIDE DEF Prefix
  <1> QED  BY <1>1, <1>2 DEF A!GrantsOf

\* An entry adds its grant to those of its type.
LEMMA GrantsAppended ==
    ASSUME NEW S, NEW s \in Seq(S), NEW e, NEW type
    PROVE  A!GrantsOf(Append(s, e), type) =
               A!GrantsOf(s, type) \cup (IF e.type = type THEN {e.grant} ELSE {})
  <1>1. /\ DOMAIN Append(s, e) = 1..(Len(s) + 1) /\ DOMAIN s = 1..Len(s) /\ Len(s) \in Nat
        /\ \A i \in 1..Len(s) : Append(s, e)[i] = s[i]
        /\ Append(s, e)[Len(s) + 1] = e
    BY AppendFacts
  <1>2. 1..(Len(s) + 1) = 1..Len(s) \cup {Len(s) + 1}
    BY <1>1
  <1> DEFINE t == Append(s, e)
  <1>3. t = Append(s, e)
    OBVIOUS
  <1> HIDE DEF t
  <1>4. {j \in DOMAIN t : t[j].type = type} =
            {j \in DOMAIN s : s[j].type = type}
               \cup (IF e.type = type THEN {Len(s) + 1} ELSE {})
    BY <1>1, <1>2, <1>3
  <1>5. \A j \in {j \in DOMAIN s : s[j].type = type} : t[j].grant = s[j].grant
    BY <1>1, <1>3
  <1>6. t[Len(s) + 1].grant = e.grant
    BY <1>1, <1>3
  <1>7. A!GrantsOf(t, type) = A!GrantsOf(s, type) \cup (IF e.type = type THEN {e.grant} ELSE {})
    BY <1>4, <1>5, <1>6 DEF A!GrantsOf
  <1> QED  BY <1>3, <1>7

\* The issuer that is the primary sees the whole history.
LEMMA HeldFacts ==
    ASSUME AdoptionTypes
    PROVE  /\ local = Len(grantLog) => A!Held = grantLog
           /\ A!Held = Prefix(grantLog, local)
           /\ PrimaryHoldsAll => (A!IsPrimary => local = Len(grantLog))
           /\ PrimaryHoldsAll => (A!PrimaryOf(grantLog) = "issuer" =>
                                     A!PrimaryOf(Prefix(grantLog, Len(grantLog))) = "issuer")
  <1>1. PICK S : grantLog \in Seq(S)
    BY DEF AdoptionTypes
  <1>2. Prefix(grantLog, Len(grantLog)) = grantLog /\ Len(grantLog) \in Nat
    <2>1. Len(grantLog) \in Nat /\ Len(grantLog) \in 0..Len(grantLog)
      BY <1>1
    <2> QED  BY <1>1, <2>1, PrefixFacts
  <1>3. A!Held = Prefix(grantLog, local)
    BY DEF A!Held, Prefix
  <1>4. local \in local..Len(grantLog)
    BY <1>2 DEF AdoptionTypes
  <1> QED  BY <1>2, <1>3, <1>4 DEF A!IsPrimary, PrimaryHoldsAll

\* maintain leaves a row its owner and its type, or removes what has expired.
LEMMA MaintainedFacts ==
    ASSUME AdoptionTypes
    PROVE  /\ A!Maintained \in [Grants -> A!Rows \cup {A!None}]
           /\ \A g \in Grants :
                /\ A!Maintained[g] = A!None <=> (row[g] = A!None \/ g \in expired)
                /\ A!Maintained[g] # A!None => A!Maintained[g].owner = row[g].owner
                /\ A!Maintained[g].type = "outbox" => row[g].type = "outbox" /\ ~A!Settled(g)
                /\ A!Maintained[g].type = "receipt" =>
                        \/ row[g].type = "receipt"
                        \/ row[g].type = "outbox" /\ A!Settled(g)
  <1> DEFINE new(g) == IF row[g] = A!None \/ g \in expired THEN A!None
                       ELSE IF row[g].type = "outbox" /\ A!Settled(g)
                            THEN [row[g] EXCEPT !.type = "receipt"]
                       ELSE row[g]
  <1>1. A!Maintained = [g \in Grants |-> new(g)]
    BY DEF A!Maintained
  <1>2. ASSUME NEW g \in Grants
        PROVE  /\ new(g) \in A!Rows \cup {A!None}
               /\ new(g) = A!None <=> (row[g] = A!None \/ g \in expired)
               /\ new(g) # A!None => new(g).owner = row[g].owner
               /\ new(g).type = "outbox" => row[g].type = "outbox" /\ ~A!Settled(g)
               /\ new(g).type = "receipt" => \/ row[g].type = "receipt"
                                             \/ row[g].type = "outbox" /\ A!Settled(g)
    <2>1. row[g] \in A!Rows \cup {A!None}
      BY DEF AdoptionTypes
    <2>2. \A x \in A!Rows : x # A!None /\ x.type \in {"outbox", "receipt"}
      BY DEF A!Rows, A!None
    <2>3. A!None.type = "none"
      BY DEF A!None
    <2>4. CASE row[g] = A!None \/ g \in expired
      BY <2>3, <2>4
    <2>5. CASE row[g] # A!None /\ g \notin expired /\ row[g].type = "outbox" /\ A!Settled(g)
      <3>1. row[g] \in A!Rows
        BY <2>1, <2>5
      <3>2. /\ [row[g] EXCEPT !.type = "receipt"] \in A!Rows
            /\ [row[g] EXCEPT !.type = "receipt"].type = "receipt"
            /\ [row[g] EXCEPT !.type = "receipt"].owner = row[g].owner
        BY <3>1 DEF A!Rows
      <3>3. new(g) = [row[g] EXCEPT !.type = "receipt"]
        BY <2>5
      <3> HIDE DEF new
      <3> QED  BY <2>2, <2>5, <3>2, <3>3
    <2>6. CASE row[g] # A!None /\ g \notin expired /\ ~(row[g].type = "outbox" /\ A!Settled(g))
      BY <2>1, <2>2, <2>3, <2>6
    <2> QED  BY <2>4, <2>5, <2>6
  <1> HIDE DEF new
  <1> QED  BY <1>1, <1>2

\* The rows a maintenance leaves, with the cancellations that go with it, are sound for any
\* longer history: a late grant that is still in the outbox is cancelled.
LEMMA CancelKeeps ==
    ASSUME AdoptionTypes, LateRows, late' = late, paired' = paired, expired' = expired,
           cancelled' = A!Cancelled, A!Revoked(A!Held) \subseteq A!Revoked(A!Held)',
           row' \in [Grants -> A!Rows \cup {A!None}],
           \A g \in late : /\ row'[g] = A!None <=> A!Maintained[g] = A!None
                           /\ row'[g] # A!None => row'[g].owner = A!Maintained[g].owner
                           /\ row'[g].type = A!Maintained[g].type
    PROVE  LateRows' /\ cancelled' \subseteq Grants
  <1>1. cancelled' \subseteq Grants
    BY DEF A!Cancelled, A!InOutbox
  <1>2. ASSUME NEW g \in late
        PROVE  /\ row'[g] = A!None => g \in expired
               /\ row'[g] # A!None => row'[g].owner \notin paired
               /\ row'[g].type = "outbox" => g \in cancelled'
               /\ row'[g].type = "receipt" => g \in A!Revoked(A!Held)'
    <2>1. g \in Grants
      BY DEF AdoptionTypes
    <2>2. /\ A!Maintained[g] = A!None <=> (row[g] = A!None \/ g \in expired)
          /\ A!Maintained[g] # A!None => A!Maintained[g].owner = row[g].owner
          /\ A!Maintained[g].type = "outbox" => row[g].type = "outbox" /\ ~A!Settled(g)
          /\ A!Maintained[g].type = "receipt" => \/ row[g].type = "receipt"
                                                 \/ row[g].type = "outbox" /\ A!Settled(g)
      BY <2>1, MaintainedFacts
    <2>3. /\ row'[g] = A!None <=> A!Maintained[g] = A!None
          /\ row'[g] # A!None => row'[g].owner = A!Maintained[g].owner
          /\ row'[g].type = A!Maintained[g].type
      OBVIOUS
    <2>4. row[g] # A!None => row[g].owner \notin paired
      BY DEF LateRows
    <2>5. row'[g] = A!None => g \in expired
      BY <2>2, <2>3 DEF LateRows
    <2>6. row'[g] # A!None => row'[g].owner \notin paired
      BY <2>2, <2>3, <2>4
    <2>7. row'[g].type = "outbox" => g \in cancelled'
      <3>1. A!None.type = "none"
        BY DEF A!None
      <3> QED  BY <2>1, <2>2, <2>3, <2>4, <3>1 DEF A!Cancelled, A!InOutbox
    <2>8. row'[g].type = "receipt" => g \in A!Revoked(A!Held)'
      <3>1. A!Settled(g) /\ row[g].type = "outbox" => g \in A!Revoked(A!Held)
        BY DEF A!Settled, LateRows
      <3>2. row[g].type = "receipt" => g \in A!Revoked(A!Held)
        BY DEF LateRows
      <3> QED  BY <2>2, <2>3, <3>1, <3>2
    <2> QED  BY <2>5, <2>6, <2>7, <2>8
  <1> QED  BY <1>1, <1>2 DEF LateRows

\* cancel_inactive itself, with an import of a longer history or none.
LEMMA CancelInactiveKeeps ==
    ASSUME AdoptionInvariant, A!cancel_inactive, UNCHANGED <<late, paired, expired, grantLog>>,
           local' \in local..Len(grantLog)
    PROVE  AdoptionInvariant'
  <1>1. PICK S : grantLog \in Seq(S)
    BY DEF AdoptionInvariant, AdoptionTypes
  <1>2. /\ local \in 0..Len(grantLog) /\ Len(grantLog) \in Nat
        /\ local' \in 0..Len(grantLog) /\ local \in 0..local'
    BY <1>1 DEF AdoptionInvariant, AdoptionTypes
  <1>3. A!Held = Prefix(grantLog, local) /\ A!Held' = Prefix(grantLog, local')
    BY DEF A!Held, Prefix
  <1>4. A!Revoked(A!Held) \subseteq A!Revoked(A!Held)'
    <2>1. A!GrantsOf(Prefix(grantLog, local), "revoke") \subseteq
              A!GrantsOf(Prefix(grantLog, local'), "revoke")
      BY <1>1, <1>2, LongerHasMore
    <2>2. A!GrantsOf(A!Held, "revoke")' = A!GrantsOf(A!Held', "revoke")
      BY DEF A!GrantsOf
    <2> QED  BY <1>3, <2>1, <2>2 DEF A!Revoked
  <1>5. /\ row' \in [Grants -> A!Rows \cup {A!None}] /\ row' = A!Maintained
        /\ cancelled' = A!Cancelled
    BY MaintainedFacts DEF A!cancel_inactive, AdoptionInvariant
  <1>6. LateRows' /\ cancelled' \subseteq Grants
    BY <1>4, <1>5, CancelKeeps DEF AdoptionInvariant
  <1>7. AdoptionTypes'
    BY <1>2, <1>5, <1>6 DEF AdoptionInvariant, AdoptionTypes
  <1>8. PrimaryHoldsAll'
    <2>1. ASSUME NEW k \in local'..Len(grantLog), A!PrimaryOf(Prefix(grantLog, k)) = "issuer"
          PROVE  k = Len(grantLog)
      <3>1. k \in local..Len(grantLog)
        BY <1>2
      <3> QED  BY <2>1, <3>1 DEF AdoptionInvariant, PrimaryHoldsAll
    <2>2. \A k : A!PrimaryOf(Prefix(grantLog, k))' = A!PrimaryOf(Prefix(grantLog, k))
      BY DEF A!PrimaryOf, A!Transfers, Prefix
    <2> QED  BY <2>1, <2>2 DEF PrimaryHoldsAll
  <1> QED  BY <1>6, <1>7, <1>8 DEF AdoptionInvariant

\* What the issuer sees depends on the prefix it holds.
LEMMA PrimedFacts ==
    /\ \A k : A!PrimaryOf(Prefix(grantLog, k))' = A!PrimaryOf(Prefix(grantLog', k'))
    /\ A!Revoked(A!Held)' = A!Revoked(Prefix(grantLog', local'))
    /\ A!Active(A!Held)' = A!Active(Prefix(grantLog', local'))
    /\ A!Held = Prefix(grantLog, local)
  BY DEF A!PrimaryOf, A!Transfers, A!Revoked, A!Active, A!GrantsOf, A!Held, Prefix

\* Nothing is appended, and cancelled or expired grows.
LEMMA StayKeeps ==
    ASSUME AdoptionInvariant, UNCHANGED <<grantLog, local, paired, row, late>>,
           expired \subseteq expired', expired' \subseteq Grants,
           cancelled \subseteq cancelled', cancelled' \subseteq Grants
    PROVE  AdoptionInvariant'
  <1>1. AdoptionTypes'
    BY DEF AdoptionInvariant, AdoptionTypes
  <1>2. A!Revoked(A!Held)' = A!Revoked(A!Held) /\ A!Active(A!Held)' = A!Active(A!Held)
    BY PrimedFacts
  <1>3. LateRows'
    BY <1>2 DEF AdoptionInvariant, LateRows
  <1>4. PrimaryHoldsAll'
    <2>1. \A k : A!PrimaryOf(Prefix(grantLog, k))' = A!PrimaryOf(Prefix(grantLog, k))
      BY DEF A!PrimaryOf, A!Transfers, Prefix
    <2> QED  BY <2>1 DEF AdoptionInvariant, PrimaryHoldsAll
  <1> QED  BY <1>1, <1>3, <1>4 DEF AdoptionInvariant

\* The primary elsewhere appends: the issuer sees nothing of it yet.
LEMMA ElsewhereKeeps ==
    ASSUME AdoptionInvariant, NEW e, grantLog' = Append(grantLog, e),
           A!PrimaryOf(grantLog) # "issuer",
           UNCHANGED <<local, paired, row, cancelled, expired, late>>
    PROVE  AdoptionInvariant'
  <1>1. PICK S : grantLog \in Seq(S)
    BY DEF AdoptionInvariant, AdoptionTypes
  <1>2. /\ grantLog' \in Seq(S \cup {e}) /\ Len(grantLog') = Len(grantLog) + 1
        /\ \A k \in 0..Len(grantLog) : Prefix(grantLog', k) = Prefix(grantLog, k)
        /\ Len(grantLog) \in Nat /\ local \in 0..Len(grantLog)
    <2>1. local \in 0..Len(grantLog)
      BY DEF AdoptionInvariant, AdoptionTypes
    <2>2. /\ Append(grantLog, e) \in Seq(S \cup {e})
          /\ Len(Append(grantLog, e)) = Len(grantLog) + 1
          /\ \A k \in 0..Len(grantLog) : Prefix(Append(grantLog, e), k) = Prefix(grantLog, k)
      BY <1>1, AppendFacts
    <2>3. Len(grantLog) \in Nat
      BY <1>1
    <2> QED  BY <2>1, <2>2, <2>3
  <1>3. AdoptionTypes'
    BY <1>2 DEF AdoptionInvariant, AdoptionTypes
  <1>4. Prefix(grantLog', local') = Prefix(grantLog, local)
    BY <1>2
  <1>5. A!Revoked(A!Held)' = A!Revoked(A!Held) /\ A!Active(A!Held)' = A!Active(A!Held)
    BY <1>4, PrimedFacts
  <1>6. LateRows'
    BY <1>5 DEF AdoptionInvariant, LateRows
  <1>7. PrimaryHoldsAll'
    <2>1. ASSUME NEW k \in local..Len(grantLog'), A!PrimaryOf(Prefix(grantLog', k)) = "issuer"
          PROVE  k = Len(grantLog')
      <3>1. CASE k = Len(grantLog) + 1
        BY <1>2, <3>1
      <3>2. CASE k # Len(grantLog) + 1
        <4>1. k \in local..Len(grantLog) /\ k \in 0..Len(grantLog)
          BY <1>2, <3>2
        <4>2. A!PrimaryOf(Prefix(grantLog, k)) = "issuer"
          BY <1>2, <2>1, <4>1
        <4>3. k = Len(grantLog)
          BY <4>1, <4>2 DEF AdoptionInvariant, PrimaryHoldsAll
        <4>4. Prefix(grantLog, k) = grantLog
          BY <1>1, <1>2, <4>1, <4>3, PrefixFacts
        <4> QED  BY <4>2, <4>4
      <3> QED  BY <3>1, <3>2
    <2>2. \A k : A!PrimaryOf(Prefix(grantLog, k))' = A!PrimaryOf(Prefix(grantLog', k'))
      BY PrimedFacts
    <2> HIDE DEF Prefix
    <2>3. (\A k \in local..Len(grantLog) :
              A!PrimaryOf(Prefix(grantLog, k)) = "issuer" => k = Len(grantLog))' <=>
          \A k \in local'..Len(grantLog') :
              A!PrimaryOf(Prefix(grantLog', k)) = "issuer" => k = Len(grantLog')
      BY DEF A!PrimaryOf, A!Transfers, Prefix
    <2> QED  BY <2>1, <2>3 DEF PrimaryHoldsAll
  <1> QED  BY <1>3, <1>6, <1>7 DEF AdoptionInvariant

\* The issuer is the primary and appends: what it holds grows by that entry.
LEMMA HereFacts ==
    ASSUME AdoptionInvariant, NEW e, grantLog' = Append(grantLog, e), local = Len(grantLog),
           local' = Len(grantLog')
    PROVE  /\ \E S : grantLog' \in Seq(S)
           /\ local' \in 0..Len(grantLog')
           /\ PrimaryHoldsAll'
           /\ A!Revoked(A!Held)' = A!Revoked(A!Held)
                 \cup (IF e.type = "revoke" THEN {e.grant} ELSE {})
           /\ A!Active(A!Held)' \subseteq A!Active(A!Held)
                 \cup (IF e.type = "adopt" THEN {e.grant} ELSE {})
  <1>1. PICK S : grantLog \in Seq(S)
    BY DEF AdoptionInvariant, AdoptionTypes
  <1>2. /\ grantLog' \in Seq(S \cup {e}) /\ Len(grantLog') = Len(grantLog) + 1
        /\ Len(grantLog) \in Nat /\ Len(grantLog') \in 0..Len(grantLog')
    BY <1>1, AppendFacts
  <1>3. Prefix(grantLog', local') = grantLog' /\ Prefix(grantLog, local) = grantLog
    <2>1. Len(grantLog) \in 0..Len(grantLog)
      BY <1>2
    <2> QED  BY <1>1, <1>2, <2>1, PrefixFacts
  <1>4. \A type : A!GrantsOf(grantLog', type) =
            A!GrantsOf(grantLog, type) \cup (IF e.type = type THEN {e.grant} ELSE {})
    BY <1>1, GrantsAppended
  <1>5. PrimaryHoldsAll'
    <2>1. \A k \in local'..Len(grantLog') : k = Len(grantLog')
      BY <1>2
    <2>2. (\A k \in local..Len(grantLog) :
              A!PrimaryOf(Prefix(grantLog, k)) = "issuer" => k = Len(grantLog))' <=>
          \A k \in local'..Len(grantLog') :
              A!PrimaryOf(Prefix(grantLog', k)) = "issuer" => k = Len(grantLog')
      BY DEF A!PrimaryOf, A!Transfers, Prefix
    <2> QED  BY <2>1, <2>2 DEF PrimaryHoldsAll
  <1> HIDE DEF Prefix
  <1>6. /\ A!Revoked(A!Held)' = A!Revoked(grantLog') /\ A!Active(A!Held)' = A!Active(grantLog')
        /\ A!Revoked(A!Held) = A!Revoked(grantLog) /\ A!Active(A!Held) = A!Active(grantLog)
    BY <1>3, PrimedFacts
  <1>7. /\ A!Revoked(grantLog') = A!Revoked(grantLog)
                 \cup (IF e.type = "revoke" THEN {e.grant} ELSE {})
        /\ A!Active(grantLog') \subseteq A!Active(grantLog)
                 \cup (IF e.type = "adopt" THEN {e.grant} ELSE {})
    BY <1>4 DEF A!Revoked, A!Active
  <1> QED  BY <1>2, <1>5, <1>6, <1>7

\* An entry the issuer itself appends accepts no late grant.
LEMMA HereKeeps ==
    ASSUME AdoptionInvariant, NEW e, grantLog' = Append(grantLog, e), local = Len(grantLog),
           local' = Len(grantLog'), UNCHANGED <<paired, row, cancelled, expired, late>>,
           e.type = "adopt" => e.grant \notin late
    PROVE  AdoptionInvariant'
  <1>1. /\ \E S : grantLog' \in Seq(S)
        /\ local' \in 0..Len(grantLog')
        /\ PrimaryHoldsAll'
        /\ A!Revoked(A!Held) \subseteq A!Revoked(A!Held)'
        /\ \A g \in late : g \in A!Active(A!Held)' => g \in A!Active(A!Held)
    BY HereFacts
  <1>2. AdoptionTypes'
    BY <1>1 DEF AdoptionInvariant, AdoptionTypes
  <1>3. LateRows'
    BY <1>1 DEF AdoptionInvariant, LateRows
  <1> QED  BY <1>1, <1>2, <1>3 DEF AdoptionInvariant

\* The issuer has a reply from the primary.
LEMMA ReceivedKeeps ==
    ASSUME AdoptionInvariant,
           \/ A!Wake \/ A!Reconcile
           \/ \E k \in 0..Len(grantLog) : A!synchronize(k) \/ A!resync(k) \/ A!reread(k)
    PROVE  AdoptionInvariant'
  <1>0. local \in local..Len(grantLog)
    <2>1. PICK S : grantLog \in Seq(S)
      BY DEF AdoptionInvariant, AdoptionTypes
    <2>2. Len(grantLog) \in Nat /\ local \in 0..Len(grantLog)
      BY <2>1 DEF AdoptionInvariant, AdoptionTypes
    <2> QED  BY <2>2
  <1>1. CASE A!Wake \/ A!Reconcile
    BY <1>0, <1>1, CancelInactiveKeeps DEF A!Wake, A!Reconcile
  <1>2. ASSUME NEW k, A!apply_received(k), UNCHANGED <<grantLog, paired, expired, late>>
        PROVE  AdoptionInvariant'
    BY <1>2, CancelInactiveKeeps DEF A!apply_received
  <1>3. ASSUME NEW k, A!synchronize(k) \/ A!resync(k) \/ A!reread(k)
        PROVE  AdoptionInvariant'
    <2>1. UNCHANGED <<grantLog, paired, expired, late>>
      BY <1>3 DEF A!synchronize, A!resync, A!reread
    <2>2. A!apply_received(k) \/ UNCHANGED <<local, row, cancelled>>
      BY <1>3 DEF A!synchronize, A!resync, A!reread
    <2>3. expired \subseteq Grants /\ cancelled \subseteq Grants
      BY DEF AdoptionInvariant, AdoptionTypes
    <2> QED  BY <1>2, <2>1, <2>2, <2>3, StayKeeps
  <1> QED  BY <1>1, <1>3

\* A client lists the clusters it may adopt.
LEMMA ListKeeps ==
    ASSUME AdoptionInvariant, A!ListIntents
    PROVE  AdoptionInvariant'
  <1>1. /\ row' = A!Maintained /\ cancelled' = cancelled \cap A!InOutbox(A!Maintained)
        /\ UNCHANGED <<grantLog, local, paired, expired, late>>
    BY DEF A!ListIntents
  <1>2. A!Revoked(A!Held)' = A!Revoked(A!Held) /\ A!Active(A!Held)' = A!Active(A!Held)
    BY <1>1, PrimedFacts
  <1>3. row' \in [Grants -> A!Rows \cup {A!None}]
    BY <1>1, MaintainedFacts DEF AdoptionInvariant
  <1>4. AdoptionTypes'
    BY <1>1, <1>3 DEF AdoptionInvariant, AdoptionTypes
  <1>5. PrimaryHoldsAll'
    <2>1. \A k : A!PrimaryOf(Prefix(grantLog, k))' = A!PrimaryOf(Prefix(grantLog, k))
      BY <1>1 DEF A!PrimaryOf, A!Transfers, Prefix
    <2> QED  BY <1>1, <2>1 DEF AdoptionInvariant, PrimaryHoldsAll
  <1>6. ASSUME NEW g \in late
        PROVE  /\ row'[g] = A!None => g \in expired
               /\ row'[g] # A!None => row'[g].owner \notin paired
               /\ row'[g].type = "outbox" => g \in cancelled' \/ g \notin A!Active(A!Held)
               /\ row'[g].type = "receipt" => g \in A!Revoked(A!Held)
    <2>1. g \in Grants
      BY DEF AdoptionInvariant, AdoptionTypes
    <2>2. /\ row[g] = A!None => g \in expired
          /\ row[g] # A!None => row[g].owner \notin paired
          /\ row[g].type = "outbox" => g \in cancelled \/ g \notin A!Active(A!Held)
          /\ row[g].type = "receipt" => g \in A!Revoked(A!Held)
      BY DEF AdoptionInvariant, LateRows
    <2>3. /\ A!Maintained[g] = A!None <=> (row[g] = A!None \/ g \in expired)
          /\ A!Maintained[g] # A!None => A!Maintained[g].owner = row[g].owner
          /\ A!Maintained[g].type = "outbox" => row[g].type = "outbox" /\ ~A!Settled(g)
          /\ A!Maintained[g].type = "receipt" => \/ row[g].type = "receipt"
                                                 \/ row[g].type = "outbox" /\ A!Settled(g)
      BY <2>1, MaintainedFacts DEF AdoptionInvariant
    <2>4. A!Settled(g) /\ row[g].type = "outbox" => g \in A!Revoked(A!Held)
      BY <2>2 DEF A!Settled
    <2>5. row'[g].type = "outbox" => (g \in cancelled => g \in cancelled')
      BY <1>1, <2>1 DEF A!InOutbox
    <2> QED  BY <1>1, <2>2, <2>3, <2>4, <2>5
  <1>7. LateRows'
    BY <1>1, <1>2, <1>6 DEF LateRows
  <1> QED  BY <1>4, <1>5, <1>7 DEF AdoptionInvariant

\* The calls of a client work on maintained rows.
LEMMA ClientKeeps ==
    ASSUME AdoptionInvariant, NEW o \in Owners, NEW g \in Grants,
           A!begin(o, g) \/ A!complete(o, g)
    PROVE  AdoptionInvariant'
  <1>1. /\ UNCHANGED <<grantLog, local, paired, expired, late>>
        /\ cancelled' = A!Cancelled /\ o \in paired
    BY DEF A!begin, A!complete
  <1>2. A!Maintained \in [Grants -> A!Rows \cup {A!None}]
    BY MaintainedFacts DEF AdoptionInvariant
  <1>3. /\ row' \in [Grants -> A!Rows \cup {A!None}]
        /\ \A h \in late : /\ row'[h] = A!None <=> A!Maintained[h] = A!None
                           /\ row'[h] # A!None => row'[h].owner = A!Maintained[h].owner
                           /\ row'[h].type = A!Maintained[h].type
    <2>1. CASE A!begin(o, g)
      <3> DEFINE new == [type |-> "outbox", owner |-> o, signed |-> FALSE]
      <3>1. new \in A!Rows
        BY DEF A!Rows
      <3>2. row' = [A!Maintained EXCEPT ![g] = new] /\ row[g] = A!None /\ g \notin expired
        BY <2>1 DEF A!begin
      <3>3. g \notin late
        BY <3>2 DEF AdoptionInvariant, LateRows
      <3> HIDE DEF new
      <3> QED  BY <1>2, <3>1, <3>2, <3>3 DEF AdoptionInvariant, AdoptionTypes
    <2>2. CASE A!complete(o, g)
      <3>1. row' = [A!Maintained EXCEPT ![g].signed = TRUE] /\ A!Maintained[g].type = "outbox"
        BY <2>2 DEF A!complete
      <3>2. A!Maintained[g] \in A!Rows
        BY <1>2, <3>1 DEF A!None
      <3> DEFINE m == A!Maintained[g]
                 new == [m EXCEPT !.signed = TRUE]
      <3>3. m \in A!Rows /\ m.type = "outbox"
        BY <3>1, <3>2
      <3>4. row' = [A!Maintained EXCEPT ![g] = new] /\ m = A!Maintained[g]
        BY <3>1
      <3> HIDE DEF m
      <3>5. new \in A!Rows /\ new.type = m.type /\ new.owner = m.owner
        BY <3>3 DEF A!Rows
      <3>6. A!None.type # "outbox"
        BY DEF A!None
      <3>7. /\ new \in A!Rows /\ new.type = m.type /\ new.owner = m.owner
            /\ new # A!None /\ m # A!None
        BY <3>5, <3>6, <3>3
      <3> HIDE DEF new
      <3> QED  BY <1>2, <3>7, <3>4 DEF AdoptionInvariant, AdoptionTypes
    <2> QED  BY <2>1, <2>2
  <1>4. A!Revoked(A!Held) \subseteq A!Revoked(A!Held)'
    BY <1>1, PrimedFacts
  <1>5. LateRows' /\ cancelled' \subseteq Grants
    BY <1>1, <1>3, <1>4, CancelKeeps DEF AdoptionInvariant
  <1>6. AdoptionTypes'
    BY <1>1, <1>3, <1>5 DEF AdoptionInvariant, AdoptionTypes
  <1>7. PrimaryHoldsAll'
    <2>1. \A k : A!PrimaryOf(Prefix(grantLog, k))' = A!PrimaryOf(Prefix(grantLog, k))
      BY <1>1 DEF A!PrimaryOf, A!Transfers, Prefix
    <2> QED  BY <1>1, <2>1 DEF AdoptionInvariant, PrimaryHoldsAll
  <1> QED  BY <1>5, <1>6, <1>7 DEF AdoptionInvariant

\* A client asks for the receipt of an adoption.
LEMMA GetKeeps ==
    ASSUME AdoptionInvariant, NEW o \in Owners, NEW g \in Grants, A!get(o, g)
    PROVE  AdoptionInvariant'
  <1> DEFINE e == A!AdoptOf(g)
  <1>1. /\ grantLog' = Append(grantLog, e) /\ local = Len(grantLog) /\ local' = Len(grantLog')
        /\ row' = A!Maintained /\ cancelled' = A!Cancelled
        /\ UNCHANGED <<paired, expired, late>>
    BY DEF A!get, A!cancel_inactive
  <1> HIDE DEF e
  <1>2. /\ \E S : grantLog' \in Seq(S)
        /\ local' \in 0..Len(grantLog')
        /\ PrimaryHoldsAll'
        /\ A!Revoked(A!Held) \subseteq A!Revoked(A!Held)'
    BY <1>1, HereFacts
  <1>3. row' \in [Grants -> A!Rows \cup {A!None}]
    BY <1>1, MaintainedFacts DEF AdoptionInvariant
  <1>4. LateRows' /\ cancelled' \subseteq Grants
    BY <1>1, <1>2, <1>3, CancelKeeps DEF AdoptionInvariant
  <1>5. AdoptionTypes'
    BY <1>1, <1>2, <1>3, <1>4 DEF AdoptionInvariant, AdoptionTypes
  <1> QED  BY <1>2, <1>4, <1>5 DEF AdoptionInvariant

\* What the primary, here or elsewhere, appends for the worker.
LEMMA WorkerKeeps ==
    ASSUME AdoptionInvariant, NEW g \in Grants, A!RevokeNext(g) \/ A!AdoptNext(g)
    PROVE  AdoptionInvariant'
  <1>1. A!IsPrimary => local = Len(grantLog)
    BY HeldFacts DEF AdoptionInvariant
  <1>2. expired \subseteq Grants /\ cancelled \subseteq Grants
    BY DEF AdoptionInvariant, AdoptionTypes
  <1>3. CASE A!RevokeNext(g)
    <2>1. UNCHANGED <<paired, row, cancelled, expired, late>>
      BY <1>3 DEF A!RevokeNext
    <2>2. \/ A!IsPrimary /\ grantLog' = Append(grantLog, A!RevokeOf(g)) /\ local' = Len(grantLog')
          \/ UNCHANGED <<grantLog, local>>
      BY <1>1, <1>3 DEF A!RevokeNext, A!Append1
    <2>3. A!RevokeOf(g).type # "adopt"
      BY DEF A!RevokeOf, A!Entry
    <2> QED  BY <1>1, <1>2, <2>1, <2>2, <2>3, HereKeeps, StayKeeps
  <1>4. CASE A!AdoptNext(g)
    <2>1. UNCHANGED <<paired, row, expired, late>>
      BY <1>4 DEF A!AdoptNext
    <2>2. \/ UNCHANGED <<grantLog, local>> /\ cancelled' \in {cancelled, cancelled \cup {g}}
          \/ /\ row[g] # A!None /\ row[g].owner \in paired
             /\ A!IsPrimary /\ grantLog' = Append(grantLog, A!AdoptOf(g)) /\ local' = Len(grantLog')
             /\ cancelled' = cancelled
      BY <1>4 DEF A!AdoptNext, A!dispatch_guard
    <2>3. CASE UNCHANGED <<grantLog, local>> /\ cancelled' \in {cancelled, cancelled \cup {g}}
      BY <1>2, <2>1, <2>3, StayKeeps
    <2>4. CASE /\ row[g] # A!None /\ row[g].owner \in paired
               /\ A!IsPrimary /\ grantLog' = Append(grantLog, A!AdoptOf(g))
               /\ local' = Len(grantLog') /\ cancelled' = cancelled
      <3>1. g \notin late
        BY <2>4 DEF AdoptionInvariant, LateRows
      <3>2. A!AdoptOf(g).grant = g
        BY DEF A!AdoptOf, A!Entry
      <3> QED  BY <1>1, <2>1, <2>4, <3>1, <3>2, HereKeeps
    <2> QED  BY <2>2, <2>3, <2>4
  <1> QED  BY <1>3, <1>4

\* The steps of the cluster outside the issuer.
LEMMA ClusterKeeps ==
    ASSUME AdoptionInvariant,
           \/ \E e \in wire : A!Deliver(e) \/ A!Lose(e)
           \/ \E e \in A!OthersEntries : A!Others(e)
    PROVE  AdoptionInvariant'
  <1>1. expired \subseteq Grants /\ cancelled \subseteq Grants
    BY DEF AdoptionInvariant, AdoptionTypes
  <1>2. ASSUME NEW e, A!Deliver(e) \/ A!Lose(e) PROVE AdoptionInvariant'
    <2>1. UNCHANGED <<local, paired, row, cancelled, expired, late>>
      BY <1>2 DEF A!Deliver, A!Lose
    <2>2. \/ grantLog' = grantLog
          \/ grantLog' = Append(grantLog, e) /\ A!PrimaryOf(grantLog) # "issuer"
      BY <1>2 DEF A!Deliver, A!Lose, A!Append1
    <2> QED  BY <1>1, <2>1, <2>2, StayKeeps, ElsewhereKeeps
  <1>3. ASSUME NEW e \in A!OthersEntries, A!Others(e) PROVE AdoptionInvariant'
    <2>1. e.type # "adopt"
      BY DEF A!OthersEntries, A!Entry
    <2>2. /\ UNCHANGED <<paired, row, cancelled, expired, late>>
          /\ grantLog' = Append(grantLog, e)
          /\ \/ /\ A!PrimaryOf(grantLog) = "issuer"
                /\ local = Len(grantLog) /\ local' = Len(grantLog')
             \/ A!PrimaryOf(grantLog) # "issuer" /\ local' = local
      BY <1>3 DEF A!Others
    <2> QED  BY <2>1, <2>2, HereKeeps, ElsewhereKeeps
  <1> QED  BY <1>2, <1>3

\* A pairing is removed, a grant expires.
LEMMA OwnersKeep ==
    ASSUME AdoptionInvariant, (\E o \in Owners : A!Unpair(o)) \/ (\E g \in Grants : A!Expire(g))
    PROVE  AdoptionInvariant'
  <1>1. CASE \E g \in Grants : A!Expire(g)
    <2>1. cancelled \subseteq Grants /\ expired' \subseteq Grants /\ expired \subseteq expired'
      BY <1>1 DEF A!Expire, AdoptionInvariant, AdoptionTypes
    <2> QED  BY <1>1, <2>1, StayKeeps DEF A!Expire
  <1>2. ASSUME NEW o \in Owners, A!Unpair(o) PROVE AdoptionInvariant'
    <2>1. /\ paired' = paired \ {o}
          /\ late' = late \cup {g \in A!Outbox : row[g].owner = o /\ g \notin A!Active(A!Held)}
          /\ UNCHANGED <<grantLog, local, row, cancelled, expired>>
      BY <1>2 DEF A!Unpair
    <2>2. A!Revoked(A!Held)' = A!Revoked(A!Held) /\ A!Active(A!Held)' = A!Active(A!Held)
      BY <2>1, PrimedFacts
    <2>3. AdoptionTypes'
      BY <2>1 DEF AdoptionInvariant, AdoptionTypes, A!Outbox
    <2>4. PrimaryHoldsAll'
      <3>1. \A k : A!PrimaryOf(Prefix(grantLog, k))' = A!PrimaryOf(Prefix(grantLog, k))
        BY <2>1 DEF A!PrimaryOf, A!Transfers, Prefix
      <3> QED  BY <2>1, <3>1 DEF AdoptionInvariant, PrimaryHoldsAll
    <2>5. ASSUME NEW g \in late'
          PROVE  /\ row[g] = A!None => g \in expired
                 /\ row[g] # A!None => row[g].owner \notin paired'
                 /\ row[g].type = "outbox" => g \in cancelled \/ g \notin A!Active(A!Held)
                 /\ row[g].type = "receipt" => g \in A!Revoked(A!Held)
      <3>1. CASE g \in late
        BY <2>1, <3>1 DEF AdoptionInvariant, LateRows
      <3>2. CASE g \in A!Outbox /\ row[g].owner = o /\ g \notin A!Active(A!Held)
        BY <2>1, <3>2 DEF A!Outbox, A!None
      <3> QED  BY <2>1, <3>1, <3>2
    <2>6. LateRows'
      BY <2>1, <2>2, <2>5 DEF LateRows
    <2> QED  BY <2>3, <2>4, <2>6 DEF AdoptionInvariant
  <1> QED  BY <1>1, <1>2

\* Every step of the outbox, its worker, the clients and the cluster.
LEMMA AdoptionPreserved ==
    ASSUME AdoptionInvariant, [A!Next]_A!vars
    PROVE  AdoptionInvariant'
  <1>1. CASE A!TickEnds \/ A!SyncFails \/ A!TimesOut \/ UNCHANGED A!vars
    <2>1. UNCHANGED <<grantLog, local, paired, row, cancelled, expired, late>>
      BY <1>1 DEF A!TickEnds, A!SyncFails, A!TimesOut, A!vars
    <2>2. expired \subseteq Grants /\ cancelled \subseteq Grants
      BY DEF AdoptionInvariant, AdoptionTypes
    <2> QED  BY <2>1, <2>2, StayKeeps
  <1> QED
    BY <1>1, ReceivedKeeps, ListKeeps, WorkerKeeps, ClusterKeeps, OwnersKeep, ClientKeeps, GetKeeps
    DEF A!Next, A!Worker, A!Synced

\* Nothing has been adopted.
LEMMA AdoptionEstablished == A!Init => AdoptionInvariant
  <1> SUFFICES ASSUME A!Init PROVE AdoptionInvariant
    OBVIOUS
  <1>1. grantLog \in Seq({}) /\ Len(grantLog) = 0 /\ local = 0
    BY DEF A!Init
  <1>2. AdoptionTypes
    BY <1>1 DEF A!Init, AdoptionTypes
  <1>3. PrimaryHoldsAll
    BY <1>1 DEF PrimaryHoldsAll
  <1>4. LateRows
    BY DEF A!Init, LateRows
  <1> QED  BY <1>2, <1>3, <1>4 DEF AdoptionInvariant

\* The inductive invariant of the outbox holds for any number of clients and grants, however
\* requests are lost, late or repeated and in whatever order the log sees them (adoption.rs).
THEOREM AdoptionIsSound == A!Spec => []AdoptionInvariant
  <1>1. AdoptionInvariant /\ [A!Next]_A!vars => AdoptionInvariant'
    BY AdoptionPreserved
  <1> QED  BY <1>1, AdoptionEstablished, PTL DEF A!Spec

\* A grant whose owner lost its pairing before the issuer saw it accepted never counts as
\* accepted there: it is cancelled until its revocation is in the log (cancel_inactive and the
\* import of a history under one lock).
THEOREM LateIsNeverAccepted == A!Spec => []A!NeverAcceptedLate
  <1>1. AdoptionInvariant => A!NeverAcceptedLate
    BY DEF AdoptionInvariant, LateRows, A!NeverAcceptedLate
  <1> QED  BY <1>1, AdoptionIsSound, PTL
=============================================================================
