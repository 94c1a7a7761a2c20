------------------------ MODULE ClusterJournalProofs ------------------------
(***************************************************************************)
(* Proofs about ClusterJournal, for any number of nodes, incarnations and  *)
(* entries: type correctness, the absence of forks, the uniqueness of the  *)
(* writer, and what the histories mean for the members.                    *)
(***************************************************************************)
EXTENDS ClusterReplay, TLAPS

-----------------------------------------------------------------------------
(* Histories *)

\* Two sequences of equal length that agree everywhere are equal.
LEMMA SeqExt ==
    ASSUME NEW S, NEW g \in Seq(S), NEW h \in Seq(S), Len(g) = Len(h),
           \A i \in 1..Len(g) : g[i] = h[i]
    PROVE  g = h
  OBVIOUS

\* The prefix before position i of a history is a history of i - 1 entries.
LEMMA BeforeProps ==
    ASSUME NEW S, NEW h \in Seq(S), NEW i \in 1..(Len(h) + 1)
    PROVE  /\ Before(h, i) \in Seq(S)
           /\ Len(Before(h, i)) = i - 1
           /\ \A j \in 1..(i - 1) : Before(h, i)[j] = h[j]
  BY DEF Before

\* Appending an entry keeps the prefixes.
LEMMA AppendProps ==
    ASSUME NEW S, NEW l \in Seq(S), NEW e \in S
    PROVE  /\ Append(l, e) \in Seq(S)
           /\ Len(Append(l, e)) = Len(l) + 1
           /\ Append(l, e)[Len(l) + 1] = e
           /\ \A i \in 1..Len(l) : Append(l, e)[i] = l[i]
  OBVIOUS

\* A history that extends l has l before its first new entry.
LEMMA BeforeExtension ==
    ASSUME NEW S, NEW l \in Seq(S), NEW h \in Seq(S), Extends(h, l),
           NEW i \in 1..(Len(l) + 1), i <= Len(h) + 1
    PROVE  Before(h, i) = Before(l, i)
  <1>1. /\ Before(h, i) \in Seq(S) /\ Len(Before(h, i)) = i - 1
        /\ \A j \in 1..(i - 1) : Before(h, i)[j] = h[j]
    BY BeforeProps
  <1>2. /\ Before(l, i) \in Seq(S) /\ Len(Before(l, i)) = i - 1
        /\ \A j \in 1..(i - 1) : Before(l, i)[j] = l[j]
    BY BeforeProps
  <1>3. \A j \in 1..(i - 1) : h[j] = l[j]
    BY DEF Extends
  <1>4. \A j \in 1..Len(Before(h, i)) : Before(h, i)[j] = Before(l, i)[j]
    BY <1>1, <1>2, <1>3
  <1> QED  BY <1>1, <1>2, <1>4, SeqExt

\* The prefix before the position after the last is the whole history.
LEMMA BeforeAll ==
    ASSUME NEW S, NEW l \in Seq(S)
    PROVE  Before(l, Len(l) + 1) = l
  <1>1. /\ Before(l, Len(l) + 1) \in Seq(S)
        /\ Len(Before(l, Len(l) + 1)) = Len(l)
        /\ \A j \in 1..Len(l) : Before(l, Len(l) + 1)[j] = l[j]
    BY DEF Before
  <1> QED  BY <1>1, SeqExt

-----------------------------------------------------------------------------
(* Type correctness *)

\* The epoch a replayed history has reached is a number.
LEMMA EpochType ==
    ASSUME NEW l \in Histories
    PROVE  Epoch(l) \in Nat
  <1>1. CASE l = <<>>
    BY <1>1 DEF Epoch
  <1>2. CASE l # <<>>
    <2>1. l[Len(l)] \in Entries
      BY <1>2 DEF Histories
    <2>2. l[Len(l)].epoch \in Nat
      BY <2>1 DEF Entries
    <2> QED  BY <1>2, <2>2 DEF Epoch
  <1> QED  BY <1>1, <1>2

\* append writes a typed entry.
LEMMA AppendType ==
    ASSUME TypeOK, NEW n \in Nodes, NEW op \in OperationIds,
           NEW m \in Mutations, append(n, op, m)
    PROVE  /\ log' \in [Nodes -> Histories]
           /\ sealed' \in [Nodes -> BOOLEAN]
           /\ signed' \subseteq Histories
           /\ Entry(Epoch(log[n]), op, n, m) \in Entries
  <1> DEFINE e == Entry(Epoch(log[n]), op, n, m)
  <1>1. log[n] \in Histories
    BY DEF TypeOK
  <1>2. e \in Entries
    BY <1>1, EpochType DEF Entry, Entries
  <1>3. Append(log[n], e) \in Histories
    BY <1>1, <1>2 DEF Histories
  <1> HIDE DEF e
  <1>4. log' = [log EXCEPT ![n] = Append(log[n], e)]
    BY DEF append, e
  <1>5. log' \in [Nodes -> Histories]
    BY <1>3, <1>4 DEF TypeOK
  <1>6. sealed' \in [Nodes -> BOOLEAN]
    <2>1. sealed \in [Nodes -> BOOLEAN]
      BY DEF TypeOK
    <2>2. sealed' = [sealed EXCEPT ![n] = @ \/ m.type = "Transfer"]
      BY DEF append
    <2> QED  BY <2>1, <2>2
  <1>7. signed' \subseteq Histories
    BY <1>3 DEF TypeOK, append, e
  <1> QED  BY <1>2, <1>5, <1>6, <1>7 DEF e

\* An Admit entry names an admission id.
LEMMA AdmitIdType ==
    ASSUME NEW l \in Histories, NEW i \in Positions(l, "Admit")
    PROVE  l[i].mutation.id \in Admissions
  <1>1. l[i] \in Entries /\ l[i].mutation.type = "Admit"
    BY DEF Positions, Histories
  <1>2. l[i].mutation \in Mutations
    BY <1>1 DEF Entries
  <1> QED  BY <1>1, <1>2 DEF Mutations, Admit, Remove, Transfer, Adopt, Revoke

\* Members of a history are admission ids.
LEMMA MembersType ==
    ASSUME NEW l \in Histories
    PROVE  Members(l) \subseteq Admissions
  <1>1. RootAdm \in Admissions
    BY RootAssumption, BoundAssumption DEF RootAdm, Admissions
  <1> QED  BY <1>1, AdmitIdType DEF Members, IdsOf

\* An affiliated node holds an admission id.
LEMMA AdmType ==
    ASSUME TypeOK, NEW n \in Nodes, phase[n] # "Unaffiliated"
    PROVE  Adm(n) \in Admissions
  <1>1. inc[n] \in 1..MaxIncarnation
    BY BoundAssumption DEF TypeOK
  <1> QED  BY <1>1 DEF Adm, Admissions

\* install writes typed values.
LEMMA InstallType ==
    ASSUME TypeOK, NEW n \in Nodes, NEW h \in Histories, install(n, h)
    PROVE  /\ log' \in [Nodes -> Histories]
           /\ sealed' \in [Nodes -> BOOLEAN]
  <1>1. log' = [log EXCEPT ![n] = h] /\ log \in [Nodes -> Histories]
    BY DEF install, TypeOK
  <1>2. /\ sealed \in [Nodes -> BOOLEAN]
        /\ sealed' = [sealed EXCEPT ![n] = @ /\ NewHandoffs(n, h) = {}]
    BY DEF install, TypeOK
  <1>3. sealed' \in [Nodes -> BOOLEAN]
    BY <1>2
  <1> QED  BY <1>1, <1>3

\* import stores one of the phases.
LEMMA ImportType ==
    ASSUME TypeOK, NEW n \in Nodes, NEW h \in Histories, import(n, h),
           phase[n] # "Unaffiliated"
    PROVE  TypeOK'
  <1>1. log' \in [Nodes -> Histories] /\ sealed' \in [Nodes -> BOOLEAN]
    BY InstallType DEF import
  <1>2. ImportedPhase(n, h) \in Phases
    BY DEF ImportedPhase, Phases, TypeOK
  <1>3. phase' \in [Nodes -> Phases]
    BY <1>2 DEF import, TypeOK
  <1>4. \A k \in Nodes : phase'[k] # "Unaffiliated" => inc'[k] > 0
    BY DEF import, TypeOK
  <1> QED  BY <1>1, <1>3, <1>4 DEF import, TypeOK

\* A committing handler changes the log, the seal and the signed histories.
LEMMA CommitType ==
    ASSUME TypeOK, NEW n \in Nodes, NEW op \in OperationIds,
           NEW m \in Mutations, append(n, op, m),
           UNCHANGED <<phase, inc, prepared, leaving, syncing, lapsed, accepted>>
    PROVE  TypeOK'
  BY AppendType DEF TypeOK

\* Every management procedure keeps the types.
LEMMA ClientCallType ==
    ASSUME TypeOK, NEW n \in Nodes, ClientCall(n)
    PROVE  TypeOK'
  <1>1. CASE PrepareClusterJoin(n)
    <2>1. <<>> \in Histories
      BY DEF Histories
    <2>2. inc' \in [Nodes -> 0..MaxIncarnation]
      BY <1>1, BoundAssumption DEF PrepareClusterJoin, TypeOK
    <2>3. phase' \in [Nodes -> Phases] /\ log' \in [Nodes -> Histories]
      BY <1>1, <2>1 DEF PrepareClusterJoin, TypeOK, Phases
    <2>4. sealed' \in [Nodes -> BOOLEAN] /\ syncing' \in [Nodes -> BOOLEAN]
      BY <1>1 DEF PrepareClusterJoin, TypeOK
    <2>5. prepared' \in [Nodes -> SUBSET Rows]
      BY <1>1 DEF PrepareClusterJoin, TypeOK
    <2>6. \A k \in Nodes : phase'[k] # "Unaffiliated" => inc'[k] > 0
      BY <1>1 DEF PrepareClusterJoin, TypeOK
    <2> QED  BY <1>1, <2>2, <2>3, <2>4, <2>5, <2>6 DEF PrepareClusterJoin, TypeOK
  <1>2. CASE CancelClusterJoin(n)
    BY <1>2 DEF CancelClusterJoin, TypeOK, Phases
  <1>3. ASSUME NEW h \in signed, ConfigureClusterJoinSync(n, h) PROVE TypeOK'
    <2>1. log' \in [Nodes -> Histories] /\ sealed' \in [Nodes -> BOOLEAN]
      BY <1>3, InstallType DEF ConfigureClusterJoinSync, TypeOK
    <2>2. phase' \in [Nodes -> Phases]
      BY <1>3 DEF ConfigureClusterJoinSync, TypeOK, Phases
    <2>3. syncing' \in [Nodes -> BOOLEAN]
      BY <1>3 DEF ConfigureClusterJoinSync, TypeOK
    <2> QED  BY <1>3, <2>1, <2>2, <2>3 DEF ConfigureClusterJoinSync, TypeOK
  <1>4. ASSUME NEW h \in signed,
               \/ FinishClusterJoin(n, h)
               \/ ApplyClusterHistory(n, h)
               \/ ActivateClusterPrimary(n, h)
        PROVE  TypeOK'
    <2>1. h \in Histories /\ import(n, h) /\ phase[n] # "Unaffiliated"
      BY <1>4 DEF TypeOK, FinishClusterJoin, ApplyClusterHistory,
                  ActivateClusterPrimary
    <2> QED  BY <2>1, ImportType
  <1>5. ASSUME NEW op \in Ops, NEW a \in Admissions, AdmitClusterMember(n, a, op)
        PROVE  TypeOK'
    <2>1. op \in OperationIds /\ Admit(a) \in Mutations
      BY DEF OperationIds, Mutations
    <2> QED  BY <1>5, <2>1, CommitType DEF AdmitClusterMember
  <1>6. ASSUME NEW op \in Ops, NEW a \in Admissions, RemoveClusterMember(n, a, op)
        PROVE  TypeOK'
    <2>1. op \in OperationIds /\ Remove(a) \in Mutations
      BY DEF OperationIds, Mutations
    <2> QED  BY <1>6, <2>1, CommitType DEF RemoveClusterMember
  <1>7. ASSUME NEW op \in Ops, PreparePrimaryTransfer(n, op) PROVE TypeOK'
    <2> DEFINE row == [op |-> op, target |-> Adm(n), prefix |-> log[n]]
    <2>1. row \in Rows
      <3>1. Adm(n) \in Admissions
        BY <1>7, AdmType DEF PreparePrimaryTransfer
      <3> QED  BY <3>1 DEF Rows, TypeOK
    <2> HIDE DEF row
    <2>2. /\ prepared' = [prepared EXCEPT ![n] = @ \cup {row}]
          /\ accepted' = accepted \cup {row}
      BY <1>7 DEF PreparePrimaryTransfer, prepare, row
    <2>3. prepared' \in [Nodes -> SUBSET Rows] /\ accepted' \subseteq Rows
      BY <2>1, <2>2 DEF TypeOK
    <2> QED  BY <1>7, <2>3 DEF PreparePrimaryTransfer, TypeOK
  <1>8. ASSUME NEW op \in LeaveOps, LeaveCluster(n, op) PROVE TypeOK'
    <2>1. Adm(n) \in Admissions
      BY <1>8, AdmType DEF LeaveCluster
    <2>2. leaving' \in [Nodes -> SUBSET [op : LeaveOps, admission : Admissions]]
      BY <1>8, <2>1 DEF LeaveCluster, TypeOK
    <2> QED  BY <1>8, <2>2 DEF LeaveCluster, TypeOK
  <1>9. ASSUME NEW r \in accepted, SealPrimaryTransfer(n, r) PROVE TypeOK'
    <2>1. r \in Rows
      BY DEF TypeOK
    <2>2. r.op \in OperationIds /\ Transfer(r.target) \in Mutations
      BY <2>1 DEF OperationIds, Mutations, Rows
    <2> QED  BY <1>9, <2>2, CommitType DEF SealPrimaryTransfer
  <1>10. ASSUME NEW g \in Grants, NEW a \in Admissions, AdoptClusterClient(n, g, a)
         PROVE  TypeOK'
    <2>1. g \in OperationIds /\ Adopt(g, a) \in Mutations
      BY DEF OperationIds, Mutations
    <2> QED  BY <1>10, <2>1, CommitType DEF AdoptClusterClient
  <1>11. ASSUME NEW g \in Grants, NEW op \in Ops \cup {CancelOp(g)},
                RevokeClusterClientGrant(n, g, op)
         PROVE  TypeOK'
    <2>1. op \in OperationIds /\ Revoke(g) \in Mutations
      BY DEF OperationIds, Mutations
    <2> QED  BY <1>11, <2>1, CommitType DEF RevokeClusterClientGrant
  <1> QED
    BY <1>1, <1>2, <1>3, <1>4, <1>5, <1>6, <1>7, <1>8, <1>9, <1>10, <1>11
    DEF ClientCall

\* The worker's steps keep the types.
LEMMA WorkerStepType ==
    ASSUME TypeOK, NEW n \in Nodes, WorkerStep(n)
    PROVE  TypeOK'
  <1>1. CASE LeaveTick(n)
    <2> DEFINE m == KeyOf(Primary(log[n]))
    <2>1. /\ CanCall(n, m)
          /\ UNCHANGED <<phase, inc, prepared, leaving, syncing, lapsed, accepted>>
      BY <1>1 DEF LeaveTick
    <2>2. PICK r \in leaving[n] : append(m, r.op, Remove(Adm(n)))
      BY <1>1 DEF LeaveTick
    <2>3. r \in [op : LeaveOps, admission : Admissions]
      BY DEF TypeOK
    <2>4. r.op \in OperationIds
      BY <2>3 DEF OperationIds
    <2>5. phase[n] = "Member" /\ Adm(n) \in Admissions
      BY <2>1, AdmType DEF CanCall, sign
    <2>6. Remove(Adm(n)) \in Mutations
      BY <2>5 DEF Mutations
    <2>7. m \in Nodes
      <3>1. PICK a \in Members(log[n]) : m = KeyOf(a)
        BY <2>1 DEF CanCall, sign
      <3>2. log[n] \in Histories
        BY DEF TypeOK
      <3>3. a \in Admissions
        BY <3>1, <3>2, MembersType
      <3> QED  BY <3>1, <3>3 DEF KeyOf, Admissions
    <2> HIDE DEF m
    <2> QED  BY <2>1, <2>2, <2>4, <2>6, <2>7, CommitType
  <1>2. ASSUME NEW m \in Nodes, SyncHistory(n, m) PROVE TypeOK'
    <2>1. log[m] \in Histories /\ import(n, log[m]) /\ phase[n] # "Unaffiliated"
      BY <1>2 DEF TypeOK, SyncHistory, apply_sync, CanCall, sign
    <2> QED  BY <2>1, ImportType
  <1>3. ASSUME NEW m \in Nodes, SyncRemovalProof(n, m) PROVE TypeOK'
    <2>1. PICK i \in ProofEnds(m, n) : import(n, SubSeq(log[m], 1, i))
      BY <1>3 DEF SyncRemovalProof
    <2>2. i \in 1..Len(log[m]) /\ log[m] \in Histories
      BY DEF ProofEnds, Positions, TypeOK
    <2>3. SubSeq(log[m], 1, i) \in Histories
      BY <2>2 DEF Histories
    <2>4. phase[n] # "Unaffiliated"
      BY <1>3 DEF SyncRemovalProof, CanCall, sign
    <2> QED  BY <2>1, <2>3, <2>4, ImportType
  <1>4. ASSUME NEW m \in Nodes, JoinTick(n, m) PROVE TypeOK'
    <2>1. log[m] \in Histories /\ import(n, log[m]) /\ phase[n] # "Unaffiliated"
      BY <1>4 DEF TypeOK, JoinTick, FinishClusterJoin
    <2> QED  BY <2>1, ImportType
  <1> QED  BY <1>1, <1>2, <1>3, <1>4 DEF WorkerStep

\* Type correctness: no handler of execute, step of the worker or lapse of a
\* consent writes a value outside its column.
THEOREM TypeCorrect == Spec => []TypeOK
  <1>1. Init => TypeOK
    BY RootAssumption, BoundAssumption
    DEF Init, TypeOK, Phases, Histories
  <1>2. TypeOK /\ [Next]_vars => TypeOK'
    <2> SUFFICES ASSUME TypeOK, [Next]_vars PROVE TypeOK'
      OBVIOUS
    <2>1. CASE UNCHANGED vars
      BY <2>1 DEF vars, TypeOK
    <2>2. ASSUME NEW a \in Admissions, ConsentLapses(a) PROVE TypeOK'
      BY <2>2 DEF ConsentLapses, TypeOK
    <2> QED  BY <2>1, <2>2, ClientCallType, WorkerStepType DEF Next
  <1> QED  BY <1>1, <1>2, PTL DEF Spec

-----------------------------------------------------------------------------
(* Fork freedom *)

\* A member whose log names its own key primary holds every signed history: the
\* first entry beyond its log would carry its own signature.
LEMMA WriterHoldsAll ==
    ASSUME TypeOK, ForkFreedom, NEW n \in Nodes, phase[n] = "Member",
           KeyOf(Primary(log[n])) = n, NEW h \in signed
    PROVE  Extends(log[n], h)
  <1>1. log[n] \in signed /\ log[n] \in Seq(Entries) /\ h \in Seq(Entries)
    BY DEF ForkFreedom, SignedHistories, TypeOK, Histories
  <1>2. Extends(log[n], h) \/ Extends(h, log[n])
    BY <1>1 DEF ForkFreedom, NoFork
  <1>3. ASSUME Extends(h, log[n]), ~Extends(log[n], h) PROVE FALSE
    <2> DEFINE k == Len(log[n]) + 1
    <2>1. Len(h) > Len(log[n])
      BY <1>1, <1>3 DEF Extends
    <2>2. k \in 1..Len(h)
      BY <1>1, <2>1
    <2>3. Before(h, k) = log[n]
      <3>1. Before(h, k) = Before(log[n], k)
        BY <1>1, <1>3, <2>2, BeforeExtension
      <3> QED  BY <3>1, <1>1, BeforeAll
    <2>4. h[k].by = n
      BY <2>2, <2>3 DEF ForkFreedom, SignedHistories, Replays, Applies
    <2>5. k <= Len(log[n])
      BY <2>2, <2>4 DEF ForkFreedom, OwnEntriesHeld
    <2> QED  BY <1>1, <2>5
  <1> QED  BY <1>2, <1>3

\* Committing an entry keeps the journal free of forks.
LEMMA CommitForkFree ==
    ASSUME TypeOK, ForkFreedom, NEW n \in Nodes, NEW op \in OperationIds,
           NEW m \in Mutations, append(n, op, m), UNCHANGED <<phase, inc>>,
           m.type = "Admit" => m.id[2] <= inc[KeyOf(m.id)]
    PROVE  ForkFreedom'
  <1> DEFINE e == Entry(Epoch(log[n]), op, n, m)
             l == log[n]
             H == Append(l, e)
  <1>1. e \in Entries /\ l \in Seq(Entries) /\ l \in signed
    BY AppendType DEF TypeOK, Histories, ForkFreedom, SignedHistories
  <1>2. /\ H \in Seq(Entries) /\ Len(H) = Len(l) + 1 /\ H[Len(l) + 1] = e
        /\ \A i \in 1..Len(l) : H[i] = l[i]
    BY <1>1, AppendProps
  <1>3. /\ signed' = signed \cup {H} /\ log' = [log EXCEPT ![n] = H]
        /\ Applies(l, e)
    BY DEF append
  <1>4. e.by = n /\ e.mutation = m
    BY DEF Entry
  <1>5. phase[n] = "Member" /\ KeyOf(Primary(l)) = n
    BY DEF append, IsWriter
  <1>6. \A h \in signed : Extends(l, h)
    BY <1>5, WriterHoldsAll
  <1>7. \A h \in signed : h \in Seq(Entries)
    BY DEF TypeOK, Histories
  <1> HIDE DEF e, H, l
  <1>8. \A h \in signed : Extends(H, h)
    BY <1>1, <1>2, <1>6, <1>7 DEF Extends
  <1>9. NoFork'
    <2>1. Extends(H, H)
      BY <1>2 DEF Extends
    <2> QED  BY <1>3, <1>8, <2>1 DEF NoFork, ForkFreedom, Extends
  <1>10. SignedHistories'
    <2>1. \A k \in Nodes : log'[k] \in signed'
      BY <1>3 DEF ForkFreedom, SignedHistories, TypeOK
    <2>2. Extends(H, l)
      BY <1>1, <1>8
    <2>3. \A i \in 1..(Len(l) + 1) : Before(H, i) = Before(l, i)
      BY <1>1, <1>2, <2>2, BeforeExtension
    <2>4. Before(l, Len(l) + 1) = l
      BY <1>1, BeforeAll
    <2>5. Before(H, Len(H) + 1) = H
      BY <1>2, BeforeAll
    <2>6. Replays(H)
      <3>1. \A i \in 1..Len(l) : Applies(Before(H, i), H[i])
        BY <1>1, <1>2, <2>3 DEF ForkFreedom, SignedHistories, Replays
      <3>2. Applies(Before(H, Len(H)), H[Len(H)])
        BY <1>1, <1>2, <1>3, <2>3, <2>4
      <3> QED  BY <1>1, <1>2, <3>1, <3>2 DEF Replays
    <2>7. \A i \in 1..(Len(H) + 1) : Before(H, i) \in signed'
      <3>1. \A i \in 1..(Len(l) + 1) : Before(H, i) \in signed
        BY <1>1, <2>3 DEF ForkFreedom, SignedHistories
      <3> QED  BY <1>1, <1>2, <1>3, <2>5, <3>1
    <2> QED  BY <1>3, <2>1, <2>6, <2>7 DEF ForkFreedom, SignedHistories
  <1>11. OwnEntriesHeld'
    <2> SUFFICES ASSUME NEW k \in Nodes, phase[k] = "Member",
                        NEW h \in signed', NEW i \in 1..Len(h), h[i].by = k
                 PROVE  i <= Len(log'[k])
      BY DEF OwnEntriesHeld
    <2>1. CASE k = n
      <3>1. Len(h) <= Len(H)
        BY <1>2, <1>3, <1>8 DEF Extends
      <3>2. log'[k] = H
        BY <1>3, <2>1 DEF TypeOK
      <3>3. h \in Seq(Entries)
        BY <1>2, <1>3, <1>7
      <3> QED  BY <1>2, <3>1, <3>2, <3>3
    <2>2. CASE k # n
      <3>1. log'[k] = log[k]
        BY <1>3, <2>2 DEF TypeOK
      <3>2. CASE h \in signed
        BY <3>1, <3>2 DEF ForkFreedom, OwnEntriesHeld
      <3>3. CASE h = H
        <4>1. i \in 1..Len(l) /\ l[i].by = k
          BY <1>1, <1>2, <1>4, <2>2, <3>3
        <4> QED  BY <1>1, <3>1, <4>1 DEF ForkFreedom, OwnEntriesHeld
      <3> QED  BY <1>3, <3>2, <3>3
    <2> QED  BY <2>1, <2>2
  <1>12. NothingSignedSinceAdmission'
    <2> SUFFICES ASSUME NEW k \in Nodes, phase[k] = "Joining"
                 PROVE  /\ Adm(k) # RootAdm
                        /\ \A h \in signed' : \A i, j \in 1..Len(h) :
                             /\ i < j
                             /\ h[i].mutation.type = "Admit"
                             /\ h[i].mutation.id = Adm(k)
                             => h[j].by # k
      BY DEF NothingSignedSinceAdmission, Adm
    <2>1. Adm(k) # RootAdm
      BY DEF ForkFreedom, NothingSignedSinceAdmission
    <2>2. ASSUME NEW h \in signed', NEW i \in 1..Len(h), NEW j \in 1..Len(h),
                 i < j, h[i].mutation.type = "Admit", h[i].mutation.id = Adm(k)
          PROVE  h[j].by # k
      <3>1. CASE h \in signed
        BY <2>2, <3>1 DEF ForkFreedom, NothingSignedSinceAdmission
      <3>2. CASE h = H /\ j <= Len(l)
        <4>1. /\ i \in 1..Len(l) /\ j \in 1..Len(l)
              /\ H[i] = l[i] /\ H[j] = l[j]
          BY <1>1, <1>2, <2>2, <3>2
        <4> QED  BY <1>1, <2>2, <3>2, <4>1 DEF ForkFreedom, NothingSignedSinceAdmission
      <3>3. CASE h = H /\ j = Len(l) + 1
        BY <1>2, <1>4, <1>5, <3>3
      <3> QED  BY <1>1, <1>2, <1>3, <3>1, <3>2, <3>3
    <2> QED  BY <2>1, <2>2
  <1>13. AdmittedExist'
    <2> SUFFICES ASSUME NEW h \in signed', NEW i \in Positions(h, "Admit")
                 PROVE  h[i].mutation.id[2] <= inc[KeyOf(h[i].mutation.id)]
      BY DEF ForkFreedom, AdmittedExist
    <2>1. CASE h \in signed
      BY <2>1 DEF ForkFreedom, AdmittedExist
    <2>2. CASE h = H
      <3>1. CASE i \in 1..Len(l)
        <4>1. i \in Positions(l, "Admit") /\ H[i] = l[i]
          BY <1>2, <2>2, <3>1 DEF Positions
        <4> QED  BY <1>1, <2>2, <4>1 DEF ForkFreedom, AdmittedExist
      <3>2. CASE i = Len(l) + 1
        BY <1>2, <1>4, <2>2, <3>2 DEF Positions
      <3> QED  BY <1>1, <1>2, <2>2, <3>1, <3>2 DEF Positions
    <2> QED  BY <1>3, <2>1, <2>2
  <1> QED  BY <1>9, <1>10, <1>11, <1>12, <1>13 DEF ForkFreedom

\* Installing a signed history keeps the journal free of forks.  The case that
\* matters is a joiner becoming a member: the history it installs contains its
\* admission, so nothing it ever signed lies beyond that history.
LEMMA InstallForkFree ==
    ASSUME TypeOK, ForkFreedom, NEW n \in Nodes, NEW h \in signed,
           install(n, h), UNCHANGED <<inc, signed>>,
           NEW p \in Phases, phase' = [phase EXCEPT ![n] = p],
           p = "Joining" => phase[n] = "Joining",
           p = "Member" => \/ phase[n] = "Member"
                           \/ phase[n] = "Joining" /\ Adm(n) \in Members(h)
    PROVE  ForkFreedom'
  <1>1. /\ log' = [log EXCEPT ![n] = h] /\ Extends(h, log[n])
        /\ h \in Seq(Entries) /\ log[n] \in Seq(Entries)
    BY DEF install, Installable, TypeOK, Histories
  <1>2. /\ log'[n] = h /\ phase'[n] = p
        /\ \A k \in Nodes \ {n} : log'[k] = log[k] /\ phase'[k] = phase[k]
    BY <1>1 DEF TypeOK
  <1>3. NoFork' /\ AdmittedExist'
    BY DEF ForkFreedom, NoFork, AdmittedExist
  <1>4. SignedHistories'
    BY <1>2 DEF ForkFreedom, SignedHistories
  <1>5. NothingSignedSinceAdmission'
    BY <1>2 DEF ForkFreedom, NothingSignedSinceAdmission, Adm
  <1>6. OwnEntriesHeld'
    <2> SUFFICES ASSUME NEW k \in Nodes, phase'[k] = "Member",
                        NEW g \in signed, NEW j \in 1..Len(g), g[j].by = k
                 PROVE  j <= Len(log'[k])
      BY DEF OwnEntriesHeld
    <2>1. CASE k # n
      BY <1>2, <2>1 DEF ForkFreedom, OwnEntriesHeld
    <2>2. CASE k = n /\ phase[n] = "Member"
      <3>1. j <= Len(log[n])
        BY <2>2 DEF ForkFreedom, OwnEntriesHeld
      <3> QED  BY <1>1, <1>2, <2>2, <3>1 DEF Extends
    <2>3. CASE k = n /\ phase[n] = "Joining" /\ Adm(n) \in Members(h)
      <3>1. Adm(n) # RootAdm
        BY <2>3 DEF ForkFreedom, NothingSignedSinceAdmission
      <3>2. PICK i \in Positions(h, "Admit") : h[i].mutation.id = Adm(n)
        BY <2>3, <3>1 DEF Members, IdsOf
      <3>3. i \in 1..Len(h) /\ h[i].mutation.type = "Admit"
        BY <3>2 DEF Positions
      <3>4. g \in Seq(Entries)
        BY DEF TypeOK, Histories
      <3>5. ASSUME j > Len(h) PROVE FALSE
        <4>1. Extends(g, h)
          BY <1>1, <3>4, <3>5 DEF ForkFreedom, NoFork, Extends
        <4>2. i \in 1..Len(g) /\ i < j /\ g[i] = h[i]
          BY <1>1, <3>3, <3>4, <3>5, <4>1 DEF Extends
        <4> QED  BY <2>3, <3>2, <3>3, <4>2 DEF ForkFreedom, NothingSignedSinceAdmission
      <3> QED  BY <1>1, <1>2, <2>3, <3>4, <3>5
    <2> QED  BY <1>2, <2>1, <2>2, <2>3
  <1> QED  BY <1>3, <1>4, <1>5, <1>6 DEF ForkFreedom

\* The same for import, whichever handler called it.
LEMMA ImportForkFree ==
    ASSUME TypeOK, ForkFreedom, NEW n \in Nodes, NEW h \in signed, import(n, h),
           phase[n] # "Unaffiliated",
           phase[n] = "Joining" => Adm(n) \in Members(h)
    PROVE  ForkFreedom'
  <1> DEFINE p == ImportedPhase(n, h)
  <1>1. p \in Phases /\ p # "Joining" /\ (p = "Member" => phase[n] \in {"Member", "Joining"})
    BY DEF ImportedPhase, Phases, TypeOK
  <1>2. install(n, h) /\ UNCHANGED <<inc, signed>> /\ phase' = [phase EXCEPT ![n] = p]
    BY DEF import
  <1> HIDE DEF p
  <1> QED  BY <1>1, <1>2, InstallForkFree

\* A step that touches neither phases, incarnations, logs nor signed histories.
LEMMA QuietForkFree ==
    ASSUME ForkFreedom, UNCHANGED <<phase, inc, log, signed>>
    PROVE  ForkFreedom'
  BY DEF ForkFreedom, NoFork, SignedHistories, OwnEntriesHeld,
         NothingSignedSinceAdmission, AdmittedExist, Adm

\* Wiping the log for a new incarnation keeps the journal free of forks, because
\* nobody can have admitted that incarnation yet.
LEMMA JoinForkFree ==
    ASSUME TypeOK, ForkFreedom, NEW n \in Nodes, PrepareClusterJoin(n)
    PROVE  ForkFreedom'
  <1>1. /\ phase' = [phase EXCEPT ![n] = "Joining"]
        /\ inc' = [inc EXCEPT ![n] = @ + 1]
        /\ log' = [log EXCEPT ![n] = <<>>]
        /\ signed' = signed
    BY DEF PrepareClusterJoin
  <1>2. /\ phase'[n] = "Joining" /\ inc'[n] = inc[n] + 1 /\ log'[n] = <<>>
        /\ \A k \in Nodes \ {n} :
            phase'[k] = phase[k] /\ inc'[k] = inc[k] /\ log'[k] = log[k]
        /\ \A k \in Nodes : inc[k] \in Nat /\ inc[k] <= inc'[k]
    BY <1>1 DEF TypeOK
  <1>3. NoFork'
    BY <1>1 DEF ForkFreedom, NoFork
  <1>4. SignedHistories'
    <2>1. log[n] \in signed /\ log[n] \in Seq(Entries)
      BY DEF ForkFreedom, SignedHistories, TypeOK, Histories
    <2>2. Before(log[n], 1) \in signed
      BY <2>1 DEF ForkFreedom, SignedHistories
    <2>3. Before(log[n], 1) = <<>>
      BY <2>1 DEF Before
    <2> QED  BY <1>1, <1>2, <2>2, <2>3 DEF ForkFreedom, SignedHistories
  <1>5. OwnEntriesHeld'
    BY <1>1, <1>2 DEF ForkFreedom, OwnEntriesHeld
  <1>6. NothingSignedSinceAdmission'
    <2> SUFFICES ASSUME NEW k \in Nodes, phase'[k] = "Joining"
                 PROVE  /\ <<k, inc'[k]>> # RootAdm
                        /\ \A h \in signed : \A i, j \in 1..Len(h) :
                             /\ i < j
                             /\ h[i].mutation.type = "Admit"
                             /\ h[i].mutation.id = <<k, inc'[k]>>
                             => h[j].by # k
      BY <1>1 DEF NothingSignedSinceAdmission, Adm
    <2>1. CASE k # n
      BY <1>2, <2>1 DEF ForkFreedom, NothingSignedSinceAdmission, Adm
    <2>2. CASE k = n
      <3>1. <<n, inc'[n]>> # RootAdm
        BY <1>2 DEF ForkFreedom, AdmittedExist, RootAdm
      <3>2. ASSUME NEW h \in signed, NEW i \in 1..Len(h),
                   h[i].mutation.type = "Admit", h[i].mutation.id = <<n, inc'[n]>>
            PROVE  FALSE
        <4>1. i \in Positions(h, "Admit")
          BY <3>2 DEF Positions
        <4>2. inc'[n] <= inc[n]
          BY <3>2, <4>1 DEF ForkFreedom, AdmittedExist, KeyOf
        <4> QED  BY <1>2, <4>2
      <3> QED  BY <2>2, <3>1, <3>2
    <2> QED  BY <2>1, <2>2
  <1>7. AdmittedExist'
    <2>1. inc'[Root] > 0
      BY <1>2, RootAssumption DEF ForkFreedom, AdmittedExist
    <2>2. ASSUME NEW h \in signed, NEW i \in Positions(h, "Admit")
          PROVE  h[i].mutation.id[2] <= inc'[KeyOf(h[i].mutation.id)]
      <3> DEFINE a == h[i].mutation.id
      <3>1. a[2] <= inc[KeyOf(a)]
        BY DEF ForkFreedom, AdmittedExist
      <3>2. a \in Admissions
        BY AdmitIdType DEF TypeOK
      <3>3. KeyOf(a) \in Nodes /\ a[2] \in Nat
        BY <3>2, BoundAssumption DEF Admissions, KeyOf
      <3> HIDE DEF a
      <3>4. a[2] <= inc'[KeyOf(a)]
        BY <1>2, <3>1, <3>3
      <3> QED  BY <3>4 DEF a
    <2> QED  BY <1>1, <2>1, <2>2 DEF AdmittedExist
  <1> QED  BY <1>3, <1>4, <1>5, <1>6, <1>7 DEF ForkFreedom

\* Every management procedure keeps the journal free of forks.
LEMMA ClientCallForkFree ==
    ASSUME TypeOK, ForkFreedom, NEW n \in Nodes, ClientCall(n)
    PROVE  ForkFreedom'
  <1>1. CASE PrepareClusterJoin(n)
    BY <1>1, JoinForkFree
  <1>2. CASE CancelClusterJoin(n)
    <2>1. phase' = [phase EXCEPT ![n] = "RemovalPending"] /\ UNCHANGED <<inc, log, signed>>
      BY <1>2 DEF CancelClusterJoin
    <2> QED  BY <2>1 DEF TypeOK, ForkFreedom, NoFork, SignedHistories, OwnEntriesHeld,
                        NothingSignedSinceAdmission, AdmittedExist, Adm
  <1>3. ASSUME NEW h \in signed, ConfigureClusterJoinSync(n, h) PROVE ForkFreedom'
    <2>1. /\ phase[n] = "Joining" /\ install(n, h) /\ UNCHANGED <<inc, signed>>
          /\ \/ phase' = [phase EXCEPT ![n] = "Removed"]
             \/ phase' = phase
      BY <1>3 DEF ConfigureClusterJoinSync
    <2>2. PICK p \in {"Removed", "Joining"} : phase' = [phase EXCEPT ![n] = p]
      BY <2>1 DEF TypeOK
    <2> QED  BY <2>1, <2>2, InstallForkFree DEF Phases
  <1>4. ASSUME NEW h \in signed,
               \/ FinishClusterJoin(n, h)
               \/ ApplyClusterHistory(n, h)
               \/ ActivateClusterPrimary(n, h)
        PROVE  ForkFreedom'
    <2>1. /\ import(n, h) /\ phase[n] # "Unaffiliated"
          /\ phase[n] = "Joining" => Adm(n) \in Members(h)
      BY <1>4 DEF FinishClusterJoin, ApplyClusterHistory, ActivateClusterPrimary
    <2> QED  BY <2>1, ImportForkFree
  <1>5. ASSUME NEW op \in Ops, NEW a \in Admissions, AdmitClusterMember(n, a, op)
        PROVE  ForkFreedom'
    <2>1. op \in OperationIds /\ Admit(a) \in Mutations
      BY DEF OperationIds, Mutations
    <2>2. /\ append(n, op, Admit(a)) /\ UNCHANGED <<phase, inc>>
          /\ a[2] \in 1..inc[KeyOf(a)] /\ Admit(a).id = a
      BY <1>5 DEF AdmitClusterMember, Admit
    <2> QED  BY <2>1, <2>2, CommitForkFree
  <1>6. ASSUME NEW op \in Ops, NEW a \in Admissions, RemoveClusterMember(n, a, op)
        PROVE  ForkFreedom'
    <2>1. op \in OperationIds /\ Remove(a) \in Mutations /\ Remove(a).type # "Admit"
      BY DEF OperationIds, Mutations, Remove
    <2> QED  BY <1>6, <2>1, CommitForkFree DEF RemoveClusterMember
  <1>7. ASSUME NEW op \in Ops, PreparePrimaryTransfer(n, op) PROVE ForkFreedom'
    BY <1>7, QuietForkFree DEF PreparePrimaryTransfer
  <1>8. ASSUME NEW op \in LeaveOps, LeaveCluster(n, op) PROVE ForkFreedom'
    BY <1>8, QuietForkFree DEF LeaveCluster
  <1>9. ASSUME NEW r \in accepted, SealPrimaryTransfer(n, r) PROVE ForkFreedom'
    <2>1. r \in Rows
      BY DEF TypeOK
    <2>2. /\ r.op \in OperationIds /\ Transfer(r.target) \in Mutations
          /\ Transfer(r.target).type # "Admit"
      BY <2>1 DEF OperationIds, Mutations, Rows, Transfer
    <2> QED  BY <1>9, <2>2, CommitForkFree DEF SealPrimaryTransfer
  <1>10. ASSUME NEW g \in Grants, NEW a \in Admissions, AdoptClusterClient(n, g, a)
         PROVE  ForkFreedom'
    <2>1. g \in OperationIds /\ Adopt(g, a) \in Mutations /\ Adopt(g, a).type # "Admit"
      BY DEF OperationIds, Mutations, Adopt
    <2> QED  BY <1>10, <2>1, CommitForkFree DEF AdoptClusterClient
  <1>11. ASSUME NEW g \in Grants, NEW op \in Ops \cup {CancelOp(g)},
                RevokeClusterClientGrant(n, g, op)
         PROVE  ForkFreedom'
    <2>1. op \in OperationIds /\ Revoke(g) \in Mutations /\ Revoke(g).type # "Admit"
      BY DEF OperationIds, Mutations, Revoke
    <2> QED  BY <1>11, <2>1, CommitForkFree DEF RevokeClusterClientGrant
  <1> QED
    BY <1>1, <1>2, <1>3, <1>4, <1>5, <1>6, <1>7, <1>8, <1>9, <1>10, <1>11
    DEF ClientCall

\* The worker's steps keep the journal free of forks.
LEMMA WorkerStepForkFree ==
    ASSUME TypeOK, ForkFreedom, NEW n \in Nodes, WorkerStep(n)
    PROVE  ForkFreedom'
  <1>1. CASE LeaveTick(n)
    <2> DEFINE m == KeyOf(Primary(log[n]))
    <2>1. CanCall(n, m) /\ UNCHANGED <<phase, inc>>
      BY <1>1 DEF LeaveTick
    <2>2. PICK r \in leaving[n] : append(m, r.op, Remove(Adm(n)))
      BY <1>1 DEF LeaveTick
    <2>3. r.op \in OperationIds
      BY DEF TypeOK, OperationIds
    <2>4. Adm(n) \in Admissions
      BY <2>1, AdmType DEF CanCall, sign
    <2>5. Remove(Adm(n)) \in Mutations /\ Remove(Adm(n)).type # "Admit"
      BY <2>4 DEF Mutations, Remove
    <2>6. m \in Nodes
      <3>1. PICK a \in Members(log[n]) : m = KeyOf(a)
        BY <2>1 DEF CanCall, sign
      <3>2. a \in Admissions
        BY <3>1, MembersType DEF TypeOK
      <3> QED  BY <3>1, <3>2 DEF KeyOf, Admissions
    <2> HIDE DEF m
    <2> QED  BY <2>1, <2>2, <2>3, <2>5, <2>6, CommitForkFree
  <1>2. ASSUME NEW m \in Nodes, SyncHistory(n, m) PROVE ForkFreedom'
    <2>1. log[m] \in signed /\ import(n, log[m]) /\ phase[n] = "Member"
      BY <1>2 DEF SyncHistory, apply_sync, CanCall, sign, ForkFreedom, SignedHistories
    <2> QED  BY <2>1, ImportForkFree
  <1>3. ASSUME NEW m \in Nodes, SyncRemovalProof(n, m) PROVE ForkFreedom'
    <2>1. PICK i \in ProofEnds(m, n) : import(n, SubSeq(log[m], 1, i))
      BY <1>3 DEF SyncRemovalProof
    <2>2. i \in 1..Len(log[m]) /\ log[m] \in Seq(Entries) /\ log[m] \in signed
      BY DEF ProofEnds, Positions, TypeOK, Histories, ForkFreedom, SignedHistories
    <2>3. SubSeq(log[m], 1, i) = Before(log[m], i + 1)
      BY <2>2 DEF Before
    <2>4. SubSeq(log[m], 1, i) \in signed
      <3>1. i + 1 \in 1..(Len(log[m]) + 1)
        BY <2>2
      <3> QED  BY <2>2, <2>3, <3>1 DEF ForkFreedom, SignedHistories
    <2>5. phase[n] = "Member"
      BY <1>3 DEF SyncRemovalProof, CanCall, sign
    <2> QED  BY <2>1, <2>4, <2>5, ImportForkFree
  <1>4. ASSUME NEW m \in Nodes, JoinTick(n, m) PROVE ForkFreedom'
    <2>1. /\ log[m] \in signed /\ import(n, log[m]) /\ Adm(n) \in Members(log[m])
          /\ phase[n] # "Unaffiliated"
      BY <1>4 DEF JoinTick, FinishClusterJoin, ForkFreedom, SignedHistories
    <2> QED  BY <2>1, ImportForkFree
  <1> QED  BY <1>1, <1>2, <1>3, <1>4 DEF WorkerStep

\* The inductive invariant holds: wiping and re-joining, late deliveries and
\* handoffs never let two keys, or one key twice, sign the same position.
THEOREM ForkFree == Spec => []ForkFreedom
  <1>1. Init => ForkFreedom
    <2> SUFFICES ASSUME Init PROVE ForkFreedom
      OBVIOUS
    <2>1. /\ signed = {<<>>} /\ \A n \in Nodes : log[n] = <<>> /\ phase[n] # "Joining"
          /\ inc[Root] > 0
      BY RootAssumption DEF Init
    <2>2. Replays(<<>>) /\ Before(<<>>, 1) = <<>>
      BY DEF Replays, Before
    <2> QED  BY <2>1, <2>2 DEF ForkFreedom, NoFork, SignedHistories, OwnEntriesHeld,
                NothingSignedSinceAdmission, AdmittedExist, Extends, Positions
  <1>2. TypeOK /\ ForkFreedom /\ [Next]_vars => ForkFreedom'
    <2> SUFFICES ASSUME TypeOK, ForkFreedom, [Next]_vars PROVE ForkFreedom'
      OBVIOUS
    <2>1. CASE UNCHANGED vars
      BY <2>1, QuietForkFree DEF vars
    <2>2. ASSUME NEW a \in Admissions, ConsentLapses(a) PROVE ForkFreedom'
      BY <2>2, QuietForkFree DEF ConsentLapses
    <2> QED  BY <2>1, <2>2, ClientCallForkFree, WorkerStepForkFree DEF Next
  <1> QED  BY <1>1, <1>2, TypeCorrect, PTL DEF Spec

\* Both together: the invariant the runs check of execute and of the worker.
THEOREM JournalIsSound == Spec => []JournalInvariant
  <1>1. TypeOK /\ ForkFreedom => JournalInvariant
    BY DEF JournalInvariant
  <1> QED  BY <1>1, TypeCorrect, ForkFree, PTL

\* No two histories ever signed by primaries of the cluster conflict.
THEOREM NeverForks == Spec => []NoFork
  <1>1. ForkFreedom => NoFork
    BY DEF ForkFreedom
  <1> QED  BY <1>1, ForkFree, PTL

\* At most one node may append, and it holds everything ever signed.
THEOREM WriterIsUnique == Spec => []SoleWriter
  <1>1. TypeOK /\ ForkFreedom => SoleWriter
    <2> SUFFICES ASSUME TypeOK, ForkFreedom, NEW n \in Nodes, IsWriter(n)
                 PROVE  /\ \A m \in Nodes : IsWriter(m) => m = n
                        /\ \A h \in signed : Extends(log[n], h)
      BY DEF SoleWriter
    <2>1. \A h \in signed : Extends(log[n], h)
      BY WriterHoldsAll DEF IsWriter
    <2>2. ASSUME NEW m \in Nodes, IsWriter(m) PROVE m = n
      <3>1. \A h \in signed : Extends(log[m], h)
        BY <2>2, WriterHoldsAll DEF IsWriter
      <3>2. log[m] \in signed /\ log[n] \in signed
        BY DEF ForkFreedom, SignedHistories
      <3>3. log[m] \in Seq(Entries) /\ log[n] \in Seq(Entries)
        BY DEF TypeOK, Histories
      <3>4. log[m] = log[n]
        BY <2>1, <3>1, <3>2, <3>3, SeqExt DEF Extends
      <3> QED  BY <2>2, <3>4 DEF IsWriter
    <2> QED  BY <2>1, <2>2
  <1> QED  BY <1>1, TypeCorrect, ForkFree, PTL

-----------------------------------------------------------------------------
(***************************************************************************)
(* What the journal's histories mean for its members: an abandoned         *)
(* incarnation stays out, a leaving node never becomes the primary, and    *)
(* the right to append is never lost.                                      *)
(***************************************************************************)
-----------------------------------------------------------------------------
(* The inductive invariant *)

Admitted(h) == {RootAdm} \cup IdsOf(h, "Admit")
Removed(h) == IdsOf(h, "Remove")

\* A phase agrees with the log the node holds.
MembershipKnown ==
    \A n \in Nodes :
        /\ phase[n] = "Unaffiliated" => inc[n] = 0
        /\ phase[n] = "Member" => Adm(n) \in Admitted(log[n])
        /\ phase[n] = "Removed" => Adm(n) \in Removed(log[n])

\* A node joins again only after its previous incarnation was removed.
AbandonedRemoved ==
    \A n \in Nodes : \A k \in 1..(inc[n] - 1) :
        \E h \in signed : <<n, k>> \in Removed(h)

\* A history admits an incarnation after the removal of all earlier ones.
RemovedBeforeNext ==
    \A h \in signed : \A i \in Positions(h, "Admit") :
        \A k \in 1..(h[i].mutation.id[2] - 1) :
            <<KeyOf(h[i].mutation.id), k>> \in Removed(Before(h, i))

\* An acceptance of the current incarnation is still in its node's table.
AcceptedKnown ==
    \A r \in accepted :
        LET t == KeyOf(r.target) IN
        /\ r.target[2] <= inc[t]
        /\ r.target = Adm(t) => r \in prepared[t] /\ phase[t] \in {"Member", "Removed"}

\* The log has not been cut below the head an acceptance is bound to.
PreparedHeld ==
    \A n \in Nodes : \A r \in prepared[n] : Extends(log[n], r.prefix)

\* Every handoff ever signed carries the acceptance of its target.
TransfersAccepted ==
    \A h \in signed : \A i \in Positions(h, "Transfer") : Acceptance(h, i) \in accepted

\* A leaving member is not primary and has no acceptance at its head.
LeavingQuiet ==
    \A n \in Nodes :
        /\ \A r \in leaving[n] : r.admission[2] <= inc[n]
        /\ phase[n] = "Joining" => ~IsLeaving(n)
        /\ phase[n] = "Member" /\ IsLeaving(n) =>
            Primary(log[n]) # Adm(n) /\ PreparedAt(n, log[n]) = {}

HasLast(h) ==
    Positions(h, "Transfer") # {} =>
        \E i \in Positions(h, "Transfer") : \A j \in Positions(h, "Transfer") : j <= i

\* A signed history names one of its own members primary.
Led ==
    \A h \in signed :
        HasLast(h) /\ Primary(h) \in Members(h) /\ Len(h) <= MAX_HISTORY

\* Somebody may append, or the latest history waits for its new primary.
RoleHeld ==
    \/ \E n \in Nodes : IsWriter(n)
    \/ \E n \in Nodes, h \in signed :
        /\ Latest(h)
        /\ phase[n] = "Member"
        /\ Primary(h) = Adm(n)
        /\ NewHandoffs(n, h) # {}

AuthorityInvariant ==
    /\ MembershipKnown
    /\ AbandonedRemoved
    /\ RemovedBeforeNext
    /\ AcceptedKnown
    /\ PreparedHeld
    /\ TransfersAccepted
    /\ LeavingQuiet
    /\ Led
    /\ RoleHeld

-----------------------------------------------------------------------------
(* Views of a history and of its extensions *)

\* Extension is transitive.
LEMMA ExtendsTrans ==
    ASSUME NEW S, NEW f \in Seq(S), NEW g \in Seq(S), NEW h \in Seq(S),
           Extends(h, g), Extends(g, f)
    PROVE  Extends(h, f)
  BY DEF Extends

\* Histories that extend each other are equal.
LEMMA ExtendsAnti ==
    ASSUME NEW S, NEW g \in Seq(S), NEW h \in Seq(S), Extends(h, g), Extends(g, h)
    PROVE  g = h
  BY SeqExt DEF Extends

\* What a history mentions, its extensions mention.
LEMMA IdsGrow ==
    ASSUME NEW g \in Seq(Entries), NEW h \in Seq(Entries), Extends(h, g), NEW t
    PROVE  Positions(g, t) \subseteq Positions(h, t) /\ IdsOf(g, t) \subseteq IdsOf(h, t)
  <1>1. \A i \in Positions(g, t) : i \in Positions(h, t) /\ h[i] = g[i]
    BY DEF Extends, Positions
  <1> QED  BY <1>1 DEF IdsOf

\* Appending an entry adds its position to those of its type only.
LEMMA PositionsAppend ==
    ASSUME NEW l \in Seq(Entries), NEW e \in Entries, NEW t
    PROVE  /\ Extends(Append(l, e), l)
           /\ e.mutation.type # t => Positions(Append(l, e), t) = Positions(l, t)
           /\ e.mutation.type = t =>
                Positions(Append(l, e), t) = Positions(l, t) \cup {Len(l) + 1}
  <1>1. /\ Len(Append(l, e)) = Len(l) + 1 /\ Append(l, e)[Len(l) + 1] = e
        /\ \A i \in 1..Len(l) : Append(l, e)[i] = l[i]
        /\ Len(l) \in Nat
    BY AppendProps
  <1> DEFINE h == Append(l, e)
  <1> HIDE DEF h
  <1>2. /\ Len(h) = Len(l) + 1 /\ h[Len(l) + 1] = e /\ Len(l) \in Nat
        /\ \A i \in 1..Len(l) : h[i] = l[i]
    BY <1>1 DEF h
  <1>3. Extends(h, l)
    BY <1>2 DEF Extends
  <1>4. 1..Len(h) = 1..Len(l) \cup {Len(l) + 1} /\ Len(l) + 1 \notin 1..Len(l)
    BY <1>2
  <1>5. /\ e.mutation.type # t => Positions(h, t) = Positions(l, t)
        /\ e.mutation.type = t => Positions(h, t) = Positions(l, t) \cup {Len(l) + 1}
    BY <1>2, <1>4 DEF Positions
  <1> QED  BY <1>3, <1>5 DEF h

\* The same for the ids of a type.
LEMMA IdsAppend ==
    ASSUME NEW l \in Seq(Entries), NEW e \in Entries, NEW t
    PROVE  /\ e.mutation.type # t => IdsOf(Append(l, e), t) = IdsOf(l, t)
           /\ e.mutation.type = t =>
                IdsOf(Append(l, e), t) = IdsOf(l, t) \cup {e.mutation.id}
  <1> DEFINE h == Append(l, e)
  <1>1. h[Len(l) + 1] = e /\ \A i \in Positions(l, t) : h[i] = l[i]
    BY AppendProps DEF Positions
  <1>2. /\ e.mutation.type # t => Positions(h, t) = Positions(l, t)
        /\ e.mutation.type = t => Positions(h, t) = Positions(l, t) \cup {Len(l) + 1}
    BY PositionsAppend
  <1> HIDE DEF h
  <1>3. CASE e.mutation.type # t
    BY <1>1, <1>2, <1>3 DEF IdsOf, h
  <1>4. CASE e.mutation.type = t
    <2>1. \A x : x \in IdsOf(h, t) <=> x \in IdsOf(l, t) \/ x = e.mutation.id
      BY <1>1, <1>2, <1>4 DEF IdsOf
    <2> QED  BY <1>4, <2>1 DEF h
  <1> QED  BY <1>3, <1>4

\* The last handoff of a history is one, and no handoff comes after it.
LEMMA LastProps ==
    ASSUME NEW h, HasLast(h), Positions(h, "Transfer") # {}
    PROVE  /\ LastTransfer(h) \in Positions(h, "Transfer")
           /\ \A j \in Positions(h, "Transfer") : j <= LastTransfer(h)
  BY DEF HasLast, LastTransfer

\* A handoff that no other comes after is the last.
LEMMA LastIs ==
    ASSUME NEW h \in Seq(Entries), NEW i \in Positions(h, "Transfer"),
           \A j \in Positions(h, "Transfer") : j <= i
    PROVE  LastTransfer(h) = i
  <1>1. Positions(h, "Transfer") \subseteq Nat
    BY DEF Positions
  <1>2. HasLast(h)
    BY DEF HasLast
  <1>3. LastTransfer(h) \in Positions(h, "Transfer") /\ i <= LastTransfer(h)
    BY <1>2, LastProps
  <1>4. LastTransfer(h) <= i
    BY <1>3
  <1> QED  BY <1>1, <1>3, <1>4

\* An appended entry moves the role exactly when it is a handoff.
LEMMA PrimaryAppend ==
    ASSUME NEW l \in Seq(Entries), NEW e \in Entries, HasLast(l)
    PROVE  /\ HasLast(Append(l, e))
           /\ e.mutation.type # "Transfer" => Primary(Append(l, e)) = Primary(l)
           /\ e.mutation.type = "Transfer" => Primary(Append(l, e)) = e.mutation.id
  <1> DEFINE h == Append(l, e)
  <1>0. h \in Seq(Entries) /\ h[Len(l) + 1] = e /\ \A i \in 1..Len(l) : h[i] = l[i]
    BY AppendProps
  <1>1. CASE e.mutation.type # "Transfer"
    <2>1. Positions(h, "Transfer") = Positions(l, "Transfer")
      BY <1>1, PositionsAppend
    <2>2. HasLast(h) /\ LastTransfer(h) = LastTransfer(l)
      BY <2>1 DEF HasLast, LastTransfer
    <2>3. Positions(l, "Transfer") # {} => h[LastTransfer(l)] = l[LastTransfer(l)]
      BY <1>0, LastProps DEF Positions
    <2> QED  BY <1>1, <2>1, <2>2, <2>3 DEF Primary
  <1>2. CASE e.mutation.type = "Transfer"
    <2>1. Positions(h, "Transfer") = Positions(l, "Transfer") \cup {Len(l) + 1}
      BY <1>2, PositionsAppend
    <2>2. \A j \in Positions(h, "Transfer") : j <= Len(l) + 1
      BY <2>1 DEF Positions
    <2>3. Len(l) + 1 \in Positions(h, "Transfer")
      BY <2>1
    <2>4. HasLast(h)
      BY <2>2, <2>3 DEF HasLast
    <2> HIDE DEF h
    <2>5. LastTransfer(h) = Len(l) + 1
      BY <1>0, <2>2, <2>3, LastIs
    <2>6. Primary(h) = e.mutation.id
      BY <1>0, <2>3, <2>5 DEF Primary
    <2> QED  BY <1>2, <2>4, <2>6 DEF h
  <1> QED  BY <1>1, <1>2

\* A history whose last handoff lies in l names the primary l names.
LEMMA PrimaryWithin ==
    ASSUME NEW l \in Seq(Entries), NEW h \in Seq(Entries), Extends(h, l), HasLast(h),
           Positions(h, "Transfer") # {} => LastTransfer(h) <= Len(l)
    PROVE  Primary(l) = Primary(h)
  <1>1. Positions(l, "Transfer") \subseteq Positions(h, "Transfer")
    BY IdsGrow
  <1>2. CASE Positions(h, "Transfer") = {}
    BY <1>1, <1>2 DEF Primary
  <1>3. CASE Positions(h, "Transfer") # {}
    <2> DEFINE i == LastTransfer(h)
    <2>1. /\ i \in Positions(h, "Transfer") /\ i <= Len(l)
          /\ \A j \in Positions(h, "Transfer") : j <= i
      BY <1>3, LastProps
    <2> HIDE DEF i
    <2>2. i \in Positions(l, "Transfer") /\ l[i] = h[i]
      BY <2>1 DEF Positions, Extends
    <2>3. LastTransfer(l) = i
      BY <1>1, <2>1, <2>2, LastIs
    <2> QED  BY <1>3, <2>2, <2>3 DEF Primary, i
  <1> QED  BY <1>2, <1>3

-----------------------------------------------------------------------------
(* What the invariant says of a state *)

\* Signed histories and logs are sequences of entries.
LEMMA SignedTyped ==
    ASSUME TypeOK, ForkFreedom
    PROVE  /\ \A h \in signed : h \in Seq(Entries)
           /\ \A n \in Nodes : log[n] \in signed /\ log[n] \in Seq(Entries)
           /\ \A n \in Nodes : inc[n] \in Nat
  BY DEF TypeOK, Histories, ForkFreedom, SignedHistories

\* An admitted incarnation is one its node has reached.
LEMMA AdmittedReached ==
    ASSUME TypeOK, ForkFreedom, NEW h \in signed, NEW a \in Admitted(h)
    PROVE  a \in Admissions /\ KeyOf(a) \in Nodes /\ a[2] \in Nat /\ a[2] <= inc[KeyOf(a)]
  <1>1. a \in Admissions
    <2>1. h \in Histories
      BY DEF TypeOK
    <2>2. RootAdm \in Admissions
      BY RootAssumption, BoundAssumption DEF RootAdm, Admissions
    <2> QED  BY <2>1, <2>2, AdmitIdType DEF Admitted, IdsOf
  <1>2. a[2] <= inc[KeyOf(a)]
    <2>1. CASE a = RootAdm
      <3>1. inc[Root] > 0 /\ inc[Root] \in Nat
        BY RootAssumption DEF ForkFreedom, AdmittedExist, TypeOK
      <3>2. a[2] = 1 /\ KeyOf(a) = Root
        BY <2>1 DEF RootAdm, KeyOf
      <3> QED  BY <3>1, <3>2
    <2>2. CASE a # RootAdm
      BY <2>2 DEF Admitted, IdsOf, ForkFreedom, AdmittedExist
    <2> QED  BY <2>1, <2>2
  <1> QED  BY <1>1, <1>2, BoundAssumption DEF Admissions, KeyOf

\* A member that names its own key primary has seen every earlier incarnation
\* of every node removed.
LEMMA WriterSawRemovals ==
    ASSUME TypeOK, ForkFreedom, AbandonedRemoved, NEW n \in Nodes,
           phase[n] = "Member", KeyOf(Primary(log[n])) = n,
           NEW m \in Nodes, NEW k \in 1..(inc[m] - 1)
    PROVE  <<m, k>> \in Removed(log[n])
  <1>1. PICK h \in signed : <<m, k>> \in Removed(h)
    BY DEF AbandonedRemoved
  <1>2. Extends(log[n], h)
    BY WriterHoldsAll
  <1> QED  BY <1>1, <1>2, SignedTyped, IdsGrow DEF Removed

\* The same in terms of an incarnation that is a member for the writer.
LEMMA MemberForWriter ==
    ASSUME TypeOK, ForkFreedom, AbandonedRemoved, NEW n \in Nodes,
           phase[n] = "Member", KeyOf(Primary(log[n])) = n,
           NEW a \in Members(log[n])
    PROVE  KeyOf(a) \in Nodes /\ a = Adm(KeyOf(a))
  <1>1. a \in Admitted(log[n]) /\ a \notin Removed(log[n])
    BY DEF Members, Admitted, Removed
  <1>2. a \in Admissions /\ KeyOf(a) \in Nodes /\ a[2] <= inc[KeyOf(a)]
    BY <1>1, SignedTyped, AdmittedReached
  <1>3. a = <<KeyOf(a), a[2]>> /\ a[2] \in Nat /\ a[2] >= 1
    BY <1>2, BoundAssumption DEF Admissions, KeyOf
  <1>4. inc[KeyOf(a)] \in Nat
    BY <1>2, SignedTyped
  <1>5. ASSUME a[2] # inc[KeyOf(a)] PROVE FALSE
    <2>1. a[2] \in 1..(inc[KeyOf(a)] - 1)
      BY <1>2, <1>3, <1>4, <1>5
    <2> QED  BY <1>1, <1>2, <1>3, <2>1, WriterSawRemovals
  <1> QED  BY <1>2, <1>3, <1>5 DEF Adm

\* The node that may append is the primary under its current incarnation.
LEMMA WriterIsCurrent ==
    ASSUME TypeOK, ForkFreedom, AbandonedRemoved, NEW n \in Nodes, IsWriter(n)
    PROVE  Primary(log[n]) = Adm(n) /\ Adm(n) \in Members(log[n])
  BY MemberForWriter DEF IsWriter

\* A member that has recorded its leave is not primary in any extension of its
\* log: a handoff to it would be bound to exactly its head.
LEMMA LeaverNotPrimary ==
    ASSUME TypeOK, ForkFreedom, AuthorityInvariant, NEW n \in Nodes,
           phase[n] = "Member", IsLeaving(n), NEW h \in signed, Extends(h, log[n])
    PROVE  Primary(h) # Adm(n)
  <1>1. log[n] \in Seq(Entries) /\ h \in Seq(Entries) /\ HasLast(h)
    BY SignedTyped DEF AuthorityInvariant, Led
  <1>2. Primary(log[n]) # Adm(n) /\ PreparedAt(n, log[n]) = {}
    BY DEF AuthorityInvariant, LeavingQuiet
  <1> SUFFICES ASSUME Primary(h) = Adm(n) PROVE FALSE
    OBVIOUS
  <1>3. Positions(h, "Transfer") # {} /\ ~(LastTransfer(h) <= Len(log[n]))
    BY <1>1, <1>2, PrimaryWithin
  <1> DEFINE i == LastTransfer(h)
             r == Acceptance(h, i)
  <1>4. i \in Positions(h, "Transfer") /\ h[i].mutation.id = Adm(n)
    BY <1>1, <1>3, LastProps DEF Primary
  <1>5. r \in accepted /\ r.target = Adm(n) /\ r.prefix = Before(h, i)
    BY <1>4 DEF AuthorityInvariant, TransfersAccepted, Acceptance
  <1>6. KeyOf(Adm(n)) = n
    BY DEF KeyOf, Adm
  <1>7. r \in prepared[n]
    BY <1>5, <1>6 DEF AuthorityInvariant, AcceptedKnown
  <1>8. Extends(log[n], Before(h, i))
    BY <1>5, <1>7 DEF AuthorityInvariant, PreparedHeld
  <1>9. i \in 1..Len(h) /\ i > Len(log[n])
    BY <1>1, <1>3, <1>4 DEF Positions
  <1> HIDE DEF i, r
  <1>10. /\ Before(h, i) \in Seq(Entries) /\ Len(Before(h, i)) = i - 1
         /\ \A j \in 1..(i - 1) : Before(h, i)[j] = h[j]
    BY <1>1, <1>9, BeforeProps
  <1>11. Extends(Before(h, i), log[n])
    BY <1>1, <1>9, <1>10 DEF Extends
  <1>12. Before(h, i) = log[n]
    BY <1>1, <1>8, <1>10, <1>11, ExtendsAnti
  <1> QED  BY <1>2, <1>5, <1>7, <1>12 DEF PreparedAt

\* A member can install every signed history that extends its log: it holds the
\* acceptance of every handoff to it that the history adds.
LEMMA MemberInstalls ==
    ASSUME TypeOK, ForkFreedom, AuthorityInvariant, NEW n \in Nodes,
           phase[n] = "Member", NEW h \in signed, Extends(h, log[n])
    PROVE  Installable(n, h)
  <1>1. /\ log[n] \in Seq(Entries) /\ h \in Seq(Entries) /\ Len(h) <= MAX_HISTORY
        /\ Replays(h) /\ inc[n] \in Nat /\ log[n] \in signed
    BY SignedTyped DEF AuthorityInvariant, Led, ForkFreedom, SignedHistories
  <1>2. ASSUME NEW i \in NewHandoffs(n, h) PROVE Acceptance(h, i) \in prepared[n]
    <2> DEFINE a == h[i].mutation.id
               r == Acceptance(h, i)
    <2>1. i \in Positions(h, "Transfer") /\ i > Len(log[n]) /\ KeyOf(a) = n
      BY DEF NewHandoffs
    <2>2. r \in accepted /\ r.target = a
      BY <2>1 DEF AuthorityInvariant, TransfersAccepted, Acceptance
    <2>3. i \in 1..Len(h)
      BY <2>1 DEF Positions
    <2>4. a \in Members(Before(h, i))
      <3>1. Allowed(Before(h, i), h[i].mutation) /\ h[i].mutation.type = "Transfer"
        BY <1>1, <2>1, <2>3 DEF Replays, Applies, Positions
      <3> QED  BY <3>1 DEF Allowed
    <2>5. /\ Before(h, i) \in Seq(Entries) /\ Len(Before(h, i)) = i - 1
          /\ \A j \in 1..(i - 1) : Before(h, i)[j] = h[j]
      BY <1>1, <2>3, BeforeProps
    <2>6. Extends(Before(h, i), log[n])
      BY <1>1, <2>1, <2>3, <2>5 DEF Extends
    <2>7. Before(h, i) \in signed
      BY <2>3, <1>1 DEF ForkFreedom, SignedHistories
    <2>8. /\ a \in Admitted(Before(h, i)) /\ a \notin Removed(Before(h, i))
      BY <2>4 DEF Members, Admitted, Removed
    <2>9. a \in Admissions /\ a[2] <= inc[n]
      BY <2>1, <2>7, <2>8, AdmittedReached
    <2> HIDE DEF a, r
    <2>10. a = <<n, a[2]>> /\ a[2] \in Nat /\ a[2] >= 1
      BY <2>1, <2>9, BoundAssumption DEF Admissions, KeyOf
    <2>11. ASSUME a[2] # inc[n] PROVE FALSE
      <3>1. a[2] \in 1..(inc[n] - 1) /\ inc[n] # 1
        BY <1>1, <2>9, <2>10, <2>11
      <3>2. Adm(n) # RootAdm /\ Adm(n) \in Admitted(log[n])
        BY <3>1 DEF Adm, RootAdm, AuthorityInvariant, MembershipKnown
      <3>3. PICK j \in Positions(log[n], "Admit") : log[n][j].mutation.id = Adm(n)
        BY <3>2 DEF Admitted, IdsOf
      <3>4. Adm(n)[2] = inc[n] /\ KeyOf(Adm(n)) = n
        BY DEF Adm, KeyOf
      <3>5. <<n, a[2]>> \in Removed(Before(log[n], j))
        BY <1>1, <3>1, <3>3, <3>4 DEF AuthorityInvariant, RemovedBeforeNext
      <3>6. j \in 1..Len(log[n]) /\ j \in 1..(Len(log[n]) + 1)
        BY <1>1, <3>3 DEF Positions
      <3>7. /\ Before(log[n], j) \in Seq(Entries) /\ Len(Before(log[n], j)) = j - 1
            /\ \A x \in 1..(j - 1) : Before(log[n], j)[x] = log[n][x]
        BY <1>1, <3>6, BeforeProps
      <3>8. Extends(log[n], Before(log[n], j))
        BY <1>1, <3>6, <3>7 DEF Extends
      <3>9. Extends(Before(h, i), Before(log[n], j))
        BY <1>1, <2>5, <2>6, <3>7, <3>8, ExtendsTrans
      <3>10. <<n, a[2]>> \in Removed(Before(h, i))
        BY <2>5, <3>5, <3>7, <3>9, IdsGrow DEF Removed
      <3> QED  BY <2>8, <2>10, <3>10
    <2>12. a = Adm(n)
      BY <2>10, <2>11 DEF Adm
    <2>13. r \in prepared[n]
      BY <2>1, <2>2, <2>12 DEF AuthorityInvariant, AcceptedKnown
    <2> QED  BY <2>13 DEF r
  <1> QED  BY <1>1, <1>2 DEF Installable

-----------------------------------------------------------------------------
(* The shapes of a step *)

\* A committing handler: an entry is appended and nothing else changes.
Commits(n, op, m) ==
    /\ append(n, op, m)
    /\ UNCHANGED <<phase, inc, prepared, leaving, syncing, lapsed, accepted>>
    /\ m.type = "Admit" => m.id[2] \in 1..inc[KeyOf(m.id)]
    /\ m.type = "Transfer" =>
        \E r \in accepted : r.prefix = log[n] /\ r.op = op /\ r.target = m.id

\* A handler that imports a signed history.
Imports(n, h) ==
    /\ import(n, h)
    /\ phase[n] # "Unaffiliated"
    /\ phase[n] = "Joining" => Adm(n) \in Members(h)

\* Every management procedure is a commit, an import or a local step.
LEMMA ClientCallShape ==
    ASSUME TypeOK, ForkFreedom, NEW n \in Nodes, ClientCall(n)
    PROVE  \/ \E op \in OperationIds, m \in Mutations : Commits(n, op, m)
           \/ \E h \in signed : Imports(n, h) \/ ConfigureClusterJoinSync(n, h)
           \/ PrepareClusterJoin(n)
           \/ CancelClusterJoin(n)
           \/ \E op \in Ops : PreparePrimaryTransfer(n, op)
           \/ \E op \in LeaveOps : LeaveCluster(n, op)
  <1> DEFINE C == \E op \in OperationIds, m \in Mutations : Commits(n, op, m)
  <1>1. ASSUME NEW h \in signed,
               \/ FinishClusterJoin(n, h)
               \/ ApplyClusterHistory(n, h)
               \/ ActivateClusterPrimary(n, h)
        PROVE  Imports(n, h)
    BY <1>1 DEF FinishClusterJoin, ApplyClusterHistory, ActivateClusterPrimary, Imports
  <1>2. ASSUME NEW op \in Ops, NEW a \in Admissions, AdmitClusterMember(n, a, op)
        PROVE  C
    <2>1. op \in OperationIds /\ Admit(a) \in Mutations
      BY DEF OperationIds, Mutations
    <2>2. Commits(n, op, Admit(a))
      BY <1>2 DEF AdmitClusterMember, Commits, Admit
    <2> QED  BY <2>1, <2>2
  <1>3. ASSUME NEW op \in Ops, NEW a \in Admissions, RemoveClusterMember(n, a, op)
        PROVE  C
    <2>1. op \in OperationIds /\ Remove(a) \in Mutations
      BY DEF OperationIds, Mutations
    <2>2. Commits(n, op, Remove(a))
      BY <1>3 DEF RemoveClusterMember, Commits, Remove
    <2> QED  BY <2>1, <2>2
  <1>4. ASSUME NEW r \in accepted, SealPrimaryTransfer(n, r) PROVE C
    <2>1. r \in Rows
      BY DEF TypeOK
    <2>2. r.op \in OperationIds /\ Transfer(r.target) \in Mutations
      BY <2>1 DEF OperationIds, Mutations, Rows
    <2>3. Commits(n, r.op, Transfer(r.target))
      BY <1>4 DEF SealPrimaryTransfer, Commits, Transfer
    <2> QED  BY <2>2, <2>3
  <1>5. ASSUME NEW g \in Grants, NEW a \in Admissions, AdoptClusterClient(n, g, a)
        PROVE  C
    <2>1. g \in OperationIds /\ Adopt(g, a) \in Mutations
      BY DEF OperationIds, Mutations
    <2>2. Commits(n, g, Adopt(g, a))
      BY <1>5 DEF AdoptClusterClient, Commits, Adopt
    <2> QED  BY <2>1, <2>2
  <1>6. ASSUME NEW g \in Grants, NEW op \in Ops \cup {CancelOp(g)},
               RevokeClusterClientGrant(n, g, op)
        PROVE  C
    <2>1. op \in OperationIds /\ Revoke(g) \in Mutations
      BY DEF OperationIds, Mutations
    <2>2. Commits(n, op, Revoke(g))
      BY <1>6 DEF RevokeClusterClientGrant, Commits, Revoke
    <2> QED  BY <2>1, <2>2
  <1> QED  BY <1>1, <1>2, <1>3, <1>4, <1>5, <1>6 DEF ClientCall

\* A step of the worker is a commit of the primary or an import.
LEMMA WorkerStepShape ==
    ASSUME TypeOK, ForkFreedom, NEW n \in Nodes, WorkerStep(n)
    PROVE  \/ \E k \in Nodes, op \in OperationIds, m \in Mutations : Commits(k, op, m)
           \/ \E h \in signed : Imports(n, h)
  <1>1. CASE LeaveTick(n)
    <2> DEFINE k == KeyOf(Primary(log[n]))
    <2>1. /\ CanCall(n, k)
          /\ UNCHANGED <<phase, inc, prepared, leaving, syncing, lapsed, accepted>>
      BY <1>1 DEF LeaveTick
    <2>2. PICK r \in leaving[n] : append(k, r.op, Remove(Adm(n)))
      BY <1>1 DEF LeaveTick
    <2>3. r.op \in OperationIds
      BY DEF TypeOK, OperationIds
    <2>4. Adm(n) \in Admissions
      BY <2>1, AdmType DEF CanCall, sign
    <2>5. Remove(Adm(n)) \in Mutations
      BY <2>4 DEF Mutations
    <2>6. k \in Nodes
      <3>1. PICK a \in Members(log[n]) : k = KeyOf(a)
        BY <2>1 DEF CanCall, sign
      <3>2. a \in Admissions
        BY <3>1, MembersType DEF TypeOK
      <3> QED  BY <3>1, <3>2 DEF KeyOf, Admissions
    <2> HIDE DEF k
    <2>7. Commits(k, r.op, Remove(Adm(n)))
      BY <2>1, <2>2 DEF Commits, Remove
    <2> QED  BY <2>3, <2>5, <2>6, <2>7
  <1>2. ASSUME NEW m \in Nodes, SyncHistory(n, m) PROVE \E h \in signed : Imports(n, h)
    <2>1. log[m] \in signed /\ Imports(n, log[m])
      BY <1>2 DEF SyncHistory, apply_sync, CanCall, sign, ForkFreedom,
                  SignedHistories, Imports
    <2> QED  BY <2>1
  <1>3. ASSUME NEW m \in Nodes, SyncRemovalProof(n, m)
        PROVE  \E h \in signed : Imports(n, h)
    <2>1. PICK i \in ProofEnds(m, n) : import(n, SubSeq(log[m], 1, i))
      BY <1>3 DEF SyncRemovalProof
    <2>2. i \in 1..Len(log[m]) /\ log[m] \in Seq(Entries) /\ log[m] \in signed
      BY DEF ProofEnds, Positions, TypeOK, Histories, ForkFreedom, SignedHistories
    <2>3. SubSeq(log[m], 1, i) = Before(log[m], i + 1)
      BY <2>2 DEF Before
    <2>4. SubSeq(log[m], 1, i) \in signed
      <3>1. i + 1 \in 1..(Len(log[m]) + 1)
        BY <2>2
      <3> QED  BY <2>2, <2>3, <3>1 DEF ForkFreedom, SignedHistories
    <2>5. phase[n] = "Member"
      BY <1>3 DEF SyncRemovalProof, CanCall, sign
    <2> QED  BY <2>1, <2>4, <2>5 DEF Imports
  <1>4. ASSUME NEW m \in Nodes, JoinTick(n, m) PROVE \E h \in signed : Imports(n, h)
    <2>1. log[m] \in signed /\ Imports(n, log[m])
      BY <1>4 DEF JoinTick, FinishClusterJoin, ForkFreedom, SignedHistories, Imports
    <2> QED  BY <2>1
  <1> QED  BY <1>1, <1>2, <1>3, <1>4 DEF WorkerStep

-----------------------------------------------------------------------------
(* Commits *)

\* What a commit changes, and what its author is.
LEMMA CommitFacts ==
    ASSUME TypeOK, ForkFreedom, AuthorityInvariant, NEW n \in Nodes,
           NEW op \in OperationIds, NEW m \in Mutations, Commits(n, op, m)
    PROVE  \E e \in Entries :
            LET H == Append(log[n], e) IN
            /\ e.mutation = m /\ e.op = op
            /\ H \in Seq(Entries) /\ Extends(H, log[n]) /\ Len(H) = Len(log[n]) + 1
            /\ H[Len(log[n]) + 1] = e /\ \A i \in 1..Len(log[n]) : H[i] = log[n][i]
            /\ \A i \in 1..(Len(log[n]) + 1) : Before(H, i) = Before(log[n], i)
            /\ Before(H, Len(log[n]) + 1) = log[n]
            /\ signed' = signed \cup {H}
            /\ log'[n] = H /\ \A k \in Nodes \ {n} : log'[k] = log[k]
            /\ sealed'[n] = (sealed[n] \/ m.type = "Transfer")
            /\ \A k \in Nodes \ {n} : sealed'[k] = sealed[k]
            /\ Applies(log[n], e) /\ Len(H) <= MAX_HISTORY
            /\ IsWriter(n) /\ Primary(log[n]) = Adm(n)
            /\ \A h \in signed : Extends(log[n], h)
  <1> DEFINE e == Entry(Epoch(log[n]), op, n, m)
             l == log[n]
             H == Append(l, e)
  <1>0. append(n, op, m)
    BY DEF Commits
  <1>1. e \in Entries /\ l \in Seq(Entries)
    BY <1>0, AppendType DEF TypeOK, Histories
  <1>2. /\ H \in Seq(Entries) /\ Len(H) = Len(l) + 1 /\ H[Len(l) + 1] = e
        /\ \A i \in 1..Len(l) : H[i] = l[i]
    BY <1>1, AppendProps
  <1>3. /\ signed' = signed \cup {H} /\ log' = [log EXCEPT ![n] = H]
        /\ sealed' = [sealed EXCEPT ![n] = @ \/ m.type = "Transfer"]
        /\ Applies(l, e) /\ IsWriter(n) /\ Len(l) < MAX_HISTORY
    BY <1>0 DEF append
  <1>4. e.mutation = m /\ e.op = op
    BY DEF Entry
  <1>5. Primary(l) = Adm(n) /\ \A h \in signed : Extends(l, h)
    BY <1>3, WriterIsCurrent, WriterHoldsAll DEF AuthorityInvariant, IsWriter
  <1>6. log'[n] = H /\ \A k \in Nodes \ {n} : log'[k] = log[k]
    BY <1>3 DEF TypeOK
  <1>7. /\ sealed'[n] = (sealed[n] \/ m.type = "Transfer")
        /\ \A k \in Nodes \ {n} : sealed'[k] = sealed[k]
    BY <1>3 DEF TypeOK
  <1> HIDE DEF e, H
  <1>8. Extends(H, l) /\ Len(l) \in Nat
    BY <1>1, <1>2 DEF Extends
  <1>9. \A i \in 1..(Len(l) + 1) : Before(H, i) = Before(l, i)
    <2> TAKE i \in 1..(Len(l) + 1)
    <2>1. i <= Len(H) + 1
      BY <1>2, <1>8
    <2> HIDE DEF l
    <2> QED  BY <1>1, <1>2, <1>8, <2>1, BeforeExtension
  <1>10. Before(H, Len(l) + 1) = l
    BY <1>1, <1>8, <1>9, BeforeAll
  <1>11. Len(H) <= MAX_HISTORY
    BY <1>2, <1>3, <1>8, BoundAssumption
  <1> QED  BY <1>1, <1>2, <1>3, <1>4, <1>5, <1>6, <1>7, <1>8, <1>9, <1>10, <1>11
           DEF H

\* A commit keeps what the histories say of members and acceptances.
LEMMA CommitKeepsHistories ==
    ASSUME TypeOK, ForkFreedom, AuthorityInvariant, NEW n \in Nodes,
           NEW op \in OperationIds, NEW m \in Mutations, Commits(n, op, m)
    PROVE  /\ MembershipKnown' /\ AbandonedRemoved' /\ RemovedBeforeNext'
           /\ AcceptedKnown' /\ PreparedHeld' /\ TransfersAccepted'
           /\ LeavingQuiet' /\ Led'
  <1>1. PICK e \in Entries :
            LET H == Append(log[n], e) IN
            /\ e.mutation = m /\ e.op = op
            /\ H \in Seq(Entries) /\ Extends(H, log[n]) /\ Len(H) = Len(log[n]) + 1
            /\ H[Len(log[n]) + 1] = e /\ \A i \in 1..Len(log[n]) : H[i] = log[n][i]
            /\ \A i \in 1..(Len(log[n]) + 1) : Before(H, i) = Before(log[n], i)
            /\ Before(H, Len(log[n]) + 1) = log[n]
            /\ signed' = signed \cup {H}
            /\ log'[n] = H /\ \A k \in Nodes \ {n} : log'[k] = log[k]
            /\ Applies(log[n], e) /\ Len(H) <= MAX_HISTORY
            /\ IsWriter(n) /\ Primary(log[n]) = Adm(n)
    BY CommitFacts
  <1> DEFINE l == log[n]
             H == Append(l, e)
  <1>2. /\ l \in Seq(Entries) /\ l \in signed /\ Len(l) \in Nat
        /\ \A h \in signed : h \in Seq(Entries)
        /\ \A k \in Nodes : log[k] \in Seq(Entries)
    BY SignedTyped
  <1>3. \A t : /\ m.type # t => Positions(H, t) = Positions(l, t)
               /\ m.type = t => Positions(H, t) = Positions(l, t) \cup {Len(l) + 1}
    <2> TAKE t
    <2>1. l \in Seq(Entries) /\ e \in Entries /\ e.mutation = m
      BY <1>1, <1>2
    <2> HIDE DEF l
    <2> QED  BY <2>1, PositionsAppend
  <1>4. \A t : /\ m.type # t => IdsOf(H, t) = IdsOf(l, t)
               /\ m.type = t => IdsOf(H, t) = IdsOf(l, t) \cup {m.id}
    <2> TAKE t
    <2>1. l \in Seq(Entries) /\ e \in Entries /\ e.mutation = m
      BY <1>1, <1>2
    <2> HIDE DEF l
    <2> QED  BY <2>1, IdsAppend
  <1>5. /\ HasLast(H)
        /\ m.type # "Transfer" => Primary(H) = Primary(l)
        /\ m.type = "Transfer" => Primary(H) = m.id
    BY <1>1, <1>2, PrimaryAppend DEF AuthorityInvariant, Led
  <1>6. /\ H \in Seq(Entries) /\ Extends(H, l) /\ Len(H) = Len(l) + 1
        /\ H[Len(l) + 1] = e /\ e.mutation = m /\ e.op = op
        /\ \A i \in 1..Len(l) : H[i] = l[i]
        /\ \A i \in 1..(Len(l) + 1) : Before(H, i) = Before(l, i)
        /\ Before(H, Len(l) + 1) = l
        /\ signed' = signed \cup {H}
        /\ log'[n] = H /\ \A k \in Nodes \ {n} : log'[k] = log[k]
        /\ Applies(l, e) /\ Len(H) <= MAX_HISTORY
        /\ IsWriter(n) /\ Primary(l) = Adm(n)
    BY <1>1
  <1>7. UNCHANGED <<phase, inc, prepared, leaving, accepted>>
    BY DEF Commits
  <1>8. \A k \in Nodes : Adm(k)' = Adm(k)
    BY <1>7 DEF Adm
  <1> HIDE DEF H
  <1>9. MembershipKnown'
    <2>1. Admitted(l) \subseteq Admitted(H) /\ Removed(l) \subseteq Removed(H)
      BY <1>4 DEF Admitted, Removed
    <2> SUFFICES ASSUME NEW k \in Nodes
                 PROVE  /\ phase[k] = "Unaffiliated" => inc[k] = 0
                        /\ phase[k] = "Member" => Adm(k) \in Admitted(log'[k])
                        /\ phase[k] = "Removed" => Adm(k) \in Removed(log'[k])
      BY <1>7, <1>8 DEF MembershipKnown
    <2>2. /\ phase[k] = "Unaffiliated" => inc[k] = 0
          /\ phase[k] = "Member" => Adm(k) \in Admitted(log[k])
          /\ phase[k] = "Removed" => Adm(k) \in Removed(log[k])
      BY DEF AuthorityInvariant, MembershipKnown
    <2> QED  BY <1>6, <2>1, <2>2
  <1>10. AbandonedRemoved'
    BY <1>6, <1>7 DEF AuthorityInvariant, AbandonedRemoved
  <1>11. RemovedBeforeNext'
    <2> SUFFICES ASSUME NEW h \in signed', NEW i \in Positions(h, "Admit"),
                        NEW k \in 1..(h[i].mutation.id[2] - 1)
                 PROVE  <<KeyOf(h[i].mutation.id), k>> \in Removed(Before(h, i))
      BY DEF RemovedBeforeNext
    <2>1. CASE h \in signed
      BY <2>1 DEF AuthorityInvariant, RemovedBeforeNext
    <2>2. CASE h = H /\ i \in Positions(l, "Admit")
      <3>1. i \in 1..Len(l) /\ H[i] = l[i] /\ Before(H, i) = Before(l, i)
        BY <1>2, <1>6, <2>2 DEF Positions
      <3>2. k \in 1..(l[i].mutation.id[2] - 1)
        BY <2>2, <3>1
      <3> QED  BY <1>2, <2>2, <3>1, <3>2 DEF AuthorityInvariant, RemovedBeforeNext
    <2>3. CASE h = H /\ i = Len(l) + 1 /\ m.type = "Admit"
      <3>1. h[i].mutation.id = m.id /\ Before(h, i) = l
        BY <1>6, <2>3
      <3>2. m.id[2] \in 1..inc[KeyOf(m.id)]
        BY <2>3 DEF Commits
      <3>3. m.id \in Admissions
        BY <2>3 DEF Mutations, Admit, Remove, Transfer, Adopt, Revoke
      <3>4. KeyOf(m.id) \in Nodes
        BY <3>3 DEF KeyOf, Admissions
      <3>5. k \in 1..(inc[KeyOf(m.id)] - 1)
        <4>1. inc[KeyOf(m.id)] \in Nat
          BY <3>4, SignedTyped
        <4> QED  BY <3>1, <3>2, <4>1
      <3> QED  BY <1>6, <3>1, <3>4, <3>5, WriterSawRemovals DEF IsWriter, AuthorityInvariant
    <2> QED  BY <1>3, <1>6, <2>1, <2>2, <2>3
  <1>12. AcceptedKnown'
    BY <1>7 DEF AuthorityInvariant, AcceptedKnown, Adm
  <1>13. PreparedHeld'
    <2> SUFFICES ASSUME NEW k \in Nodes, NEW r \in prepared[k]
                 PROVE  Extends(log'[k], r.prefix)
      BY <1>7 DEF PreparedHeld
    <2>1. Extends(log[k], r.prefix) /\ r.prefix \in Seq(Entries)
      BY DEF AuthorityInvariant, PreparedHeld, TypeOK, Rows, Histories
    <2> QED  BY <1>2, <1>6, <2>1, ExtendsTrans
  <1>14. TransfersAccepted'
    <2> SUFFICES ASSUME NEW h \in signed', NEW i \in Positions(h, "Transfer")
                 PROVE  Acceptance(h, i) \in accepted
      BY <1>7 DEF TransfersAccepted
    <2>1. CASE h \in signed
      BY <2>1 DEF AuthorityInvariant, TransfersAccepted
    <2>2. CASE h = H /\ i \in Positions(l, "Transfer")
      <3>1. H[i] = l[i] /\ Before(H, i) = Before(l, i)
        BY <1>2, <1>6, <2>2 DEF Positions
      <3> QED  BY <1>2, <2>2, <3>1 DEF AuthorityInvariant, TransfersAccepted, Acceptance
    <2>3. CASE h = H /\ i = Len(l) + 1 /\ m.type = "Transfer"
      <3>1. PICK r \in accepted : r.prefix = l /\ r.op = op /\ r.target = m.id
        BY <2>3 DEF Commits
      <3>2. r \in Rows
        BY DEF TypeOK
      <3>3. r = [op |-> r.op, target |-> r.target, prefix |-> r.prefix]
        BY <3>2 DEF Rows
      <3>4. Acceptance(h, i) = r
        BY <1>6, <2>3, <3>1, <3>3 DEF Acceptance
      <3> QED  BY <3>1, <3>4
    <2> QED  BY <1>3, <1>6, <2>1, <2>2, <2>3
  <1>15. LeavingQuiet'
    <2> SUFFICES ASSUME NEW k \in Nodes
                 PROVE  /\ \A r \in leaving[k] : r.admission[2] <= inc[k]
                        /\ phase[k] = "Joining" => ~IsLeaving(k)
                        /\ phase[k] = "Member" /\ IsLeaving(k) =>
                            /\ Primary(log'[k]) # Adm(k)
                            /\ {r \in prepared[k] : r.prefix = log'[k]} = {}
      BY <1>7, <1>8 DEF LeavingQuiet, IsLeaving, PreparedAt
    <2>1. /\ \A r \in leaving[k] : r.admission[2] <= inc[k]
          /\ phase[k] = "Joining" => ~IsLeaving(k)
          /\ phase[k] = "Member" /\ IsLeaving(k) =>
              Primary(log[k]) # Adm(k) /\ {r \in prepared[k] : r.prefix = log[k]} = {}
      BY DEF AuthorityInvariant, LeavingQuiet, PreparedAt
    <2>2. CASE k # n
      BY <1>6, <2>1, <2>2
    <2>3. CASE k = n
      BY <1>6, <2>1, <2>3
    <2> QED  BY <2>2, <2>3
  <1>16. Led'
    <2>1. Primary(l) \in Members(l) /\ Allowed(l, m)
      BY <1>6 DEF Applies
    <2>2. Primary(H) \in Members(H)
      <3>1. Members(l) \ {m.id} \subseteq Members(H)
        BY <1>4 DEF Members
      <3>2. m.type # "Remove" => Members(l) \subseteq Members(H)
        BY <1>4 DEF Members
      <3>3. CASE m.type = "Transfer"
        BY <1>5, <2>1, <3>2, <3>3 DEF Allowed
      <3>4. CASE m.type = "Remove"
        BY <1>5, <2>1, <3>1, <3>4 DEF Allowed
      <3>5. CASE m.type # "Transfer" /\ m.type # "Remove"
        BY <1>5, <2>1, <3>2, <3>5
      <3> QED  BY <3>3, <3>4, <3>5
    <2>3. \A h \in signed : HasLast(h) /\ Primary(h) \in Members(h) /\ Len(h) <= MAX_HISTORY
      BY DEF AuthorityInvariant, Led
    <2> QED  BY <1>5, <1>6, <2>2, <2>3 DEF Led
  <1> QED  BY <1>9, <1>10, <1>11, <1>12, <1>13, <1>14, <1>15, <1>16

\* A commit leaves the role with its author or hands it to a member that has
\* accepted it.
LEMMA CommitKeepsRole ==
    ASSUME TypeOK, ForkFreedom, AuthorityInvariant, NEW n \in Nodes,
           NEW op \in OperationIds, NEW m \in Mutations, Commits(n, op, m)
    PROVE  RoleHeld'
  <1>1. PICK e \in Entries :
            LET H == Append(log[n], e) IN
            /\ e.mutation = m
            /\ H \in Seq(Entries) /\ Extends(H, log[n]) /\ Len(H) = Len(log[n]) + 1
            /\ H[Len(log[n]) + 1] = e
            /\ signed' = signed \cup {H}
            /\ log'[n] = H /\ \A k \in Nodes \ {n} : log'[k] = log[k]
            /\ sealed'[n] = (sealed[n] \/ m.type = "Transfer")
            /\ Applies(log[n], e)
            /\ IsWriter(n) /\ Primary(log[n]) = Adm(n)
            /\ \A h \in signed : Extends(log[n], h)
    BY CommitFacts
  <1> DEFINE l == log[n]
             H == Append(l, e)
  <1>2. /\ H \in Seq(Entries) /\ Extends(H, l) /\ Len(H) = Len(l) + 1
        /\ H[Len(l) + 1] = e /\ e.mutation = m
        /\ signed' = signed \cup {H}
        /\ log'[n] = H /\ \A k \in Nodes \ {n} : log'[k] = log[k]
        /\ sealed'[n] = (sealed[n] \/ m.type = "Transfer")
        /\ Allowed(l, m)
        /\ IsWriter(n) /\ Primary(l) = Adm(n)
        /\ \A h \in signed : Extends(l, h)
    BY <1>1 DEF Applies
  <1>3. /\ l \in Seq(Entries) /\ l \in signed /\ Len(l) \in Nat
        /\ \A h \in signed : h \in Seq(Entries)
        /\ \A k \in Nodes : log[k] \in Seq(Entries) /\ log[k] \in signed
    BY SignedTyped
  <1>4. /\ m.type # "Transfer" => Primary(H) = Primary(l)
        /\ m.type = "Transfer" => Primary(H) = m.id
    BY <1>1, <1>3, PrimaryAppend DEF AuthorityInvariant, Led
  <1>5. UNCHANGED <<phase, inc, prepared, leaving, accepted>>
    BY DEF Commits
  <1> HIDE DEF H
  <1>6. CASE m.type # "Transfer"
    <2>1. Primary(H) \in Members(H)
      BY <1>2, CommitKeepsHistories DEF Led
    <2>2. phase[n] = "Member" /\ ~sealed[n] /\ KeyOf(Primary(l)) = n
      BY <1>2 DEF IsWriter
    <2>3. ~sealed'[n]
      BY <1>2, <1>6, <2>2
    <2>4. IsWriter(n)'
      BY <1>2, <1>4, <1>5, <1>6, <2>1, <2>2, <2>3 DEF IsWriter
    <2> QED  BY <2>4 DEF RoleHeld
  <1>7. CASE m.type = "Transfer"
    <2> DEFINE t == KeyOf(m.id)
    <2>1. m.id # Primary(l) /\ m.id \in Members(l)
      BY <1>2, <1>7 DEF Allowed
    <2>2. t \in Nodes /\ m.id = Adm(t)
      BY <1>2, <2>1, MemberForWriter DEF IsWriter, AuthorityInvariant
    <2>3. t # n
      BY <1>2, <2>1, <2>2
    <2>4. PICK r \in accepted : r.target = m.id
      BY <1>7 DEF Commits
    <2>5. phase[t] \in {"Member", "Removed"}
      BY <2>2, <2>4 DEF AuthorityInvariant, AcceptedKnown
    <2> HIDE DEF t
    <2>6. phase[t] # "Removed"
      <3> SUFFICES ASSUME phase[t] = "Removed" PROVE FALSE
        OBVIOUS
      <3>1. Adm(t) \in Removed(log[t])
        BY <2>2 DEF AuthorityInvariant, MembershipKnown
      <3>2. Removed(log[t]) \subseteq Removed(l)
        BY <1>2, <1>3, <2>2, IdsGrow DEF Removed
      <3> QED  BY <2>1, <2>2, <3>1, <3>2 DEF Removed, Members
    <2>7. H \in signed' /\ \A g \in signed' : Extends(H, g)
      <3>1. Extends(H, H)
        BY <1>2 DEF Extends
      <3>2. \A g \in signed : Extends(H, g)
        BY <1>2, <1>3, ExtendsTrans
      <3> QED  BY <1>2, <3>1, <3>2
    <2>8. {i \in Positions(H, "Transfer") :
            i > Len(log'[t]) /\ KeyOf(H[i].mutation.id) = t} # {}
      <3>1. Len(l) + 1 \in Positions(H, "Transfer")
        BY <1>2, <1>3, <1>7 DEF Positions
      <3>2. Len(log'[t]) <= Len(l) /\ log'[t] \in Seq(Entries)
        BY <1>2, <1>3, <2>2, <2>3 DEF Extends
      <3>3. KeyOf(H[Len(l) + 1].mutation.id) = t
        BY <1>2 DEF t
      <3>4. Len(l) + 1 > Len(log'[t])
        BY <1>3, <3>2
      <3> QED  BY <3>1, <3>3, <3>4
    <2>9. Primary(H) = <<t, inc'[t]>> /\ phase'[t] = "Member"
      BY <1>2, <1>4, <1>5, <1>7, <2>2, <2>5, <2>6 DEF Adm
    <2>10. \E k \in Nodes, h \in signed' :
            /\ \A g \in signed' : Extends(h, g)
            /\ phase'[k] = "Member"
            /\ Primary(h) = <<k, inc'[k]>>
            /\ {i \in Positions(h, "Transfer") :
                 i > Len(log'[k]) /\ KeyOf(h[i].mutation.id) = k} # {}
      BY <2>2, <2>7, <2>8, <2>9
    <2> QED  BY <2>10 DEF RoleHeld, Latest, NewHandoffs, Adm
  <1> QED  BY <1>6, <1>7

-----------------------------------------------------------------------------
(* Imports and local steps *)

\* Installing a signed history, with the phase the caller stores, keeps what
\* the histories say.
LEMMA InstallKeepsHistories ==
    ASSUME TypeOK, ForkFreedom, AuthorityInvariant, NEW n \in Nodes,
           NEW h \in signed, install(n, h),
           UNCHANGED <<inc, prepared, leaving, signed, accepted>>,
           NEW p \in Phases, phase' = [phase EXCEPT ![n] = p],
           p # "Unaffiliated",
           p = "Joining" => phase[n] = "Joining",
           p = "Member" => Adm(n) \in Members(h) /\ phase[n] \in {"Joining", "Member"},
           p = "Removed" => Adm(n) \in Removed(h),
           phase[n] \in {"Member", "Removed"} => p \in {"Member", "Removed"}
    PROVE  /\ MembershipKnown' /\ AbandonedRemoved' /\ RemovedBeforeNext'
           /\ AcceptedKnown' /\ PreparedHeld' /\ TransfersAccepted'
           /\ LeavingQuiet' /\ Led'
  <1>1. /\ log' = [log EXCEPT ![n] = h] /\ Extends(h, log[n])
        /\ h \in Seq(Entries) /\ log[n] \in Seq(Entries)
    BY DEF install, Installable, TypeOK, Histories
  <1>2. /\ log'[n] = h /\ phase'[n] = p
        /\ \A k \in Nodes \ {n} : log'[k] = log[k] /\ phase'[k] = phase[k]
    BY <1>1 DEF TypeOK
  <1>3. \A k \in Nodes : Adm(k)' = Adm(k)
    BY DEF Adm
  <1>4. MembershipKnown'
    <2> SUFFICES ASSUME NEW k \in Nodes
                 PROVE  /\ phase'[k] = "Unaffiliated" => inc[k] = 0
                        /\ phase'[k] = "Member" => Adm(k) \in Admitted(log'[k])
                        /\ phase'[k] = "Removed" => Adm(k) \in Removed(log'[k])
      BY <1>3 DEF MembershipKnown
    <2>1. CASE k # n
      BY <1>2, <2>1 DEF AuthorityInvariant, MembershipKnown
    <2>2. CASE k = n
      BY <1>2, <2>2 DEF Members, Admitted
    <2> QED  BY <2>1, <2>2
  <1>5. AbandonedRemoved' /\ RemovedBeforeNext' /\ TransfersAccepted' /\ Led'
    BY DEF AuthorityInvariant, AbandonedRemoved, RemovedBeforeNext, TransfersAccepted, Led
  <1>6. AcceptedKnown'
    <2> SUFFICES ASSUME NEW r \in accepted
                 PROVE  /\ r.target[2] <= inc[KeyOf(r.target)]
                        /\ r.target = Adm(KeyOf(r.target)) =>
                            /\ r \in prepared[KeyOf(r.target)]
                            /\ phase'[KeyOf(r.target)] \in {"Member", "Removed"}
      BY DEF AcceptedKnown, Adm
    <2>1. KeyOf(r.target) \in Nodes
      BY DEF TypeOK, Rows, KeyOf, Admissions
    <2>2. /\ r.target[2] <= inc[KeyOf(r.target)]
          /\ r.target = Adm(KeyOf(r.target)) =>
              /\ r \in prepared[KeyOf(r.target)]
              /\ phase[KeyOf(r.target)] \in {"Member", "Removed"}
      BY DEF AuthorityInvariant, AcceptedKnown
    <2> QED  BY <1>2, <2>1, <2>2
  <1>7. PreparedHeld'
    <2> SUFFICES ASSUME NEW k \in Nodes, NEW r \in prepared[k]
                 PROVE  Extends(log'[k], r.prefix)
      BY DEF PreparedHeld
    <2>1. Extends(log[k], r.prefix) /\ r.prefix \in Seq(Entries)
      BY DEF AuthorityInvariant, PreparedHeld, TypeOK, Rows, Histories
    <2> QED  BY <1>1, <1>2, <2>1, ExtendsTrans
  <1>8. LeavingQuiet'
    <2> SUFFICES ASSUME NEW k \in Nodes
                 PROVE  /\ \A r \in leaving[k] : r.admission[2] <= inc[k]
                        /\ phase'[k] = "Joining" => ~IsLeaving(k)
                        /\ phase'[k] = "Member" /\ IsLeaving(k) =>
                            /\ Primary(log'[k]) # Adm(k)
                            /\ {r \in prepared[k] : r.prefix = log'[k]} = {}
      BY <1>3 DEF LeavingQuiet, IsLeaving, PreparedAt
    <2>1. /\ \A r \in leaving[k] : r.admission[2] <= inc[k]
          /\ phase[k] = "Joining" => ~IsLeaving(k)
          /\ phase[k] = "Member" /\ IsLeaving(k) =>
              Primary(log[k]) # Adm(k) /\ {r \in prepared[k] : r.prefix = log[k]} = {}
      BY DEF AuthorityInvariant, LeavingQuiet, PreparedAt
    <2>2. CASE k # n
      BY <1>2, <2>1, <2>2
    <2>3. CASE k = n
      <3>1. phase'[n] = "Joining" => ~IsLeaving(n)
        BY <1>2, <2>1, <2>3
      <3>2. ASSUME phase'[n] = "Member", IsLeaving(n)
            PROVE  Primary(h) # Adm(n) /\ {r \in prepared[n] : r.prefix = h} = {}
        <4>1. phase[n] = "Member"
          BY <1>2, <2>1, <2>3, <3>2
        <4>2. Primary(h) # Adm(n)
          BY <1>1, <3>2, <4>1, LeaverNotPrimary
        <4>3. ASSUME NEW r \in prepared[n], r.prefix = h PROVE FALSE
          <5>1. Extends(log[n], h)
            BY <4>3 DEF AuthorityInvariant, PreparedHeld
          <5>2. log[n] = h
            BY <1>1, <5>1, ExtendsAnti
          <5> QED  BY <2>1, <2>3, <3>2, <4>1, <4>3, <5>2
        <4> QED  BY <4>2, <4>3
      <3> QED  BY <1>2, <2>1, <2>3, <3>1, <3>2
    <2> QED  BY <2>2, <2>3
  <1> QED  BY <1>4, <1>5, <1>6, <1>7, <1>8

\* Importing a signed history keeps the role: the writer has nothing to import,
\* and the node the role waits for is told so or becomes the writer.
LEMMA ImportKeepsRole ==
    ASSUME TypeOK, ForkFreedom, AuthorityInvariant, NEW n \in Nodes,
           NEW h \in signed, install(n, h), UNCHANGED <<inc, signed>>,
           NEW p \in Phases, phase' = [phase EXCEPT ![n] = p],
           phase[n] = "Member" /\ Adm(n) \in Members(h) => p = "Member"
    PROVE  RoleHeld'
  <1>1. /\ log' = [log EXCEPT ![n] = h] /\ Extends(h, log[n])
        /\ sealed' = [sealed EXCEPT ![n] = @ /\ NewHandoffs(n, h) = {}]
    BY DEF install, Installable
  <1>2. /\ log'[n] = h /\ phase'[n] = p
        /\ \A k \in Nodes \ {n} : log'[k] = log[k] /\ phase'[k] = phase[k]
    BY <1>1 DEF TypeOK
  <1>3. /\ sealed'[n] = (sealed[n] /\ NewHandoffs(n, h) = {})
        /\ \A k \in Nodes \ {n} : sealed'[k] = sealed[k]
    BY <1>1 DEF TypeOK
  <1>4. /\ \A g \in signed : g \in Seq(Entries)
        /\ \A k \in Nodes : log[k] \in Seq(Entries) /\ log[k] \in signed
        /\ \A g \in signed : HasLast(g) /\ Primary(g) \in Members(g)
    BY SignedTyped DEF AuthorityInvariant, Led
  <1>5. ASSUME NEW k \in Nodes, IsWriter(k) PROVE IsWriter(k)'
    <2>1. CASE k # n
      BY <1>2, <1>3, <1>5, <2>1 DEF IsWriter
    <2>2. CASE k = n
      <3>1. /\ phase[n] = "Member" /\ ~sealed[n] /\ KeyOf(Primary(log[n])) = n
            /\ Primary(log[n]) \in Members(log[n])
        BY <1>5, <2>2 DEF IsWriter
      <3>2. Extends(log[n], h)
        BY <3>1, WriterHoldsAll
      <3>3. h = log[n]
        BY <1>1, <1>4, <3>2, ExtendsAnti
      <3>4. Adm(n) \in Members(h)
        BY <1>5, <2>2, <3>3, WriterIsCurrent DEF AuthorityInvariant
      <3>5. ~sealed'[n]
        BY <1>3, <3>1
      <3>6. phase'[n] = "Member" /\ log'[n] = log[n]
        BY <1>2, <3>1, <3>3, <3>4
      <3> QED  BY <2>2, <3>1, <3>5, <3>6 DEF IsWriter
    <2> QED  BY <2>1, <2>2
  <1>6. ASSUME NEW k \in Nodes, NEW g \in signed, Latest(g), phase[k] = "Member",
               Primary(g) = Adm(k), NewHandoffs(k, g) # {}
        PROVE  RoleHeld'
    <2>1. Extends(g, h) /\ Extends(g, log[k])
      BY <1>4, <1>6 DEF Latest
    <2>2. Latest(g)' /\ Adm(k)' = Adm(k)
      BY <1>6 DEF Latest, Adm
    <2>3. CASE k # n
      <3>1. phase'[k] = "Member" /\ log'[k] = log[k]
        BY <1>2, <1>6, <2>3
      <3>2. NewHandoffs(k, g)' # {}
        BY <1>6, <3>1 DEF NewHandoffs
      <3> QED  BY <1>6, <2>2, <3>1, <3>2 DEF RoleHeld
    <2>4. CASE k = n
      <3>1. Adm(n) \in Members(h)
        <4>1. Adm(n) \notin Removed(g)
          BY <1>4, <1>6, <2>4 DEF Members, Removed
        <4>2. Removed(h) \subseteq Removed(g)
          BY <1>4, <2>1, IdsGrow DEF Removed
        <4>3. Adm(n) \in Admitted(log[n])
          BY <1>6, <2>4 DEF AuthorityInvariant, MembershipKnown
        <4>4. IdsOf(log[n], "Admit") \subseteq IdsOf(h, "Admit")
          BY <1>1, <1>4, IdsGrow
        <4> QED  BY <4>1, <4>2, <4>3, <4>4 DEF Admitted, Members, Removed
      <3>2. phase'[n] = "Member"
        BY <1>2, <1>6, <2>4, <3>1
      <3>3. CASE NewHandoffs(n, g)' # {}
        BY <1>6, <2>2, <2>4, <3>2, <3>3 DEF RoleHeld
      <3>4. CASE NewHandoffs(n, g)' = {}
        <4> DEFINE i == LastTransfer(g)
        <4>1. Positions(g, "Transfer") # {}
          BY <1>6 DEF NewHandoffs
        <4>2. i \in Positions(g, "Transfer") /\ g[i].mutation.id = Adm(n)
          BY <1>4, <1>6, <2>4, <4>1, LastProps DEF Primary
        <4>3. KeyOf(g[i].mutation.id) = n
          BY <4>2 DEF KeyOf, Adm
        <4>4. ~(i > Len(h))
          BY <1>2, <3>4, <4>2, <4>3 DEF NewHandoffs
        <4>5. h \in Seq(Entries) /\ log[n] \in Seq(Entries) /\ g \in Seq(Entries)
          BY <1>4
        <4>6. i \in 1..Len(g) /\ i <= Len(h)
          BY <4>2, <4>4, <4>5 DEF Positions
        <4>7. Primary(h) = Adm(n)
          BY <1>4, <1>6, <2>1, <2>4, <4>5, <4>6, PrimaryWithin
        <4>8. i > Len(log[n])
          <5> SUFFICES ASSUME i <= Len(log[n]) PROVE FALSE
            BY <4>5, <4>6
          <5>1. Primary(log[n]) = Adm(n)
            BY <1>4, <1>6, <2>1, <2>4, <4>5, PrimaryWithin
          <5>2. Extends(log[n], g)
            BY <1>6, <2>4, <5>1, WriterHoldsAll DEF KeyOf, Adm
          <5>3. PICK x \in Positions(g, "Transfer") : x > Len(log[n])
            BY <1>6, <2>4 DEF NewHandoffs
          <5>4. x \in 1..Len(g) /\ Len(g) <= Len(log[n])
            BY <5>2, <5>3 DEF Positions, Extends
          <5> QED  BY <4>5, <5>3, <5>4
        <4> HIDE DEF i
        <4>9. i \in NewHandoffs(n, h)
          <5>1. h[i] = g[i] /\ i \in 1..Len(h)
            BY <2>1, <4>5, <4>6 DEF Extends
          <5>2. i \in Positions(h, "Transfer")
            BY <4>2, <5>1 DEF Positions
          <5> QED  BY <4>3, <4>8, <5>1, <5>2 DEF NewHandoffs
        <4>10. ~sealed'[n]
          BY <1>3, <4>9
        <4>11. KeyOf(Primary(h)) = n /\ Primary(h) \in Members(h)
          BY <1>4, <4>7 DEF KeyOf, Adm
        <4>12. IsWriter(n)'
          BY <1>2, <3>2, <4>10, <4>11 DEF IsWriter
        <4> QED  BY <4>12 DEF RoleHeld
      <3> QED  BY <3>3, <3>4
    <2> QED  BY <2>3, <2>4
  <1> QED  BY <1>5, <1>6 DEF AuthorityInvariant, RoleHeld

\* A step that leaves the members and the histories alone keeps the role.
LEMMA LocalKeepsRole ==
    ASSUME RoleHeld, signed' = signed,
           \A k \in Nodes : phase[k] = "Member" =>
                /\ phase'[k] = "Member" /\ log'[k] = log[k]
                /\ sealed'[k] = sealed[k] /\ inc'[k] = inc[k]
    PROVE  RoleHeld'
  <1>1. ASSUME NEW k \in Nodes, IsWriter(k) PROVE IsWriter(k)'
    <2>1. phase[k] = "Member" /\ ~sealed[k]
      BY <1>1 DEF IsWriter
    <2>2. phase'[k] = "Member" /\ log'[k] = log[k] /\ ~sealed'[k]
      BY <2>1
    <2> QED  BY <1>1, <2>2 DEF IsWriter
  <1>2. ASSUME NEW k \in Nodes, NEW g \in signed, Latest(g), phase[k] = "Member",
               Primary(g) = Adm(k), NewHandoffs(k, g) # {}
        PROVE  RoleHeld'
    <2>1. phase'[k] = "Member" /\ log'[k] = log[k] /\ inc'[k] = inc[k]
      BY <1>2
    <2>2. Latest(g)' /\ Primary(g) = Adm(k)' /\ NewHandoffs(k, g)' # {}
      BY <1>2, <2>1 DEF Latest, Adm, NewHandoffs
    <2> QED  BY <2>1, <2>2 DEF RoleHeld
  <1> QED  BY <1>1, <1>2 DEF RoleHeld

\* Importing keeps the invariant.
LEMMA ImportKeeps ==
    ASSUME TypeOK, ForkFreedom, AuthorityInvariant, NEW n \in Nodes,
           NEW h \in signed, Imports(n, h)
    PROVE  AuthorityInvariant'
  <1> DEFINE p == ImportedPhase(n, h)
  <1>1. /\ install(n, h) /\ phase' = [phase EXCEPT ![n] = p]
        /\ UNCHANGED <<inc, prepared, leaving, signed, accepted>>
        /\ phase[n] # "Unaffiliated"
        /\ phase[n] = "Joining" => Adm(n) \in Members(h)
    BY DEF Imports, import
  <1>2. phase[n] \in Phases
    BY DEF TypeOK
  <1>3. /\ p \in Phases /\ p # "Unaffiliated" /\ p # "Joining"
        /\ p = "Member" => Adm(n) \in Members(h) /\ phase[n] \in {"Joining", "Member"}
        /\ phase[n] \in {"Member", "Removed"} => p \in {"Member", "Removed"}
        /\ phase[n] = "Member" /\ Adm(n) \in Members(h) => p = "Member"
    BY <1>1, <1>2 DEF ImportedPhase, Phases
  <1>4. p = "Removed" => Adm(n) \in Removed(h)
    <2>1. Extends(h, log[n]) /\ h \in Seq(Entries) /\ log[n] \in Seq(Entries)
      BY <1>1, SignedTyped DEF install, Installable
    <2>2. Admitted(log[n]) \subseteq Admitted(h) /\ Removed(log[n]) \subseteq Removed(h)
      BY <2>1, IdsGrow DEF Admitted, Removed
    <2>3. /\ phase[n] = "Member" => Adm(n) \in Admitted(log[n])
          /\ phase[n] = "Removed" => Adm(n) \in Removed(log[n])
      BY DEF AuthorityInvariant, MembershipKnown
    <2>4. Admitted(h) \ Members(h) \subseteq Removed(h) /\ Seen(h) \ Members(h) \subseteq Removed(h)
      BY DEF Admitted, Members, Removed, Seen
    <2> QED  BY <1>1, <1>2, <2>2, <2>3, <2>4 DEF ImportedPhase, Phases
  <1> HIDE DEF p
  <1>5. RoleHeld'
    BY <1>1, <1>3, ImportKeepsRole
  <1>6. /\ MembershipKnown' /\ AbandonedRemoved' /\ RemovedBeforeNext'
        /\ AcceptedKnown' /\ PreparedHeld' /\ TransfersAccepted'
        /\ LeavingQuiet' /\ Led'
    BY <1>1, <1>3, <1>4, InstallKeepsHistories
  <1> QED  BY <1>5, <1>6 DEF AuthorityInvariant

\* So does installing a joiner's synchronization scope.
LEMMA ConfigureKeeps ==
    ASSUME TypeOK, ForkFreedom, AuthorityInvariant, NEW n \in Nodes,
           NEW h \in signed, ConfigureClusterJoinSync(n, h)
    PROVE  AuthorityInvariant'
  <1>1. /\ phase[n] = "Joining" /\ install(n, h)
        /\ UNCHANGED <<inc, prepared, leaving, signed, accepted>>
        /\ \/ phase' = [phase EXCEPT ![n] = "Removed"] /\ Adm(n) \in Seen(h) \ Members(h)
           \/ phase' = phase
    BY DEF ConfigureClusterJoinSync
  <1>2. Seen(h) \ Members(h) \subseteq Removed(h)
    BY DEF Members, Removed, Seen
  <1>3. PICK p \in {"Removed", "Joining"} :
            phase' = [phase EXCEPT ![n] = p] /\ (p = "Removed" => Adm(n) \in Removed(h))
    BY <1>1, <1>2 DEF TypeOK
  <1>4. p \in Phases
    BY DEF Phases
  <1>5. RoleHeld'
    BY <1>1, <1>3, <1>4, ImportKeepsRole
  <1>6. /\ MembershipKnown' /\ AbandonedRemoved' /\ RemovedBeforeNext'
        /\ AcceptedKnown' /\ PreparedHeld' /\ TransfersAccepted'
        /\ LeavingQuiet' /\ Led'
    BY <1>1, <1>3, <1>4, InstallKeepsHistories
  <1> QED  BY <1>5, <1>6 DEF AuthorityInvariant

\* A new incarnation: the one before it has been removed, and neither an
\* acceptance nor a leave receipt names the new one.
LEMMA JoinKeeps ==
    ASSUME TypeOK, ForkFreedom, AuthorityInvariant, NEW n \in Nodes,
           PrepareClusterJoin(n)
    PROVE  AuthorityInvariant'
  <1>1. /\ phase' = [phase EXCEPT ![n] = "Joining"]
        /\ inc' = [inc EXCEPT ![n] = @ + 1]
        /\ log' = [log EXCEPT ![n] = <<>>]
        /\ sealed' = [sealed EXCEPT ![n] = FALSE]
        /\ prepared' = [prepared EXCEPT ![n] = {}]
        /\ UNCHANGED <<leaving, signed, accepted>>
        /\ phase[n] \in {"Unaffiliated", "Removed"}
    BY DEF PrepareClusterJoin
  <1>2. /\ phase'[n] = "Joining" /\ inc'[n] = inc[n] + 1 /\ prepared'[n] = {}
        /\ \A k \in Nodes \ {n} :
            /\ phase'[k] = phase[k] /\ inc'[k] = inc[k] /\ log'[k] = log[k]
            /\ prepared'[k] = prepared[k]
        /\ \A k \in Nodes : inc[k] \in Nat
    BY <1>1 DEF TypeOK
  <1>3. \A k \in Nodes \ {n} : sealed'[k] = sealed[k]
    BY <1>1 DEF TypeOK
  <1>4. MembershipKnown'
    <2> SUFFICES ASSUME NEW k \in Nodes
                 PROVE  /\ phase'[k] = "Unaffiliated" => inc'[k] = 0
                        /\ phase'[k] = "Member" => <<k, inc'[k]>> \in Admitted(log'[k])
                        /\ phase'[k] = "Removed" => <<k, inc'[k]>> \in Removed(log'[k])
      BY DEF MembershipKnown, Adm
    <2>1. CASE k # n
      BY <1>2, <2>1 DEF AuthorityInvariant, MembershipKnown, Adm
    <2>2. CASE k = n
      BY <1>2, <2>2
    <2> QED  BY <2>1, <2>2
  <1>5. AbandonedRemoved'
    <2> SUFFICES ASSUME NEW k \in Nodes, NEW j \in 1..(inc'[k] - 1)
                 PROVE  \E h \in signed : <<k, j>> \in Removed(h)
      BY <1>1 DEF AbandonedRemoved
    <2>1. CASE j \in 1..(inc[k] - 1)
      BY <2>1 DEF AuthorityInvariant, AbandonedRemoved
    <2>2. CASE k = n /\ j = inc[n]
      <3>1. phase[n] = "Removed"
        BY <1>1, <1>2, <2>2 DEF AuthorityInvariant, MembershipKnown
      <3>2. Adm(n) \in Removed(log[n]) /\ log[n] \in signed
        BY <3>1, SignedTyped DEF AuthorityInvariant, MembershipKnown
      <3> QED  BY <2>2, <3>2 DEF Adm
    <2> QED  BY <1>2, <2>1, <2>2
  <1>6. RemovedBeforeNext' /\ TransfersAccepted' /\ Led'
    BY <1>1 DEF AuthorityInvariant, RemovedBeforeNext, TransfersAccepted, Led
  <1>7. AcceptedKnown'
    <2> SUFFICES ASSUME NEW r \in accepted
                 PROVE  LET t == KeyOf(r.target) IN
                        /\ r.target[2] <= inc'[t]
                        /\ r.target = <<t, inc'[t]>> =>
                            r \in prepared'[t] /\ phase'[t] \in {"Member", "Removed"}
      BY <1>1 DEF AcceptedKnown, Adm
    <2> DEFINE t == KeyOf(r.target)
    <2>1. t \in Nodes /\ r.target[2] \in Nat
      BY BoundAssumption DEF TypeOK, Rows, KeyOf, Admissions
    <2>2. /\ r.target[2] <= inc[t]
          /\ r.target = <<t, inc[t]>> =>
              r \in prepared[t] /\ phase[t] \in {"Member", "Removed"}
      BY DEF AuthorityInvariant, AcceptedKnown, Adm
    <2> HIDE DEF t
    <2>3. CASE t # n
      BY <1>2, <2>1, <2>2, <2>3 DEF t
    <2>4. CASE t = n
      <3>1. r.target[2] <= inc'[t] /\ r.target[2] # inc'[t]
        BY <1>2, <2>1, <2>2, <2>4
      <3>2. r.target # <<t, inc'[t]>>
        BY <3>1
      <3> QED  BY <3>1, <3>2 DEF t
    <2> QED  BY <2>3, <2>4
  <1>8. PreparedHeld'
    BY <1>2 DEF AuthorityInvariant, PreparedHeld
  <1>9. LeavingQuiet'
    <2> SUFFICES ASSUME NEW k \in Nodes
                 PROVE  /\ \A r \in leaving[k] : r.admission[2] <= inc'[k]
                        /\ phase'[k] = "Joining" =>
                            \A r \in leaving[k] : r.admission # <<k, inc'[k]>>
                        /\ phase'[k] = "Member" /\ (\E r \in leaving[k] :
                                                      r.admission = <<k, inc'[k]>>) =>
                            /\ Primary(log'[k]) # <<k, inc'[k]>>
                            /\ {r \in prepared'[k] : r.prefix = log'[k]} = {}
      BY <1>1 DEF LeavingQuiet, IsLeaving, PreparedAt, Adm
    <2>1. /\ \A r \in leaving[k] : r.admission[2] <= inc[k]
          /\ phase[k] = "Joining" => \A r \in leaving[k] : r.admission # <<k, inc[k]>>
          /\ phase[k] = "Member" /\ (\E r \in leaving[k] : r.admission = <<k, inc[k]>>) =>
                /\ Primary(log[k]) # <<k, inc[k]>>
                /\ {r \in prepared[k] : r.prefix = log[k]} = {}
      BY DEF AuthorityInvariant, LeavingQuiet, IsLeaving, PreparedAt, Adm
    <2>2. CASE k # n
      BY <1>2, <2>1, <2>2
    <2>3. CASE k = n
      <3>1. \A r \in leaving[k] : r.admission[2] \in Nat
        BY BoundAssumption DEF TypeOK, Admissions
      <3>2. \A r \in leaving[k] : r.admission[2] <= inc'[k] /\ r.admission[2] # inc'[k]
        BY <1>2, <2>1, <2>3, <3>1
      <3>3. \A r \in leaving[k] : r.admission # <<k, inc'[k]>>
        BY <3>2
      <3> QED  BY <1>2, <2>3, <3>2, <3>3
    <2> QED  BY <2>2, <2>3
  <1>10. RoleHeld'
    BY <1>1, <1>2, <1>3, LocalKeepsRole DEF AuthorityInvariant
  <1> QED  BY <1>4, <1>5, <1>6, <1>7, <1>8, <1>9, <1>10 DEF AuthorityInvariant

\* A step that changes none of the tables the invariant reads.
LEMMA QuietKeeps ==
    ASSUME AuthorityInvariant,
           UNCHANGED <<phase, inc, log, sealed, prepared, leaving, signed, accepted>>
    PROVE  AuthorityInvariant'
  <1>1. RoleHeld'
    BY LocalKeepsRole DEF AuthorityInvariant
  <1> QED
    BY <1>1 DEF AuthorityInvariant, MembershipKnown, AbandonedRemoved, RemovedBeforeNext,
        AcceptedKnown, PreparedHeld, TransfersAccepted, LeavingQuiet, Led, Adm,
        IsLeaving, PreparedAt

\* A cancelled join: the joiner has no acceptance and is not a member.
LEMMA CancelKeeps ==
    ASSUME TypeOK, ForkFreedom, AuthorityInvariant, NEW n \in Nodes, CancelClusterJoin(n)
    PROVE  AuthorityInvariant'
  <1>1. /\ phase[n] = "Joining" /\ phase' = [phase EXCEPT ![n] = "RemovalPending"]
        /\ UNCHANGED <<inc, log, sealed, prepared, leaving, signed, accepted>>
    BY DEF CancelClusterJoin
  <1>2. /\ phase'[n] = "RemovalPending"
        /\ \A k \in Nodes \ {n} : phase'[k] = phase[k]
    BY <1>1 DEF TypeOK
  <1>3. MembershipKnown'
    BY <1>1, <1>2 DEF AuthorityInvariant, MembershipKnown, Adm
  <1>4. AbandonedRemoved' /\ RemovedBeforeNext' /\ TransfersAccepted' /\ Led' /\ PreparedHeld'
    BY <1>1 DEF AuthorityInvariant, AbandonedRemoved, RemovedBeforeNext,
                TransfersAccepted, Led, PreparedHeld
  <1>5. AcceptedKnown'
    <2> SUFFICES ASSUME NEW r \in accepted
                 PROVE  LET t == KeyOf(r.target) IN
                        /\ r.target[2] <= inc[t]
                        /\ r.target = Adm(t) =>
                            r \in prepared[t] /\ phase'[t] \in {"Member", "Removed"}
      BY <1>1 DEF AcceptedKnown, Adm
    <2>1. KeyOf(r.target) \in Nodes
      BY DEF TypeOK, Rows, KeyOf, Admissions
    <2> QED  BY <1>1, <1>2, <2>1 DEF AuthorityInvariant, AcceptedKnown
  <1>6. LeavingQuiet'
    <2> SUFFICES ASSUME NEW k \in Nodes
                 PROVE  /\ \A r \in leaving[k] : r.admission[2] <= inc[k]
                        /\ phase'[k] = "Joining" => ~IsLeaving(k)
                        /\ phase'[k] = "Member" /\ IsLeaving(k) =>
                            Primary(log[k]) # Adm(k) /\ PreparedAt(k, log[k]) = {}
      BY <1>1 DEF LeavingQuiet, IsLeaving, PreparedAt, Adm
    <2> QED  BY <1>2 DEF AuthorityInvariant, LeavingQuiet
  <1>7. RoleHeld'
    BY <1>1, <1>2, LocalKeepsRole DEF AuthorityInvariant
  <1> QED  BY <1>3, <1>4, <1>5, <1>6, <1>7 DEF AuthorityInvariant

\* Accepting the role records the acceptance where a later handoff looks for it.
LEMMA AcceptKeeps ==
    ASSUME TypeOK, ForkFreedom, AuthorityInvariant, NEW n \in Nodes, NEW op \in Ops,
           PreparePrimaryTransfer(n, op)
    PROVE  AuthorityInvariant'
  <1> DEFINE row == [op |-> op, target |-> Adm(n), prefix |-> log[n]]
  <1>1. /\ phase[n] = "Member" /\ ~IsLeaving(n)
        /\ prepared' = [prepared EXCEPT ![n] = @ \cup {row}]
        /\ accepted' = accepted \cup {row}
        /\ UNCHANGED <<phase, inc, log, sealed, leaving, signed>>
    BY DEF PreparePrimaryTransfer, prepare
  <1>2. row.target = Adm(n) /\ row.prefix = log[n]
    OBVIOUS
  <1> HIDE DEF row
  <1>3. /\ prepared'[n] = prepared[n] \cup {row}
        /\ \A k \in Nodes \ {n} : prepared'[k] = prepared[k]
    BY <1>1 DEF TypeOK
  <1>4. MembershipKnown' /\ AbandonedRemoved' /\ RemovedBeforeNext' /\ Led'
    BY <1>1 DEF AuthorityInvariant, MembershipKnown, AbandonedRemoved,
                RemovedBeforeNext, Led, Adm
  <1>5. AcceptedKnown'
    <2> SUFFICES ASSUME NEW r \in accepted'
                 PROVE  LET t == KeyOf(r.target) IN
                        /\ r.target[2] <= inc[t]
                        /\ r.target = Adm(t) =>
                            r \in prepared'[t] /\ phase[t] \in {"Member", "Removed"}
      BY <1>1 DEF AcceptedKnown, Adm
    <2>1. CASE r \in accepted
      <3>1. KeyOf(r.target) \in Nodes
        BY <2>1 DEF TypeOK, Rows, KeyOf, Admissions
      <3> QED  BY <1>3, <2>1, <3>1 DEF AuthorityInvariant, AcceptedKnown
    <2>2. CASE r = row
      <3>1. KeyOf(r.target) = n /\ r.target[2] = inc[n] /\ inc[n] \in Nat
        BY <1>2, <2>2, SignedTyped DEF KeyOf, Adm
      <3> QED  BY <1>1, <1>3, <2>2, <3>1
    <2> QED  BY <1>1, <2>1, <2>2
  <1>6. PreparedHeld'
    <2>1. Extends(log[n], log[n])
      BY SignedTyped DEF Extends
    <2> QED  BY <1>1, <1>2, <1>3, <2>1 DEF AuthorityInvariant, PreparedHeld
  <1>7. TransfersAccepted'
    BY <1>1 DEF AuthorityInvariant, TransfersAccepted
  <1>8. LeavingQuiet'
    <2> SUFFICES ASSUME NEW k \in Nodes
                 PROVE  /\ \A r \in leaving[k] : r.admission[2] <= inc[k]
                        /\ phase[k] = "Joining" => ~IsLeaving(k)
                        /\ phase[k] = "Member" /\ IsLeaving(k) =>
                            /\ Primary(log[k]) # Adm(k)
                            /\ {r \in prepared'[k] : r.prefix = log[k]} = {}
      BY <1>1 DEF LeavingQuiet, IsLeaving, PreparedAt, Adm
    <2> QED  BY <1>1, <1>3 DEF AuthorityInvariant, LeavingQuiet, PreparedAt
  <1>9. RoleHeld'
    BY <1>1, LocalKeepsRole DEF AuthorityInvariant
  <1> QED  BY <1>4, <1>5, <1>6, <1>7, <1>8, <1>9 DEF AuthorityInvariant

\* Recording a leave: the guards are what LeavingQuiet asks for.
LEMMA LeaveKeeps ==
    ASSUME TypeOK, ForkFreedom, AuthorityInvariant, NEW n \in Nodes,
           NEW op \in LeaveOps, LeaveCluster(n, op)
    PROVE  AuthorityInvariant'
  <1>1. /\ phase[n] = "Member" /\ Primary(log[n]) # Adm(n) /\ PreparedAt(n, log[n]) = {}
        /\ leaving' = [leaving EXCEPT ![n] = @ \cup {[op |-> op, admission |-> Adm(n)]}]
        /\ UNCHANGED <<phase, inc, log, sealed, prepared, signed, accepted>>
    BY DEF LeaveCluster
  <1>2. /\ leaving'[n] = leaving[n] \cup {[op |-> op, admission |-> Adm(n)]}
        /\ \A k \in Nodes \ {n} : leaving'[k] = leaving[k]
    BY <1>1 DEF TypeOK
  <1>3. MembershipKnown' /\ AbandonedRemoved' /\ RemovedBeforeNext' /\ Led'
    BY <1>1 DEF AuthorityInvariant, MembershipKnown, AbandonedRemoved,
                RemovedBeforeNext, Led, Adm
  <1>4. AcceptedKnown' /\ PreparedHeld' /\ TransfersAccepted'
    BY <1>1 DEF AuthorityInvariant, AcceptedKnown, PreparedHeld, TransfersAccepted, Adm
  <1>5. LeavingQuiet'
    <2> SUFFICES ASSUME NEW k \in Nodes
                 PROVE  /\ \A r \in leaving'[k] : r.admission[2] <= inc[k]
                        /\ phase[k] = "Joining" =>
                            \A r \in leaving'[k] : r.admission # Adm(k)
                        /\ phase[k] = "Member" /\ (\E r \in leaving'[k] :
                                                    r.admission = Adm(k)) =>
                            Primary(log[k]) # Adm(k) /\ PreparedAt(k, log[k]) = {}
      BY <1>1 DEF LeavingQuiet, IsLeaving, PreparedAt, Adm
    <2>1. Adm(n)[2] <= inc[n]
      BY SignedTyped DEF Adm
    <2>2. CASE k # n
      BY <1>2, <2>2 DEF AuthorityInvariant, LeavingQuiet, IsLeaving
    <2>3. CASE k = n
      BY <1>1, <1>2, <2>1, <2>3 DEF AuthorityInvariant, LeavingQuiet
    <2> QED  BY <2>2, <2>3
  <1>6. RoleHeld'
    BY <1>1, LocalKeepsRole DEF AuthorityInvariant
  <1> QED  BY <1>3, <1>4, <1>5, <1>6 DEF AuthorityInvariant

-----------------------------------------------------------------------------
(* The theorems *)

\* Every step of a client call, of the worker or of the clock keeps the
\* invariant that relates phases, incarnations, acceptances and histories.
THEOREM AuthorityIsSound == Spec => []AuthorityInvariant
  <1>1. Init => AuthorityInvariant
    <2> SUFFICES ASSUME Init PROVE AuthorityInvariant
      OBVIOUS
    <2>1. /\ signed = {<<>>} /\ accepted = {}
          /\ \A n \in Nodes : log[n] = <<>> /\ prepared[n] = {} /\ leaving[n] = {}
          /\ \A n \in Nodes : n = Root => phase[n] = "Member" /\ inc[n] = 1
          /\ \A n \in Nodes : n # Root => phase[n] = "Unaffiliated" /\ inc[n] = 0
      BY DEF Init
    <2>2. ~sealed[Root]
      BY RootAssumption DEF Init
    <2>3. \A t : Positions(<<>>, t) = {}
      BY DEF Positions
    <2>4. Primary(<<>>) = RootAdm /\ Members(<<>>) = {RootAdm} /\ HasLast(<<>>)
      BY <2>3 DEF Primary, Members, IdsOf, HasLast
    <2>5. MembershipKnown
      BY <2>1 DEF MembershipKnown, Adm, Admitted, RootAdm
    <2>6. AbandonedRemoved
      <3>1. \A n \in Nodes : 1..(inc[n] - 1) = {}
        BY <2>1
      <3> QED  BY <3>1 DEF AbandonedRemoved
    <2>7. RemovedBeforeNext /\ TransfersAccepted
      BY <2>1, <2>3 DEF RemovedBeforeNext, TransfersAccepted
    <2>8. AcceptedKnown /\ PreparedHeld /\ LeavingQuiet
      BY <2>1 DEF AcceptedKnown, PreparedHeld, LeavingQuiet, IsLeaving
    <2>9. Led
      BY <2>1, <2>4, BoundAssumption DEF Led
    <2>10. IsWriter(Root)
      BY <2>1, <2>2, <2>4, RootAssumption DEF IsWriter, RootAdm, KeyOf
    <2> QED  BY <2>5, <2>6, <2>7, <2>8, <2>9, <2>10, RootAssumption
             DEF AuthorityInvariant, RoleHeld
  <1>2. TypeOK /\ ForkFreedom /\ AuthorityInvariant /\ [Next]_vars => AuthorityInvariant'
    <2> SUFFICES ASSUME TypeOK, ForkFreedom, AuthorityInvariant, [Next]_vars
                 PROVE  AuthorityInvariant'
      OBVIOUS
    <2>1. CASE UNCHANGED vars
      BY <2>1, QuietKeeps DEF vars
    <2>2. ASSUME NEW a \in Admissions, ConsentLapses(a) PROVE AuthorityInvariant'
      BY <2>2, QuietKeeps DEF ConsentLapses
    <2>3. ASSUME NEW n \in Nodes, NEW op \in OperationIds, NEW m \in Mutations,
                 Commits(n, op, m)
          PROVE  AuthorityInvariant'
      BY <2>3, CommitKeepsHistories, CommitKeepsRole DEF AuthorityInvariant
    <2>4. ASSUME NEW n \in Nodes, ClientCall(n) PROVE AuthorityInvariant'
      BY <2>3, <2>4, ClientCallShape, ImportKeeps, ConfigureKeeps, JoinKeeps,
         CancelKeeps, AcceptKeeps, LeaveKeeps
    <2>5. ASSUME NEW n \in Nodes, WorkerStep(n) PROVE AuthorityInvariant'
      BY <2>3, <2>5, WorkerStepShape, ImportKeeps
    <2> QED  BY <2>1, <2>2, <2>4, <2>5 DEF Next
  <1> QED  BY <1>1, <1>2, TypeCorrect, ForkFree, PTL DEF Spec

\* An incarnation its node has abandoned, or whose removal it has confirmed,
\* is not a member of the latest history, whatever consents are in flight.
THEOREM AbandonedStayOut == Spec => []AbandonedNeverMember
  <1>1. TypeOK /\ ForkFreedom /\ AuthorityInvariant => AbandonedNeverMember
    <2> SUFFICES ASSUME TypeOK, ForkFreedom, AuthorityInvariant,
                        NEW n \in Nodes, NEW h \in signed, Latest(h)
                 PROVE  /\ \A k \in 1..(inc[n] - 1) : <<n, k>> \notin Members(h)
                        /\ phase[n] = "Removed" => Adm(n) \notin Members(h)
      BY DEF AbandonedNeverMember
    <2>1. \A g \in signed : Removed(g) \subseteq Removed(h)
      BY SignedTyped, IdsGrow DEF Removed, Latest
    <2>2. ASSUME NEW k \in 1..(inc[n] - 1) PROVE <<n, k>> \in Removed(h)
      BY <2>1 DEF AuthorityInvariant, AbandonedRemoved
    <2>3. phase[n] = "Removed" => Adm(n) \in Removed(h)
      BY <2>1, SignedTyped DEF AuthorityInvariant, MembershipKnown
    <2> QED  BY <2>2, <2>3 DEF Members, Removed
  <1> QED  BY <1>1, AuthorityIsSound, TypeCorrect, ForkFree, PTL

\* A member that has durably recorded its leave is not the primary of any
\* signed extension of its log, whatever acceptances it signed before.
THEOREM LeaversNeverPrimary == Spec => []LeavingNeverPrimary
  <1>1. TypeOK /\ ForkFreedom /\ AuthorityInvariant => LeavingNeverPrimary
    BY LeaverNotPrimary DEF LeavingNeverPrimary
  <1> QED  BY <1>1, AuthorityIsSound, TypeCorrect, ForkFree, PTL

\* The right to append is never lost: a node holds it, or the member that the
\* latest history hands it to can still install that history.
THEOREM RoleIsNeverLost == Spec => []AuthorityNeverLost
  <1>1. TypeOK /\ ForkFreedom /\ AuthorityInvariant => AuthorityNeverLost
    <2> SUFFICES ASSUME TypeOK, ForkFreedom, AuthorityInvariant,
                        NEW n \in Nodes, NEW h \in signed, Latest(h),
                        phase[n] = "Member", Primary(h) = Adm(n), NewHandoffs(n, h) # {}
                 PROVE  Installable(n, h)
      BY DEF AuthorityInvariant, RoleHeld, AuthorityNeverLost
    <2>1. Extends(h, log[n])
      BY SignedTyped DEF Latest
    <2> QED  BY <2>1, MemberInstalls
  <1> QED  BY <1>1, AuthorityIsSound, TypeCorrect, ForkFree, PTL

-----------------------------------------------------------------------------
(* Replay: State::apply, entry by entry, goes through the views *)

\* The same for the grants of a type.
LEMMA GrantsAppend ==
    ASSUME NEW l \in Seq(Entries), NEW e \in Entries, NEW t
    PROVE  /\ e.mutation.type # t => GrantsOf(Append(l, e), t) = GrantsOf(l, t)
           /\ e.mutation.type = t =>
                GrantsOf(Append(l, e), t) = GrantsOf(l, t) \cup {e.mutation.grant}
  <1> DEFINE h == Append(l, e)
  <1>1. h[Len(l) + 1] = e /\ \A i \in Positions(l, t) : h[i] = l[i]
    BY AppendProps DEF Positions
  <1>2. /\ e.mutation.type # t => Positions(h, t) = Positions(l, t)
        /\ e.mutation.type = t => Positions(h, t) = Positions(l, t) \cup {Len(l) + 1}
    BY PositionsAppend
  <1> HIDE DEF h
  <1>3. CASE e.mutation.type # t
    BY <1>1, <1>2, <1>3 DEF GrantsOf, h
  <1>4. CASE e.mutation.type = t
    <2>1. \A x : x \in GrantsOf(h, t) <=> x \in GrantsOf(l, t) \/ x = e.mutation.grant
      BY <1>1, <1>2, <1>4 DEF GrantsOf
    <2> QED  BY <1>4, <2>1 DEF h
  <1> QED  BY <1>3, <1>4

\* An appended entry adds its operation id, and opens an epoch when it is a handoff.
LEMMA HeadAppend ==
    ASSUME NEW l \in Seq(Entries), NEW e \in Entries
    PROVE  /\ Operations(Append(l, e)) = Operations(l) \cup {e.op}
           /\ Epoch(Append(l, e)) =
                IF e.mutation.type = "Transfer" THEN e.epoch + 1 ELSE e.epoch
  <1> DEFINE h == Append(l, e)
  <1>1. /\ h \in Seq(Entries) /\ Len(h) = Len(l) + 1 /\ h[Len(l) + 1] = e /\ Len(l) \in Nat
        /\ \A i \in 1..Len(l) : h[i] = l[i]
    BY AppendProps
  <1> HIDE DEF h
  <1>2. 1..Len(h) = 1..Len(l) \cup {Len(l) + 1}
    BY <1>1
  <1>3. \A x : x \in Operations(h) <=> x \in Operations(l) \/ x = e.op
    BY <1>1, <1>2 DEF Operations
  <1>4. h # <<>>
    BY <1>1
  <1> QED  BY <1>1, <1>3, <1>4 DEF Epoch, h

\* The record of a state from its fields.
State(epoch, primary, members, seen, operations, grants, revoked) ==
    [epoch |-> epoch, primary |-> primary, members |-> members, seen |-> seen,
     operations |-> operations, grants |-> grants, revoked |-> revoked]

\* Two fields are updated one after the other.
LEMMA PairUpdates ==
    ASSUME NEW s, NEW x, NEW y
    PROVE  /\ [s EXCEPT !.members = x, !.seen = y]
                = [[s EXCEPT !.members = x] EXCEPT !.seen = y]
           /\ [s EXCEPT !.revoked = x, !.grants = y]
                = [[s EXCEPT !.revoked = x] EXCEPT !.grants = y]
           /\ [s EXCEPT !.primary = x, !.epoch = y]
                = [[s EXCEPT !.primary = x] EXCEPT !.epoch = y]
  OBVIOUS

\* The operation of an entry is recorded, and nothing else changes.
Recorded(s, o) == [s EXCEPT !.operations = @ \cup {o}]
LEMMA OneOperationMore ==
    ASSUME NEW ep, NEW pr, NEW me, NEW se, NEW op, NEW gr, NEW re, NEW o
    PROVE  Recorded(State(ep, pr, me, se, op, gr, re), o)
                = State(ep, pr, me, se, op \cup {o}, gr, re)
  BY DEF State, Recorded

\* What State::apply makes of the fields of the state read off a history.
LEMMA AppliedStates ==
    ASSUME NEW l, NEW e
    PROVE  LET m == e.mutation IN
           /\ m.type = "Admit" =>
                apply(StateOf(l), e) = State(Epoch(l), Primary(l), Members(l) \cup {m.id},
                                             Seen(l) \cup {m.id}, Operations(l) \cup {e.op},
                                             ActiveGrants(l), Revoked(l))
           /\ m.type = "Remove" =>
                apply(StateOf(l), e) = State(Epoch(l), Primary(l), Members(l) \ {m.id},
                                             Seen(l) \cup {m.id}, Operations(l) \cup {e.op},
                                             ActiveGrants(l), Revoked(l))
           /\ m.type = "Adopt" =>
                apply(StateOf(l), e) = State(Epoch(l), Primary(l), Members(l), Seen(l),
                                             Operations(l) \cup {e.op},
                                             ActiveGrants(l) \cup {m.grant}, Revoked(l))
           /\ m.type = "Revoke" =>
                apply(StateOf(l), e) = State(Epoch(l), Primary(l), Members(l), Seen(l),
                                             Operations(l) \cup {e.op},
                                             ActiveGrants(l) \ {m.grant},
                                             Revoked(l) \cup {m.grant})
           /\ m.type = "Transfer" =>
                apply(StateOf(l), e) = State(Epoch(l) + 1, m.id, Members(l), Seen(l),
                                             Operations(l) \cup {e.op}, ActiveGrants(l),
                                             Revoked(l))
  <1> DEFINE ep == Epoch(l)
             pr == Primary(l)
             me == Members(l)
             se == Seen(l)
             op == Operations(l)
             gr == ActiveGrants(l)
             re == Revoked(l)
             s == State(ep, pr, me, se, op, gr, re)
             m == e.mutation
  <1>0. StateOf(l) = s
    BY DEF StateOf, State
  <1> HIDE DEF ep, pr, me, se, op, gr, re
  <1>1. /\ s.epoch = ep /\ s.primary = pr /\ s.members = me /\ s.seen = se
        /\ s.grants = gr /\ s.revoked = re
    BY DEF State
  <1>2. \A x, y : /\ [s EXCEPT !.members = x, !.seen = y] = State(ep, pr, x, y, op, gr, re)
                  /\ [s EXCEPT !.revoked = x, !.grants = y] = State(ep, pr, me, se, op, y, x)
                  /\ [s EXCEPT !.primary = x, !.epoch = y] = State(y, x, me, se, op, gr, re)
    <2> TAKE x, y
    <2>1. /\ [[s EXCEPT !.members = x] EXCEPT !.seen = y] = State(ep, pr, x, y, op, gr, re)
          /\ [[s EXCEPT !.revoked = x] EXCEPT !.grants = y]
                = State(ep, pr, me, se, op, y, x)
          /\ [[s EXCEPT !.primary = x] EXCEPT !.epoch = y]
                = State(y, x, me, se, op, gr, re)
      <3>1. /\ [s EXCEPT !.members = x] = State(ep, pr, x, se, op, gr, re)
            /\ [s EXCEPT !.revoked = x] = State(ep, pr, me, se, op, gr, x)
            /\ [s EXCEPT !.primary = x] = State(ep, x, me, se, op, gr, re)
        BY DEF State
      <3>2. /\ [State(ep, pr, x, se, op, gr, re) EXCEPT !.seen = y] = State(ep, pr, x, y, op, gr, re)
            /\ [State(ep, pr, me, se, op, gr, x) EXCEPT !.grants = y] = State(ep, pr, me, se, op, y, x)
            /\ [State(ep, x, me, se, op, gr, re) EXCEPT !.epoch = y] = State(y, x, me, se, op, gr, re)
        BY DEF State
      <3> HIDE DEF s
      <3> QED  BY <3>1, <3>2
    <2> HIDE DEF s
    <2> QED  BY <2>1, PairUpdates
  <1>3. [s EXCEPT !.grants = gr \cup {m.grant}]
            = State(ep, pr, me, se, op, gr \cup {m.grant}, re)
    BY DEF State
  <1> HIDE DEF s, m
  <1>4. /\ m.type = "Admit" =>
             mutated(s, m) = [s EXCEPT !.members = me \cup {m.id}, !.seen = se \cup {m.id}]
        /\ m.type = "Remove" =>
             mutated(s, m) = [s EXCEPT !.members = me \ {m.id}, !.seen = se \cup {m.id}]
        /\ m.type = "Adopt" => mutated(s, m) = [s EXCEPT !.grants = gr \cup {m.grant}]
        /\ m.type = "Revoke" =>
             mutated(s, m) = [s EXCEPT !.revoked = re \cup {m.grant},
                                       !.grants = gr \ {m.grant}]
        /\ m.type = "Transfer" =>
             mutated(s, m) = [s EXCEPT !.primary = m.id, !.epoch = ep + 1]
    BY <1>1 DEF mutated
  <1>5. /\ m.type = "Admit" =>
             mutated(s, m) = State(ep, pr, me \cup {m.id}, se \cup {m.id}, op, gr, re)
        /\ m.type = "Remove" =>
             mutated(s, m) = State(ep, pr, me \ {m.id}, se \cup {m.id}, op, gr, re)
        /\ m.type = "Adopt" =>
             mutated(s, m) = State(ep, pr, me, se, op, gr \cup {m.grant}, re)
        /\ m.type = "Revoke" =>
             mutated(s, m) = State(ep, pr, me, se, op, gr \ {m.grant}, re \cup {m.grant})
        /\ m.type = "Transfer" => mutated(s, m) = State(ep + 1, m.id, me, se, op, gr, re)
    BY <1>2, <1>3, <1>4
  <1>6. apply(s, e) = Recorded(mutated(s, m), e.op)
    BY DEF apply, Recorded, m
  <1>7. /\ m.type = "Admit" =>
             apply(s, e) = State(ep, pr, me \cup {m.id}, se \cup {m.id}, op \cup {e.op}, gr, re)
        /\ m.type = "Remove" =>
             apply(s, e) = State(ep, pr, me \ {m.id}, se \cup {m.id}, op \cup {e.op}, gr, re)
        /\ m.type = "Adopt" =>
             apply(s, e) = State(ep, pr, me, se, op \cup {e.op}, gr \cup {m.grant}, re)
        /\ m.type = "Revoke" =>
             apply(s, e) = State(ep, pr, me, se, op \cup {e.op}, gr \ {m.grant},
                                 re \cup {m.grant})
        /\ m.type = "Transfer" =>
             apply(s, e) = State(ep + 1, m.id, me, se, op \cup {e.op}, gr, re)
    BY <1>5, <1>6, OneOperationMore
  <1> QED  BY <1>0, <1>7 DEF m, ep, pr, me, se, op, gr, re

\* The conditions of a match arm, on the state the views read off a history.
LEMMA AllowedAgrees ==
    ASSUME NEW l \in Seq(Entries), NEW m
    PROVE  allowed(StateOf(l), m) <=> Allowed(l, m)
  <1> DEFINE s == StateOf(l)
  <1>1. /\ s.seen = Seen(l) /\ s.members = Members(l) /\ s.primary = Primary(l)
        /\ s.grants = ActiveGrants(l) /\ s.revoked = Revoked(l)
    BY DEF StateOf
  <1> HIDE DEF s
  <1>2. allowed(s, m) <=> Allowed(l, m)
    BY <1>1 DEF allowed, Allowed
  <1> QED  BY <1>2 DEF s

\* State::apply, on the state the views read off a history, accepts an entry when the
\* views do, and then leaves the state they read off the longer history.
LEMMA ApplyAgrees ==
    ASSUME NEW l \in Seq(Entries), NEW e \in Entries, HasLast(l)
    PROVE  /\ accepts(StateOf(l), e) <=> Applies(l, e)
           /\ Applies(l, e) => apply(StateOf(l), e) = StateOf(Append(l, e))
  <1> DEFINE m == e.mutation
             h == Append(l, e)
  <1>1. m \in Mutations /\ m.type \in {"Admit", "Remove", "Adopt", "Revoke", "Transfer"}
    BY DEF Entries, Mutations, Admit, Remove, Transfer, Adopt, Revoke
  <1>2. /\ Operations(h) = Operations(l) \cup {e.op}
        /\ Epoch(h) = IF m.type = "Transfer" THEN e.epoch + 1 ELSE e.epoch
        /\ Primary(h) = IF m.type = "Transfer" THEN m.id ELSE Primary(l)
    BY HeadAppend, PrimaryAppend
  <1>3. /\ m.type # "Admit" => IdsOf(h, "Admit") = IdsOf(l, "Admit")
        /\ m.type = "Admit" => IdsOf(h, "Admit") = IdsOf(l, "Admit") \cup {m.id}
        /\ m.type # "Remove" => IdsOf(h, "Remove") = IdsOf(l, "Remove")
        /\ m.type = "Remove" => IdsOf(h, "Remove") = IdsOf(l, "Remove") \cup {m.id}
        /\ m.type # "Adopt" => GrantsOf(h, "Adopt") = GrantsOf(l, "Adopt")
        /\ m.type = "Adopt" => GrantsOf(h, "Adopt") = GrantsOf(l, "Adopt") \cup {m.grant}
        /\ m.type # "Revoke" => GrantsOf(h, "Revoke") = GrantsOf(l, "Revoke")
        /\ m.type = "Revoke" => GrantsOf(h, "Revoke") = GrantsOf(l, "Revoke") \cup {m.grant}
    <2>1. /\ m.type # "Admit" => IdsOf(h, "Admit") = IdsOf(l, "Admit")
          /\ m.type = "Admit" => IdsOf(h, "Admit") = IdsOf(l, "Admit") \cup {m.id}
          /\ m.type # "Remove" => IdsOf(h, "Remove") = IdsOf(l, "Remove")
          /\ m.type = "Remove" => IdsOf(h, "Remove") = IdsOf(l, "Remove") \cup {m.id}
      BY IdsAppend
    <2>2. /\ m.type # "Adopt" => GrantsOf(h, "Adopt") = GrantsOf(l, "Adopt")
          /\ m.type = "Adopt" => GrantsOf(h, "Adopt") = GrantsOf(l, "Adopt") \cup {m.grant}
          /\ m.type # "Revoke" => GrantsOf(h, "Revoke") = GrantsOf(l, "Revoke")
          /\ m.type = "Revoke" => GrantsOf(h, "Revoke") = GrantsOf(l, "Revoke") \cup {m.grant}
      BY GrantsAppend
    <2> QED  BY <2>1, <2>2
  <1>4. accepts(StateOf(l), e) <=> Applies(l, e)
    <2> DEFINE s == StateOf(l)
    <2>1. /\ s.epoch = Epoch(l) /\ s.operations = Operations(l)
          /\ s.primary = Primary(l) /\ s.members = Members(l)
      BY DEF StateOf
    <2>2. allowed(s, m) <=> Allowed(l, m)
      BY AllowedAgrees
    <2> HIDE DEF s
    <2>3. accepts(s, e) <=> Applies(l, e)
      BY <2>1, <2>2 DEF accepts, Applies
    <2> QED  BY <2>3 DEF s
  <1>5. StateOf(l) = State(Epoch(l), Primary(l), Members(l), Seen(l), Operations(l),
                           ActiveGrants(l), Revoked(l))
    BY DEF StateOf, State
  <1>6. StateOf(h) = State(Epoch(h), Primary(h), Members(h), Seen(h), Operations(h),
                           ActiveGrants(h), Revoked(h))
    BY DEF StateOf, State
  <1>7. /\ m.type = "Admit" =>
             apply(StateOf(l), e) = State(Epoch(l), Primary(l), Members(l) \cup {m.id},
                                          Seen(l) \cup {m.id}, Operations(l) \cup {e.op},
                                          ActiveGrants(l), Revoked(l))
        /\ m.type = "Remove" =>
             apply(StateOf(l), e) = State(Epoch(l), Primary(l), Members(l) \ {m.id},
                                          Seen(l) \cup {m.id}, Operations(l) \cup {e.op},
                                          ActiveGrants(l), Revoked(l))
        /\ m.type = "Adopt" =>
             apply(StateOf(l), e) = State(Epoch(l), Primary(l), Members(l), Seen(l),
                                          Operations(l) \cup {e.op},
                                          ActiveGrants(l) \cup {m.grant}, Revoked(l))
        /\ m.type = "Revoke" =>
             apply(StateOf(l), e) = State(Epoch(l), Primary(l), Members(l), Seen(l),
                                          Operations(l) \cup {e.op},
                                          ActiveGrants(l) \ {m.grant},
                                          Revoked(l) \cup {m.grant})
        /\ m.type = "Transfer" =>
             apply(StateOf(l), e) = State(Epoch(l) + 1, m.id, Members(l), Seen(l),
                                          Operations(l) \cup {e.op}, ActiveGrants(l),
                                          Revoked(l))
    BY AppliedStates
  <1>8. SUFFICES ASSUME Applies(l, e) PROVE apply(StateOf(l), e) = StateOf(h)
    BY <1>4
  <1>9. e.epoch = Epoch(l) /\ Allowed(l, m)
    BY <1>8 DEF Applies
  <1> HIDE DEF h, m
  <1>10. CASE m.type = "Admit"
    <2>2. m.id \notin Seen(l)
      BY <1>9, <1>10 DEF Allowed
    <2>3. /\ Seen(h) = Seen(l) \cup {m.id} /\ ActiveGrants(h) = ActiveGrants(l)
          /\ Revoked(h) = Revoked(l)
      BY <1>3, <1>10 DEF Seen, ActiveGrants, Revoked
    <2>4. Members(h) = Members(l) \cup {m.id}
      BY <1>3, <1>10, <2>2 DEF Members, Seen
    <2> QED  BY <1>2, <1>6, <1>7, <1>9, <1>10, <2>3, <2>4
  <1>11. CASE m.type = "Remove"
    <2>2. /\ Seen(h) = Seen(l) \cup {m.id} /\ Members(h) = Members(l) \ {m.id}
          /\ ActiveGrants(h) = ActiveGrants(l) /\ Revoked(h) = Revoked(l)
      BY <1>3, <1>11 DEF Seen, Members, ActiveGrants, Revoked
    <2> QED  BY <1>2, <1>6, <1>7, <1>9, <1>11, <2>2
  <1>12. CASE m.type = "Adopt"
    <2>2. m.grant \notin Revoked(l)
      BY <1>9, <1>12 DEF Allowed
    <2>3. Seen(h) = Seen(l) /\ Members(h) = Members(l) /\ Revoked(h) = Revoked(l)
      BY <1>3, <1>12 DEF Seen, Members, Revoked
    <2>4. ActiveGrants(h) = ActiveGrants(l) \cup {m.grant}
      BY <1>3, <1>12, <2>2 DEF ActiveGrants, Revoked
    <2> QED  BY <1>2, <1>6, <1>7, <1>9, <1>12, <2>3, <2>4
  <1>13. CASE m.type = "Revoke"
    <2>2. /\ Seen(h) = Seen(l) /\ Members(h) = Members(l)
          /\ Revoked(h) = Revoked(l) \cup {m.grant}
          /\ ActiveGrants(h) = ActiveGrants(l) \ {m.grant}
      BY <1>3, <1>13 DEF Seen, Members, Revoked, ActiveGrants
    <2> QED  BY <1>2, <1>6, <1>7, <1>9, <1>13, <2>2
  <1>14. CASE m.type = "Transfer"
    <2>2. /\ Seen(h) = Seen(l) /\ Members(h) = Members(l)
          /\ Revoked(h) = Revoked(l) /\ ActiveGrants(h) = ActiveGrants(l)
      BY <1>3, <1>14 DEF Seen, Members, Revoked, ActiveGrants
    <2> QED  BY <1>2, <1>6, <1>7, <1>9, <1>14, <2>2
  <1> QED  BY <1>1, <1>10, <1>11, <1>12, <1>13, <1>14 DEF m, h

\* A signed history and all of its prefixes name a last handoff.
LEMMA PrefixesLed ==
    ASSUME TypeOK, ForkFreedom, AuthorityInvariant, NEW h \in signed, NEW i \in 1..(Len(h) + 1)
    PROVE  Before(h, i) \in Seq(Entries) /\ HasLast(Before(h, i))
  <1>1. Before(h, i) \in signed
    BY DEF ForkFreedom, SignedHistories
  <1> QED  BY <1>1, SignedTyped DEF AuthorityInvariant, Led

\* The entries of every log, applied one after the other from genesis on, are accepted
\* and go through the views of its prefixes; and whatever entry is offered next is
\* accepted by the one exactly when it is by the other (replay, State::apply).
THEOREM ReplayIsTheViews == Spec => []ReplayAgrees
  <1>1. TypeOK /\ ForkFreedom /\ AuthorityInvariant => ReplayAgrees
    <2> SUFFICES ASSUME TypeOK, ForkFreedom, AuthorityInvariant, NEW n \in Nodes
                 PROVE  /\ replay(log[n], StatesOf(log[n]))
                        /\ \A e \in Offered :
                            /\ accepts(StateOf(log[n]), e) <=> Applies(log[n], e)
                            /\ Applies(log[n], e) =>
                                 apply(StateOf(log[n]), e) = StateOf(Append(log[n], e))
      BY DEF ReplayAgrees
    <2> DEFINE h == log[n]
    <2>1. h \in signed /\ h \in Seq(Entries) /\ HasLast(h) /\ Len(h) \in Nat
      BY SignedTyped DEF AuthorityInvariant, Led
    <2> HIDE DEF h
    <2>2. StateOf(SubSeq(h, 1, 0)) = Genesis
      <3>1. SubSeq(h, 1, 0) = <<>>
        BY <2>1
      <3>2. \A t : Positions(<<>>, t) = {}
        BY DEF Positions
      <3>3. /\ Epoch(<<>>) = 1 /\ Primary(<<>>) = RootAdm /\ Members(<<>>) = {RootAdm}
            /\ Seen(<<>>) = {RootAdm} /\ ActiveGrants(<<>>) = {} /\ Revoked(<<>>) = {}
        BY <3>2 DEF Epoch, Primary, Members, Seen, ActiveGrants, Revoked, IdsOf, GrantsOf
      <3>4. Operations(<<>>) = {}
        BY DEF Operations
      <3> QED  BY <3>1, <3>3, <3>4 DEF StateOf, Genesis
    <2>3. ASSUME NEW i \in 1..Len(h)
          PROVE  /\ accepts(StateOf(SubSeq(h, 1, i - 1)), h[i])
                 /\ StateOf(SubSeq(h, 1, i)) = apply(StateOf(SubSeq(h, 1, i - 1)), h[i])
      <3> DEFINE l == Before(h, i)
      <3>1. i \in 1..(Len(h) + 1) /\ i + 1 \in 1..(Len(h) + 1) /\ h[i] \in Entries
        BY <2>1
      <3>2. /\ l \in Seq(Entries) /\ Len(l) = i - 1 /\ HasLast(l)
            /\ \A j \in 1..(i - 1) : l[j] = h[j]
        BY <2>1, <3>1, BeforeProps, PrefixesLed
      <3>3. Applies(l, h[i])
        BY <2>1 DEF ForkFreedom, SignedHistories, Replays
      <3>4. /\ Before(h, i + 1) \in Seq(Entries) /\ Len(Before(h, i + 1)) = i
            /\ \A j \in 1..i : Before(h, i + 1)[j] = h[j]
        <4>1. (i + 1) - 1 = i /\ i + 1 \in Nat
          BY <2>1
        <4> QED  BY <2>1, <3>1, <4>1, BeforeProps
      <3>5. l = SubSeq(h, 1, i - 1) /\ Before(h, i + 1) = SubSeq(h, 1, i)
        BY <2>1 DEF Before
      <3> HIDE DEF l
      <3>6. /\ Append(l, h[i]) \in Seq(Entries) /\ Len(Append(l, h[i])) = i
            /\ Append(l, h[i])[i] = h[i] /\ \A j \in 1..(i - 1) : Append(l, h[i])[j] = l[j]
        BY <3>1, <3>2, AppendProps
      <3>7. \A j \in 1..i : Append(l, h[i])[j] = Before(h, i + 1)[j]
        BY <3>2, <3>4, <3>6
      <3>8. Append(l, h[i]) = Before(h, i + 1)
        BY <3>4, <3>6, <3>7, SeqExt
      <3>9. accepts(StateOf(l), h[i]) /\ apply(StateOf(l), h[i]) = StateOf(Append(l, h[i]))
        BY <3>1, <3>2, <3>3, ApplyAgrees
      <3> QED  BY <3>5, <3>8, <3>9
    <2>4. replay(h, StatesOf(h))
      <3> DEFINE t == StatesOf(h)
      <3>1. \A i \in 0..Len(h) : t[i] = StateOf(SubSeq(h, 1, i))
        BY DEF StatesOf
      <3>2. 0 \in 0..Len(h) /\ \A i \in 1..Len(h) : i \in 0..Len(h) /\ i - 1 \in 0..Len(h)
        BY <2>1
      <3> HIDE DEF t
      <3>3. replay(h, t)
        BY <2>2, <2>3, <3>1, <3>2 DEF replay
      <3> QED  BY <3>3 DEF t
    <2>5. ASSUME NEW e \in Offered
          PROVE  /\ accepts(StateOf(h), e) <=> Applies(h, e)
                 /\ Applies(h, e) => apply(StateOf(h), e) = StateOf(Append(h, e))
      <3>1. e \in Entries
        BY EpochAssumption DEF Offered, Entries
      <3> QED  BY <2>1, <3>1, ApplyAgrees
    <2> QED  BY <2>4, <2>5 DEF h
  <1> QED  BY <1>1, AuthorityIsSound, TypeCorrect, ForkFree, PTL
=============================================================================
