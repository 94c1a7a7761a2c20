--------------------------- MODULE ClusterJournal ---------------------------
(***************************************************************************)
(* The primary-managed membership journal of a rieul cluster               *)
(* (daemon/host/src/cluster/primary.rs and primary/runtime.rs with its     *)
(* join.rs, peer.rs and worker.rs).                                        *)
(*                                                                         *)
(* Every node keeps a SQLite file: its membership phase, the incarnation   *)
(* (admission) it holds, a hash-chained log signed by successive           *)
(* primaries, a seal, the transfer acceptances it has signed and its       *)
(* durable leave receipts.  A handler is one immediate transaction run     *)
(* under the client-credentials mutex, hence one action.  All of the       *)
(* state is durable, so a crash and restart is a stuttering step.          *)
(*                                                                         *)
(* A history is delivered by web clients and by the background worker.     *)
(* `signed' holds every history a primary has ever committed, and a        *)
(* delivery picks any of them: late, repeated, reordered or never.         *)
(***************************************************************************)
EXTENDS Naturals, Sequences, FiniteSets

CONSTANTS
    Nodes,          \* daemons; a node is identified with its Ed25519 key
    Root,           \* the node that created the cluster (Genesis)
    Ops,            \* operation ids clients choose for management calls
    LeaveOps,       \* operation ids clients choose for LeaveCluster
    Grants,         \* client grant ids; the Adopt operation id is the grant
    MaxIncarnation, \* bound on the join attempts of one node
    MAX_HISTORY,    \* 512 in the code
    MAX_ACTIVE      \* 16 in the code: acceptances per log prefix

ASSUME RootAssumption == Root \in Nodes
ASSUME BoundAssumption ==
    /\ MaxIncarnation \in Nat \ {0} /\ MAX_HISTORY \in Nat /\ MAX_ACTIVE \in Nat

VARIABLES
    phase,    \* node.phase: 1 Joining, 2 Member, 3 RemovalPending, 4 Removed
    inc,      \* node.admission: the incarnation number of this join attempt
    log,      \* table log
    sealed,   \* identity.sealed
    prepared, \* table prepared
    leaving,  \* table leaving
    syncing,  \* node_join_scope.sync_enabled
    lapsed,   \* admissions whose five-minute join consent has expired
    signed,   \* every history ever committed by a primary
    accepted  \* every transfer acceptance ever signed by a target

vars == <<phase, inc, log, sealed, prepared, leaving, syncing, lapsed,
          signed, accepted>>

-----------------------------------------------------------------------------
(* Identities and entries *)

\* Admission ids are random, one per join attempt; the key is the node's.
Admissions == Nodes \X (1..MaxIncarnation)
RootAdm == <<Root, 1>>
KeyOf(a) == a[1]
Adm(n) == <<n, inc[n]>>

\* The signature is abstracted to the key that made it; sequence and previous
\* hash are the entry's position in the history and the prefix before it.
Entry(epoch, op, n, mutation) ==
    [epoch |-> epoch, op |-> op, by |-> n, mutation |-> mutation]
Admit(a)     == [type |-> "Admit", id |-> a]
Remove(a)    == [type |-> "Remove", id |-> a]
Transfer(a)  == [type |-> "Transfer", id |-> a]
Adopt(g, a)  == [type |-> "Adopt", grant |-> g, issuer |-> a]
Revoke(g)    == [type |-> "Revoke", grant |-> g]

Mutations ==
    {Admit(a) : a \in Admissions} \cup {Remove(a) : a \in Admissions}
    \cup {Transfer(a) : a \in Admissions}
    \cup {Adopt(g, a) : g \in Grants, a \in Admissions}
    \cup {Revoke(g) : g \in Grants}

CancelOp(g) == <<"cancel", g>>
OperationIds == Ops \cup LeaveOps \cup Grants \cup {CancelOp(g) : g \in Grants}

Entries == [epoch : Nat, op : OperationIds, by : Nodes, mutation : Mutations]
Histories == Seq(Entries)

-----------------------------------------------------------------------------
(* State::genesis and State::apply, as views of a replayed history.  The     *)
(* entry-by-entry replay of the code is ClusterReplay, which is proved to    *)
(* compute the same state.                                                   *)

Positions(l, type) == {i \in 1..Len(l) : l[i].mutation.type = type}
IdsOf(l, type) == {l[i].mutation.id : i \in Positions(l, type)}
GrantsOf(l, type) == {l[i].mutation.grant : i \in Positions(l, type)}

\* Mutant: a handoff opens no new epoch.
EpochNotBumped(l) == IF l = <<>> THEN 1 ELSE l[Len(l)].epoch

Epoch(l) ==
    IF l = <<>> THEN 1
    ELSE LET e == l[Len(l)]
         IN  IF e.mutation.type = "Transfer" THEN e.epoch + 1 ELSE e.epoch

LastTransfer(l) ==
    CHOOSE i \in Positions(l, "Transfer") :
        \A j \in Positions(l, "Transfer") : j <= i

Primary(l) ==
    IF Positions(l, "Transfer") = {} THEN RootAdm
    ELSE l[LastTransfer(l)].mutation.id

Seen(l) == {RootAdm} \cup IdsOf(l, "Admit") \cup IdsOf(l, "Remove")
Members(l) == ({RootAdm} \cup IdsOf(l, "Admit")) \ IdsOf(l, "Remove")
Operations(l) == {l[i].op : i \in 1..Len(l)}
Revoked(l) == GrantsOf(l, "Revoke")
ActiveGrants(l) == GrantsOf(l, "Adopt") \ Revoked(l)

Allowed(l, m) ==
    \/ /\ m.type = "Admit"
       /\ m.id \notin Seen(l)
       /\ \A a \in Members(l) : KeyOf(a) # KeyOf(m.id)
    \/ /\ m.type = "Remove"
       /\ m.id # Primary(l)
    \/ /\ m.type = "Adopt"
       /\ m.issuer \in Members(l)
       /\ m.grant \notin ActiveGrants(l) \cup Revoked(l)
    \/ m.type = "Revoke"
    \/ /\ m.type = "Transfer"
       /\ m.id # Primary(l)
       /\ m.id \in Members(l)

\* State::apply accepts e after l.  The transfer acceptance it verifies is a
\* signature only Seal can have put there.
Applies(l, e) ==
    /\ e.epoch = Epoch(l)
    /\ e.op \notin Operations(l)
    /\ Primary(l) \in Members(l)
    /\ e.by = KeyOf(Primary(l))
    /\ Allowed(l, e.mutation)

Before(h, i) == SubSeq(h, 1, i - 1)
Replays(h) == \A i \in 1..Len(h) : Applies(Before(h, i), h[i])

\* entries[..existing.len()] == existing
Extends(h, l) == Len(l) <= Len(h) /\ \A i \in 1..Len(l) : h[i] = l[i]

-----------------------------------------------------------------------------
(* Local state of a node *)

IsLeaving(n) == \E r \in leaving[n] : r.admission = Adm(n)

\* Rows of `prepared' bound to the current epoch, sequence and head.
PreparedAt(n, l) == {r \in prepared[n] : r.prefix = l}

\* commit_authorized and append: what lets this node extend the log.
IsWriter(n) ==
    /\ phase[n] = "Member"
    /\ ~sealed[n]
    /\ Primary(log[n]) \in Members(log[n])
    /\ KeyOf(Primary(log[n])) = n

append(n, op, mutation) ==
    LET e == Entry(Epoch(log[n]), op, n, mutation) IN
    /\ IsWriter(n)
    /\ Len(log[n]) < MAX_HISTORY
    /\ Applies(log[n], e)
    /\ log' = [log EXCEPT ![n] = Append(@, e)]
    /\ sealed' = [sealed EXCEPT ![n] = @ \/ mutation.type = "Transfer"]
    /\ signed' = signed \cup {Append(log[n], e)}

\* Positions of h beyond the local log that hand the primary role to key n.
NewHandoffs(n, h) ==
    {i \in Positions(h, "Transfer") :
        i > Len(log[n]) /\ KeyOf(h[i].mutation.id) = n}

Acceptance(h, i) ==
    [op |-> h[i].op, target |-> h[i].mutation.id, prefix |-> Before(h, i)]

Installable(n, h) ==
    /\ Len(h) <= MAX_HISTORY
    /\ Extends(h, log[n])
    /\ Replays(h)
    /\ \A i \in NewHandoffs(n, h) : Acceptance(h, i) \in prepared[n]

install(n, h) ==
    /\ Installable(n, h)
    /\ log' = [log EXCEPT ![n] = h]
    /\ sealed' = [sealed EXCEPT ![n] = @ /\ NewHandoffs(n, h) = {}]

\* The phase `import' stores after installing h.
ImportedPhase(n, h) ==
    IF phase[n] \in {"RemovalPending", "Removed"}
    THEN IF Adm(n) \in Seen(h) \ Members(h) THEN "Removed" ELSE phase[n]
    ELSE IF Adm(n) \in Members(h) THEN "Member" ELSE "Removed"

import(n, h) ==
    /\ install(n, h)
    /\ phase' = [phase EXCEPT ![n] = ImportedPhase(n, h)]
    /\ UNCHANGED <<inc, prepared, leaving, syncing, lapsed, signed, accepted>>

\* Only an explicit activation may make this node the primary.
BecomesPrimary(n, h) == Primary(h) = Adm(n) /\ Primary(log[n]) # Adm(n)

-----------------------------------------------------------------------------
(* Management procedures called by a paired client (runtime.rs, execute) *)

Init ==
    /\ phase = [n \in Nodes |-> IF n = Root THEN "Member" ELSE "Unaffiliated"]
    /\ inc = [n \in Nodes |-> IF n = Root THEN 1 ELSE 0]
    /\ log = [n \in Nodes |-> <<>>]
    /\ sealed = [n \in Nodes |-> FALSE]
    /\ prepared = [n \in Nodes |-> {}]
    /\ leaving = [n \in Nodes |-> {}]
    /\ syncing = [n \in Nodes |-> FALSE]
    /\ lapsed = {}
    /\ signed = {<<>>}
    /\ accepted = {}

\* Mutants: re-initialization of a node whose removal is not confirmed, and
\* without a new admission id.
PrepareClusterJoinFrom(n, phases, step) ==
    /\ phase[n] \in phases
    /\ inc[n] < MaxIncarnation
    /\ phase' = [phase EXCEPT ![n] = "Joining"]
    /\ inc' = [inc EXCEPT ![n] = @ + step]
    /\ log' = [log EXCEPT ![n] = <<>>]
    /\ sealed' = [sealed EXCEPT ![n] = FALSE]
    /\ prepared' = [prepared EXCEPT ![n] = {}]
    /\ syncing' = [syncing EXCEPT ![n] = FALSE]
    /\ UNCHANGED <<leaving, lapsed, signed, accepted>>
PrepareClusterJoinUnconfirmed(n) ==
    PrepareClusterJoinFrom(n, {"Unaffiliated", "RemovalPending", "Removed"}, 1)
PrepareClusterJoinSameAdmission(n) ==
    PrepareClusterJoinFrom(n, {"Unaffiliated", "Removed"}, 0)

\* initialize(target = Some(genesis)): a new incarnation, only when the node is
\* unaffiliated or removed.  Log, acceptances and seal are wiped; the key pair
\* and the leave receipts stay.
PrepareClusterJoin(n) ==
    /\ phase[n] \in {"Unaffiliated", "Removed"}
    /\ inc[n] < MaxIncarnation
    /\ phase' = [phase EXCEPT ![n] = "Joining"]
    /\ inc' = [inc EXCEPT ![n] = @ + 1]
    /\ log' = [log EXCEPT ![n] = <<>>]
    /\ sealed' = [sealed EXCEPT ![n] = FALSE]
    /\ prepared' = [prepared EXCEPT ![n] = {}]
    /\ syncing' = [syncing EXCEPT ![n] = FALSE]
    /\ UNCHANGED <<leaving, lapsed, signed, accepted>>

\* The wall clock passes consent_expires.
ConsentLapses(a) ==
    /\ a[2] \in 1..inc[KeyOf(a)]
    /\ a # RootAdm
    /\ lapsed' = lapsed \cup {a}
    /\ UNCHANGED <<phase, inc, log, sealed, prepared, leaving, syncing, signed,
                   accepted>>

ConfigureClusterJoinSync(n, h) ==
    /\ phase[n] = "Joining"
    /\ Adm(n) \notin lapsed
    /\ install(n, h)
    /\ IF Adm(n) \in Seen(h) \ Members(h)
       THEN /\ phase' = [phase EXCEPT ![n] = "Removed"]
            /\ UNCHANGED syncing
       ELSE /\ syncing' = [syncing EXCEPT ![n] = TRUE]
            /\ UNCHANGED phase
    /\ UNCHANGED <<inc, prepared, leaving, lapsed, signed, accepted>>

\* Mutant: the join finishes on any valid history, admitted or not.
FinishClusterJoinUnadmitted(n, h) ==
    /\ phase[n] \in {"Joining", "Member"}
    /\ phase[n] = "Joining" => Adm(n) \notin lapsed
    /\ ~BecomesPrimary(n, h)
    /\ install(n, h)
    /\ phase' = [phase EXCEPT ![n] = "Member"]
    /\ UNCHANGED <<inc, prepared, leaving, syncing, lapsed, signed, accepted>>

FinishClusterJoin(n, h) ==
    /\ phase[n] \in {"Joining", "Member"}
    /\ phase[n] = "Joining" => Adm(n) \notin lapsed
    /\ Adm(n) \in Members(h)
    /\ ~BecomesPrimary(n, h)
    /\ import(n, h)

ApplyClusterHistory(n, h) ==
    /\ phase[n] \in {"Member", "RemovalPending", "Removed"}
    /\ ~BecomesPrimary(n, h)
    /\ import(n, h)

ActivateClusterPrimary(n, h) ==
    /\ phase[n] = "Member"
    /\ Primary(h) = Adm(n)
    /\ Adm(n) \in IdsOf(h, "Transfer")
    /\ import(n, h)

CancelClusterJoin(n) ==
    /\ phase[n] = "Joining"
    /\ Primary(log[n]) # Adm(n)
    /\ \A r \in prepared[n] : Epoch(r.prefix) < Epoch(log[n])
    /\ phase' = [phase EXCEPT ![n] = "RemovalPending"]
    /\ UNCHANGED <<inc, log, sealed, prepared, leaving, syncing, lapsed,
                   signed, accepted>>

\* A join consent of any incarnation may still be in a client's hands.
AdmitClusterMember(n, a, op) ==
    /\ a[2] \in 1..inc[KeyOf(a)]
    /\ a # RootAdm
    /\ a \notin lapsed
    /\ append(n, op, Admit(a))
    /\ UNCHANGED <<phase, inc, prepared, leaving, syncing, lapsed, accepted>>

RemoveClusterMember(n, a, op) ==
    /\ a[2] \in 1..inc[KeyOf(a)]
    /\ append(n, op, Remove(a))
    /\ UNCHANGED <<phase, inc, prepared, leaving, syncing, lapsed, accepted>>

AdoptClusterClient(n, g, issuer) ==
    /\ append(n, g, Adopt(g, issuer))
    /\ UNCHANGED <<phase, inc, prepared, leaving, syncing, lapsed, accepted>>

RevokeClusterClientGrant(n, g, op) ==
    /\ append(n, op, Revoke(g))
    /\ UNCHANGED <<phase, inc, prepared, leaving, syncing, lapsed, accepted>>

\* Mutant: the acceptance is handed out without being remembered.
prepareNotDurable(n, op) ==
    /\ Adm(n) \in Members(log[n])
    /\ Adm(n) # Primary(log[n])
    /\ accepted' = accepted \cup {[op |-> op, target |-> Adm(n), prefix |-> log[n]]}
    /\ UNCHANGED prepared

\* prepare: the target signs an acceptance of the role at exactly its current
\* head and remembers it; both limits count durable rows.
prepare(n, op) ==
    LET row == [op |-> op, target |-> Adm(n), prefix |-> log[n]] IN
    /\ Adm(n) \in Members(log[n])
    /\ Adm(n) # Primary(log[n])
    /\ Cardinality(PreparedAt(n, log[n])) < MAX_ACTIVE
    /\ Cardinality(prepared[n]) < MAX_HISTORY
    /\ prepared' = [prepared EXCEPT ![n] = @ \cup {row}]
    /\ accepted' = accepted \cup {row}

\* A repeated operation id returns the stored acceptance or conflicts.
PreparePrimaryTransfer(n, op) ==
    /\ phase[n] = "Member"
    /\ ~IsLeaving(n)
    /\ \A r \in prepared[n] : r.op # op
    /\ prepare(n, op)
    /\ UNCHANGED <<phase, inc, log, sealed, leaving, syncing, lapsed, signed>>

\* The primary commits an acceptance and seals itself in the same transaction.
SealPrimaryTransfer(n, r) ==
    /\ r.prefix = log[n]
    /\ append(n, r.op, Transfer(r.target))
    /\ UNCHANGED <<phase, inc, prepared, leaving, syncing, lapsed, accepted>>

\* Mutant: Leave ignores acceptances this node has already handed out.
LeaveClusterDespitePrepared(n, op) ==
    /\ phase[n] = "Member"
    /\ ~IsLeaving(n)
    /\ \A r \in leaving[n] : r.op # op
    /\ op \notin Operations(log[n])
    /\ Cardinality(leaving[n]) < MAX_HISTORY
    /\ Primary(log[n]) # Adm(n)
    /\ leaving' = [leaving EXCEPT ![n] = @ \cup {[op |-> op, admission |-> Adm(n)]}]
    /\ UNCHANGED <<phase, inc, log, sealed, prepared, syncing, lapsed, signed,
                   accepted>>

\* request_leave: durably recorded before anything is sent.
LeaveCluster(n, op) ==
    /\ phase[n] = "Member"
    /\ ~IsLeaving(n)
    /\ \A r \in leaving[n] : r.op # op
    /\ op \notin Operations(log[n])
    /\ Cardinality(leaving[n]) < MAX_HISTORY
    /\ Primary(log[n]) # Adm(n)
    /\ PreparedAt(n, log[n]) = {}
    /\ leaving' = [leaving EXCEPT ![n] = @ \cup {[op |-> op, admission |-> Adm(n)]}]
    /\ UNCHANGED <<phase, inc, log, sealed, prepared, syncing, lapsed, signed,
                   accepted>>

-----------------------------------------------------------------------------
(* The background worker (worker.rs) and the peer procedures it calls *)

\* peer::challenge: only a member answers peers at all.
challenge(m) == phase[m] = "Member"

\* peer::sign: a member talks to a key that is a member in its own log.
sign(n, m) ==
    /\ phase[n] = "Member"
    /\ Adm(n) \in Members(log[n])
    /\ m # n
    /\ m \in {KeyOf(a) : a \in Members(log[n])}

CanCall(n, m) == challenge(m) /\ sign(n, m)

\* peer::authenticate: the sender is a member in the server's log.
authenticate(m, n) == Adm(n) \in Members(log[m])

\* apply_sync turns a history that names this node primary into an activation,
\* so import's refusal of silent promotion does not apply.
apply_sync(n, h) == import(n, h)

\* ReadClusterHistory answered by m.
SyncHistory(n, m) ==
    /\ CanCall(n, m)
    /\ authenticate(m, n)
    /\ Primary(log[n]) # Adm(n)
    /\ apply_sync(n, log[m])

\* Mutant: membership is looked up after the removal instead of before it.
ProofEndsTooLate(m, n) ==
    {i \in Positions(log[m], "Remove") :
        /\ log[m][i].mutation.id = Adm(n)
        /\ Adm(n) \in Members(SubSeq(log[m], 1, i))}

\* removal_proof: where the proofs m can give n end.
ProofEnds(m, n) ==
    {i \in Positions(log[m], "Remove") :
        /\ log[m][i].mutation.id = Adm(n)
        /\ Adm(n) \in Members(Before(log[m], i))}

\* GetClusterRemovalProof: the prefix of m's log ending at n's own removal.
SyncRemovalProof(n, m) ==
    /\ CanCall(n, m)
    /\ ~authenticate(m, n)
    /\ Primary(log[n]) # Adm(n)
    /\ \E i \in ProofEnds(m, n) : import(n, SubSeq(log[m], 1, i))

\* tick_with_cursor: ask the cached primary to commit this node's removal.
LeaveTick(n) ==
    LET m == KeyOf(Primary(log[n])) IN
    /\ CanCall(n, m)
    /\ authenticate(m, n)
    /\ Epoch(log[m]) = Epoch(log[n])
    /\ \E r \in leaving[n] :
        /\ r.admission = Adm(n)
        /\ append(m, r.op, Remove(Adm(n)))
    /\ UNCHANGED <<phase, inc, prepared, leaving, syncing, lapsed, accepted>>

\* join::sign: a configured joiner with a live consent asks a cached member.
join_sign(n, m) ==
    /\ phase[n] = "Joining"
    /\ Adm(n) \notin lapsed
    /\ syncing[n]
    /\ m \in {KeyOf(a) : a \in Members(log[n])}

\* join::read: the member gives its history to an admitted consent.
join_read(m, n) ==
    /\ phase[m] = "Member"
    /\ Adm(n) \notin lapsed
    /\ Adm(n) \in Members(log[m])

JoinTick(n, m) ==
    /\ join_sign(n, m)
    /\ join_read(m, n)
    /\ FinishClusterJoin(n, log[m])

-----------------------------------------------------------------------------
ClientCall(n) ==
    \/ PrepareClusterJoin(n)
    \/ CancelClusterJoin(n)
    \/ \E h \in signed :
        \/ ConfigureClusterJoinSync(n, h)
        \/ FinishClusterJoin(n, h)
        \/ ApplyClusterHistory(n, h)
        \/ ActivateClusterPrimary(n, h)
    \/ \E op \in Ops :
        \/ \E a \in Admissions : AdmitClusterMember(n, a, op)
        \/ \E a \in Admissions : RemoveClusterMember(n, a, op)
        \/ PreparePrimaryTransfer(n, op)
    \/ \E op \in LeaveOps : LeaveCluster(n, op)
    \/ \E r \in accepted : SealPrimaryTransfer(n, r)
    \/ \E g \in Grants :
        \/ \E a \in Admissions : AdoptClusterClient(n, g, a)
        \/ \E op \in Ops \cup {CancelOp(g)} : RevokeClusterClientGrant(n, g, op)

WorkerStep(n) ==
    \/ LeaveTick(n)
    \/ \E m \in Nodes :
        \/ SyncHistory(n, m)
        \/ SyncRemovalProof(n, m)
        \/ JoinTick(n, m)

Next ==
    \/ \E n \in Nodes : ClientCall(n) \/ WorkerStep(n)
    \/ \E a \in Admissions : ConsentLapses(a)

Spec == Init /\ [][Next]_vars

\* The worker ticks for ever on every daemon that is up.  synchronize asks the
\* cached primary first and turns to the other cached members, three per tick
\* with a rotating cursor, only when that exchange fails.
PrimaryRoute(n) == KeyOf(Primary(log[n]))

PrimaryServes(n) ==
    /\ CanCall(n, PrimaryRoute(n))
    /\ authenticate(PrimaryRoute(n), n)
    /\ Installable(n, log[PrimaryRoute(n)])

synchronize(n) ==
    \E m \in Nodes :
        /\ m = PrimaryRoute(n) \/ ~PrimaryServes(n)
        /\ SyncHistory(n, m) \/ SyncRemovalProof(n, m)

WorkerFairness ==
    \A n \in Nodes : WF_vars(synchronize(n)) /\ WF_vars(LeaveTick(n))

FairSpec == Spec /\ WorkerFairness

-----------------------------------------------------------------------------
(* Properties *)

Rows == [op : Ops, target : Admissions, prefix : Histories]
Phases == {"Unaffiliated", "Joining", "Member", "RemovalPending", "Removed"}

\* Every table of the node database holds values of its column types, and an
\* affiliated node has an admission id.
TypeOK ==
    /\ phase \in [Nodes -> Phases]
    /\ inc \in [Nodes -> 0..MaxIncarnation]
    /\ \A n \in Nodes : phase[n] # "Unaffiliated" => inc[n] > 0
    /\ log \in [Nodes -> Histories]
    /\ sealed \in [Nodes -> BOOLEAN]
    /\ prepared \in [Nodes -> SUBSET Rows]
    /\ leaving \in [Nodes -> SUBSET [op : LeaveOps, admission : Admissions]]
    /\ syncing \in [Nodes -> BOOLEAN]
    /\ lapsed \subseteq Admissions
    /\ signed \subseteq Histories
    /\ accepted \subseteq Rows

\* No two histories ever signed conflict at a position: handoffs, removals,
\* re-joins that wipe a log and late deliveries never produce a fork.
NoFork == \A g, h \in signed : Extends(g, h) \/ Extends(h, g)

\* At most one node may append at any time, and it holds everything that was
\* ever signed, so it cannot hand out a conflicting receipt.
SoleWriter ==
    \A n \in Nodes : IsWriter(n) =>
        /\ \A m \in Nodes : IsWriter(m) => m = n
        /\ \A h \in signed : Extends(log[n], h)

\* Why there is no fork.  Every log is a signed history, and signed histories
\* replay and are closed under prefixes.
SignedHistories ==
    /\ \A n \in Nodes : log[n] \in signed
    /\ \A h \in signed : Replays(h) /\ \A i \in 1..(Len(h) + 1) : Before(h, i) \in signed

\* A member's log reaches past every entry its key has ever signed.
OwnEntriesHeld ==
    \A n \in Nodes : phase[n] = "Member" =>
        \A h \in signed : \A i \in 1..Len(h) : h[i].by = n => i <= Len(log[n])

\* A joining node, whose log was wiped, has signed nothing since the admission
\* it is waiting for: what it signed before lies in the history it will get.
NothingSignedSinceAdmission ==
    \A n \in Nodes : phase[n] = "Joining" =>
        /\ Adm(n) # RootAdm
        /\ \A h \in signed : \A i, j \in 1..Len(h) :
            /\ i < j
            /\ h[i].mutation.type = "Admit"
            /\ h[i].mutation.id = Adm(n)
            => h[j].by # n

\* Only incarnations that exist have been admitted.
AdmittedExist ==
    /\ inc[Root] > 0
    /\ \A h \in signed : \A i \in Positions(h, "Admit") :
            h[i].mutation.id[2] <= inc[KeyOf(h[i].mutation.id)]

\* The inductive strengthening of NoFork and SoleWriter: what survives wiping a
\* log and joining again is that authority always lies ahead of the wipe.
ForkFreedom ==
    /\ NoFork
    /\ SignedHistories
    /\ OwnEntriesHeld
    /\ NothingSignedSinceAdmission
    /\ AdmittedExist

\* What every handler of execute and every step of the worker has to keep: well
\* typed columns, and histories that cannot fork.
JournalInvariant == TypeOK /\ ForkFreedom

Latest(h) == h \in signed /\ \A g \in signed : Extends(h, g)

\* The role is never lost: some node may append, or the node the latest history
\* hands the role to can still install that history and will then append.
AuthorityNeverLost ==
    \/ \E n \in Nodes : IsWriter(n)
    \/ \E n \in Nodes, h \in signed :
        /\ Latest(h)
        /\ phase[n] = "Member"
        /\ Primary(h) = Adm(n)
        /\ NewHandoffs(n, h) # {}
        /\ Installable(n, h)

\* A node that has durably recorded Leave never becomes the primary, even when
\* acceptances it signed earlier are still in a client's hands.
LeavingNeverPrimary ==
    \A n \in Nodes : phase[n] = "Member" /\ IsLeaving(n) =>
        \A h \in signed : Extends(h, log[n]) => Primary(h) # Adm(n)

\* An incarnation its own node has abandoned or cancelled and confirmed as
\* removed is not a member of the latest history, whatever consents for it
\* are still in flight.
AbandonedNeverMember ==
    \A n \in Nodes, h \in signed :
        Latest(h) =>
            /\ \A k \in 1..(inc[n] - 1) : <<n, k>> \notin Members(h)
            /\ phase[n] = "Removed" => Adm(n) \notin Members(h)

\* What may keep a leave request pending for ever: a full history, an operation
\* id another node has used, or no cached member that is still a member.
LeaveBlocked(n) ==
    \/ \E h \in signed : Len(h) = MAX_HISTORY
    \/ \E r \in leaving[n], h \in signed :
        /\ r.admission = Adm(n)
        /\ \E i \in 1..Len(h) : h[i].op = r.op /\ h[i].mutation # Remove(Adm(n))
    \/ \A m \in Nodes : ~CanCall(n, m)

\* Recorded leave requests complete on their own: lost answers, handoffs in
\* progress and stale routes never leave a node in Leaving.
LeaveCompletes ==
    \A n \in Nodes :
        (phase[n] = "Member" /\ IsLeaving(n))
            ~> (phase[n] = "Removed" \/ LeaveBlocked(n))

\* A node that joins again, holds a live consent and has been admitted under
\* its new incarnation can install the history that admitted it and so use its
\* new active membership.
RejoinInstalls ==
    \A n \in Nodes, h \in signed :
        /\ phase[n] = "Joining"
        /\ Adm(n) \notin lapsed
        /\ Adm(n) \in Members(h)
        /\ Extends(h, log[n])
        => Installable(n, h)
=============================================================================
