-------------------------- MODULE ClusterAdoption --------------------------
(***************************************************************************)
(* The client adoption outbox of one cluster node, the issuer:             *)
(* daemon/host/src/cluster/primary/runtime/adoption.rs with the part of    *)
(* runtime/worker.rs that serves it.                                       *)
(*                                                                         *)
(* A client paired with the issuer asks for a grant of the whole cluster.  *)
(* Only the primary can write the grant into the log, so the issuer keeps  *)
(* the signed intent in an outbox and its worker sends it, not knowing     *)
(* after a lost answer whether it was accepted. When the pairing is        *)
(* removed meanwhile the grant must not survive it: it is cancelled in the *)
(* outbox and revoked in the log, and the log may see the two in any order.*)
(*                                                                         *)
(* The log and its primary are those of ClusterJournal, seen from the      *)
(* issuer: `local' is the prefix it holds. Pairing removal, the calls of   *)
(* clients and the dispatch of an intent exclude each other by the         *)
(* client-credentials mutex.                                               *)
(***************************************************************************)
EXTENDS Integers, Sequences, FiniteSets

CONSTANTS
    Owners,      \* clients paired with the issuer
    Grants,      \* grant ids
    MAX_OUTBOX,  \* 128 in the code
    MaxLog       \* bound on the entries others may add

AdoptionAssumption ==
    IsFiniteSet(Owners) /\ IsFiniteSet(Grants) /\ MAX_OUTBOX \in Nat /\ MaxLog \in Nat

VARIABLES
    log,      \* the log of the cluster
    local,    \* how much of it the issuer holds
    paired,   \* owners whose credential is current
    row,      \* adoption_outbox and adoption_receipts
    cancelled,\* adoption_cancelled
    expired,  \* grants past their expiry
    lock,     \* the worker holds the credentials mutex
    worker,   \* step of the worker's tick, its list, and the request it awaits
    wire,     \* requests on their way to the primary
    late      \* grants whose owner left before the issuer saw them resolved

vars == <<log, local, paired, row, cancelled, expired, lock, worker, wire, late>>

None == [type |-> "none"]
Entry(type, g, epoch, op) == [type |-> type, grant |-> g, epoch |-> epoch, op |-> op]
cancel_operation(g) == <<"cancel", g>>

GrantsOf(l, type) == {l[i].grant : i \in {j \in DOMAIN l : l[j].type = type}}
Revoked(l) == GrantsOf(l, "revoke")
Active(l) == GrantsOf(l, "adopt") \ Revoked(l)
Transfers(l) == {i \in DOMAIN l : l[i].type \in {"issuer", "other"}}
EpochOf(l) == 1 + Cardinality(Transfers(l))
PrimaryOf(l) ==
    IF Transfers(l) = {} THEN "other"
    ELSE l[CHOOSE i \in Transfers(l) : \A j \in Transfers(l) : j <= i].type
Member(l) == ~(\E i \in DOMAIN l : l[i].type = "remove")

Held == SubSeq(log, 1, local)
IsPrimary == PrimaryOf(Held) = "issuer"
Outbox == {g \in Grants : row[g].type = "outbox"}

Rows == [type : {"outbox", "receipt"}, owner : Owners, signed : BOOLEAN]
TypeOK ==
    /\ local \in 0..Len(log) /\ paired \subseteq Owners
    /\ row \in [Grants -> Rows \cup {None}]
    /\ Cardinality(Outbox) <= MAX_OUTBOX
    /\ cancelled \subseteq Outbox \cup expired
    /\ {expired, late} \subseteq SUBSET Grants /\ lock \in BOOLEAN

Init ==
    /\ log = <<>> /\ local = 0 /\ paired = Owners
    /\ row = [g \in Grants |-> None]
    /\ cancelled = {} /\ expired = {} /\ lock = FALSE
    /\ worker = [step |-> "sleep", todo |-> {}, sent |-> None]
    /\ wire = {} /\ late = {}

-----------------------------------------------------------------------------
(* The outbox *)

\* maintain: rows that expired, or whose grant the log has settled, go.
SettlesAny(g) == g \in Revoked(Held) \cup Active(Held)
Settled(g) == g \in Revoked(Held) \/ (g \in Active(Held) /\ g \notin cancelled)
Maintained ==
    [g \in Grants |->
        IF row[g] = None \/ g \in expired THEN None
        ELSE IF row[g].type = "outbox" /\ Settled(g) THEN [row[g] EXCEPT !.type = "receipt"]
        ELSE row[g]]
WithReceipts(r) == {g \in Grants : r[g].type # "none"}
InOutbox(r) == {g \in Grants : r[g].type = "outbox"}

\* cancel_inactive: maintain, then cancel what is left of owners no longer paired.
Cancelled ==
    (cancelled \cap InOutbox(Maintained)) \cup {g \in InOutbox(Maintained) : row[g].owner \notin paired}
cancel_inactive == row' = Maintained /\ cancelled' = Cancelled

\* BeginClusterClientAdoption: the owner's live row, or a new one.
begin(o, g) ==
    /\ ~lock /\ o \in paired /\ Member(Held)
    /\ ~(\E h \in Grants : Maintained[h] # None /\ row[h].owner = o
                            /\ h \notin Revoked(Held) \cup cancelled)
    /\ Cardinality(InOutbox(Maintained)) < MAX_OUTBOX
    /\ row[g] = None /\ g \notin expired \cup GrantsOf(log, "adopt") \cup Revoked(log)
    /\ row' = [Maintained EXCEPT ![g] = [type |-> "outbox", owner |-> o, signed |-> FALSE]]
    /\ cancelled' = Cancelled
    /\ UNCHANGED <<log, local, paired, expired, lock, worker, wire, late>>

\* CompleteClusterClientAdoption: the issuer signs what the client signed.
complete(o, g) ==
    /\ ~lock /\ o \in paired /\ Member(Held)
    /\ Maintained[g].type = "outbox" /\ row[g].owner = o /\ g \notin Cancelled
    /\ row' = [Maintained EXCEPT ![g].signed = TRUE] /\ cancelled' = Cancelled
    /\ UNCHANGED <<log, local, paired, expired, lock, worker, wire, late>>

\* An entry is appended by the primary unless its operation is known.
Known(e) == \E i \in DOMAIN log : log[i].op = e.op
Valid(e) ==
    /\ e.epoch = EpochOf(log)
    /\ e.type = "adopt" => Member(log) /\ e.grant \notin Active(log) \cup Revoked(log) \cup expired
Accepts(e) == Known(e) \/ Valid(e)
Append1(e) == IF Known(e) THEN log ELSE Append(log, e)
AdoptAtFirst(g) == Entry("adopt", g, 1, g)
AdoptOf(g) == Entry("adopt", g, EpochOf(Held), g)
RevokeOf(g) == Entry("revoke", g, EpochOf(Held), cancel_operation(g))

\* GetClusterClientAdoption on the primary itself writes the grant.
get(o, g) ==
    /\ ~lock /\ o \in paired
    /\ IsPrimary /\ Member(Held) /\ local = Len(log)
    /\ Maintained[g].type = "outbox" /\ row[g].owner = o /\ row[g].signed /\ g \notin Cancelled
    /\ Valid(AdoptOf(g)) /\ log' = Append(log, AdoptOf(g)) /\ local' = Len(log')
    /\ cancel_inactive
    /\ UNCHANGED <<paired, expired, lock, worker, wire, late>>

-----------------------------------------------------------------------------
(* The worker *)

Step(s, todo) == worker' = [step |-> s, todo |-> todo, sent |-> None]
Fails == Step("sleep", {}) /\ lock' = FALSE

Wake ==
    /\ worker.step = "sleep" /\ ~lock /\ cancel_inactive
    /\ Step("sync", {})
    /\ UNCHANGED <<log, local, paired, expired, lock, wire, late>>

\* apply_received: cancel under the mutex, then import a longer history.
ImportOnly(k) ==
    /\ k \in local..Len(log) /\ ~lock /\ local' = k
    /\ UNCHANGED <<row, cancelled>>
apply_received(k) ==
    /\ k \in local..Len(log) /\ ~lock /\ cancel_inactive
    /\ local' = k

cancellations == {g \in Grants : row'[g].type = "outbox" /\ g \in cancelled'}
synchronize(k) ==
    /\ worker.step = "sync"
    /\ IF IsPrimary THEN k = local /\ UNCHANGED <<local, row, cancelled>> ELSE apply_received(k)
    /\ IF Member(SubSeq(log, 1, k)) THEN Step("cancel", cancellations) ELSE Step("sleep", {})
    /\ UNCHANGED <<log, paired, expired, lock, wire, late>>
SyncFails ==
    /\ worker.step \in {"sync", "resync", "reread"} /\ ~IsPrimary /\ Fails
    /\ UNCHANGED <<log, local, paired, row, cancelled, expired, wire, late>>

\* A request is sent; the worker waits for its answer for eight seconds.
Send(e, s) ==
    /\ wire' = wire \cup {e}
    /\ worker' = [worker EXCEPT !.step = s, !.sent = e]

\* Each cancellation is revoked in the log, here or by the primary.
RevokeNext(g) ==
    /\ worker.step = "cancel" /\ g \in worker.todo
    /\ \/ /\ IsPrimary /\ Accepts(RevokeOf(g))
          /\ log' = Append1(RevokeOf(g)) /\ local' = Len(log')
          /\ Step("cancel", worker.todo \ {g}) /\ UNCHANGED wire
       \/ IsPrimary /\ ~Accepts(RevokeOf(g)) /\ Step("sleep", {}) /\ UNCHANGED <<log, local, wire>>
       \/ ~IsPrimary /\ Send(RevokeOf(g), "revoking") /\ UNCHANGED <<log, local>>
    /\ UNCHANGED <<paired, row, cancelled, expired, lock, late>>

\* ... and after the answer the history is fetched again.
resync(k) ==
    /\ worker.step = "resync" /\ apply_received(k)
    /\ IF Member(SubSeq(log, 1, k)) THEN Step("cancel", worker.todo) ELSE Step("sleep", {})
    /\ UNCHANGED <<log, paired, expired, lock, wire, late>>

\* pending_intents: signed, current, neither cancelled nor settled.
pending_intents ==
    {g \in InOutbox(Maintained) :
        row[g].signed /\ g \notin expired \cup cancelled \cup Active(Held) \cup Revoked(Held)}
ListIntents ==
    /\ worker.step = "cancel" /\ worker.todo = {}
    /\ row' = Maintained /\ cancelled' = cancelled \cap InOutbox(Maintained)
    /\ Step("adopt", pending_intents)
    /\ UNCHANGED <<log, local, paired, expired, lock, wire, late>>

\* dispatch_guard holds the mutex from the look at the owner to the answer.
dispatch_guard(o) == o \in paired
AdoptNext(g) ==
    /\ worker.step = "adopt" /\ g \in worker.todo /\ ~lock
    /\ IF row[g] = None \/ ~dispatch_guard(row[g].owner)
       THEN \* cancel_owner
            /\ cancelled' = IF row[g].type = "outbox" THEN cancelled \cup {g} ELSE cancelled
            /\ Step("adopt", worker.todo \ {g})
            /\ UNCHANGED <<log, local, lock, wire>>
       ELSE IF IsPrimary
       THEN /\ Step("adopt", worker.todo \ {g})
            /\ IF g \notin cancelled /\ Valid(AdoptOf(g))
               THEN log' = Append(log, AdoptOf(g)) /\ local' = Len(log')
               ELSE UNCHANGED <<log, local>>
            /\ UNCHANGED <<cancelled, lock, wire>>
       ELSE /\ lock' = TRUE /\ Send(AdoptOf(g), "adopting")
            /\ UNCHANGED <<log, local, cancelled>>
    /\ UNCHANGED <<paired, row, expired, late>>
reread(k) ==
    /\ worker.step = "reread" /\ apply_received(k)
    /\ Step("adopt", worker.todo)
    /\ UNCHANGED <<log, paired, expired, lock, wire, late>>
TickEnds ==
    /\ worker.step = "adopt" /\ worker.todo = {} /\ Fails
    /\ UNCHANGED <<log, local, paired, row, cancelled, expired, wire, late>>

\* The answer is lost or late: the tick fails, the request may still arrive.
TimesOut ==
    /\ worker.step \in {"revoking", "adopting"} /\ Fails
    /\ UNCHANGED <<log, local, paired, row, cancelled, expired, wire, late>>

-----------------------------------------------------------------------------
(* The rest of the cluster *)

\* The primary executes a request; its answer reaches a worker still waiting.
Answer(e, ok) ==
    IF worker.sent # e THEN UNCHANGED <<worker, lock>>
    ELSE IF ~ok THEN Fails
    ELSE /\ Step(IF e.type = "revoke" THEN "resync" ELSE "reread", worker.todo \ {e.grant})
         /\ lock' = FALSE
Deliver(e) ==
    /\ e \in wire /\ wire' = wire \ {e}
    /\ IF PrimaryOf(log) # "issuer" /\ Member(log) /\ Accepts(e)
       THEN log' = Append1(e) /\ Answer(e, TRUE)
       ELSE UNCHANGED log /\ Answer(e, FALSE)
    /\ UNCHANGED <<local, paired, row, cancelled, expired, late>>
Lose(e) ==
    /\ e \in wire /\ wire' = wire \ {e}
    /\ UNCHANGED <<log, local, paired, row, cancelled, expired, lock, worker, late>>

\* Others write too: a transfer, a removal of the issuer, a user's revocation.
Others(e) ==
    /\ Len(log) < MaxLog /\ Member(log)
    /\ PrimaryOf(log) = "issuer" => local = Len(log)
    /\ e.type = "remove" => PrimaryOf(log) = "other"
    /\ e.type = "issuer" => local = Len(log)
    /\ e.type \in {"issuer", "other"} => PrimaryOf(log) # e.type
    /\ e.type = "revoke" => e.grant \notin Revoked(log)
    /\ log' = Append(log, e)
    /\ local' = IF PrimaryOf(log) = "issuer" THEN Len(log') ELSE local
    /\ UNCHANGED <<paired, row, cancelled, expired, lock, worker, wire, late>>
OthersEntries ==
    {Entry(t, "-", EpochOf(log), <<t, Len(log)>>) : t \in {"issuer", "other", "remove"}}
    \cup {Entry("revoke", g, EpochOf(log), <<"user", g>>) : g \in Grants}

\* A credential is removed; the mutex keeps it off a dispatch.
Unpair(o) ==
    /\ ~lock /\ o \in paired /\ paired' = paired \ {o}
    /\ late' = late \cup {g \in Outbox : row[g].owner = o /\ g \notin Active(Held)}
    /\ UNCHANGED <<log, local, row, cancelled, expired, lock, worker, wire>>

\* A client's cluster call reconciles first (reconcile_pairing_revocations).
Reconcile ==
    /\ ~lock /\ cancel_inactive /\ row # row'
    /\ UNCHANGED <<log, local, paired, expired, lock, worker, wire, late>>

Expire(g) ==
    /\ row[g] # None /\ g \notin expired /\ expired' = expired \cup {g}
    /\ UNCHANGED <<log, local, paired, row, cancelled, lock, worker, wire, late>>

-----------------------------------------------------------------------------
Synced == \E k \in 0..Len(log) : synchronize(k) \/ resync(k) \/ reread(k)
Whole == synchronize(Len(log)) \/ resync(Len(log)) \/ reread(Len(log))
Worker ==
    \/ Wake \/ ListIntents \/ TickEnds
    \/ \E g \in Grants : RevokeNext(g) \/ AdoptNext(g)

Next ==
    \/ Worker \/ Synced \/ SyncFails \/ TimesOut \/ Reconcile
    \/ \E e \in wire : Deliver(e) \/ Lose(e)
    \/ \E e \in OthersEntries : Others(e)
    \/ \E o \in Owners : Unpair(o) \/ \E g \in Grants : begin(o, g) \/ complete(o, g) \/ get(o, g)
    \/ \E g \in Grants : Expire(g)

\* The worker runs; a request repeated again and again is answered, and a
\* history asked for again and again is received whole.
Answered(g) == \E e \in wire : e.grant = g /\ e = worker.sent /\ Deliver(e)
Fairness ==
    /\ WF_vars(Worker) /\ SF_vars(Whole) /\ WF_vars(TimesOut \/ SyncFails)
    /\ \A g \in Grants : SF_vars(Answered(g))
Spec == Init /\ [][Next]_vars
FairSpec == Spec /\ Fairness

-----------------------------------------------------------------------------
(* A grant whose owner lost its pairing before the issuer saw it accepted  *)
(* never counts as an accepted grant at the issuer: it is cancelled until  *)
(* its revocation is in the log (worker.rs: cancellation and import happen *)
(* under one lock).                                                        *)
NeverAcceptedLate ==
    \A g \in late : row[g].type = "receipt" => g \in Revoked(Held)

(* Uncertain delivery does not outlive the pairing: such a grant is in the *)
(* end revoked, whatever order the adoption, its cancellation and their    *)
(* retries reach the primary in; unless it expires or the issuer is        *)
(* removed.                                                                *)
Over == ~Member(log)
CancellationArrives ==
    \A g \in Grants : (g \in late) ~> (g \in Revoked(log) \/ g \in expired \/ Over)

(* And the intent of a client that stays is carried out.                   *)
AdoptionArrives ==
    \A g \in Grants :
        (row[g].type = "outbox" /\ row[g].signed /\ row[g].owner \in paired)
        ~> (g \in GrantsOf(log, "adopt") \cup Revoked(log) \cup expired \/ row[g] = None
            \/ row[g].owner \notin paired \/ Over)
=============================================================================
