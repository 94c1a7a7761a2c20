---------------------------- MODULE ClusterReplay ----------------------------
(***************************************************************************)
(* State::genesis, State::apply and replay of primary.rs, entry by entry,  *)
(* as the reference for the views of a history that ClusterJournal uses.   *)
(* ClusterJournalProofs proves that they agree on every history.           *)
(***************************************************************************)
EXTENDS ClusterJournal

CONSTANT MaxEpoch  \* bound on the epochs of the entries offered

ASSUME EpochAssumption == MaxEpoch \in Nat

Genesis ==
    [epoch |-> 1, primary |-> RootAdm, members |-> {RootAdm}, seen |-> {RootAdm},
     operations |-> {}, grants |-> {}, revoked |-> {}]

\* The conditions of the match arm of a mutation.
allowed(s, m) ==
    \/ /\ m.type = "Admit"
       /\ m.id \notin s.seen
       /\ KeyOf(m.id) \notin {KeyOf(a) : a \in s.members}
    \/ /\ m.type = "Remove"
       /\ m.id # s.primary
    \/ /\ m.type = "Adopt"
       /\ m.issuer \in s.members
       /\ m.grant \notin s.grants
       /\ m.grant \notin s.revoked
    \/ m.type = "Revoke"
    \/ /\ m.type = "Transfer"
       /\ m.id # s.primary
       /\ m.id \in s.members

\* What the match arm of a mutation does to the state.
mutated(s, m) ==
    CASE m.type = "Admit"    -> [s EXCEPT !.members = @ \cup {m.id}, !.seen = @ \cup {m.id}]
      [] m.type = "Remove"   -> [s EXCEPT !.members = @ \ {m.id}, !.seen = @ \cup {m.id}]
      [] m.type = "Adopt"    -> [s EXCEPT !.grants = @ \cup {m.grant}]
      [] m.type = "Revoke"   -> [s EXCEPT !.revoked = @ \cup {m.grant},
                                          !.grants = @ \ {m.grant}]
      [] m.type = "Transfer" -> [s EXCEPT !.primary = m.id, !.epoch = @ + 1]

\* Whether State::apply accepts an entry, and the state it leaves when it does.
accepts(s, e) ==
    /\ e.epoch = s.epoch
    /\ e.op \notin s.operations
    /\ s.primary \in s.members
    /\ e.by = KeyOf(s.primary)
    /\ allowed(s, e.mutation)

apply(s, e) == [mutated(s, e.mutation) EXCEPT !.operations = @ \cup {e.op}]

\* replay goes through the states t: genesis, then one application per entry; an
\* entry that is refused ends it with an error.
replay(h, t) ==
    /\ t[0] = Genesis
    /\ \A i \in 1..Len(h) : accepts(t[i - 1], h[i]) /\ t[i] = apply(t[i - 1], h[i])

\* The state ClusterJournal reads off a history.
StateOf(h) ==
    [epoch |-> Epoch(h), primary |-> Primary(h), members |-> Members(h), seen |-> Seen(h),
     operations |-> Operations(h), grants |-> ActiveGrants(h), revoked |-> Revoked(h)]

StatesOf(h) == [i \in 0..Len(h) |-> StateOf(SubSeq(h, 1, i))]

Offered == [epoch : 1..MaxEpoch, op : OperationIds, by : Nodes, mutation : Mutations]

\* Applying State::apply to the entries of any node's log, one after the other, and
\* to any entry whatever that is offered after them, accepts the same entries and
\* goes through the same states as the views the journal's guards and properties
\* are written with.
ReplayAgrees ==
    \A h \in {log[n] : n \in Nodes} :
        /\ replay(h, StatesOf(h))
        /\ LET s == StateOf(h)
           IN  \A e \in Offered :
                IF accepts(s, e)
                THEN Applies(h, e) /\ apply(s, e) = StateOf(Append(h, e))
                ELSE ~Applies(h, e)
=============================================================================
