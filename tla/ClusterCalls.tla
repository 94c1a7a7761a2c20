---------------------------- MODULE ClusterCalls ----------------------------
(***************************************************************************)
(* Management calls across cluster nodes:                                  *)
(* daemon/host/src/server/cluster_rpc.rs (cluster_call and the handler of  *)
(* peer requests) with commit_authorized of cluster/primary/runtime.rs and *)
(* the call of a peer of runtime/worker.rs.                                *)
(*                                                                         *)
(* A call runs under its node's client-credentials mutex, so that a        *)
(* removal of the credential is before it or after it. A node that is not  *)
(* primary forwards the call to the node it believes is, and keeps its     *)
(* mutex while it waits; the peer takes its own mutex to execute. Beliefs  *)
(* are as old as the log a node holds, and after a transfer two nodes may  *)
(* each take the other for primary. The worker's own revocations take no   *)
(* mutex at all: the write transaction alone protects them.                *)
(***************************************************************************)
EXTENDS Integers, Sequences, FiniteSets

CONSTANTS
    Nodes,      \* members of the cluster
    Founder,    \* the first primary
    MaxEpoch,   \* bound on transfers
    MaxCalls    \* bound on the calls of a node's client

CallsAssumption ==
    /\ IsFiniteSet(Nodes) /\ Founder \in Nodes
    /\ MaxEpoch \in Nat \ {0} /\ MaxCalls \in Nat

VARIABLES
    log,      \* who committed, at which epoch; a transfer starts an epoch
    held,     \* the epoch of the log each node holds
    lock,     \* holder of each node's credentials mutex
    valid,    \* the credential of each node's client
    call,     \* the call of each node's client
    calls,    \* how many it has made
    peer,     \* the peer request executing at each node
    worker    \* the revocation of each node's worker

vars == <<log, held, lock, valid, call, calls, peer, worker>>

None == [step |-> "none"]

\* log.primary is the primary of each epoch; log.entries the committed entries.
Epoch == Len(log.primary)
PrimaryAt(n) == log.primary[held[n]]

TypeOK ==
    /\ log.primary \in Seq(Nodes) /\ Epoch \in 1..MaxEpoch
    /\ held \in [Nodes -> 1..MaxEpoch] /\ valid \in [Nodes -> BOOLEAN]
    /\ \A n \in Nodes : held[n] <= Epoch
    /\ lock \in [Nodes -> {"", "call", "peer"}]
    /\ calls \in [Nodes -> 0..MaxCalls]
    /\ \A n \in Nodes :
        /\ call[n].step \in {"none", "lock", "commit", "relock", "await", "sent", "answered"}
        /\ peer[n].step \in {"none", "lock", "commit"} /\ worker[n].step \in {"none", "commit"}
        /\ lock[n] = "call" <=> call[n].step \in {"commit", "await", "sent", "answered"}
        /\ lock[n] = "peer" <=> peer[n].step = "commit"

Init ==
    /\ log = [primary |-> <<Founder>>, entries |-> {}]
    /\ held = [n \in Nodes |-> 1] /\ lock = [n \in Nodes |-> ""]
    /\ valid = [n \in Nodes |-> TRUE]
    /\ call = [n \in Nodes |-> None] /\ calls = [n \in Nodes |-> 0]
    /\ peer = [n \in Nodes |-> None] /\ worker = [n \in Nodes |-> None]

Free(n) == lock[n] = ""
KeepsLock(n) == lock' = lock
Unlocked(n) == lock' = [lock EXCEPT ![n] = ""]

-----------------------------------------------------------------------------
(* Transactions *)

\* append: the log in the transaction says who is primary. A caller that read
\* the node before names the epoch it saw.
TrustsRead(n, epoch) == log.primary[epoch] = n
IsPrimary(n, epoch) == held[n] = epoch /\ PrimaryAt(n) = n
Entry(n, client) == [by |-> n, epoch |-> held[n], at |-> Epoch, client |-> client]
Commit(n, client) == log' = [log EXCEPT !.entries = @ \cup {Entry(n, client)}]

\* A transfer the primary seals, and the import of a longer history.
Seal(n, m) ==
    /\ Free(n) /\ n # m /\ IsPrimary(n, held[n]) /\ Epoch < MaxEpoch
    /\ log' = [log EXCEPT !.primary = Append(@, m)]
    /\ held' = [held EXCEPT ![n] = Epoch + 1]
    /\ UNCHANGED <<lock, valid, call, calls, peer, worker>>
Import(n) ==
    /\ Free(n) /\ held[n] < Epoch
    /\ \E e \in (held[n] + 1)..Epoch : held' = [held EXCEPT ![n] = e]
    /\ UNCHANGED <<log, lock, valid, call, calls, peer, worker>>

\* The client's pairing is removed, under the mutex.
RemoveUnlocked(n) == TRUE
RemoveLocked(n) == Free(n)
Remove(n) ==
    /\ valid[n] /\ RemoveLocked(n)
    /\ valid' = [valid EXCEPT ![n] = FALSE]
    /\ UNCHANGED <<log, held, lock, call, calls, peer, worker>>

-----------------------------------------------------------------------------
(* cluster_call *)

At(n, s) == call[n].step = s
To(n, s) == call' = [call EXCEPT ![n] = [@ EXCEPT !.step = s]]

\* A call names the management epoch its client last read of the node.
Start(n) ==
    /\ call[n] = None /\ calls[n] < MaxCalls
    /\ calls' = [calls EXCEPT ![n] = @ + 1]
    /\ \E e \in 1..held[n] : call' = [call EXCEPT ![n] = [step |-> "lock", epoch |-> e]]
    /\ UNCHANGED <<log, held, lock, valid, peer, worker>>

\* The mutex is taken and the credential looked up; the call runs under it.
Locks(n) ==
    /\ At(n, "lock") /\ Free(n)
    /\ IF valid[n]
       THEN lock' = [lock EXCEPT ![n] = "call"] /\ To(n, "commit")
       ELSE call' = [call EXCEPT ![n] = None] /\ UNCHANGED lock
    /\ UNCHANGED <<log, held, valid, calls, peer, worker>>

\* execute: committed here, or the mutex is given back and the call forwarded.
Execute(n) ==
    /\ At(n, "commit") /\ Unlocked(n)
    /\ \/ /\ IsPrimary(n, call[n].epoch)
          /\ Commit(n, <<n, calls[n]>>)
          /\ call' = [call EXCEPT ![n] = None]
       \/ ~IsPrimary(n, call[n].epoch) /\ To(n, "relock") /\ UNCHANGED log
    /\ UNCHANGED <<held, valid, calls, peer, worker>>

\* The credential is looked up again under the mutex, which is then kept.
NoRecheck(n) == TRUE
Recheck(n) == valid[n]
Forward(n) ==
    /\ At(n, "relock") /\ Free(n)
    /\ IF Recheck(n) /\ PrimaryAt(n) # n
       THEN /\ lock' = [lock EXCEPT ![n] = "call"]
            /\ call' = [call EXCEPT ![n] = [@ EXCEPT !.step = "await"]]
       ELSE call' = [call EXCEPT ![n] = None] /\ UNCHANGED lock
    /\ UNCHANGED <<log, held, valid, calls, peer, worker>>

\* The answer comes back; or eight seconds pass.
Answers(n) ==
    /\ At(n, "answered") /\ Unlocked(n) /\ call' = [call EXCEPT ![n] = None]
    /\ UNCHANGED <<log, held, valid, calls, peer, worker>>
NeverTimesOut(n) == FALSE
TimeLimit(n) == At(n, "await") \/ At(n, "sent")
TimesOut(n) ==
    /\ TimeLimit(n) /\ Unlocked(n) /\ call' = [call EXCEPT ![n] = None]
    /\ UNCHANGED <<log, held, valid, calls, peer, worker>>

-----------------------------------------------------------------------------
(* ExecuteClusterPeerRequest: the nonce is consumed, then the mutex awaited. *)

Arrives(n) ==
    /\ At(n, "await") /\ To(n, "sent")
    /\ LET m == PrimaryAt(n) IN
        /\ m # n /\ peer[m] = None
        /\ peer' = [peer EXCEPT ![m] =
              [step |-> "lock", from |-> <<n, calls[n]>>, epoch |-> call[n].epoch]]
    /\ UNCHANGED <<log, held, lock, valid, calls, worker>>
PeerLocks(m) ==
    /\ peer[m].step = "lock" /\ Free(m)
    /\ lock' = [lock EXCEPT ![m] = "peer"] /\ peer' = [peer EXCEPT ![m].step = "commit"]
    /\ UNCHANGED <<log, held, valid, call, calls, worker>>
PeerExecutes(m) ==
    /\ peer[m].step = "commit" /\ Unlocked(m) /\ peer' = [peer EXCEPT ![m] = None]
    /\ IF IsPrimary(m, peer[m].epoch) THEN Commit(m, peer[m].from) ELSE UNCHANGED log
    /\ LET n == peer[m].from[1] IN
        IF At(n, "sent") /\ calls[n] = peer[m].from[2] THEN To(n, "answered") ELSE UNCHANGED call
    /\ UNCHANGED <<held, valid, calls, worker>>

-----------------------------------------------------------------------------
(* The worker of the primary revokes a cancelled grant, without the mutex. *)

WorkerReads(n) ==
    /\ worker[n] = None /\ PrimaryAt(n) = n
    /\ worker' = [worker EXCEPT ![n] = [step |-> "commit", epoch |-> held[n]]]
    /\ UNCHANGED <<log, held, lock, valid, call, calls, peer>>
commit_authorized(n) ==
    /\ worker[n] # None /\ worker' = [worker EXCEPT ![n] = None]
    /\ IF IsPrimary(n, worker[n].epoch)
       THEN Commit(n, <<"worker">>)
       ELSE UNCHANGED log
    /\ UNCHANGED <<held, lock, valid, call, calls, peer>>

-----------------------------------------------------------------------------
Calling(n) == Locks(n) \/ Execute(n) \/ Forward(n) \/ Answers(n) \/ TimesOut(n)
Serving(n) == PeerLocks(n) \/ PeerExecutes(n)
Next ==
    \E n \in Nodes :
        \/ Start(n) \/ Calling(n) \/ Serving(n)
        \/ WorkerReads(n) \/ commit_authorized(n)
        \/ Import(n) \/ Remove(n) \/ Arrives(n)
        \/ \E m \in Nodes : Seal(n, m)

\* Tasks run, the mutex is fair (tokio's is first come, first served), and
\* eight seconds pass.
Fairness ==
    /\ \A n \in Nodes :
        /\ SF_vars(Locks(n)) /\ SF_vars(Forward(n)) /\ SF_vars(PeerLocks(n))
        /\ WF_vars(Execute(n) \/ Answers(n)) /\ WF_vars(TimesOut(n)) /\ WF_vars(PeerExecutes(n))
Spec == Init /\ [][Next]_vars
FairSpec == Spec /\ Fairness

-----------------------------------------------------------------------------
(* Whatever was read before the write transaction, an entry is written     *)
(* only by the primary of the epoch it is written in: two nodes that each  *)
(* take the other for primary write nothing, nor does a worker whose node  *)
(* has handed over in between (primary.rs append). No node can ask whether *)
(* its epoch is still the last one: that it is follows from the transfers. *)
OnlyPrimaryWrites == \A e \in log.entries : log.primary[e.epoch] = e.by /\ e.at = e.epoch

(* A client whose credential was removed makes no call of its node take    *)
(* effect and dispatches no new one (cluster_rpc.rs keeps the credential   *)
(* guard through the transaction and looks again before it forwards).      *)
NothingAfterRemoval ==
    [][\A n \in Nodes : ~valid[n] =>
        /\ \A e \in log'.entries \ log.entries : ~(e.by = n /\ e.client = <<n, calls[n]>>)
        /\ At(n, "await")' => At(n, "await")]_vars

(* Nodes that forward to each other do not wait for ever: every call is    *)
(* answered.                                                               *)
EveryCallAnswered == \A n \in Nodes : (call[n] # None) ~> (call[n] = None)
=============================================================================
