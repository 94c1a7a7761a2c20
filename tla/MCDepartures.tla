---------------------------- MODULE MCDepartures ----------------------------
(***************************************************************************)
(* How a daemon goes: an updater drains its process (UpdateDrain), or its  *)
(* node leaves the cluster (ClusterJournal). The two share no state, so    *)
(* one of them runs in each behaviour, each under its own fairness.        *)
(***************************************************************************)
EXTENDS UpdateDrain, Sequences, FiniteSets

VARIABLES
    part,  \* the component that runs
    \* ClusterJournal
    phase, inc, log, sealed, prepared, leaving, syncing, lapsed, signed, accepted

Members == {"A", "B", "C"}

Cluster == INSTANCE ClusterJournal WITH Nodes <- Members, Root <- "A", Ops <- {"o1"},
    LeaveOps <- {"l1", "l2"}, Grants <- {}, MaxIncarnation <- 1, MAX_HISTORY <- 7,
    MAX_ACTIVE <- 1

\* A created the cluster and admitted B, then C; both joined and their consents have
\* lapsed.  B, to which the client brought the history, has not heard of C.
Admitted ==
    LET admits(op, n) == Cluster!Entry(1, op, "A", Cluster!Admit(<<n, 1>>))
    IN  <<admits("a1", "B"), admits("a2", "C")>>

ClusterOfThree ==
    /\ phase = [n \in Members |-> "Member"]
    /\ inc = [n \in Members |-> 1]
    /\ log = [n \in Members |-> IF n = "B" THEN <<Admitted[1]>> ELSE Admitted]
    /\ sealed = [n \in Members |-> FALSE]
    /\ prepared = [n \in Members |-> {}]
    /\ leaving = [n \in Members |-> {}]
    /\ syncing = [n \in Members |-> FALSE]
    /\ lapsed = {<<"B", 1>>, <<"C", 1>>}
    /\ signed = {<<>>, <<Admitted[1]>>, Admitted}
    /\ accepted = {}

clusterVars == <<phase, inc, log, sealed, prepared, leaving, syncing, lapsed, signed,
    accepted>>
departureVars == <<part, vars, clusterVars>>

DepartureInit == part \in {"drain", "leave"} /\ Init /\ ClusterOfThree

DepartureNext ==
    \/ part = "drain" /\ Next /\ UNCHANGED <<part, clusterVars>>
    \/ part = "leave" /\ Cluster!Next /\ UNCHANGED <<part, vars>>

\* The accept loop of the daemon, and the cluster worker of every node.
DrainFairness ==
    /\ WF_vars(part = "drain" /\ Tick)
    /\ WF_vars(part = "drain" /\ \E r \in BOOLEAN : Observed(r))
    /\ WF_vars(part = "drain" /\ Elapse)

LeaveFairness ==
    \A n \in Members :
        /\ WF_clusterVars(part = "leave" /\ Cluster!synchronize(n))
        /\ WF_clusterVars(part = "leave" /\ Cluster!LeaveTick(n))

DepartureSpec ==
    DepartureInit /\ [][DepartureNext]_departureVars /\ DrainFairness /\ LeaveFairness

-----------------------------------------------------------------------------
\* A leave that a member recorded completes on its own, in a cluster of which one
\* member has not yet heard of the last admission: lost answers, handoffs in progress
\* and stale routes never leave a node in Leaving (worker.rs, LeaveCluster).
LeaveCompletes == Cluster!LeaveCompletes
=============================================================================
