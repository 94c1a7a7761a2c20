------------------------- MODULE MCClusterJournal -------------------------
(***************************************************************************)
(* Model-checking instance of the journal and its replay, in two parts:    *)
(* handoffs, leaves and re-joins over long histories, and client grants    *)
(* over short ones.                                                        *)
(***************************************************************************)
EXTENDS ClusterReplay, TLC

CONSTANTS A, B, o1, o2, o3, o4, g1, l1  \* model values

VARIABLE part

Roles == INSTANCE ClusterJournal WITH Grants <- {}
Granted == INSTANCE ClusterJournal WITH LeaveOps <- {}, MAX_HISTORY <- 3

PartInit == part \in {"roles", "grants"} /\ Init

PartNext ==
    /\ \/ part = "roles" /\ Roles!Next
       \/ part = "grants" /\ Granted!Next
    /\ UNCHANGED part

PartSpec == PartInit /\ [][PartNext]_<<vars, part>>

\* Operation ids are opaque 32-byte strings that clients draw at random.
Symmetry == Permutations(Ops)
=============================================================================
