---------------------------- MODULE InputBackend ----------------------------
(***************************************************************************)
(* What the input broker relies on in a native backend, whatever serves    *)
(* it: input is injected into one generation of the backend; a generation  *)
(* can be lost at any moment with keys down; and the next one is adopted   *)
(* only when nothing that was pressed before is down any more.  A backend  *)
(* that cannot release in time may abandon keys, but only before it is     *)
(* adopted: in an adopted generation it answers for every key.             *)
(***************************************************************************)
EXTENDS Naturals

CONSTANT Held  \* keys and buttons

VARIABLES
    generation,  \* Backend::generation()
    adopted,     \* the generation the broker works with
    held,        \* what the OS holds down and the backend answers for
    abandoned    \* keys it once stopped answering for

Init == generation = 0 /\ adopted = 0 /\ held = {} /\ abandoned = {}

\* Presses and releases, the late effects of lost calls included.
Inject == held' \in SUBSET Held /\ UNCHANGED <<generation, adopted, abandoned>>

Lose ==
    /\ generation' = generation + 1 /\ held' \in SUBSET held
    /\ UNCHANGED <<adopted, abandoned>>

Abandon ==
    /\ adopted # generation
    /\ \E keys \in SUBSET held : held' = held \ keys /\ abandoned' = abandoned \cup keys
    /\ UNCHANGED <<generation, adopted>>

Adopt ==
    /\ adopted # generation
    /\ adopted' = generation /\ held' = {} /\ UNCHANGED <<generation, abandoned>>

Next == Inject \/ Lose \/ Abandon \/ Adopt

Spec == Init /\ [][Next]_<<generation, adopted, held, abandoned>>
=============================================================================
