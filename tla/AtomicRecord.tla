---------------------------- MODULE AtomicRecord ----------------------------
(***************************************************************************)
(* What the updater takes its protected store for: a record that a save or *)
(* a removal replaces in one step, that a load takes in one step, that is  *)
(* durable once the operation has returned, and a lock with one holder.    *)
(* ProtectedStore, made of system calls, implements it.                    *)
(***************************************************************************)
EXTENDS Naturals

CONSTANTS
    MaxOps,    \* versions of the record; 0 stands for no record
    Lockers    \* processes that take the lock

VARIABLES
    value,     \* the record
    durable,   \* what a stop of the computer may leave: values since the last sync
    op,        \* the save or removal under way: its step and the value it leaves
    acked,     \* the version of the last operation that returned
    loaded,    \* the record a load has taken, 0 while there is none
    holder     \* who holds the lock

vars == <<value, durable, op, acked, loaded, holder>>

Idle == [step |-> "idle", target |-> 0]

Init ==
    /\ value = 0 /\ durable = {0} /\ op = Idle /\ acked = 0 /\ loaded = 0
    /\ holder = {}

\* save and remove: the new value is there for every load before it is durable.
Begin(v) ==
    /\ op = Idle /\ op' = [step |-> "begun", target |-> v]
    /\ UNCHANGED <<value, durable, acked, loaded, holder>>
Apply ==
    /\ op.step = "begun" /\ op' = [op EXCEPT !.step = "applied"]
    /\ value' = op.target /\ durable' = durable \cup {op.target}
    /\ UNCHANGED <<acked, loaded, holder>>
\* Only an operation whose effect no stop can undo returns.
Return ==
    /\ op.step = "applied" /\ op' = Idle /\ durable' = {value} /\ acked' > acked
    /\ UNCHANGED <<value, loaded, holder>>
\* An operation that fails may have had its effect, and may lose it in a stop.
Fail == op' = Idle /\ UNCHANGED <<value, durable, acked, loaded, holder>>
\* The directory is also synced before a save has its effect.
Settle == durable' = {value} /\ UNCHANGED <<value, op, acked, loaded, holder>>

Load == loaded = 0 /\ loaded' = value /\ UNCHANGED <<value, durable, op, acked, holder>>
Forget == loaded' = 0 /\ UNCHANGED <<value, durable, op, acked, holder>>

Acquire(p) == holder = {} /\ holder' = {p} /\ UNCHANGED <<value, durable, op, acked, loaded>>
Release == holder' = {} /\ UNCHANGED <<value, durable, op, acked, loaded>>

Stop ==
    /\ value' \in durable /\ durable' = {value'}
    /\ op' = Idle /\ loaded' = 0 /\ holder' = {} /\ UNCHANGED acked

Next ==
    \/ \E v \in 0..MaxOps : Begin(v)
    \/ Apply \/ Return \/ Fail \/ Settle \/ Load \/ Forget \/ Stop
    \/ Release \/ \E p \in Lockers : Acquire(p)

Spec == Init /\ [][Next]_vars
=============================================================================
