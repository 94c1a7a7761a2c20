------------------------ MODULE DesktopHelperProofs -------------------------
(***************************************************************************)
(* Proofs about the channel to the desktop helper: whatever the OS holds   *)
(* down is in the ledger, a ready generation inherits nothing pressed, a   *)
(* capture that is alive has its guard, and the channel is the backend the *)
(* input broker is written against.                                        *)
(*                                                                         *)
(* All of it rests on the recovery being the first request of a later      *)
(* generation, with the keys the ledger had when the connection was made.  *)
(* A worker that meets the deadline of that recovery drops it and keeps    *)
(* the connection.  What it named is "forgotten" then, the next recovery   *)
(* names nothing, and the statements are about the presses that are Owed.  *)
(***************************************************************************)
EXTENDS DesktopHelper, FiniteSetTheorems, TLAPS

Ops == {"down", "up", "releaseAll", "recover", "query", "group", "end"}
Command == [op : Ops, key : Keys \cup {""}, epoch : Nat]
CallRec == [who : Nat, cmd : Command, gen : Nat, min : Nat, keys : SUBSET Keys,
            late : BOOLEAN, waited : BOOLEAN]
Request == [id : Nat, cmd : Command, keys : SUBSET Keys, gen : Nat]
Response == [id : Nat, ok : BOOLEAN]
Group == [epoch : Nat, id : Nat]

QueueTypes ==
    /\ calls \in Seq(CallRec) /\ wire \in Seq(Request) /\ replies \in Seq(Response)
    /\ DOMAIN pending \subseteq Nat /\ pending \in [DOMAIN pending -> CallRec]
    /\ groups \subseteq Group
StateTypes ==
    /\ {generation, next, last, recovered} \subseteq Nat
    /\ {ready, connected} \subseteq BOOLEAN
    /\ helper \in {"none", "serving", "ending"}
    /\ DOMAIN ledger \subseteq Keys /\ ledger \in [DOMAIN ledger -> Nat]
    /\ down \subseteq [what : Keys, gen : Nat]

\* The broker's calls are its own, a press names a key, and a caller gives up
\* only what is late.
WellFormed(c) ==
    /\ c.cmd.op \in {"down", "up", "releaseAll", "recover", "query"} => c.who = 0
    /\ c.cmd.op = "down" => c.cmd.key \in Keys
    /\ ~c.waited => c.late
CallsFormed ==
    /\ \A i \in 1..Len(calls) : WellFormed(calls[i])
    /\ \A i \in DOMAIN pending : WellFormed(pending[i])

\* A connection belongs to the current generation and has a helper.
Connection ==
    /\ ready => connected
    /\ connected => helper = "serving"
    /\ ~connected => replies = <<>> /\ DOMAIN pending = {}
    /\ helper # "serving" => wire = <<>>
    /\ helper = "none" => groups = {}
Generations ==
    /\ recovered <= generation
    /\ \A i \in 1..Len(calls) : calls[i].gen <= generation
    /\ \A i \in 1..Len(wire) : wire[i].gen <= generation /\ (connected => wire[i].gen = generation)
    /\ \A i \in DOMAIN pending : pending[i].gen = generation
    /\ \A p \in down : p.gen <= generation

\* Only the broker that has adopted the generation presses in it.
PressesAreOwned ==
    recovered # generation =>
        /\ \A i \in 1..Len(calls) : calls[i].cmd.op = "down" => calls[i].gen # generation
        /\ \A i \in 1..Len(wire) : wire[i].cmd.op = "down" => wire[i].gen # generation
        /\ \A p \in down : p.gen # generation

\* Requests are on the wire in the order of their ids, each is answered once,
\* and what is answered is pending.
InOrder ==
    connected =>
        /\ last + Len(wire) = next /\ DOMAIN pending \subseteq 1..next
        /\ \A i \in 1..Len(wire) :
            /\ wire[i].id = last + i
            /\ last + i \in DOMAIN pending /\ pending[last + i].cmd = wire[i].cmd
AnsweredOnce ==
    connected =>
        /\ \A i \in 1..Len(replies) : replies[i].id \in DOMAIN pending /\ replies[i].id <= last
        /\ \A i, j \in 1..Len(replies) : i # j => replies[i].id # replies[j].id
        /\ \A g \in groups :
            /\ g.id \in DOMAIN pending /\ g.id <= last
            /\ pending[g.id].cmd.op = "group"
            /\ \A i \in 1..Len(replies) : replies[i].id # g.id
        /\ \A g, h \in groups : g.id = h.id => g = h

\* The broker waits for its newest call, if for any.
WaitsForNewest ==
    /\ \A i, j \in 1..Len(calls) : i < j /\ calls[i].who = 0 /\ calls[j].who = 0 => ~calls[i].waited
    /\ \A i \in DOMAIN pending : pending[i].who = 0 /\ pending[i].waited =>
        /\ \A j \in 1..Len(calls) : calls[j].who # 0
        /\ \A j \in DOMAIN pending : i < j => pending[j].who # 0
WaitsWhenBusy ==
    broker \in {"idle", "recovered"} =>
        /\ \A i \in 1..Len(calls) : calls[i].who = 0 => ~calls[i].waited
        /\ \A i \in DOMAIN pending : pending[i].who = 0 => ~pending[i].waited

\* A later generation begins with the recovery of everything in the ledger.
RecoveryQueued ==
    connected /\ generation > 0 /\ next = 0 =>
        \/ /\ Len(calls) > 0 /\ calls[1].cmd.op = "recover" /\ calls[1].gen = generation
           /\ DOMAIN ledger \subseteq calls[1].keys
        \/ Owed = {}
NotYetReady ==
    /\ generation > 0 /\ ~connected => recovered # generation
    /\ generation > 0 /\ connected /\ next = 0 => recovered # generation /\ ~ready
KeysNamedFirst ==
    \A i \in 1..Len(calls) :
        calls[i].keys # {} /\ calls[i].gen = generation => i = 1 /\ connected /\ next = 0
RecoveryOnly ==
    connected /\ generation > 0 /\ ~ready =>
        \A i \in DOMAIN pending : pending[i].cmd.op = "recover"
RecoverySent ==
    connected /\ last = 0 /\ (generation = 0 \/ next > 0) =>
        \/ generation = 0 /\ down = {}
        \/ /\ generation > 0 /\ Len(wire) > 0 /\ wire[1].cmd.op = "recover"
           /\ \A p \in Owed : p.what \in wire[1].keys
Untouched ==
    generation = 0 /\ ~connected => down = {} /\ helper = "none"
RecoveryDone ==
    \A i \in 1..Len(replies) :
        replies[i].ok /\ pending[replies[i].id].cmd.op = "recover" /\ pending[replies[i].id].waited =>
            Owed = {}

\* The ledger lists every press that is down or on its way, with an id no
\* release that was answered before it can acknowledge.
LedgerCoversWire ==
    \A i \in 1..Len(wire) : wire[i].cmd.op = "down" =>
        /\ wire[i].cmd.key \in DOMAIN ledger
        /\ connected => ledger[wire[i].cmd.key] >= wire[i].id
Releases(cmd, k) == cmd.op = "releaseAll" \/ (cmd.op = "up" /\ cmd.key = k)
ReleasedBefore ==
    \A i \in 1..Len(replies) : \A p \in Owed :
        replies[i].ok /\ Releases(pending[replies[i].id].cmd, p.what)
            => ledger[p.what] > replies[i].id

HelperInvariant ==
    /\ QueueTypes /\ StateTypes /\ CallsFormed /\ Connection /\ Generations /\ PressesAreOwned
    /\ InOrder /\ AnsweredOnce /\ WaitsForNewest /\ WaitsWhenBusy
    /\ RecoveryQueued /\ NotYetReady /\ KeysNamedFirst /\ RecoveryOnly /\ RecoverySent /\ Untouched /\ RecoveryDone
    /\ LedgerCoversDown /\ LedgerCoversWire /\ ReleasedBefore /\ ReadyIsClean

-----------------------------------------------------------------------------
(* Sequences                                                                *)

\* What taking the first element of a queue leaves.
LEMMA TailFacts ==
    ASSUME NEW S, NEW s \in Seq(S), s # <<>>
    PROVE  /\ Tail(s) \in Seq(S) /\ Len(Tail(s)) = Len(s) - 1
           /\ Len(s) \in Nat /\ Len(s) >= 1 /\ Head(s) = s[1] /\ s[1] \in S
           /\ \A i \in 1..Len(Tail(s)) : i + 1 \in 1..Len(s) /\ Tail(s)[i] = s[i + 1]
  OBVIOUS

\* What adding an element to a queue changes.
LEMMA AppendFacts ==
    ASSUME NEW S, NEW s \in Seq(S), NEW x \in S
    PROVE  /\ Append(s, x) \in Seq(S) /\ Len(Append(s, x)) = Len(s) + 1 /\ Len(s) \in Nat
           /\ Append(s, x)[Len(s) + 1] = x
           /\ \A i \in 1..Len(s) : Append(s, x)[i] = s[i]
           /\ \A i \in 1..Len(Append(s, x)) : i \in 1..Len(s) \/ i = Len(s) + 1
  OBVIOUS

\* What replacing an element of a queue changes.
LEMMA ExceptFacts ==
    ASSUME NEW S, NEW s \in Seq(S), NEW n \in 1..Len(s), NEW x \in S
    PROVE  /\ [s EXCEPT ![n] = x] \in Seq(S) /\ Len([s EXCEPT ![n] = x]) = Len(s)
           /\ [s EXCEPT ![n] = x][n] = x
           /\ \A i \in 1..Len(s) : i # n => [s EXCEPT ![n] = x][i] = s[i]
  OBVIOUS

\* The elements of a queue.
LEMMA ElementFacts ==
    ASSUME NEW S, NEW s \in Seq(S)
    PROVE  Len(s) \in Nat /\ \A i \in 1..Len(s) : s[i] \in S
  OBVIOUS

\* The fields of calls and requests.
LEMMA RecordFacts ==
    /\ \A c \in CallRec : c.gen \in Nat /\ c.who \in Nat /\ c.keys \in SUBSET Keys /\ c.cmd \in Command
    /\ \A c \in CallRec : c.late \in BOOLEAN /\ c.waited \in BOOLEAN
    /\ \A r \in Request : r.gen \in Nat /\ r.id \in Nat /\ r.keys \in SUBSET Keys /\ r.cmd \in Command
    /\ \A r \in Response : r.id \in Nat /\ r.ok \in BOOLEAN
  BY DEF CallRec, Request, Response

-----------------------------------------------------------------------------
(* The steps, by what they do to the channel                                *)

Free == {"idle", "recovered"}
core == <<generation, ready, connected, next, ledger, wire, replies, helper, last, groups,
          down, recovered, forgotten>>

\* A call is queued: the broker's when it waits for none.
Queued(c) ==
    /\ c \in CallRec /\ WellFormed(c) /\ c.gen = generation /\ ~c.late /\ c.keys = {}
    /\ c.cmd.op = "down" => recovered = generation
    /\ \/ c.who = 0 /\ broker = "idle" /\ broker' \notin Free
       \/ c.who # 0 /\ broker' = broker
    /\ calls' = Append(calls, c)
    /\ UNCHANGED <<core, pending>>

\* A queued call is kept as it was.
LEMMA QueuedKeeps ==
    ASSUME HelperInvariant, NEW c, Queued(c)
    PROVE  HelperInvariant'
  <1> USE DEF HelperInvariant, Owed
  <1>1. /\ calls' \in Seq(CallRec) /\ Len(calls') = Len(calls) + 1 /\ Len(calls) \in Nat
        /\ calls'[Len(calls) + 1] = c
        /\ \A i \in 1..Len(calls) : calls'[i] = calls[i]
        /\ \A i \in 1..Len(calls') : i \in 1..Len(calls) \/ i = Len(calls) + 1
    BY AppendFacts DEF Queued, QueueTypes
  <1>2. QueueTypes' /\ StateTypes' /\ Connection' /\ InOrder' /\ AnsweredOnce'
    BY <1>1 DEF Queued, core, QueueTypes, StateTypes, Connection, InOrder, AnsweredOnce
  <1>3. RecoveryOnly' /\ RecoverySent' /\ Untouched' /\ RecoveryDone' /\ ReadyIsClean'
    BY DEF Queued, core, RecoveryOnly, RecoverySent, Untouched, RecoveryDone, ReadyIsClean
  <1>4. LedgerCoversDown' /\ LedgerCoversWire' /\ ReleasedBefore'
    BY DEF Queued, core, LedgerCoversDown, LedgerCoversWire, ReleasedBefore
  <1>5. CallsFormed'
    BY <1>1 DEF Queued, CallsFormed
  <1>6. Generations' /\ PressesAreOwned'
    BY <1>1 DEF Queued, core, Generations, PressesAreOwned, StateTypes
  <1>7. WaitsForNewest'
    BY <1>1 DEF Queued, WaitsForNewest, WaitsWhenBusy, Free
  <1>8. WaitsWhenBusy'
    BY <1>1 DEF Queued, WaitsWhenBusy, Free
  <1>9. RecoveryQueued' /\ NotYetReady' /\ KeysNamedFirst'
    BY <1>1 DEF Queued, core, RecoveryQueued, NotYetReady, KeysNamedFirst
  <1> QED
    BY <1>2, <1>3, <1>4, <1>5, <1>6, <1>7, <1>8, <1>9

\* A caller is told, if the call had one that waits.
Freed(c) == broker' \in Free => broker \in Free \/ (c.waited /\ c.who = 0)

\* Time passes on a queued call, or its caller gives it up.
SameCall(c, d) ==
    /\ d \in CallRec /\ WellFormed(d) /\ (d.waited => c.waited)
    /\ d.who = c.who /\ d.cmd = c.cmd /\ d.gen = c.gen /\ d.keys = c.keys
CallMarked(n) ==
    /\ n \in 1..Len(calls) /\ calls' \in Seq(CallRec) /\ Len(calls') = Len(calls)
    /\ \A i \in 1..Len(calls) : i # n => calls'[i] = calls[i]
    /\ SameCall(calls[n], calls'[n])
    /\ Freed(calls[n])
    /\ broker' = broker \/ ~calls'[n].waited
    /\ UNCHANGED <<core, pending>>

\* Marking a queued call keeps the invariant.
LEMMA CallMarkedKeeps ==
    ASSUME HelperInvariant, NEW n, CallMarked(n)
    PROVE  HelperInvariant'
  <1> USE DEF HelperInvariant, Owed
  <1>1. /\ calls \in Seq(CallRec) /\ Len(calls) \in Nat /\ Len(calls') = Len(calls)
        /\ \A i \in 1..Len(calls) : SameCall(calls[i], calls'[i])
    BY DEF CallMarked, SameCall, QueueTypes, CallsFormed
  <1>2. QueueTypes' /\ StateTypes' /\ Connection' /\ InOrder' /\ AnsweredOnce'
    <2>1. QueueTypes' /\ StateTypes' /\ Connection'
      BY DEF CallMarked, core, QueueTypes, StateTypes, Connection
    <2>2. UNCHANGED <<core, pending>>
      BY DEF CallMarked
    <2>3. InOrder' /\ AnsweredOnce'
      BY <2>2 DEF core, InOrder, AnsweredOnce
    <2> QED
      BY <2>1, <2>3
  <1>3. RecoveryOnly' /\ RecoverySent' /\ Untouched' /\ RecoveryDone' /\ ReadyIsClean'
    BY DEF CallMarked, core, RecoveryOnly, RecoverySent, Untouched, RecoveryDone, ReadyIsClean
  <1>4. LedgerCoversDown' /\ LedgerCoversWire' /\ ReleasedBefore'
    BY DEF CallMarked, core, LedgerCoversDown, LedgerCoversWire, ReleasedBefore
  <1>5. CallsFormed'
    BY <1>1 DEF CallMarked, CallsFormed, SameCall
  <1>6. Generations' /\ PressesAreOwned'
    <2>1. UNCHANGED <<core, pending>> /\ Len(calls') = Len(calls)
      BY DEF CallMarked
    <2>2. \A i \in 1..Len(calls) : calls'[i].gen = calls[i].gen /\ calls'[i].cmd = calls[i].cmd
      BY <1>1 DEF SameCall
    <2>3. Generations'
      BY <2>1, <2>2 DEF core, Generations
    <2>4. PressesAreOwned'
      BY <2>1, <2>2 DEF core, PressesAreOwned
    <2> QED
      BY <2>3, <2>4
  <1>7. WaitsForNewest'
    BY <1>1 DEF CallMarked, WaitsForNewest, SameCall
  <1>8. WaitsWhenBusy'
    BY <1>1 DEF CallMarked, WaitsWhenBusy, WaitsForNewest, Free, Freed, SameCall
  <1>9. RecoveryQueued' /\ NotYetReady' /\ KeysNamedFirst'
    BY <1>1 DEF CallMarked, core, RecoveryQueued, NotYetReady, KeysNamedFirst, SameCall
  <1> QED
    BY <1>2, <1>3, <1>4, <1>5, <1>6, <1>7, <1>8, <1>9

\* Time passes on a request, or its caller gives it up.
RequestMarked(n) ==
    /\ n \in DOMAIN pending /\ DOMAIN pending' = DOMAIN pending
    /\ pending' \in [DOMAIN pending -> CallRec]
    /\ \A i \in DOMAIN pending : i # n => pending'[i] = pending[i]
    /\ SameCall(pending[n], pending'[n])
    /\ Freed(pending[n])
    /\ broker' = broker \/ ~pending'[n].waited
    /\ UNCHANGED <<core, calls>>

\* Marking a request keeps the invariant.
LEMMA RequestMarkedKeeps ==
    ASSUME HelperInvariant, NEW n, RequestMarked(n)
    PROVE  HelperInvariant'
  <1> USE DEF HelperInvariant, Owed
  <1>1. \A i \in DOMAIN pending : SameCall(pending[i], pending'[i])
    BY DEF RequestMarked, SameCall, QueueTypes, CallsFormed
  <1>2. /\ QueueTypes' /\ StateTypes' /\ Connection'
        /\ InOrder' /\ AnsweredOnce'
    <2>1. QueueTypes' /\ StateTypes' /\ Connection'
      BY DEF RequestMarked, core, QueueTypes, StateTypes, Connection
    <2>2. InOrder'
      BY <1>1 DEF RequestMarked, core, InOrder, SameCall
    <2>3. AnsweredOnce'
      BY <1>1 DEF RequestMarked, core, AnsweredOnce, SameCall
    <2> QED
      BY <2>1, <2>2, <2>3
  <1>3. RecoveryOnly' /\ RecoverySent' /\ Untouched' /\ ReadyIsClean'
    BY <1>1 DEF RequestMarked, core, RecoveryOnly, RecoverySent, Untouched, ReadyIsClean, SameCall
  <1>4. LedgerCoversDown' /\ LedgerCoversWire'
    BY DEF RequestMarked, core, LedgerCoversDown, LedgerCoversWire
  <1>5. \A i \in 1..Len(replies) : replies[i].id \in DOMAIN pending
    BY DEF AnsweredOnce, Connection, QueueTypes
  <1>6. RecoveryDone' /\ ReleasedBefore'
    BY <1>1, <1>5 DEF RequestMarked, core, RecoveryDone, ReleasedBefore, SameCall
  <1>7. CallsFormed'
    BY <1>1 DEF RequestMarked, CallsFormed, SameCall
  <1>8. Generations' /\ PressesAreOwned'
    BY <1>1 DEF RequestMarked, core, Generations, PressesAreOwned, StateTypes, SameCall
  <1>9. WaitsForNewest'
    <2>1. UNCHANGED calls /\ DOMAIN pending' = DOMAIN pending
      BY DEF RequestMarked
    <2>2. \A i \in DOMAIN pending : /\ pending'[i].who = pending[i].who
                                    /\ pending'[i].waited => pending[i].waited
      BY <1>1 DEF SameCall
    <2> QED
      BY <2>1, <2>2 DEF WaitsForNewest
  <1>10. WaitsWhenBusy'
    <2> SUFFICES ASSUME broker' \in Free
                 PROVE  /\ \A i \in 1..Len(calls) : calls[i].who = 0 => ~calls[i].waited
                        /\ \A i \in DOMAIN pending : pending'[i].who = 0 => ~pending'[i].waited
      BY DEF RequestMarked, WaitsWhenBusy, Free
    <2>1. \A i \in DOMAIN pending : /\ pending'[i].who = pending[i].who
                                    /\ pending'[i].waited => pending[i].waited
      BY <1>1 DEF SameCall
    <2>2. CASE broker \in Free
      BY <2>1, <2>2 DEF WaitsWhenBusy, Free
    <2>3. CASE broker \notin Free
      <3>1. /\ n \in DOMAIN pending /\ pending[n].waited /\ pending[n].who = 0
            /\ ~pending'[n].waited
        BY <2>3 DEF RequestMarked, Freed
      <3>2. /\ \A j \in 1..Len(calls) : calls[j].who # 0
            /\ \A j \in DOMAIN pending : n < j => pending[j].who # 0
            /\ \A j \in DOMAIN pending : j < n /\ pending[j].who = 0 => ~pending[j].waited
        BY <3>1 DEF WaitsForNewest
      <3>3. \A j \in DOMAIN pending : j < n \/ j = n \/ n < j
        BY <3>1 DEF QueueTypes
      <3> QED
        BY <2>1, <3>1, <3>2, <3>3
    <2> QED
      BY <2>2, <2>3
  <1>11. RecoveryQueued' /\ NotYetReady' /\ KeysNamedFirst'
    BY <1>1 DEF RequestMarked, core, RecoveryQueued, NotYetReady, KeysNamedFirst, SameCall
  <1> QED
    BY <1>2, <1>3, <1>4, <1>6, <1>7, <1>8, <1>9, <1>10, <1>11

\* The worker takes a call and turns it away; when it was the recovery that is
\* to open a later generation, nothing is owed any more.
TurnedAway ==
    /\ calls # <<>> /\ calls' = Tail(calls)
    /\ forgotten \subseteq forgotten'
    /\ connected /\ generation > 0 /\ next = 0 => Owed' = {}
    /\ Freed(Head(calls))
    /\ UNCHANGED <<generation, ready, connected, next, ledger, wire, replies, helper, last,
                   groups, down, recovered, pending>>

\* Turning a call away keeps the invariant.
LEMMA TurnedAwayKeeps ==
    ASSUME HelperInvariant, TurnedAway
    PROVE  HelperInvariant'
  <1> USE DEF HelperInvariant, Owed
  <1>1. /\ calls' \in Seq(CallRec) /\ Len(calls') = Len(calls) - 1
        /\ Len(calls) \in Nat /\ Len(calls) >= 1 /\ Head(calls) = calls[1]
        /\ \A i \in 1..Len(calls') : i + 1 \in 1..Len(calls) /\ calls'[i] = calls[i + 1]
    BY TailFacts DEF TurnedAway, QueueTypes
  <1>2. QueueTypes' /\ StateTypes' /\ Connection' /\ InOrder' /\ AnsweredOnce'
    BY <1>1 DEF TurnedAway, core, QueueTypes, StateTypes, Connection, InOrder, AnsweredOnce
  <1>3. RecoveryOnly' /\ RecoverySent' /\ Untouched' /\ RecoveryDone' /\ ReadyIsClean'
    BY DEF TurnedAway, core, RecoveryOnly, RecoverySent, Untouched, RecoveryDone, ReadyIsClean
  <1>4. LedgerCoversDown' /\ LedgerCoversWire' /\ ReleasedBefore'
    BY DEF TurnedAway, core, LedgerCoversDown, LedgerCoversWire, ReleasedBefore
  <1>5. CallsFormed'
    BY <1>1 DEF TurnedAway, CallsFormed
  <1>6. Generations' /\ PressesAreOwned'
    BY <1>1 DEF TurnedAway, core, Generations, PressesAreOwned, StateTypes
  <1>7. WaitsForNewest'
    BY <1>1 DEF TurnedAway, WaitsForNewest
  <1>8. WaitsWhenBusy'
    BY <1>1 DEF TurnedAway, WaitsWhenBusy, WaitsForNewest, Free, Freed
  <1>9. RecoveryQueued' /\ NotYetReady' /\ KeysNamedFirst'
    BY <1>1 DEF TurnedAway, core, RecoveryQueued, NotYetReady, KeysNamedFirst, StateTypes
  <1> QED
    BY <1>2, <1>3, <1>4, <1>5, <1>6, <1>7, <1>8, <1>9

\* Steps of callers and media tasks that leave the channel alone.
Quiet ==
    /\ broker' \in Free => broker \in Free
    /\ UNCHANGED <<core, calls, pending>>

\* The broker adopts a generation that is ready.
Adopted ==
    /\ ready /\ broker \in Free /\ recovered' = generation
    /\ UNCHANGED <<generation, ready, connected, next, ledger, wire, replies, helper, last,
                   groups, down, forgotten, calls, pending>>

\* Neither disturbs the channel.
LEMMA QuietKeeps ==
    ASSUME HelperInvariant, Quiet \/ Adopted
    PROVE  HelperInvariant'
  <1> USE DEF HelperInvariant, Owed
  <1>0. /\ UNCHANGED <<generation, ready, connected, next, ledger, wire, replies, helper, last,
                       groups, down, forgotten, calls, pending>>
        /\ recovered' = recovered \/ recovered' = generation
        /\ broker' \in Free => broker \in Free
    BY DEF Quiet, Adopted, core
  <1>2. QueueTypes' /\ StateTypes' /\ Connection' /\ InOrder' /\ AnsweredOnce'
    BY <1>0 DEF QueueTypes, StateTypes, Connection, InOrder, AnsweredOnce
  <1>3. RecoveryOnly' /\ RecoverySent' /\ Untouched' /\ RecoveryDone' /\ ReadyIsClean'
    BY <1>0 DEF RecoveryOnly, RecoverySent, Untouched, RecoveryDone, ReadyIsClean
  <1>4. LedgerCoversDown' /\ LedgerCoversWire' /\ ReleasedBefore'
    BY <1>0 DEF LedgerCoversDown, LedgerCoversWire, ReleasedBefore
  <1>5. CallsFormed' /\ WaitsForNewest' /\ WaitsWhenBusy'
    BY <1>0 DEF CallsFormed, WaitsForNewest, WaitsWhenBusy, Free
  <1>6. Generations' /\ PressesAreOwned'
    BY <1>0 DEF Generations, PressesAreOwned, StateTypes
  <1>7. RecoveryQueued' /\ NotYetReady' /\ KeysNamedFirst'
    <2>1. RecoveryQueued' /\ KeysNamedFirst'
      BY <1>0 DEF RecoveryQueued, KeysNamedFirst
    <2>2. NotYetReady'
      BY <1>0 DEF Quiet, Adopted, core, NotYetReady, Connection
    <2> QED
      BY <2>1, <2>2
  <1> QED
    BY <1>2, <1>3, <1>4, <1>5, <1>6, <1>7

\* The stream is given up, by the worker or with the helper.
Dropped ==
    /\ connected /\ connected' = FALSE /\ ready' = FALSE /\ generation' = generation + 1
    /\ pending' = [i \in {} |-> Query] /\ replies' = <<>>
    /\ \/ UNCHANGED <<wire, helper, groups>>
       \/ wire' = <<>> /\ helper' = "ending" /\ UNCHANGED groups
       \/ wire' = <<>> /\ helper' = "none" /\ groups' = {}
    /\ broker' \in Free =>
        broker \in Free \/ \E i \in DOMAIN pending : pending[i].waited /\ pending[i].who = 0
    /\ UNCHANGED <<calls, next, ledger, last, down, forgotten, recovered>>

\* Losing the stream fences everything that was made for it.
LEMMA DroppedKeeps ==
    ASSUME HelperInvariant, Dropped
    PROVE  HelperInvariant'
  <1> USE DEF HelperInvariant, Owed
  <1>1. DOMAIN pending' = {} /\ pending' \in [{} -> CallRec] /\ Len(replies') = 0
    BY DEF Dropped
  <1>2. QueueTypes' /\ StateTypes' /\ Connection'
    <2>1. QueueTypes'
      <3>1. /\ calls' = calls /\ wire' \in {wire, <<>>} /\ groups' \in {groups, {}}
            /\ replies' = <<>>
        BY DEF Dropped
      <3>2. <<>> \in Seq(Response) /\ <<>> \in Seq(Request)
        OBVIOUS
      <3> QED
        BY <1>1, <3>1, <3>2 DEF QueueTypes
    <2>2. StateTypes'
      <3>1. generation \in Nat /\ generation + 1 \in Nat
        BY DEF StateTypes
      <3>2. {generation', next', last', recovered'} \subseteq Nat
        BY <3>1 DEF Dropped, StateTypes
      <3>3. {ready', connected'} \subseteq BOOLEAN /\ helper' \in {"none", "serving", "ending"}
        BY DEF Dropped, StateTypes
      <3> QED
        BY <3>2, <3>3 DEF Dropped, StateTypes
    <2>3. Connection'
      BY <1>1 DEF Dropped, Connection
    <2> QED
      BY <2>1, <2>2, <2>3
  <1>3. InOrder' /\ AnsweredOnce' /\ RecoveryOnly' /\ RecoverySent' /\ ReadyIsClean'
    BY <1>1 DEF Dropped, InOrder, AnsweredOnce, RecoveryOnly, RecoverySent, ReadyIsClean
  <1>4. RecoveryDone' /\ ReleasedBefore'
    BY <1>1 DEF RecoveryDone, ReleasedBefore
  <1>5. LedgerCoversDown' /\ LedgerCoversWire'
    BY DEF Dropped, LedgerCoversDown, LedgerCoversWire
  <1>6. CallsFormed' /\ WaitsForNewest'
    BY <1>1 DEF Dropped, CallsFormed, WaitsForNewest
  <1>7. WaitsWhenBusy'
    BY <1>1 DEF Dropped, WaitsWhenBusy, WaitsForNewest, Free
  <1>8. generation \in Nat /\ recovered \in Nat /\ calls \in Seq(CallRec) /\ wire \in Seq(Request)
    BY DEF StateTypes, QueueTypes
  <1>9. \A i \in 1..Len(calls) : calls[i].gen \in Nat /\ calls[i].gen <= generation
    BY <1>8, ElementFacts, RecordFacts DEF Generations
  <1>10. \A i \in 1..Len(wire') : wire'[i] = wire[i] /\ wire[i].gen \in Nat /\ wire[i].gen <= generation
    <2>1. wire' = wire \/ Len(wire') = 0
      BY DEF Dropped
    <2> QED
      BY <1>8, <2>1, ElementFacts, RecordFacts DEF Generations
  <1>11. \A p \in down : p.gen \in Nat /\ p.gen <= generation
    BY DEF Generations, StateTypes
  <1>12. Generations' /\ PressesAreOwned'
    BY <1>1, <1>8, <1>9, <1>10, <1>11 DEF Dropped, Generations, PressesAreOwned
  <1>13. RecoveryQueued' /\ NotYetReady' /\ KeysNamedFirst' /\ Untouched'
    <2>1. ~connected' /\ generation' = generation + 1 /\ recovered' = recovered /\ calls' = calls
      BY DEF Dropped
    <2>2. recovered <= generation
      BY DEF Generations
    <2>3. RecoveryQueued' /\ NotYetReady' /\ Untouched'
      BY <1>8, <2>1, <2>2 DEF RecoveryQueued, NotYetReady, Untouched
    <2>4. KeysNamedFirst'
      BY <1>8, <1>9, <2>1 DEF KeysNamedFirst
    <2> QED
      BY <2>3, <2>4
  <1> QED
    BY <1>2, <1>3, <1>4, <1>5, <1>6, <1>7, <1>12, <1>13

\* A helper without a stream stops, dies or cleans up.
Ended ==
    /\ ~connected /\ helper # "none" /\ wire' = <<>> /\ helper' \in {"ending", "none"}
    /\ groups' \in SUBSET groups /\ (helper' = "none" => groups' = {})
    /\ down' \in SUBSET down /\ broker' = broker
    /\ UNCHANGED <<generation, ready, connected, next, ledger, replies, last, recovered,
                   forgotten, calls, pending>>

\* The end of a helper changes nothing that a later one relies on.
LEMMA EndedKeeps ==
    ASSUME HelperInvariant, Ended
    PROVE  HelperInvariant'
  <1> USE DEF HelperInvariant, Owed
  <1>1. replies = <<>> /\ Len(wire') = 0 /\ Len(replies') = 0
    BY DEF Ended, Connection
  <1>2. QueueTypes' /\ StateTypes' /\ Connection'
    BY <1>1 DEF Ended, QueueTypes, StateTypes, Connection
  <1>3. InOrder' /\ AnsweredOnce' /\ RecoveryOnly' /\ RecoverySent' /\ ReadyIsClean'
    BY DEF Ended, InOrder, AnsweredOnce, RecoveryOnly, RecoverySent, ReadyIsClean
  <1>4. RecoveryDone' /\ ReleasedBefore' /\ LedgerCoversDown' /\ LedgerCoversWire'
    BY <1>1 DEF Ended, RecoveryDone, ReleasedBefore, LedgerCoversDown, LedgerCoversWire
  <1>5. CallsFormed' /\ WaitsForNewest' /\ WaitsWhenBusy'
    BY DEF Ended, CallsFormed, WaitsForNewest, WaitsWhenBusy
  <1>6. Generations' /\ PressesAreOwned'
    BY <1>1 DEF Ended, Generations, PressesAreOwned
  <1>7. RecoveryQueued' /\ NotYetReady' /\ KeysNamedFirst' /\ Untouched'
    BY DEF Ended, RecoveryQueued, NotYetReady, KeysNamedFirst, Untouched
  <1> QED
    BY <1>2, <1>3, <1>4, <1>5, <1>6, <1>7

\* A connection of a later generation is made for its recovery, which then
\* names everything in the ledger.
LEMMA ConnectKeeps ==
    ASSUME HelperInvariant, Connect
    PROVE  HelperInvariant'
  <1> USE DEF HelperInvariant, Owed
  <1>1. /\ wire = <<>> /\ replies = <<>> /\ DOMAIN pending = {} /\ groups = {} /\ ~ready
        /\ calls # <<>> /\ calls \in Seq(CallRec) /\ Len(calls) \in Nat /\ Len(calls) >= 1
        /\ Head(calls) = calls[1] /\ calls[1] \in CallRec
    BY TailFacts DEF Connect, Connection, QueueTypes
  <1> DEFINE K == IF Head(calls).cmd.op = "recover" THEN RecoveryKeys ELSE {}
  <1>2. K \in SUBSET Keys
    BY DEF StateTypes, RecoveryKeys
  <1>3. calls' = [calls EXCEPT ![1] = [calls[1] EXCEPT !.keys = K]]
    BY DEF Connect
  <1>4. [calls[1] EXCEPT !.keys = K] \in CallRec
    BY <1>1, <1>2 DEF CallRec
  <1>5. /\ calls' \in Seq(CallRec) /\ Len(calls') = Len(calls)
        /\ calls'[1] = [calls[1] EXCEPT !.keys = K]
        /\ \A i \in 1..Len(calls) : i # 1 => calls'[i] = calls[i]
    <2> DEFINE d == [calls[1] EXCEPT !.keys = K]
    <2>1. d \in CallRec /\ calls' = [calls EXCEPT ![1] = d] /\ 1 \in 1..Len(calls)
      BY <1>1, <1>3, <1>4
    <2> HIDE DEF d
    <2>2. /\ calls' \in Seq(CallRec) /\ Len(calls') = Len(calls) /\ calls'[1] = d
          /\ \A i \in 1..Len(calls) : i # 1 => calls'[i] = calls[i]
      BY <1>1, <2>1, ExceptFacts
    <2> QED
      BY <2>2 DEF d
  <1>6. /\ calls'[1].who = calls[1].who /\ calls'[1].cmd = calls[1].cmd
        /\ calls'[1].gen = calls[1].gen /\ calls'[1].late = calls[1].late
        /\ calls'[1].waited = calls[1].waited /\ calls'[1].keys = K
    BY <1>1, <1>5 DEF CallRec
  <1> HIDE DEF K
  <1>7. \A i \in 1..Len(calls) :
        /\ calls'[i].who = calls[i].who /\ calls'[i].cmd = calls[i].cmd
        /\ calls'[i].gen = calls[i].gen /\ calls'[i].late = calls[i].late
        /\ calls'[i].waited = calls[i].waited
    BY <1>5, <1>6
  <1>8. QueueTypes' /\ StateTypes' /\ Connection'
    BY <1>1, <1>5 DEF Connect, proxy, callers, QueueTypes, StateTypes, Connection
  <1>9. CallsFormed' /\ WaitsForNewest' /\ WaitsWhenBusy'
    BY <1>1, <1>5, <1>7 DEF Connect, callers, CallsFormed, WellFormed, WaitsForNewest, WaitsWhenBusy
  <1>10. InOrder' /\ AnsweredOnce' /\ RecoveryOnly' /\ ReadyIsClean'
    BY <1>1 DEF Connect, proxy, InOrder, AnsweredOnce, RecoveryOnly, ReadyIsClean
  <1>11. RecoveryDone' /\ ReleasedBefore' /\ LedgerCoversDown' /\ LedgerCoversWire'
    BY <1>1 DEF Connect, RecoveryDone, ReleasedBefore, LedgerCoversDown, LedgerCoversWire
  <1>12. Generations' /\ PressesAreOwned'
    BY <1>1, <1>5, <1>7 DEF Connect, proxy, callers, Generations, PressesAreOwned
  <1>13. NotYetReady' /\ Untouched'
    BY <1>1, <1>5, <1>7 DEF Connect, proxy, callers, NotYetReady, Untouched
  <1>14. RecoveryQueued' /\ KeysNamedFirst'
    <2>1. RecoveryQueued'
      BY <1>1, <1>5, <1>6 DEF Connect, proxy, RecoveryQueued, MayConnect, RecoveryKeys, K
    <2>2. KeysNamedFirst'
      BY <1>1, <1>5, <1>6 DEF Connect, proxy, KeysNamedFirst
    <2> QED
      BY <2>1, <2>2
  <1>15. RecoverySent'
    BY <1>1 DEF Connect, proxy, RecoverySent, Untouched, StateTypes
  <1> QED
    BY <1>8, <1>9, <1>10, <1>11, <1>12, <1>13, <1>14, <1>15

\* The worker sends a call.  In a later generation the first is the recovery,
\* and until it is answered there is no other.
LEMMA SendKeeps ==
    ASSUME HelperInvariant, WorkerSends
    PROVE  HelperInvariant'
  <1> USE DEF HelperInvariant, Owed
  <1> DEFINE c == calls[1]
             w == [id |-> next + 1, cmd |-> c.cmd, keys |-> c.keys, gen |-> c.gen]
  <1>1. /\ calls' \in Seq(CallRec) /\ Len(calls') = Len(calls) - 1
        /\ Len(calls) \in Nat /\ Len(calls) >= 1 /\ Head(calls) = c /\ c \in CallRec
        /\ \A i \in 1..Len(calls') : i + 1 \in 1..Len(calls) /\ calls'[i] = calls[i + 1]
    BY TailFacts DEF WorkerSends, QueueTypes
  <1>2. /\ connected /\ ~Fenced(c) /\ ~c.late /\ next' = next + 1
        /\ ledger' = record(ledger, c.cmd, next + 1)
        /\ pending' = [i \in DOMAIN pending \cup {next + 1} |->
                         IF i = next + 1 THEN c ELSE pending[i]]
        /\ wire' = Append(wire, w)
        /\ UNCHANGED <<generation, ready, connected, replies, helper, last, groups, down,
                       broker, recovered, forgotten>>
    BY <1>1 DEF WorkerSends, proxy, native, callers
  <1>same. /\ connected /\ next' = next + 1
           /\ UNCHANGED <<generation, ready, connected, replies, helper, last, groups, down,
                          broker, recovered, forgotten>>
    BY <1>2
  <1>3. /\ c.gen = generation /\ (generation > 0 /\ ~ready => c.cmd.op = "recover")
        /\ c.cmd \in Command /\ c.keys \in SUBSET Keys /\ c.gen \in Nat
    BY <1>1, <1>2, RecordFacts DEF Fenced, StateTypes
  <1>4. next \in Nat /\ next + 1 \in Nat /\ last \in Nat /\ last + Len(wire) = next /\ DOMAIN pending \subseteq 1..next
    BY <1>2 DEF StateTypes, InOrder
  <1>5. /\ DOMAIN pending' = DOMAIN pending \cup {next + 1} /\ pending'[next + 1] = c
        /\ next + 1 \notin DOMAIN pending
        /\ \A i \in DOMAIN pending : pending'[i] = pending[i]
    BY <1>2, <1>4
  <1>6. w \in Request /\ w.id = next + 1 /\ w.cmd = c.cmd /\ w.keys = c.keys /\ w.gen = c.gen
    BY <1>3, <1>4 DEF Request
  <1>7. WellFormed(c)
    BY <1>1 DEF CallsFormed
  <1> HIDE DEF w, c
  <1>8. /\ wire' \in Seq(Request) /\ Len(wire') = Len(wire) + 1 /\ Len(wire) \in Nat
        /\ wire'[Len(wire) + 1] = w
        /\ \A i \in 1..Len(wire) : wire'[i] = wire[i]
        /\ \A i \in 1..Len(wire') : i \in 1..Len(wire) \/ i = Len(wire) + 1
    BY <1>2, <1>6, AppendFacts DEF QueueTypes
  <1>9. /\ DOMAIN ledger \subseteq DOMAIN ledger' /\ DOMAIN ledger' \subseteq Keys
        /\ \A k \in DOMAIN ledger : ledger'[k] = ledger[k] \/ ledger'[k] = next + 1
        /\ ledger' \in [DOMAIN ledger' -> Nat]
        /\ c.cmd.op = "down" => c.cmd.key \in DOMAIN ledger' /\ ledger'[c.cmd.key] = next + 1
    <2>1. DOMAIN ledger \subseteq Keys /\ ledger \in [DOMAIN ledger -> Nat]
      BY DEF StateTypes
    <2>2. CASE c.cmd.op = "down"
      <3>1. ledger' = [k \in DOMAIN ledger \cup {c.cmd.key} |->
                         IF k = c.cmd.key THEN next + 1 ELSE ledger[k]]
        BY <1>2, <2>2 DEF record
      <3>2. c.cmd.key \in Keys
        BY <1>7, <2>2 DEF WellFormed
      <3> QED
        BY <1>4, <2>1, <3>1, <3>2
    <2>3. CASE c.cmd.op # "down"
      <3>1. ledger' = ledger
        BY <1>2, <2>3 DEF record
      <3> QED
        BY <2>1, <2>3, <3>1
    <2> QED
      BY <2>2, <2>3
  <1>10. QueueTypes'
    <2>1. DOMAIN pending' \subseteq Nat /\ pending' \in [DOMAIN pending' -> CallRec]
      BY <1>1, <1>2, <1>4 DEF QueueTypes
    <2> QED
      BY <1>1, <1>2, <1>8, <2>1 DEF QueueTypes
  <1>11. StateTypes'
    BY <1>2, <1>4, <1>9 DEF StateTypes
  <1>12. Connection'
    BY <1>2 DEF Connection
  <1>13. CallsFormed'
    BY <1>1, <1>5, <1>7 DEF CallsFormed
  <1>14. Generations' /\ PressesAreOwned'
    <2>1. 1 \in 1..Len(calls)
      BY <1>1
    <2>2. c.cmd.op = "down" => recovered = generation
      BY <1>3, <2>1 DEF PressesAreOwned, c
    <2>3. Generations'
      <3>1. \A i \in 1..Len(calls') : calls'[i].gen <= generation
        BY <1>1 DEF Generations
      <3>2. \A i \in 1..Len(wire') : wire'[i].gen <= generation /\ wire'[i].gen = generation
        BY <1>same, <1>3, <1>6, <1>8 DEF Generations, StateTypes
      <3>3. \A i \in DOMAIN pending' : pending'[i].gen = generation
        BY <1>3, <1>5 DEF Generations
      <3> QED
        BY <1>same, <3>1, <3>2, <3>3 DEF Generations
    <2>4. PressesAreOwned'
      <3> SUFFICES ASSUME recovered # generation
                   PROVE  PressesAreOwned'
        BY <1>same DEF PressesAreOwned
      <3>1. \A i \in 1..Len(calls') : calls'[i].cmd.op = "down" => calls'[i].gen # generation
        BY <1>1 DEF PressesAreOwned
      <3>2. \A i \in 1..Len(wire') : wire'[i].cmd.op = "down" => wire'[i].gen # generation
        BY <1>6, <1>8, <2>2 DEF PressesAreOwned
      <3> QED
        BY <1>same, <3>1, <3>2 DEF PressesAreOwned
    <2> QED
      BY <2>3, <2>4
  <1>15. InOrder'
    <2>1. last' + Len(wire') = next' /\ DOMAIN pending' \subseteq 1..next'
      BY <1>same, <1>4, <1>5, <1>8
    <2>2. \A i \in 1..Len(wire) : /\ wire[i].id = last + i /\ last + i \in DOMAIN pending
                                  /\ pending[last + i].cmd = wire[i].cmd
      BY <1>2 DEF InOrder
    <2>3. last + (Len(wire) + 1) = next + 1
      BY <1>4, <1>8
    <2>4. ASSUME NEW i \in 1..Len(wire')
          PROVE  /\ wire'[i].id = last' + i
                 /\ last' + i \in DOMAIN pending' /\ pending'[last' + i].cmd = wire'[i].cmd
      <3>1. CASE i \in 1..Len(wire)
        BY <1>same, <1>5, <1>8, <2>2, <3>1
      <3>2. CASE i = Len(wire) + 1
        BY <1>same, <1>5, <1>6, <1>8, <2>3, <3>2
      <3> QED
        BY <1>8, <3>1, <3>2
    <2> QED
      BY <2>1, <2>4 DEF InOrder
  <1>16. AnsweredOnce'
    BY <1>same, <1>5 DEF AnsweredOnce
  <1>17. WaitsForNewest'
    <2>1. 1 \in 1..Len(calls) /\ \A i \in 1..Len(calls') : 1 < i + 1
      BY <1>1
    <2>2. c.who = 0 /\ c.waited => \A j \in 1..Len(calls') : calls'[j].who # 0
      BY <1>1, <2>1 DEF WaitsForNewest, c
    <2>3. \A i, j \in 1..Len(calls') : i < j /\ calls'[i].who = 0 /\ calls'[j].who = 0 => ~calls'[i].waited
      <3>1. \A i, j \in 1..Len(calls') : i < j => i + 1 < j + 1
        OBVIOUS
      <3> QED
        BY <1>1, <3>1 DEF WaitsForNewest
    <2>4. \A i \in DOMAIN pending : pending[i].who = 0 /\ pending[i].waited =>
            /\ c.who # 0 /\ \A j \in 1..Len(calls') : calls'[j].who # 0
            /\ \A j \in DOMAIN pending : i < j => pending[j].who # 0
      BY <1>1, <2>1 DEF WaitsForNewest, c
    <2> QED
      BY <1>4, <1>5, <2>2, <2>3, <2>4 DEF WaitsForNewest
  <1>18. WaitsWhenBusy'
    <2>1. 1 \in 1..Len(calls)
      BY <1>1
    <2>2. broker \in {"idle", "recovered"} /\ c.who = 0 => ~c.waited
      BY <2>1 DEF WaitsWhenBusy, c
    <2> QED
      BY <1>1, <1>same, <1>5, <2>2 DEF WaitsWhenBusy
  <1>19. RecoveryQueued' /\ NotYetReady' /\ KeysNamedFirst' /\ Untouched'
    <2>1. RecoveryQueued' /\ NotYetReady' /\ Untouched'
      BY <1>same, <1>4 DEF RecoveryQueued, NotYetReady, Untouched
    <2>2. KeysNamedFirst'
      <3>1. \A i \in 1..Len(calls') : i + 1 # 1
        OBVIOUS
      <3> QED
        BY <1>1, <1>same, <3>1 DEF KeysNamedFirst
    <2> QED
      BY <2>1, <2>2
  <1>20. RecoveryOnly'
    BY <1>2, <1>3, <1>5 DEF RecoveryOnly
  <1>21. RecoverySent'
    <2> SUFFICES ASSUME last = 0
                 PROVE  RecoverySent'
      BY <1>2 DEF RecoverySent
    <2>1. CASE generation = 0
      BY <1>2, <2>1 DEF RecoverySent
    <2>2. CASE generation # 0 /\ next = 0
      <3>1. Len(wire) = 0 /\ wire'[1] = w /\ Len(wire') > 0
        BY <1>4, <1>8, <2>2
      <3>2. c.cmd.op = "recover" /\ (DOMAIN ledger \subseteq c.keys \/ Owed = {})
        BY <1>2, <1>3, <2>2 DEF RecoveryQueued, NotYetReady, c, StateTypes
      <3>3. \A p \in Owed' : p.what \in wire'[1].keys
        BY <1>2, <1>6, <3>1, <3>2 DEF LedgerCoversDown
      <3> QED
        BY <1>2, <1>6, <2>2, <3>1, <3>2, <3>3 DEF RecoverySent, StateTypes
    <2>3. CASE generation # 0 /\ next # 0
      BY <1>2, <1>4, <1>8, <2>3 DEF RecoverySent
    <2> QED
      BY <2>1, <2>2, <2>3
  <1>22. \A i \in 1..Len(replies) : replies[i].id \in DOMAIN pending /\ replies[i].id < next + 1
    BY <1>2, <1>4 DEF AnsweredOnce
  <1>23. RecoveryDone'
    BY <1>2, <1>5, <1>22 DEF RecoveryDone
  <1>24. LedgerCoversDown'
    BY <1>2, <1>9 DEF LedgerCoversDown
  <1>25. LedgerCoversWire'
    <2>1. \A i \in 1..Len(wire) : wire[i].id <= next + 1 /\ wire[i].id \in Nat
      BY <1>2, <1>4, <1>8 DEF InOrder
    <2>2. \A k \in DOMAIN ledger : ledger[k] \in Nat
      BY DEF StateTypes
    <2>3. ASSUME NEW i \in 1..Len(wire), wire[i].cmd.op = "down"
          PROVE  wire[i].cmd.key \in DOMAIN ledger' /\ ledger'[wire[i].cmd.key] >= wire[i].id
      <3>1. wire[i].cmd.key \in DOMAIN ledger /\ ledger[wire[i].cmd.key] >= wire[i].id
        BY <1>2, <2>3 DEF LedgerCoversWire
      <3> QED
        BY <1>4, <1>9, <2>1, <2>2, <3>1
    <2> QED
      BY <1>2, <1>4, <1>6, <1>8, <1>9, <2>3 DEF LedgerCoversWire
  <1>26. ReleasedBefore'
    <2>1. ASSUME NEW i \in 1..Len(replies), NEW p \in Owed, replies[i].ok,
                 Releases(pending[replies[i].id].cmd, p.what)
          PROVE  ledger'[p.what] > replies[i].id
      <3>1. ledger[p.what] > replies[i].id
        BY <2>1 DEF ReleasedBefore
      <3>2. p.what \in DOMAIN ledger
        BY DEF LedgerCoversDown
      <3>3. replies[i].id \in Nat /\ replies[i].id < next + 1
        BY <1>22, ElementFacts, RecordFacts DEF QueueTypes
      <3> QED
        BY <1>4, <1>9, <3>1, <3>2, <3>3
    <2>2. \A i \in 1..Len(replies) : pending'[replies[i].id] = pending[replies[i].id]
      BY <1>5, <1>22
    <2> QED
      BY <1>2, <2>1, <2>2 DEF ReleasedBefore
  <1>27. ReadyIsClean'
    BY <1>2 DEF ReadyIsClean
  <1> QED
    BY <1>10, <1>11, <1>12, <1>13, <1>14, <1>15, <1>16, <1>17, <1>18, <1>19, <1>20, <1>21,
       <1>23, <1>24, <1>25, <1>26, <1>27

\* An answer in time.
Received(r, c) ==
    /\ connected /\ replies # <<>> /\ r = Head(replies) /\ c = pending[r.id]
    /\ ~c.late /\ (c.cmd.op = "recover" => r.ok)
    /\ ledger' = Acked(ledger, c, r)
    /\ ready' = (ready \/ c.cmd.op = "recover" \/ (c.gen = 0 /\ c.cmd.op # "group"))
    /\ Freed(c) /\ (broker' = broker \/ (c.waited /\ c.who = 0))
    /\ pending' = [i \in DOMAIN pending \ {r.id} |-> pending[i]]
    /\ replies' = Tail(replies)
    /\ UNCHANGED <<generation, connected, next, calls, wire, helper, last, groups, down,
                   recovered, forgotten>>

\* What an acknowledgment takes from the ledger.
LEMMA AckedFacts ==
    ASSUME NEW l, NEW c, NEW r
    PROVE  /\ DOMAIN Acked(l, c, r) \subseteq DOMAIN l
           /\ \A k \in DOMAIN Acked(l, c, r) : Acked(l, c, r)[k] = l[k]
           /\ \A k \in DOMAIN l : k \notin DOMAIN Acked(l, c, r) =>
                /\ r.ok
                /\ c.cmd.op = "recover" \/ (Releases(c.cmd, k) /\ ~(l[k] > r.id))
  <1>1. CASE ~r.ok
    BY <1>1 DEF Acked
  <1>2. CASE r.ok /\ c.cmd.op = "recover"
    <2>1. Acked(l, c, r) = [k \in {} |-> l[k]]
      BY <1>2 DEF Acked, ack, Restrict
    <2> QED
      BY <1>2, <2>1
  <1>3. CASE r.ok /\ c.cmd.op = "up"
    <2>1. Acked(l, c, r) = [k \in {j \in DOMAIN l : j # c.cmd.key \/ l[j] > r.id} |-> l[k]]
      BY <1>3 DEF Acked, ack, Restrict
    <2> QED
      BY <1>3, <2>1 DEF Releases
  <1>4. CASE r.ok /\ c.cmd.op = "releaseAll"
    <2>1. Acked(l, c, r) = [k \in {j \in DOMAIN l : l[j] > r.id} |-> l[k]]
      BY <1>4 DEF Acked, ack, Restrict
    <2> QED
      BY <1>4, <2>1 DEF Releases
  <1>5. CASE r.ok /\ c.cmd.op \notin {"recover", "up", "releaseAll"}
    <2>1. Acked(l, c, r) = l
      BY <1>5 DEF Acked, ack
    <2> QED
      BY <2>1
  <1> QED
    BY <1>1, <1>2, <1>3, <1>4, <1>5

\* An acknowledgment takes from the ledger only what is neither down nor on
\* its way: the recovery that was waited for has nothing behind it, and a
\* release is older than every press it does not cover.
LEMMA ReceivedKeeps ==
    ASSUME HelperInvariant, NEW r, NEW c, Received(r, c)
    PROVE  HelperInvariant'
  <1> USE DEF HelperInvariant, Owed
  <1>1. /\ replies' \in Seq(Response) /\ Len(replies') = Len(replies) - 1
        /\ Len(replies) \in Nat /\ Len(replies) >= 1 /\ r = replies[1] /\ r \in Response
        /\ \A i \in 1..Len(replies') : i + 1 \in 1..Len(replies) /\ replies'[i] = replies[i + 1]
    BY TailFacts DEF Received, QueueTypes
  <1>2. 1 \in 1..Len(replies) /\ r.id \in Nat /\ r.ok \in BOOLEAN /\ last \in Nat
    BY <1>1, RecordFacts DEF StateTypes
  <1>3. r.id \in DOMAIN pending /\ r.id <= last /\ next > 0
    <2>1. connected /\ next \in Nat
      BY DEF Received, StateTypes
    <2>2. r.id \in DOMAIN pending /\ r.id <= last
      BY <1>1, <1>2, <2>1 DEF AnsweredOnce
    <2>3. DOMAIN pending \subseteq 1..next
      BY <2>1 DEF InOrder
    <2> QED
      BY <1>2, <2>1, <2>2, <2>3
  <1>4. c \in CallRec /\ c = pending[r.id] /\ WellFormed(c) /\ c.waited
    BY <1>3, RecordFacts DEF Received, QueueTypes, CallsFormed, WellFormed
  <1>5. /\ DOMAIN pending' = DOMAIN pending \ {r.id}
        /\ \A i \in DOMAIN pending' : pending'[i] = pending[i] /\ i \in DOMAIN pending
        /\ pending' \in [DOMAIN pending' -> CallRec]
    BY DEF Received, QueueTypes
  <1>6. /\ DOMAIN ledger' \subseteq DOMAIN ledger
        /\ \A k \in DOMAIN ledger' : ledger'[k] = ledger[k]
        /\ \A k \in DOMAIN ledger : k \notin DOMAIN ledger' =>
            /\ r.ok
            /\ c.cmd.op = "recover" \/ (Releases(c.cmd, k) /\ ~(ledger[k] > r.id))
    <2>1. ledger' = Acked(ledger, c, r)
      BY DEF Received
    <2> QED
      BY <2>1, AckedFacts
  <1>7. /\ connected /\ connected' = connected
        /\ UNCHANGED <<generation, connected, next, calls, wire, helper, last, groups, down,
                       recovered, forgotten>>
    BY DEF Received
  <1>8. \A i \in 1..Len(replies') : replies'[i].id \in DOMAIN pending'
    <2>1. \A i \in 1..Len(replies') : i + 1 # 1 /\ i + 1 \in 1..Len(replies)
      BY <1>1
    <2> QED
      BY <1>1, <1>2, <1>5, <1>7, <2>1 DEF AnsweredOnce
  <1>9. r.ok /\ c.cmd.op = "recover" => Owed = {}
    BY <1>1, <1>2, <1>4 DEF RecoveryDone
  <1>10. QueueTypes'
    BY <1>1, <1>5, <1>7 DEF QueueTypes
  <1>11. StateTypes'
    <2>1. ledger' \in [DOMAIN ledger' -> Nat]
      <3>1. ledger' = [k \in DOMAIN ledger' |-> ledger'[k]]
        <4>1. Acked(ledger, c, r) = [k \in DOMAIN Acked(ledger, c, r) |-> Acked(ledger, c, r)[k]]
          <5>1. ledger = [k \in DOMAIN ledger |-> ledger[k]]
            BY DEF StateTypes
          <5> QED
            BY <5>1 DEF Acked, ack, Restrict
        <4> QED
          BY <4>1 DEF Received
      <3> QED
        BY <1>6, <3>1 DEF StateTypes
    <2>2. ready' \in BOOLEAN
      BY DEF Received
    <2> QED
      BY <1>6, <1>7, <2>1, <2>2 DEF StateTypes
  <1>12. Connection'
    BY <1>7 DEF Connection
  <1>13. CallsFormed'
    BY <1>5, <1>7 DEF CallsFormed
  <1>14. Generations' /\ PressesAreOwned'
    BY <1>5, <1>7 DEF Generations, PressesAreOwned
  <1>15. InOrder'
    <2>1. \A i \in 1..Len(wire) : last + i # r.id
      BY <1>2, <1>3
    <2> QED
      BY <1>5, <1>7, <2>1 DEF InOrder
  <1>16. AnsweredOnce'
    <2>1. \A i \in 1..Len(replies') : replies'[i].id <= last
      BY <1>1, <1>7 DEF AnsweredOnce
    <2>2. \A i, j \in 1..Len(replies') : i # j => replies'[i].id # replies'[j].id
      <3>1. \A i, j \in 1..Len(replies') : i # j => i + 1 # j + 1
        OBVIOUS
      <3>2. \A i, j \in 1..Len(replies) : i # j => replies[i].id # replies[j].id
        BY <1>7 DEF AnsweredOnce
      <3> QED
        BY <1>1, <3>1, <3>2
    <2>3. \A g \in groups : /\ g.id \in DOMAIN pending' /\ g.id <= last
                            /\ pending'[g.id].cmd.op = "group"
                            /\ \A i \in 1..Len(replies') : replies'[i].id # g.id
      BY <1>1, <1>2, <1>5, <1>7 DEF AnsweredOnce
    <2> QED
      BY <1>7, <1>8, <2>1, <2>2, <2>3 DEF AnsweredOnce
  <1>17. WaitsForNewest'
    BY <1>5, <1>7 DEF WaitsForNewest
  <1>18. WaitsWhenBusy'
    <2>1. CASE c.who = 0
      <3>1. /\ \A j \in 1..Len(calls) : calls[j].who # 0
            /\ \A j \in DOMAIN pending : j # r.id /\ pending[j].who = 0 => ~pending[j].waited
        <4>1. \A j \in DOMAIN pending : j \in Nat
          BY DEF QueueTypes
        <4> QED
          BY <1>2, <1>3, <1>4, <2>1, <4>1 DEF WaitsForNewest
      <3> QED
        BY <1>5, <1>7, <3>1 DEF WaitsWhenBusy
    <2>2. CASE c.who # 0
      BY <1>5, <1>7, <2>2 DEF Received, WaitsWhenBusy
    <2> QED
      BY <2>1, <2>2
  <1>19. RecoveryQueued' /\ NotYetReady' /\ KeysNamedFirst' /\ Untouched'
    BY <1>3, <1>7 DEF RecoveryQueued, NotYetReady, KeysNamedFirst, Untouched, StateTypes
  <1>20. RecoveryOnly'
    BY <1>5, <1>7 DEF Received, RecoveryOnly
  <1>21. RecoverySent'
    BY <1>7 DEF RecoverySent
  <1>22. RecoveryDone'
    <2> SUFFICES ASSUME NEW i \in 1..Len(replies'), replies'[i].ok,
                        pending'[replies'[i].id].cmd.op = "recover",
                        pending'[replies'[i].id].waited
                 PROVE  Owed' = {}
      BY DEF RecoveryDone
    <2>1. replies'[i] = replies[i + 1] /\ i + 1 \in 1..Len(replies)
      BY <1>1
    <2>2. pending'[replies'[i].id] = pending[replies[i + 1].id]
      BY <1>5, <1>8, <2>1
    <2> QED
      BY <1>7, <2>1, <2>2 DEF RecoveryDone
  <1>23. LedgerCoversDown'
    <2> SUFFICES ASSUME NEW p \in Owed
                 PROVE  p.what \in DOMAIN ledger'
      BY <1>7 DEF LedgerCoversDown
    <2>1. p.what \in DOMAIN ledger
      BY DEF LedgerCoversDown
    <2>2. r.ok /\ Releases(c.cmd, p.what) => ledger[p.what] > r.id
      BY <1>1, <1>2, <1>4 DEF ReleasedBefore
    <2> QED
      BY <1>6, <1>9, <2>1, <2>2
  <1>24. LedgerCoversWire'
    <2> SUFFICES ASSUME NEW i \in 1..Len(wire), wire[i].cmd.op = "down"
                 PROVE  wire[i].cmd.key \in DOMAIN ledger'
                        /\ ledger'[wire[i].cmd.key] >= wire[i].id
      BY <1>7 DEF LedgerCoversWire
    <2> DEFINE k == wire[i].cmd.key
    <2>1. /\ wire[i].id = last + i /\ last + i \in DOMAIN pending
          /\ pending[last + i].cmd = wire[i].cmd
      BY <1>7 DEF InOrder
    <2>2. last + i > r.id /\ last + i \in Nat
      BY <1>2, <1>3
    <2>3. k \in DOMAIN ledger /\ ledger[k] >= last + i /\ ledger[k] \in Nat
      BY <1>7, <2>1 DEF LedgerCoversWire, StateTypes
    <2>4. c.cmd.op # "recover"
      <3> SUFFICES ASSUME c.cmd.op = "recover"
                   PROVE  FALSE
        OBVIOUS
      <3>1. c.who = 0
        BY <1>4 DEF WellFormed
      <3>2. pending[last + i].who # 0
        BY <1>3, <1>4, <2>1, <2>2, <3>1 DEF WaitsForNewest
      <3>3. pending[last + i].who = 0
        BY <2>1 DEF CallsFormed, WellFormed
      <3> QED
        BY <3>2, <3>3
    <2>5. ledger[k] > r.id
      BY <1>2, <2>2, <2>3
    <2> QED
      BY <1>6, <2>1, <2>3, <2>4, <2>5
  <1>25. ReleasedBefore'
    <2> SUFFICES ASSUME NEW i \in 1..Len(replies'), NEW p \in Owed, replies'[i].ok,
                        Releases(pending'[replies'[i].id].cmd, p.what)
                 PROVE  ledger'[p.what] > replies'[i].id
      BY <1>7 DEF ReleasedBefore
    <2>1. ledger[p.what] > replies'[i].id
      <3>1. replies'[i] = replies[i + 1] /\ i + 1 \in 1..Len(replies)
        BY <1>1
      <3>2. pending'[replies'[i].id] = pending[replies[i + 1].id]
        BY <1>5, <1>8, <3>1
      <3> QED
        BY <3>1, <3>2 DEF ReleasedBefore
    <2>2. p.what \in DOMAIN ledger'
      BY <1>7, <1>23 DEF LedgerCoversDown
    <2> QED
      BY <1>6, <2>1, <2>2
  <1>26. ReadyIsClean'
    <2>1. CASE ready
      BY <1>7, <2>1 DEF ReadyIsClean
    <2>2. CASE c.cmd.op = "recover"
      BY <1>7, <1>9, <2>2 DEF Received, ReadyIsClean
    <2>3. CASE c.gen = 0
      <3>1. generation = 0
        BY <1>3, <1>4, <2>3 DEF Generations
      <3>2. \A p \in down : p.gen \in Nat /\ p.gen <= generation
        BY DEF Generations, StateTypes
      <3> QED
        BY <1>7, <3>1, <3>2 DEF ReadyIsClean
    <2>4. CASE ~ready'
      BY <2>4 DEF ReadyIsClean
    <2> QED
      BY <2>1, <2>2, <2>3, <2>4 DEF Received
  <1> QED
    BY <1>10, <1>11, <1>12, <1>13, <1>14, <1>15, <1>16, <1>17, <1>18, <1>19, <1>20, <1>21,
       <1>22, <1>23, <1>24, <1>25, <1>26

\* What a request does to what is down.
LEMMA InjectedFacts ==
    ASSUME NEW held, NEW req
    PROVE  /\ \A p \in Injected(held, req) :
                p \in held \/ (req.cmd.op = "down" /\ p = [what |-> req.cmd.key, gen |-> req.gen])
           /\ \A p \in Injected(held, req) : ~Releases(req.cmd, p.what)
           /\ req.cmd.op = "recover" =>
                \A p \in Injected(held, req) : p \in held /\ p.what \notin req.keys
  BY DEF Injected, Releases

\* The helper answers a request, if there is still someone to answer.
Replies(id, ok) ==
    IF connected THEN replies' = Append(replies, [id |-> id, ok |-> ok]) ELSE replies' = replies

\* The helper takes the next request of the stream: one that it executes.
Executed(req, ok) ==
    /\ helper = "serving" /\ wire # <<>> /\ req = Head(wire) /\ req.cmd.op # "group"
    /\ req.cmd.op = "recover" => last = 0
    /\ ok \in BOOLEAN /\ Replies(req.id, ok)
    /\ down' \in {down, Injected(down, req)} /\ (ok => down' = Injected(down, req))
    /\ last' = req.id /\ wire' = Tail(wire)
    /\ UNCHANGED <<generation, ready, connected, next, ledger, helper, groups, recovered,
                   forgotten, calls, pending, broker>>

\* The requests of a live stream are executed in the order they were sent, so
\* a press is never older than a release that was answered before it, and a
\* recovery meets no press of its own generation.
LEMMA ExecutedKeeps ==
    ASSUME HelperInvariant, NEW req, NEW ok, Executed(req, ok)
    PROVE  HelperInvariant'
  <1> USE DEF HelperInvariant, Owed
  <1>1. /\ wire' \in Seq(Request) /\ Len(wire') = Len(wire) - 1
        /\ Len(wire) \in Nat /\ Len(wire) >= 1 /\ req = wire[1] /\ req \in Request
        /\ \A i \in 1..Len(wire') : i + 1 \in 1..Len(wire) /\ wire'[i] = wire[i + 1]
    BY TailFacts DEF Executed, QueueTypes
  <1>2. /\ 1 \in 1..Len(wire) /\ req.id \in Nat /\ req.gen \in Nat
        /\ last \in Nat /\ next \in Nat /\ generation \in Nat
    BY <1>1, RecordFacts DEF StateTypes
  <1>3. /\ helper = "serving" /\ last' = req.id
        /\ UNCHANGED <<generation, ready, connected, next, ledger, helper, groups, recovered,
                       forgotten, calls, pending, broker>>
    BY DEF Executed
  <1>4. /\ \A p \in down' :
            p \in down \/ (req.cmd.op = "down" /\ p = [what |-> req.cmd.key, gen |-> req.gen])
        /\ ok => \A p \in down' : ~Releases(req.cmd, p.what)
        /\ ok /\ req.cmd.op = "recover" => \A p \in down' : p \in down /\ p.what \notin req.keys
    BY InjectedFacts DEF Executed
  <1>5. req.cmd.op = "down" =>
            /\ req.cmd.key \in DOMAIN ledger /\ req.cmd.key \in Keys
            /\ connected => ledger[req.cmd.key] >= req.id
    BY <1>1, <1>2 DEF LedgerCoversWire, StateTypes
  <1>6. connected =>
            /\ req.id = last + 1 /\ last + 1 \in DOMAIN pending
            /\ pending[last + 1].cmd = req.cmd
    BY <1>1, <1>2 DEF InOrder
  <1>7. connected =>
            /\ replies' \in Seq(Response) /\ Len(replies') = Len(replies) + 1 /\ Len(replies) \in Nat
            /\ replies'[Len(replies) + 1].id = last + 1 /\ replies'[Len(replies) + 1].ok = ok
            /\ \A i \in 1..Len(replies) : replies'[i] = replies[i]
            /\ \A i \in 1..Len(replies') : i \in 1..Len(replies) \/ i = Len(replies) + 1
    <2> SUFFICES ASSUME connected
                 PROVE  <1>7!2
      OBVIOUS
    <2> DEFINE x == [id |-> req.id, ok |-> ok]
    <2>1. x \in Response /\ x.id = req.id /\ x.ok = ok
      BY <1>2 DEF Executed, Response
    <2>2. replies' = Append(replies, x) /\ replies \in Seq(Response)
      BY DEF Executed, Replies, QueueTypes
    <2> HIDE DEF x
    <2> QED
      BY <1>6, <2>1, <2>2, AppendFacts
  <1>8. ~connected => replies' = <<>> /\ Len(replies') = 0 /\ replies' \in Seq(Response)
    BY DEF Executed, Replies, Connection
  <1>9. connected => \A i \in 1..Len(replies) : replies[i].id < last + 1 /\ replies[i].id \in DOMAIN pending
                                                /\ replies[i].id \in Nat
    BY <1>2 DEF AnsweredOnce, QueueTypes
  <1>10. QueueTypes'
    BY <1>1, <1>3, <1>7, <1>8 DEF QueueTypes
  <1>11. StateTypes'
    <2>1. down' \subseteq [what : Keys, gen : Nat]
      BY <1>2, <1>4, <1>5 DEF StateTypes
    <2> QED
      BY <1>2, <1>3, <2>1 DEF StateTypes
  <1>12. Connection'
    BY <1>3, <1>8 DEF Connection
  <1>13. CallsFormed' /\ WaitsForNewest' /\ WaitsWhenBusy'
    BY <1>3 DEF CallsFormed, WaitsForNewest, WaitsWhenBusy
  <1>14. Generations' /\ PressesAreOwned'
    <2>1. req.gen <= generation /\ (req.cmd.op = "down" /\ recovered # generation => req.gen # generation)
      BY <1>1, <1>2 DEF Generations, PressesAreOwned
    <2>2. \A p \in down' : p \in down \/ (req.cmd.op = "down" /\ p.gen = req.gen)
      BY <1>4
    <2>3. Generations'
      BY <1>1, <1>3, <2>1, <2>2 DEF Generations
    <2>4. PressesAreOwned'
      BY <1>1, <1>3, <2>1, <2>2 DEF PressesAreOwned
    <2> QED
      BY <2>3, <2>4
  <1>15. InOrder'
    <2> SUFFICES ASSUME connected
                 PROVE  InOrder'
      BY <1>3 DEF InOrder
    <2>1. last' + Len(wire') = next' /\ DOMAIN pending' \subseteq 1..next'
      BY <1>1, <1>2, <1>3, <1>6 DEF InOrder
    <2>2. \A i \in 1..Len(wire') : last' + i = last + (i + 1)
      BY <1>1, <1>2, <1>3, <1>6
    <2> QED
      BY <1>1, <1>3, <2>1, <2>2 DEF InOrder
  <1>16. AnsweredOnce'
    <2> SUFFICES ASSUME connected
                 PROVE  AnsweredOnce'
      BY <1>3 DEF AnsweredOnce
    <2>1. \A i \in 1..Len(replies') : replies'[i].id \in DOMAIN pending' /\ replies'[i].id <= last'
      <3>1. last' = last + 1 /\ DOMAIN pending' = DOMAIN pending
        BY <1>3, <1>6
      <3>2. \A i \in 1..Len(replies) :
                replies'[i].id \in DOMAIN pending /\ replies'[i].id <= last + 1
        BY <1>2, <1>7, <1>9
      <3>3. LET j == Len(replies) + 1
            IN  replies'[j].id \in DOMAIN pending /\ replies'[j].id <= last + 1
        BY <1>2, <1>6, <1>7
      <3> QED
        BY <1>7, <3>1, <3>2, <3>3
    <2>2. \A i, j \in 1..Len(replies') : i # j => replies'[i].id # replies'[j].id
      BY <1>2, <1>7, <1>9 DEF AnsweredOnce
    <2>3. \A g \in groups : g.id \in Nat /\ g.id <= last /\ g.id # last + 1
      BY <1>2 DEF AnsweredOnce, QueueTypes
    <2>4. \A g \in groups : /\ g.id \in DOMAIN pending' /\ g.id <= last'
                            /\ pending'[g.id].cmd.op = "group"
                            /\ \A i \in 1..Len(replies') : replies'[i].id # g.id
      BY <1>2, <1>3, <1>6, <1>7, <2>3 DEF AnsweredOnce
    <2> QED
      BY <1>3, <2>1, <2>2, <2>4 DEF AnsweredOnce
  <1>17. RecoveryQueued' /\ NotYetReady' /\ KeysNamedFirst' /\ RecoveryOnly'
    <2>1. connected => next # 0
      BY <1>1, <1>2 DEF InOrder
    <2> QED
      BY <1>3, <2>1 DEF RecoveryQueued, NotYetReady, KeysNamedFirst, RecoveryOnly
  <1>18. RecoverySent'
    BY <1>2, <1>3, <1>6 DEF RecoverySent
  <1>19. Untouched'
    BY <1>3 DEF Untouched
  <1>20. RecoveryDone'
    <2> SUFFICES ASSUME NEW i \in 1..Len(replies'), replies'[i].ok,
                        pending'[replies'[i].id].cmd.op = "recover",
                        pending'[replies'[i].id].waited
                 PROVE  Owed' = {}
      BY DEF RecoveryDone
    <2>1. connected
      BY <1>8
    <2>2. CASE i = Len(replies) + 1
      <3>1. ok /\ req.cmd.op = "recover" /\ last = 0
        BY <1>3, <1>6, <1>7, <2>1, <2>2 DEF Executed
      <3>2. next > 0
        BY <1>1, <1>2, <2>1 DEF InOrder
      <3>3. \A p \in Owed : p.what \in req.keys
        BY <1>1, <2>1, <3>1, <3>2 DEF RecoverySent
      <3> QED
        BY <1>3, <1>4, <3>1, <3>3
    <2>3. CASE i \in 1..Len(replies)
      <3> DEFINE n == replies[i].id
      <3>1. /\ replies[i].ok /\ pending[n].cmd.op = "recover" /\ pending[n].waited
            /\ n \in DOMAIN pending /\ n < last + 1
        BY <1>3, <1>7, <1>9, <2>1, <2>3
      <3>2. Owed = {}
        BY <2>3, <3>1 DEF RecoveryDone
      <3>3. pending[n].who = 0
        BY <3>1 DEF CallsFormed, WellFormed
      <3>4. pending[last + 1].who # 0
        BY <1>6, <2>1, <3>1, <3>3 DEF WaitsForNewest
      <3>5. req.cmd.op # "down"
        BY <1>6, <2>1, <3>4 DEF CallsFormed, WellFormed
      <3> QED
        BY <1>3, <1>4, <3>2, <3>5
    <2> QED
      BY <1>7, <2>1, <2>2, <2>3
  <1>21. LedgerCoversDown'
    BY <1>3, <1>4, <1>5 DEF LedgerCoversDown
  <1>22. LedgerCoversWire'
    BY <1>1, <1>3 DEF LedgerCoversWire
  <1>23. ReleasedBefore'
    <2> SUFFICES ASSUME NEW i \in 1..Len(replies'), NEW p \in Owed', replies'[i].ok,
                        Releases(pending'[replies'[i].id].cmd, p.what)
                 PROVE  ledger'[p.what] > replies'[i].id
      BY DEF ReleasedBefore
    <2>1. connected
      BY <1>8
    <2>2. i # Len(replies) + 1
      BY <1>3, <1>4, <1>6, <1>7, <2>1
    <2>3. i \in 1..Len(replies) /\ replies'[i] = replies[i]
      BY <1>7, <2>1, <2>2
    <2>4. CASE p \in Owed
      BY <1>3, <2>3, <2>4 DEF ReleasedBefore
    <2>5. CASE req.cmd.op = "down" /\ p = [what |-> req.cmd.key, gen |-> req.gen]
      <3>1. ledger[p.what] >= last + 1 /\ ledger[p.what] \in Nat
        BY <1>5, <1>6, <2>1, <2>5 DEF StateTypes
      <3> QED
        BY <1>2, <1>3, <1>9, <2>1, <2>3, <3>1
    <2> QED
      BY <1>3, <1>4, <2>4, <2>5
  <1>24. ReadyIsClean'
    <2>1. connected => req.gen = generation
      BY <1>1, <1>2 DEF Generations
    <2> QED
      BY <1>3, <1>4, <2>1 DEF ReadyIsClean, Connection
  <1> QED
    BY <1>10, <1>11, <1>12, <1>13, <1>14, <1>15, <1>16, <1>17, <1>18, <1>19, <1>20, <1>21,
       <1>22, <1>23, <1>24

\* A group of a track begins: its request is taken and not answered yet.
LEMMA GroupStartsKeeps ==
    ASSUME HelperInvariant, GroupStarts
    PROVE  HelperInvariant'
  <1> USE DEF HelperInvariant, Owed
  <1> DEFINE req == wire[1]
             g == [epoch |-> req.cmd.epoch, id |-> req.id]
  <1>1. /\ wire' \in Seq(Request) /\ Len(wire') = Len(wire) - 1
        /\ Len(wire) \in Nat /\ Len(wire) >= 1 /\ Head(wire) = req /\ req \in Request
        /\ \A i \in 1..Len(wire') : i + 1 \in 1..Len(wire) /\ wire'[i] = wire[i + 1]
    BY TailFacts DEF GroupStarts, QueueTypes
  <1>2. /\ 1 \in 1..Len(wire) /\ req.id \in Nat /\ req.cmd.epoch \in Nat
        /\ last \in Nat /\ next \in Nat
    <2>1. req.id \in Nat /\ req.cmd \in Command
      BY <1>1, RecordFacts
    <2>2. \A cmd \in Command : cmd.epoch \in Nat
      BY DEF Command
    <2> QED
      BY <1>1, <2>1, <2>2 DEF StateTypes
  <1>3. g \in Group /\ g.id = req.id
    BY <1>2 DEF Group
  <1>4. /\ helper = "serving" /\ last' = req.id /\ groups' = groups \cup {g}
        /\ req.cmd.op = "group"
        /\ UNCHANGED <<generation, ready, connected, next, ledger, replies, helper, down,
                       forgotten, recovered, calls, pending, broker>>
    BY <1>1 DEF GroupStarts, proxy, worker, callers
  <1>5. connected =>
            /\ req.id = last + 1 /\ last + 1 \in DOMAIN pending
            /\ pending[last + 1].cmd = req.cmd
    BY <1>1, <1>2 DEF InOrder
  <1> HIDE DEF g, req
  <1>6. QueueTypes' /\ StateTypes' /\ Connection'
    BY <1>1, <1>2, <1>3, <1>4 DEF QueueTypes, StateTypes, Connection
  <1>7. CallsFormed' /\ WaitsForNewest' /\ WaitsWhenBusy'
    BY <1>4 DEF CallsFormed, WaitsForNewest, WaitsWhenBusy
  <1>8. Generations' /\ PressesAreOwned'
    BY <1>1, <1>4 DEF Generations, PressesAreOwned
  <1>9. InOrder'
    <2> SUFFICES ASSUME connected
                 PROVE  InOrder'
      BY <1>4 DEF InOrder
    <2>1. last' + Len(wire') = next' /\ DOMAIN pending' \subseteq 1..next'
      BY <1>1, <1>2, <1>4, <1>5 DEF InOrder
    <2>2. \A i \in 1..Len(wire') : last' + i = last + (i + 1)
      <3>1. last' = last + 1
        BY <1>4, <1>5
      <3> QED
        BY <1>2, <3>1
    <2> QED
      BY <1>1, <1>4, <2>1, <2>2 DEF InOrder
  <1>10. AnsweredOnce'
    <2> SUFFICES ASSUME connected
                 PROVE  AnsweredOnce'
      BY <1>4 DEF AnsweredOnce
    <2>1. \A i \in 1..Len(replies) : replies[i].id \in Nat /\ replies[i].id <= last /\ replies[i].id # last + 1
      BY <1>2 DEF AnsweredOnce, QueueTypes
    <2>2. \A h \in groups : h.id \in Nat /\ h.id <= last /\ h.id # last + 1
      BY <1>2 DEF AnsweredOnce, QueueTypes
    <2>3. \A h \in groups' : /\ h.id \in DOMAIN pending' /\ h.id <= last'
                             /\ pending'[h.id].cmd.op = "group"
                             /\ \A i \in 1..Len(replies') : replies'[i].id # h.id
      BY <1>2, <1>3, <1>4, <1>5, <2>1, <2>2 DEF AnsweredOnce
    <2>4. \A h, k \in groups' : h.id = k.id => h = k
      BY <1>3, <1>4, <1>5, <2>2 DEF AnsweredOnce
    <2> QED
      BY <1>2, <1>4, <1>5, <2>1, <2>3, <2>4 DEF AnsweredOnce
  <1>11. RecoveryQueued' /\ NotYetReady' /\ KeysNamedFirst' /\ RecoveryOnly' /\ Untouched' /\ RecoveryDone'
    BY <1>4 DEF RecoveryQueued, NotYetReady, KeysNamedFirst, RecoveryOnly, Untouched, RecoveryDone
  <1>12. RecoverySent'
    BY <1>2, <1>4, <1>5 DEF RecoverySent
  <1>13. LedgerCoversDown' /\ LedgerCoversWire' /\ ReleasedBefore' /\ ReadyIsClean'
    BY <1>1, <1>4 DEF LedgerCoversDown, LedgerCoversWire, ReleasedBefore, ReadyIsClean
  <1> QED
    BY <1>6, <1>7, <1>8, <1>9, <1>10, <1>11, <1>12, <1>13

\* The task of a group answers the request of that group.
LEMMA GroupEndsKeeps ==
    ASSUME HelperInvariant, NEW g \in groups, GroupEnds(g)
    PROVE  HelperInvariant'
  <1> USE DEF HelperInvariant, Owed
  <1>1. /\ groups' = groups \ {g}
        /\ UNCHANGED <<generation, ready, connected, next, ledger, wire, helper, last, down,
                       forgotten, recovered, calls, pending, broker>>
    BY DEF GroupEnds, proxy, worker, callers
  <1>2. PICK ok \in BOOLEAN : Reply(g.id, ok)
    BY DEF GroupEnds
  <1>3. g \in Group /\ g.id \in Nat
    BY DEF QueueTypes, Group
  <1>4. connected =>
            /\ replies' \in Seq(Response) /\ Len(replies') = Len(replies) + 1 /\ Len(replies) \in Nat
            /\ replies'[Len(replies) + 1].id = g.id
            /\ \A i \in 1..Len(replies) : replies'[i] = replies[i]
            /\ \A i \in 1..Len(replies') : i \in 1..Len(replies) \/ i = Len(replies) + 1
    <2> SUFFICES ASSUME connected
                 PROVE  <1>4!2
      OBVIOUS
    <2> DEFINE x == [id |-> g.id, ok |-> ok]
    <2>1. x \in Response /\ x.id = g.id
      BY <1>3 DEF Response
    <2>2. replies' = Append(replies, x) /\ replies \in Seq(Response)
      BY <1>2 DEF Reply, QueueTypes
    <2> HIDE DEF x
    <2> QED
      BY <2>1, <2>2, AppendFacts
  <1>5. ~connected => replies' = <<>> /\ Len(replies') = 0 /\ replies' \in Seq(Response)
    BY <1>2 DEF Reply, Connection
  <1>6. connected => /\ g.id \in DOMAIN pending /\ g.id <= last /\ pending[g.id].cmd.op = "group"
                     /\ \A i \in 1..Len(replies) : replies[i].id # g.id
                     /\ \A h \in groups : h # g => h.id # g.id
    BY DEF AnsweredOnce
  <1>7. QueueTypes' /\ StateTypes' /\ Connection'
    BY <1>1, <1>4, <1>5 DEF QueueTypes, StateTypes, Connection
  <1>8. CallsFormed' /\ WaitsForNewest' /\ WaitsWhenBusy' /\ Generations' /\ PressesAreOwned'
    BY <1>1 DEF CallsFormed, WaitsForNewest, WaitsWhenBusy, Generations, PressesAreOwned
  <1>9. InOrder' /\ RecoveryQueued' /\ NotYetReady' /\ KeysNamedFirst' /\ RecoveryOnly' /\ RecoverySent'
    BY <1>1 DEF InOrder, RecoveryQueued, NotYetReady, KeysNamedFirst, RecoveryOnly, RecoverySent
  <1>10. Untouched' /\ LedgerCoversDown' /\ LedgerCoversWire' /\ ReadyIsClean'
    BY <1>1 DEF Untouched, LedgerCoversDown, LedgerCoversWire, ReadyIsClean
  <1>11. AnsweredOnce'
    <2> SUFFICES ASSUME connected
                 PROVE  AnsweredOnce'
      BY <1>1 DEF AnsweredOnce
    <2>1. \A i \in 1..Len(replies') : replies'[i].id \in DOMAIN pending' /\ replies'[i].id <= last'
      BY <1>1, <1>4, <1>6 DEF AnsweredOnce
    <2>2. \A i, j \in 1..Len(replies') : i # j => replies'[i].id # replies'[j].id
      BY <1>4, <1>6 DEF AnsweredOnce
    <2>3. \A h \in groups' : /\ h.id \in DOMAIN pending' /\ h.id <= last'
                             /\ pending'[h.id].cmd.op = "group"
                             /\ \A i \in 1..Len(replies') : replies'[i].id # h.id
      BY <1>1, <1>4, <1>6 DEF AnsweredOnce
    <2> QED
      BY <1>1, <2>1, <2>2, <2>3 DEF AnsweredOnce
  <1>12. RecoveryDone'
    BY <1>1, <1>4, <1>5, <1>6 DEF RecoveryDone
  <1>13. ReleasedBefore'
    BY <1>1, <1>4, <1>5, <1>6 DEF ReleasedBefore, Releases
  <1> QED
    BY <1>7, <1>8, <1>9, <1>10, <1>11, <1>12, <1>13

-----------------------------------------------------------------------------
(* Every action is one of these steps                                       *)

\* Time and impatience change nothing else of a call.
LEMMA MarkFacts ==
    ASSUME NEW c \in CallRec, WellFormed(c)
    PROVE  /\ SameCall(c, Expire(c))
           /\ c.late => SameCall(c, GiveUp(c)) /\ ~GiveUp(c).waited /\ GiveUp(c).late = c.late
  BY DEF SameCall, Expire, GiveUp, WellFormed, CallRec

\* An answer frees the broker only of a call it waits for.
LEMMA RepliedFacts ==
    ASSUME NEW c, NEW ok, Replied(c, ok)
    PROVE  Freed(c) /\ (broker' = broker \/ (c.waited /\ c.who = 0))
  BY DEF Replied, Freed

\* The same for the calls that fail with a stream.
LEMMA RepliedErrFacts ==
    ASSUME RepliedErr({pending[i] : i \in DOMAIN pending}), broker' \in Free
    PROVE  broker \in Free \/ \E i \in DOMAIN pending : pending[i].waited /\ pending[i].who = 0
  BY DEF RepliedErr, Free

\* The daemon's threads only queue calls that are well formed.
LEMMA EnqueueFacts ==
    ASSUME HelperInvariant, NEW who \in Nat, NEW cmd \in Command, NEW min \in Nat,
           Enqueue(who, cmd, min),
           cmd.op \in {"down", "up", "releaseAll", "recover", "query"} => who = 0,
           cmd.op = "down" => cmd.key \in Keys /\ recovered = generation,
           \/ who = 0 /\ broker = "idle" /\ broker' \notin Free
           \/ who # 0 /\ broker' = broker,
           UNCHANGED <<core, pending>>
    PROVE  \E c : Queued(c)
  <1> DEFINE c == Call(who, cmd, generation, min)
  <1>1. c \in CallRec
    BY DEF Call, CallRec, HelperInvariant, StateTypes
  <1>2. /\ c.who = who /\ c.cmd = cmd /\ c.gen = generation /\ ~c.late /\ c.waited
        /\ c.keys = {}
    BY DEF Call
  <1>3. calls' = Append(calls, c)
    BY DEF Enqueue
  <1> HIDE DEF c
  <1>4. WellFormed(c)
    BY <1>2 DEF WellFormed
  <1>5. Queued(c)
    BY <1>1, <1>2, <1>3, <1>4 DEF Queued
  <1> QED
    BY <1>5

\* The commands of the protocol.
LEMMA CommandFacts ==
    /\ \A k \in Keys : Press(k) \in Command /\ Lift(k) \in Command
    /\ ReleaseAll \in Command /\ Recover \in Command /\ Query \in Command
    /\ \A e \in Nat : StreamGroup(e) \in Command /\ EndTrack(e) \in Command
  BY DEF Press, Lift, ReleaseAll, Recover, Query, StreamGroup, EndTrack, Command, Ops

\* The steps that queue a call.
LEMMA CallersKeep ==
    ASSUME HelperAssumption, HelperInvariant,
           \/ \E k \in Keys : input_viewport(Press(k)) \/ input_viewport(Lift(k))
           \/ input_viewport(ReleaseAll) \/ query \/ recover
           \/ \E e \in Epochs : stream_group_at_rate(e) \/ end_track(e)
    PROVE  (\E c : Queued(c)) \/ Quiet
  <1> USE CommandFacts DEF proxy, worker, native, core, Free
  <1>1. ASSUME NEW k \in Keys, input_viewport(Press(k))
        PROVE  \E c : Queued(c)
    <2>1. Enqueue(0, Press(k), 0) /\ broker = "idle" /\ broker' = "input" /\ recovered = generation
          /\ UNCHANGED <<core, pending>>
      BY <1>1 DEF input_viewport
    <2>2. Press(k).op = "down" /\ Press(k).key = k
      BY DEF Press
    <2> QED
      BY <2>1, <2>2, EnqueueFacts
  <1>2. ASSUME NEW cmd \in Command, cmd.op \in {"up", "releaseAll"}, input_viewport(cmd)
        PROVE  \E c : Queued(c)
    <2>1. Enqueue(0, cmd, 0) /\ broker = "idle" /\ broker' = "input" /\ UNCHANGED <<core, pending>>
      BY <1>2 DEF input_viewport
    <2> QED
      BY <1>2, <2>1, EnqueueFacts
  <1>3. ASSUME query
        PROVE  \E c : Queued(c)
    <2>1. Enqueue(0, Query, 0) /\ broker = "idle" /\ broker' = "query" /\ UNCHANGED <<core, pending>>
      BY <1>3 DEF query
    <2>2. Query.op = "query"
      BY DEF Query
    <2> QED
      BY <2>1, <2>2, EnqueueFacts
  <1>4. ASSUME recover
        PROVE  \E c : Queued(c)
    <2>1. /\ Enqueue(0, Recover, Cardinality(Used) + 1) /\ broker = "idle" /\ broker' = "recover"
          /\ UNCHANGED <<core, pending>>
      BY <1>4 DEF recover
    <2>2. Cardinality(Used) + 1 \in Nat
      <3>1. IsFiniteSet(Used)
        <4>1. IsFiniteSet(1..MaxEpoch)
          BY FS_Interval DEF HelperAssumption
        <4>2. Used \in SUBSET (1..MaxEpoch)
          BY DEF Used, Epochs
        <4> QED
          BY <4>1, <4>2, FS_Subset
      <3> QED
        BY <3>1, FS_CardinalityType
    <2>3. Recover.op = "recover"
      BY DEF Recover
    <2> QED
      BY <2>1, <2>2, <2>3, EnqueueFacts
  <1>5. ASSUME NEW e \in Epochs, NEW cmd \in Command, cmd.op \in {"group", "end"},
               Enqueue(e, cmd, 0), broker' = broker, UNCHANGED <<core, pending>>
        PROVE  \E c : Queued(c)
    <2>1. e \in Nat /\ e # 0
      BY DEF Epochs, HelperAssumption
    <2> QED
      BY <1>5, <2>1, EnqueueFacts
  <1>6. ASSUME NEW e \in Epochs, stream_group_at_rate(e)
        PROVE  (\E c : Queued(c)) \/ Quiet
    <2>1. broker' = broker /\ UNCHANGED <<core, pending>>
      BY <1>6 DEF stream_group_at_rate
    <2>2. CASE e < minimum
      BY <1>6, <2>1, <2>2 DEF stream_group_at_rate, Quiet
    <2>3. CASE ~(e < minimum)
      <3>1. Enqueue(e, StreamGroup(e), 0) /\ StreamGroup(e) \in Command /\ StreamGroup(e).op = "group"
        <4>1. Enqueue(e, StreamGroup(e), 0)
          BY <1>6, <2>3 DEF stream_group_at_rate
        <4>2. e \in Nat
          BY DEF Epochs, HelperAssumption
        <4> QED
          BY <4>1, <4>2 DEF StreamGroup
      <3> QED
        BY <1>5, <2>1, <3>1
    <2> QED
      BY <2>2, <2>3
  <1>7. ASSUME NEW e \in Epochs, end_track(e)
        PROVE  (\E c : Queued(c)) \/ Quiet
    <2>1. broker' = broker /\ UNCHANGED <<core, pending>>
      BY <1>7 DEF end_track
    <2>2. CASE e < minimum
      BY <1>7, <2>1, <2>2 DEF end_track, Quiet
    <2>3. CASE ~(e < minimum)
      <3>1. Enqueue(e, EndTrack(e), 0) /\ EndTrack(e) \in Command /\ EndTrack(e).op = "end"
        <4>1. Enqueue(e, EndTrack(e), 0)
          BY <1>7, <2>3 DEF end_track
        <4>2. e \in Nat
          BY DEF Epochs, HelperAssumption
        <4> QED
          BY <4>1, <4>2 DEF EndTrack
      <3> QED
        BY <1>5, <2>1, <3>1
    <2> QED
      BY <2>2, <2>3
  <1>8. \A k \in Keys : Lift(k).op = "up"
    BY DEF Lift
  <1>9. ReleaseAll.op = "releaseAll"
    BY DEF ReleaseAll
  <1> QED
    BY <1>1, <1>2, <1>3, <1>4, <1>6, <1>7, <1>8, <1>9

\* The steps that mark a call late or given up.
LEMMA TimeKeeps ==
    ASSUME HelperInvariant,
           QueuedCallExpires \/ SentCallExpires \/ CallerGivesUp
    PROVE  HelperInvariant'
  <1> USE DEF proxy, worker, native, callers, core
  <1>1. /\ calls \in Seq(CallRec) /\ DOMAIN calls = 1..Len(calls)
        /\ \A i \in 1..Len(calls) : calls[i] \in CallRec /\ WellFormed(calls[i])
    BY ElementFacts DEF HelperInvariant, QueueTypes, CallsFormed
  <1>2. /\ pending \in [DOMAIN pending -> CallRec]
        /\ \A i \in DOMAIN pending : pending[i] \in CallRec /\ WellFormed(pending[i])
    BY DEF HelperInvariant, QueueTypes, CallsFormed
  <1>3. ASSUME NEW n \in 1..Len(calls), NEW d, SameCall(calls[n], d),
               calls' = [calls EXCEPT ![n] = d],
               Freed(calls[n]), broker' = broker \/ ~d.waited,
               UNCHANGED <<core, pending>>
        PROVE  HelperInvariant'
    <2>1. d \in CallRec
      BY <1>3 DEF SameCall
    <2>2. /\ calls' \in Seq(CallRec) /\ Len(calls') = Len(calls) /\ calls'[n] = d
          /\ \A i \in 1..Len(calls) : i # n => calls'[i] = calls[i]
      BY <1>1, <1>3, <2>1, ExceptFacts
    <2>3. CallMarked(n)
      BY <1>3, <2>2 DEF CallMarked
    <2> QED
      BY <2>3, CallMarkedKeeps
  <1>4. ASSUME NEW n \in DOMAIN pending, NEW d, SameCall(pending[n], d),
               pending' = [pending EXCEPT ![n] = d],
               Freed(pending[n]), broker' = broker \/ ~d.waited,
               UNCHANGED <<core, calls>>
        PROVE  HelperInvariant'
    <2>1. d \in CallRec
      BY <1>4 DEF SameCall
    <2>2. /\ DOMAIN pending' = DOMAIN pending /\ pending' \in [DOMAIN pending -> CallRec]
          /\ pending'[n] = d
          /\ \A i \in DOMAIN pending : i # n => pending'[i] = pending[i]
      BY <1>2, <1>4, <2>1
    <2>3. RequestMarked(n)
      BY <1>4, <2>2 DEF RequestMarked
    <2> QED
      BY <2>3, RequestMarkedKeeps
  <1>5. CASE QueuedCallExpires
    <2>1. PICK n \in DOMAIN calls :
            calls' = [calls EXCEPT ![n] = Expire(@)]
      BY <1>5 DEF QueuedCallExpires
    <2>2. n \in 1..Len(calls) /\ SameCall(calls[n], Expire(calls[n]))
      BY <1>1, MarkFacts
    <2>3. UNCHANGED <<core, pending>> /\ broker' = broker /\ Freed(calls[n])
      BY <1>5 DEF QueuedCallExpires, Freed
    <2>4. calls' = [calls EXCEPT ![n] = Expire(calls[n])]
      BY <2>1
    <2> QED
      BY <1>3, <2>1, <2>2, <2>3, <2>4
  <1>6. CASE SentCallExpires
    <2>1. PICK n \in DOMAIN pending : pending' = [pending EXCEPT ![n] = Expire(@)]
      BY <1>6 DEF SentCallExpires
    <2>2. SameCall(pending[n], Expire(pending[n]))
      BY <1>2, MarkFacts
    <2>3. UNCHANGED <<core, calls>> /\ broker' = broker /\ Freed(pending[n])
      BY <1>6 DEF SentCallExpires, Freed
    <2>4. pending' = [pending EXCEPT ![n] = Expire(pending[n])]
      BY <2>1
    <2> QED
      BY <1>4, <2>2, <2>3, <2>4
  <1>7. CASE /\ \E i \in DOMAIN calls :
                  /\ calls[i].late /\ calls[i].waited
                  /\ calls' = [calls EXCEPT ![i] = GiveUp(@)]
                  /\ Replied(calls[i], FALSE)
             /\ UNCHANGED <<proxy, worker, wire, replies, native, recovered, made>>
    <2>1. PICK n \in DOMAIN calls : /\ calls[n].late
                                    /\ calls' = [calls EXCEPT ![n] = GiveUp(@)]
                                    /\ Replied(calls[n], FALSE)
      BY <1>7
    <2>2. /\ n \in 1..Len(calls) /\ SameCall(calls[n], GiveUp(calls[n]))
          /\ ~GiveUp(calls[n]).waited /\ GiveUp(calls[n]).late = calls[n].late
      BY <1>1, <2>1, MarkFacts
    <2>3. UNCHANGED <<core, pending>> /\ Freed(calls[n])
      BY <1>7, <2>1, RepliedFacts
    <2>4. calls' = [calls EXCEPT ![n] = GiveUp(calls[n])]
      BY <2>1
    <2> QED
      BY <1>3, <2>2, <2>3, <2>4
  <1>8. CASE /\ \E i \in DOMAIN pending :
                  /\ pending[i].late /\ pending[i].waited
                  /\ pending' = [pending EXCEPT ![i] = GiveUp(@)]
                  /\ Replied(pending[i], FALSE)
             /\ UNCHANGED <<proxy, calls, connected, next, ledger, forgotten, wire, replies,
                            native, recovered, made>>
    <2>1. PICK n \in DOMAIN pending : /\ pending[n].late
                                      /\ pending' = [pending EXCEPT ![n] = GiveUp(@)]
                                      /\ Replied(pending[n], FALSE)
      BY <1>8
    <2>2. SameCall(pending[n], GiveUp(pending[n])) /\ ~GiveUp(pending[n]).waited
      BY <1>2, <2>1, MarkFacts
    <2>3. UNCHANGED <<core, calls>> /\ Freed(pending[n])
      BY <1>8, <2>1, RepliedFacts
    <2>4. pending' = [pending EXCEPT ![n] = GiveUp(pending[n])]
      BY <2>1
    <2> QED
      BY <1>4, <2>2, <2>3, <2>4
  <1> QED
    BY <1>5, <1>6, <1>7, <1>8 DEF CallerGivesUp

\* The worker's other steps.
LEMMA WorkerKeeps ==
    ASSUME HelperInvariant, Refuse \/ WorkerRejects \/ WorkerReceives \/ ConnectionLost
    PROVE  HelperInvariant'
  <1> USE DEF proxy, worker, native, callers, core
  <1>1. CASE Refuse
    <2>1. TurnedAway
      BY <1>1, RepliedFacts DEF Refuse, TurnedAway
    <2> QED
      BY <2>1, TurnedAwayKeeps
  <1>2. CASE WorkerRejects
    <2>1. /\ calls # <<>> /\ calls' = Tail(calls) /\ connected
          /\ UNCHANGED <<generation, ready, connected, next, ledger, wire, replies, helper,
                         last, groups, down, recovered, pending>>
          /\ Freed(Head(calls)) /\ forgotten \subseteq forgotten'
      BY <1>2, RepliedFacts DEF WorkerRejects
    <2>2. ASSUME generation > 0, next = 0
          PROVE  Owed' = {}
      <3>1. Len(calls) \in Nat /\ Len(calls) > 0 /\ Head(calls) = calls[1] /\ 1 \in 1..Len(calls)
        BY <2>1, TailFacts DEF HelperInvariant, QueueTypes
      <3>2. CASE Owed = {}
        BY <2>1, <3>2 DEF Owed
      <3>3. CASE Owed # {}
        <4>1. /\ calls[1].cmd.op = "recover" /\ calls[1].gen = generation
              /\ DOMAIN ledger \subseteq calls[1].keys
          BY <2>1, <2>2, <3>3 DEF HelperInvariant, RecoveryQueued
        <4>2. forgotten' = forgotten \cup {p \in down : p.what \in calls[1].keys}
          BY <1>2, <3>1, <4>1 DEF WorkerRejects, Fenced, BelowCutoff
        <4>3. \A p \in Owed : p.what \in calls[1].keys
          BY <4>1 DEF HelperInvariant, LedgerCoversDown
        <4> QED
          BY <2>1, <4>2, <4>3 DEF Owed
      <3> QED
        BY <3>2, <3>3
    <2>3. TurnedAway
      BY <2>1, <2>2 DEF TurnedAway
    <2> QED
      BY <2>3, TurnedAwayKeeps
  <1>3. CASE ConnectionLost
    <2>1. Dropped
      BY <1>3, RepliedErrFacts DEF ConnectionLost, Disconnected, Dropped
    <2> QED
      BY <2>1, DroppedKeeps
  <1>4. CASE WorkerReceives
    <2> DEFINE r == Head(replies)
               c == pending[r.id]
    <2>1. connected /\ replies # <<>> /\ UNCHANGED <<calls, wire, helper, last, groups, down, forgotten, recovered>>
      BY <1>4 DEF WorkerReceives
    <2>2. c.waited \/ c.late
      <3>1. r = replies[1] /\ 1 \in 1..Len(replies)
        BY <2>1, TailFacts DEF HelperInvariant, QueueTypes
      <3>2. r.id \in DOMAIN pending
        BY <2>1, <3>1 DEF HelperInvariant, AnsweredOnce
      <3> QED
        BY <3>2 DEF HelperInvariant, CallsFormed, WellFormed
    <2>3. CASE /\ \/ c.late
                  \/ ~c.waited /\ c.cmd.op # "group"
                  \/ c.cmd.op = "recover" /\ ~r.ok
               /\ ledger' = IF c.late THEN ledger ELSE Acked(ledger, c, r)
               /\ connected' = FALSE /\ ready' = FALSE /\ generation' = generation + 1
               /\ RepliedErr({pending[i] : i \in DOMAIN pending})
               /\ pending' = [i \in {} |-> Query] /\ replies' = <<>>
               /\ UNCHANGED next
      <3>1. ledger' = ledger
        BY <2>2, <2>3 DEF Acked
      <3>2. Dropped
        BY <2>1, <2>3, <3>1, RepliedErrFacts DEF Dropped
      <3> QED
        BY <3>2, DroppedKeeps
    <2>4. CASE /\ ~c.late
               /\ ~(c.cmd.op = "recover" /\ ~r.ok)
               /\ ledger' = Acked(ledger, c, r)
               /\ ready' = (\/ ready \/ c.cmd.op = "recover"
                            \/ c.gen = 0 /\ c.cmd.op # "group")
               /\ Replied(c, r.ok)
               /\ pending' = [i \in DOMAIN pending \ {r.id} |-> pending[i]]
               /\ replies' = Tail(replies)
               /\ UNCHANGED <<generation, connected, next>>
      <3>1. Freed(c) /\ (broker' = broker \/ (c.waited /\ c.who = 0))
        BY <2>4, RepliedFacts
      <3>2. Received(r, c)
        BY <2>1, <2>4, <3>1 DEF Received
      <3> QED
        BY <3>2, ReceivedKeeps
    <2> QED
      BY <1>4, <2>3, <2>4 DEF WorkerReceives
  <1> QED
    BY <1>1, <1>2, <1>3, <1>4

\* The steps of serve_until and of its process.
LEMMA HelperKeeps ==
    ASSUME HelperInvariant, HelperExecutes \/ HelperStops \/ HelperCleansUp \/ HelperDies
    PROVE  HelperInvariant'
  <1> USE DEF proxy, worker, native, callers, core
  <1>1. CASE HelperExecutes
    <2> DEFINE req == Head(wire)
    <2>1. /\ helper = "serving" /\ wire # <<>> /\ req.cmd.op # "group"
          /\ req.cmd.op = "recover" => last = 0
          /\ last' = req.id /\ wire' = Tail(wire)
          /\ UNCHANGED <<generation, ready, connected, next, ledger, helper, groups, recovered,
                         forgotten, calls, pending, broker>>
      BY <1>1 DEF HelperExecutes
    <2>2. \E ok \in BOOLEAN : /\ Reply(req.id, ok) /\ down' \in {down, Injected(down, req)}
                              /\ ok => down' = Injected(down, req)
      BY <1>1 DEF HelperExecutes
    <2>3. PICK ok \in BOOLEAN : /\ Reply(req.id, ok) /\ down' \in {down, Injected(down, req)}
                                /\ ok => down' = Injected(down, req)
      BY <2>2
    <2>4. Replies(req.id, ok)
      BY <2>3 DEF Reply, Replies
    <2>5. Executed(req, ok)
      BY <2>1, <2>3, <2>4 DEF Executed
    <2> QED
      BY <2>5, ExecutedKeeps
  <1>2. CASE HelperStops
    <2>1. CASE connected
      <3>1. Dropped
        BY <1>2, <2>1, RepliedErrFacts DEF HelperStops, Disconnected, Dropped
      <3> QED
        BY <3>1, DroppedKeeps
    <2>2. CASE ~connected
      <3>1. Ended
        BY <1>2, <2>2 DEF HelperStops, Ended
      <3> QED
        BY <3>1, EndedKeeps
    <2> QED
      BY <2>1, <2>2
  <1>3. CASE HelperCleansUp
    <2>1. ~connected /\ wire = <<>>
      BY <1>3 DEF HelperCleansUp, HelperInvariant, Connection
    <2>2. Ended
      BY <1>3, <2>1 DEF HelperCleansUp, Ended
    <2> QED
      BY <2>2, EndedKeeps
  <1>4. CASE HelperDies
    <2>1. CASE connected
      <3>1. Dropped
        BY <1>4, <2>1, RepliedErrFacts DEF HelperDies, Disconnected, Dropped
      <3> QED
        BY <3>1, DroppedKeeps
    <2>2. CASE ~connected
      <3>1. Ended
        BY <1>4, <2>2 DEF HelperDies, Ended
      <3> QED
        BY <3>1, EndedKeeps
    <2> QED
      BY <2>1, <2>2
  <1> QED
    BY <1>1, <1>2, <1>3, <1>4

\* The other steps of the broker and of the media tasks.
LEMMA OthersKeep ==
    ASSUME HelperInvariant,
           \/ RecoverReturns \/ RecoverFails
           \/ \E e \in Epochs : StartMedia(e) \/ EndTrackBusy(e) \/ retain_uncertain_capture(e)
    PROVE  HelperInvariant'
  <1>1. Quiet \/ Adopted
    BY DEF RecoverReturns, RecoverFails, StartMedia, EndTrackBusy, retain_uncertain_capture,
           Quiet, Adopted, Free, proxy, worker, native, callers, core
  <1> QED
    BY <1>1, QuietKeeps

-----------------------------------------------------------------------------
(* Theorems                                                                 *)

\* Nothing is queued, sent, pressed or in the ledger at the start.
LEMMA HelperInit ==
    ASSUME Init
    PROVE  HelperInvariant
  <1>1. /\ calls = <<>> /\ wire = <<>> /\ replies = <<>> /\ groups = {} /\ down = {}
        /\ Len(calls) = 0 /\ Len(wire) = 0 /\ Len(replies) = 0
        /\ DOMAIN pending = {} /\ pending \in [{} -> CallRec]
        /\ DOMAIN ledger = {} /\ ledger \in [{} -> Nat]
        /\ generation = 0 /\ recovered = 0 /\ next = 0 /\ last = 0
        /\ ready = FALSE /\ connected = FALSE /\ helper = "none"
    BY DEF Init
  <1>2. QueueTypes /\ StateTypes
    <2>1. <<>> \in Seq(CallRec) /\ <<>> \in Seq(Request) /\ <<>> \in Seq(Response)
      OBVIOUS
    <2>2. QueueTypes
      BY <1>1, <2>1 DEF QueueTypes
    <2>3. {ready, connected} \subseteq BOOLEAN /\ helper \in {"none", "serving", "ending"}
      BY <1>1, Zenon
    <2>4. {generation, next, last, recovered} \subseteq Nat
      BY <1>1
    <2>5. down \subseteq [what : Keys, gen : Nat]
      BY <1>1
    <2>6. DOMAIN ledger \subseteq Keys /\ ledger \in [DOMAIN ledger -> Nat]
      BY <1>1
    <2>7. StateTypes
      BY <2>3, <2>4, <2>5, <2>6, Zenon DEF StateTypes
    <2> QED
      BY <2>2, <2>7
  <1>3. CallsFormed /\ Connection /\ Generations /\ PressesAreOwned /\ InOrder /\ AnsweredOnce
    BY <1>1 DEF CallsFormed, Connection, Generations, PressesAreOwned, InOrder, AnsweredOnce
  <1>4. WaitsForNewest /\ WaitsWhenBusy /\ RecoveryQueued /\ NotYetReady /\ KeysNamedFirst /\ RecoveryOnly
    BY <1>1 DEF WaitsForNewest, WaitsWhenBusy, RecoveryQueued, NotYetReady, KeysNamedFirst, RecoveryOnly
  <1>5. RecoverySent /\ Untouched /\ RecoveryDone /\ LedgerCoversDown /\ LedgerCoversWire
    BY <1>1 DEF RecoverySent, Untouched, RecoveryDone, LedgerCoversDown, LedgerCoversWire, Owed
  <1>6. ReleasedBefore /\ ReadyIsClean
    BY <1>1 DEF ReleasedBefore, ReadyIsClean
  <1> QED
    BY <1>2, <1>3, <1>4, <1>5, <1>6 DEF HelperInvariant

\* Every step keeps the invariant.
LEMMA HelperStep ==
    ASSUME HelperAssumption, HelperInvariant, [Next]_vars
    PROVE  HelperInvariant'
  <1>1. CASE UNCHANGED vars
    <2>1. Quiet
      BY <1>1 DEF vars, Quiet, proxy, worker, native, callers, core
    <2> QED
      BY <2>1, QuietKeeps
  <1>2. CASE \/ \E k \in Keys : input_viewport(Press(k)) \/ input_viewport(Lift(k))
             \/ input_viewport(ReleaseAll) \/ query \/ recover
             \/ \E e \in Epochs : stream_group_at_rate(e) \/ end_track(e)
    BY <1>2, CallersKeep, QueuedKeeps, QuietKeeps
  <1>3. CASE \/ RecoverReturns \/ RecoverFails
             \/ \E e \in Epochs : StartMedia(e) \/ EndTrackBusy(e) \/ retain_uncertain_capture(e)
    BY <1>3, OthersKeep
  <1>4. CASE QueuedCallExpires \/ SentCallExpires \/ CallerGivesUp
    BY <1>4, TimeKeeps
  <1>5. CASE Refuse \/ WorkerRejects \/ WorkerReceives \/ ConnectionLost
    BY <1>5, WorkerKeeps
  <1>6. CASE Connect
    BY <1>6, ConnectKeeps
  <1>7. CASE WorkerSends
    BY <1>7, SendKeeps
  <1>8. CASE HelperExecutes \/ HelperStops \/ HelperCleansUp \/ HelperDies
    BY <1>8, HelperKeeps
  <1>9. CASE GroupStarts
    BY <1>9, GroupStartsKeeps
  <1>10. CASE \E g \in groups : GroupEnds(g)
    BY <1>10, GroupEndsKeeps
  <1> QED
    BY <1>1, <1>2, <1>3, <1>4, <1>5, <1>6, <1>7, <1>8, <1>9, <1>10 DEF Next

\* The channel keeps its invariant through lost, late and overtaken answers,
\* dead helpers and streams and dropped recoveries (desktop_ipc.rs 393-592).
THEOREM ChannelIsSound ==
    ASSUME HelperAssumption
    PROVE  Spec => []HelperInvariant
  <1>1. Init => HelperInvariant
    BY HelperInit
  <1>2. HelperInvariant /\ [Next]_vars => HelperInvariant'
    BY HelperStep
  <1> QED
    BY <1>1, <1>2, PTL DEF Spec

\* Whatever the OS holds down is in the ledger, so the recovery after a lost
\* helper names it (Ledger::record and Ledger::ack, desktop_ipc.rs 393-438);
\* except for the presses whose recovery was dropped at its deadline after it
\* had connected (desktop_ipc.rs 501).
THEOREM DownIsInTheLedger ==
    ASSUME HelperAssumption
    PROVE  Spec => []LedgerCoversDown
  <1>1. HelperInvariant => LedgerCoversDown
    BY DEF HelperInvariant
  <1> QED
    BY <1>1, ChannelIsSound, PTL

\* A generation that is ready holds nothing an earlier one pressed, except what
\* a dropped connecting recovery named (proxy_worker, desktop_ipc.rs 501, 535).
THEOREM ReadyInheritsNothing ==
    ASSUME HelperAssumption
    PROVE  Spec => []ReadyIsClean
  <1>1. HelperInvariant => ReadyIsClean
    BY DEF HelperInvariant
  <1> QED
    BY <1>1, ChannelIsSound, PTL

\* What a step may do to the generations, to what is down and to what is
\* forgotten.
LEMMA StepMaps ==
    ASSUME HelperInvariant, [Next]_vars
    PROVE  \/ UNCHANGED <<generation, recovered, forgotten>>
           \/ generation' = generation + 1 /\ UNCHANGED <<recovered, down, forgotten>>
           \/ ready /\ recovered' = generation /\ UNCHANGED <<generation, down, forgotten>>
           \/ WorkerRejects
  <1> USE DEF proxy, worker, native, callers, core
  <1>1. CASE UNCHANGED vars
    BY <1>1 DEF vars
  <1>2. CASE \/ \E k \in Keys : input_viewport(Press(k)) \/ input_viewport(Lift(k))
             \/ input_viewport(ReleaseAll) \/ query \/ recover
             \/ \E e \in Epochs : stream_group_at_rate(e) \/ end_track(e)
    BY <1>2 DEF input_viewport, query, recover, stream_group_at_rate, end_track
  <1>3. CASE \/ RecoverReturns \/ RecoverFails
             \/ \E e \in Epochs : StartMedia(e) \/ EndTrackBusy(e) \/ retain_uncertain_capture(e)
    BY <1>3 DEF RecoverReturns, RecoverFails, StartMedia, EndTrackBusy, retain_uncertain_capture
  <1>4. CASE QueuedCallExpires \/ SentCallExpires \/ CallerGivesUp
    BY <1>4 DEF QueuedCallExpires, SentCallExpires, CallerGivesUp
  <1>5. CASE Refuse \/ Connect \/ WorkerSends
    BY <1>5 DEF Refuse, Connect, WorkerSends
  <1>6. CASE WorkerReceives \/ ConnectionLost
    BY <1>6 DEF WorkerReceives, ConnectionLost, Disconnected
  <1>7. CASE HelperExecutes \/ HelperCleansUp \/ GroupStarts \/ \E g \in groups : GroupEnds(g)
    BY <1>7 DEF HelperExecutes, HelperCleansUp, GroupStarts, GroupEnds
  <1>8. CASE HelperStops \/ HelperDies
    BY <1>8 DEF HelperStops, HelperDies, Disconnected
  <1> QED
    BY <1>1, <1>2, <1>3, <1>4, <1>5, <1>6, <1>7, <1>8 DEF Next

\* What the worker drops: nothing that is down, or the recovery that opened a
\* generation which the broker has not adopted.
LEMMA RejectedMaps ==
    ASSUME HelperInvariant, WorkerRejects
    PROVE  /\ UNCHANGED <<generation, recovered, down>>
           /\ \/ UNCHANGED forgotten
              \/ /\ recovered # generation
                 /\ \E keys \in SUBSET Keys :
                        forgotten' = forgotten \cup {p \in down : p.what \in keys}
  <1> USE DEF proxy, worker, native, callers
  <1> DEFINE c == Head(calls)
  <1>1. connected /\ calls # <<>> /\ UNCHANGED <<generation, recovered, down>>
    BY DEF WorkerRejects
  <1>2. /\ Len(calls) \in Nat /\ Len(calls) >= 1 /\ c = calls[1] /\ c \in CallRec
        /\ 1 \in 1..Len(calls)
    BY <1>1, TailFacts DEF HelperInvariant, QueueTypes
  <1> HIDE DEF c
  <1>3. \/ UNCHANGED forgotten
        \/ ~Fenced(c) /\ forgotten' = forgotten \cup {p \in down : p.what \in c.keys}
    BY DEF WorkerRejects, c
  <1>4. CASE ~Fenced(c) /\ forgotten' = forgotten \cup {p \in down : p.what \in c.keys}
    <2>1. CASE c.keys = {} \/ down = {}
      BY <1>1, <1>4, <2>1
    <2>2. CASE c.keys # {} /\ down # {}
      <3>1. c.gen = generation
        BY <1>4 DEF Fenced
      <3>2. next = 0
        BY <1>2, <2>2, <3>1 DEF HelperInvariant, KeysNamedFirst
      <3>3. generation # 0
        <4>1. last = 0
          BY <1>1, <3>2 DEF HelperInvariant, InOrder, StateTypes, QueueTypes
        <4> QED
          BY <1>1, <2>2, <3>2, <4>1 DEF HelperInvariant, RecoverySent
      <3>4. recovered # generation
        BY <1>1, <3>2, <3>3 DEF HelperInvariant, NotYetReady, StateTypes
      <3>5. c.keys \in SUBSET Keys
        BY <1>2, RecordFacts
      <3> QED
        BY <1>1, <1>4, <3>4, <3>5
    <2> QED
      BY <2>1, <2>2
  <1> QED
    BY <1>1, <1>3, <1>4

\* To the broker the channel is a backend that adopts a new generation only
\* with nothing held, whatever was lost on the way, except for keys that it
\* abandoned before, with a connecting recovery dropped at its deadline
\* (InputBackend; desktop_ipc.rs 501).
THEOREM ChannelIsABackend ==
    ASSUME HelperAssumption
    PROVE  Spec => BackendSpec
  <1> DEFINE held == {p.what : p \in Owed}
             abandoned == {p.what : p \in forgotten}
  <1>1. Init => ImplementsBackend!Init
    BY DEF Init, ImplementsBackend!Init, Owed
  <1>2. HelperInvariant /\ HelperInvariant' /\ [Next]_vars
          => [ImplementsBackend!Next]_<<generation, recovered, held, abandoned>>
    <2> SUFFICES ASSUME HelperInvariant, HelperInvariant', [Next]_vars
                 PROVE  ImplementsBackend!Next
      OBVIOUS
    <2>1. held' \in SUBSET Keys
      BY DEF HelperInvariant, StateTypes, Owed
    <2>2. CASE UNCHANGED <<generation, recovered, forgotten>>
      <3>1. ImplementsBackend!Inject
        BY <2>1, <2>2 DEF ImplementsBackend!Inject
      <3> QED
        BY <3>1 DEF ImplementsBackend!Next
    <2>3. CASE generation' = generation + 1 /\ UNCHANGED <<recovered, down, forgotten>>
      <3>1. ImplementsBackend!Lose
        BY <2>3 DEF ImplementsBackend!Lose, Owed
      <3> QED
        BY <3>1 DEF ImplementsBackend!Next
    <2>4. CASE /\ recovered # generation
               /\ ready /\ recovered' = generation /\ UNCHANGED <<generation, down, forgotten>>
      <3>1. Owed = {}
        BY <2>4 DEF HelperInvariant, PressesAreOwned, ReadyIsClean, Owed
      <3>2. ImplementsBackend!Adopt
        BY <2>4, <3>1 DEF ImplementsBackend!Adopt, Owed
      <3> QED
        BY <3>2 DEF ImplementsBackend!Next
    <2>5. ASSUME UNCHANGED <<generation, recovered, down>>, recovered # generation,
                 NEW keys \in SUBSET Keys,
                 forgotten' = forgotten \cup {p \in down : p.what \in keys}
          PROVE  ImplementsBackend!Next
      <3> DEFINE dropped == {p.what : p \in {q \in Owed : q.what \in keys}}
      <3>1. dropped \in SUBSET held
        OBVIOUS
      <3>2. held' = held \ dropped
        BY <2>5 DEF Owed
      <3>3. abandoned' = abandoned \cup dropped
        BY <2>5 DEF Owed
      <3>4. ImplementsBackend!Abandon
        BY <2>5, <3>1, <3>2, <3>3 DEF ImplementsBackend!Abandon
      <3> QED
        BY <3>4 DEF ImplementsBackend!Next
    <2> QED
      BY <2>2, <2>3, <2>4, <2>5, StepMaps, RejectedMaps
  <1> QED
    BY <1>1, <1>2, ChannelIsSound, PTL DEF Spec, BackendSpec, ImplementsBackend!Spec

-----------------------------------------------------------------------------
(* The guards of the native captures                                        *)
(*                                                                          *)
(* A media task holds the guard of its capture until the helper said that   *)
(* the capture ended, or until it leaves the guard among the uncertain ones *)
(* for the next recovery.  What has to be ruled out is a group that starts  *)
(* after its end was answered, and a cutoff above a capture still alive.    *)

MediaStates == {Unused, "guarded", "streaming", "ending", "unconfirmed", "done"}
MediaTypes ==
    /\ media \in [Epochs -> MediaStates] /\ minimum \in Nat
    /\ uncertain \subseteq Epochs /\ captures \subseteq Epochs

\* The calls about a track are its media task's, which waits for one at a time.
OfMedia(c) ==
    /\ c.who \in {0} \cup Epochs
    /\ c.cmd.op \in {"group", "end"} => c.who # 0
    /\ c.who # 0 => c.cmd.op \in {"group", "end"} /\ c.cmd.epoch = c.who
    /\ c.who # 0 /\ c.waited =>
        media[c.who] = (IF c.cmd.op = "group" THEN "streaming" ELSE "ending")
MediaCalls ==
    /\ \A i \in 1..Len(calls) : OfMedia(calls[i])
    /\ \A i \in DOMAIN pending : OfMedia(pending[i])
BothAwaited(c, d) == c.waited /\ d.waited /\ c.who # 0 /\ c.who = d.who
MediaWaitsForOne ==
    /\ \A i, j \in 1..Len(calls) : BothAwaited(calls[i], calls[j]) => i = j
    /\ \A i, j \in DOMAIN pending : BothAwaited(pending[i], pending[j]) => i = j
    /\ \A i \in 1..Len(calls), j \in DOMAIN pending : ~BothAwaited(calls[i], pending[j])

\* A recovery of the first generation precedes every capture.
CutsNothing(c) == c.gen = 0 /\ c.cmd.op = "recover" => c.min = 1
FirstGeneration ==
    /\ generation = 0 /\ ~ready => \A e \in Epochs : media[e] = Unused
    /\ \A i \in 1..Len(calls) : CutsNothing(calls[i])
    /\ \A i \in DOMAIN pending : CutsNothing(pending[i])

MediaInvariant == MediaTypes /\ MediaCalls /\ MediaWaitsForOne /\ FirstGeneration

\* Neither alive nor asked for: so for a track below the cutoff, and for one
\* whose media task is over and left no uncertain guard.
Starts(e) == \E i \in 1..Len(wire) : wire[i].cmd.op = "group" /\ wire[i].cmd.epoch = e
Absent(e) == e \notin captures /\ ~Starts(e)
GroupsNamed == \A i \in 1..Len(wire) : wire[i].cmd.op = "group" => wire[i].cmd.epoch \in Epochs
BelowMinimum == \A e \in Epochs : e < minimum => Absent(e)
OverIsOver ==
    \A e \in Epochs : media[e] = Unused \/ (media[e] = "done" /\ e \notin uncertain) => Absent(e)

\* The end that is waited for was sent behind every group of its track.
EndsLast ==
    connected =>
    /\ \A i \in DOMAIN pending : pending[i].cmd.op = "end" /\ pending[i].waited =>
        \A j \in 1..Len(wire) :
            wire[j].cmd.op = "group" /\ wire[j].cmd.epoch = pending[i].who => wire[j].id < i
    /\ \A i \in 1..Len(replies) :
        replies[i].ok /\ pending[replies[i].id].cmd.op = "end" /\ pending[replies[i].id].waited =>
            pending[replies[i].id].who \notin captures

\* The recovery that is answered is the first request, and a helper of a later
\* generation has no capture before it.
RecoveredFirst ==
    /\ \A i \in 1..Len(replies) : pending[replies[i].id].cmd.op = "recover" => replies[i].id = 1
    /\ connected /\ generation > 0 /\ (next = 0 \/ 1 \in DOMAIN pending) => ~ready
    /\ connected /\ generation > 0 /\ ~ready => captures = {}
    /\ helper = "none" => captures = {}

CaptureInvariant ==
    /\ HelperInvariant /\ MediaInvariant
    /\ GroupsNamed /\ BelowMinimum /\ OverIsOver /\ EndsLast /\ RecoveredFirst

\* The media tasks of W are answered.
Told(W) ==
    /\ W \subseteq Epochs /\ media' \in [Epochs -> MediaStates]
    /\ \A e \in Epochs \ W : media'[e] = media[e]
    /\ \A e \in W : /\ media[e] \in {"streaming", "ending"}
                    /\ media'[e] \in {"guarded", "unconfirmed", "done"}

\* What is left of a call when the media tasks of W have been answered.
LeftOf(W, c, d) ==
    /\ d.who = c.who /\ d.cmd = c.cmd /\ d.gen = c.gen /\ d.min = c.min
    /\ d.waited => c.waited /\ c.who \notin W

\* Calls are only taken from the queue, answered or given up.
LEMMA MediaKept ==
    ASSUME MediaInvariant, HelperInvariant, NEW W, Told(W), NEW n \in {0, 1},
           Len(calls') \in Nat,
           \A i \in 1..Len(calls') : i + n \in 1..Len(calls) /\ LeftOf(W, calls[i + n], calls'[i]),
           \A i \in DOMAIN pending' : i \in DOMAIN pending /\ LeftOf(W, pending[i], pending'[i]),
           generation' = 0 /\ ~ready' => generation = 0 /\ ~ready,
           minimum' \in Nat, uncertain' \subseteq Epochs, captures' \subseteq Epochs
    PROVE  MediaInvariant'
  <1> USE DEF MediaInvariant
  <1>1. MediaTypes'
    BY DEF MediaTypes, Told
  <1>2. ASSUME NEW c, NEW d, OfMedia(c), LeftOf(W, c, d)
        PROVE  OfMedia(d)'
    BY <1>2 DEF OfMedia, LeftOf, Told
  <1>3. MediaCalls'
    BY <1>2 DEF MediaCalls
  <1>4. ASSUME NEW a, NEW b, NEW c, NEW d, LeftOf(W, a, c), LeftOf(W, b, d), BothAwaited(c, d)
        PROVE  BothAwaited(a, b)
    BY <1>4 DEF BothAwaited, LeftOf
  <1>5. /\ \A i, j \in 1..Len(calls') : BothAwaited(calls'[i], calls'[j]) => i + n = j + n
        /\ \A i, j \in DOMAIN pending' : BothAwaited(pending'[i], pending'[j]) => i = j
        /\ \A i \in 1..Len(calls'), j \in DOMAIN pending' : ~BothAwaited(calls'[i], pending'[j])
    BY <1>4 DEF MediaWaitsForOne
  <1>6. MediaWaitsForOne'
    <2>1. \A i, j \in 1..Len(calls') : i + n = j + n => i = j
      OBVIOUS
    <2>2. \A c, d : BothAwaited(c, d)' <=> BothAwaited(c, d)
      BY DEF BothAwaited
    <2> QED
      BY <1>5, <2>1 DEF MediaWaitsForOne, BothAwaited
  <1>7. FirstGeneration'
    <2>1. ASSUME generation' = 0, ~ready'
          PROVE  \A e \in Epochs : media'[e] = Unused
      BY <2>1 DEF FirstGeneration, Told, Unused
    <2>2. \A c, d : LeftOf(W, c, d) /\ CutsNothing(c) => CutsNothing(d)
      BY DEF LeftOf, CutsNothing
    <2> QED
      BY <2>1, <2>2 DEF FirstGeneration, CutsNothing
  <1> QED
    BY <1>1, <1>3, <1>6, <1>7

\* Nothing that is absent appears when nothing is sent and no capture starts.
LEMMA AbsenceKept ==
    ASSUME CaptureInvariant, NEW W, Told(W),
           \A i \in 1..Len(wire') : \E j \in 1..Len(wire) : wire'[i] = wire[j],
           captures' \subseteq captures, uncertain \subseteq uncertain',
           \A e \in Epochs : e < minimum' => Absent(e),
           \A e \in W : media'[e] = "done" => Absent(e)
    PROVE  GroupsNamed' /\ BelowMinimum' /\ OverIsOver'
  <1>1. \A e : Absent(e) => Absent(e)'
    BY DEF Absent, Starts
  <1>2. BelowMinimum'
    BY <1>1 DEF BelowMinimum
  <1>3. ASSUME NEW e \in Epochs, media'[e] = Unused \/ (media'[e] = "done" /\ e \notin uncertain')
        PROVE  Absent(e)'
    <2>1. CASE e \in W
      BY <1>1, <1>3, <2>1 DEF Told, Unused
    <2>2. CASE e \notin W
      <3>1. media'[e] = media[e]
        BY <2>2 DEF Told
      <3> QED
        BY <1>1, <1>3, <3>1 DEF CaptureInvariant, OverIsOver
    <2> QED
      BY <2>1, <2>2
  <1>4. GroupsNamed'
    BY DEF CaptureInvariant, GroupsNamed
  <1> QED
    BY <1>2, <1>3, <1>4 DEF OverIsOver

\* Calls are taken from the queue or marked, requests are marked, and no media
\* task is told that its capture ended, but below the cutoff.
LEMMA CallsDone ==
    ASSUME CaptureInvariant, HelperInvariant', NEW W, Told(W), NEW n \in {0, 1},
           Len(calls') \in Nat,
           \A i \in 1..Len(calls') : i + n \in 1..Len(calls) /\ LeftOf(W, calls[i + n], calls'[i]),
           DOMAIN pending' = DOMAIN pending,
           \A i \in DOMAIN pending : LeftOf(W, pending[i], pending'[i]),
           \A e \in W : media'[e] = "done" => e < minimum,
           UNCHANGED <<generation, ready, connected, next, wire, replies, helper>>,
           UNCHANGED <<minimum, uncertain, captures>>
    PROVE  CaptureInvariant'
  <1> USE DEF CaptureInvariant
  <1>1. MediaInvariant'
    BY MediaKept DEF MediaInvariant, MediaTypes
  <1>2. GroupsNamed' /\ BelowMinimum' /\ OverIsOver'
    <2>1. \A e \in Epochs : e < minimum => Absent(e)
      BY DEF BelowMinimum
    <2>2. \A e \in W : media'[e] = "done" => Absent(e)
      BY <2>1 DEF Told
    <2>3. \A i \in 1..Len(wire') : \E j \in 1..Len(wire) : wire'[i] = wire[j]
      OBVIOUS
    <2> QED
      BY <2>1, <2>2, <2>3, AbsenceKept
  <1>3. connected => \A i \in 1..Len(replies) : replies[i].id \in DOMAIN pending
    BY DEF HelperInvariant, AnsweredOnce
  <1>4. ~connected => Len(replies) = 0
    BY DEF HelperInvariant, Connection
  <1>5. EndsLast'
    <2> SUFFICES ASSUME connected
                 PROVE  EndsLast'
      BY DEF EndsLast
    <2>1. \A i \in DOMAIN pending : /\ pending'[i].who = pending[i].who /\ pending'[i].cmd = pending[i].cmd
                                    /\ pending'[i].waited => pending[i].waited
      BY DEF LeftOf
    <2>2. \A i \in DOMAIN pending' : pending'[i].cmd.op = "end" /\ pending'[i].waited =>
            \A j \in 1..Len(wire') :
                wire'[j].cmd.op = "group" /\ wire'[j].cmd.epoch = pending'[i].who => wire'[j].id < i
      BY <2>1 DEF EndsLast
    <2>3. \A i \in 1..Len(replies') :
            replies'[i].ok /\ pending'[replies'[i].id].cmd.op = "end" /\ pending'[replies'[i].id].waited =>
                pending'[replies'[i].id].who \notin captures'
      BY <1>3, <2>1 DEF EndsLast
    <2> QED
      BY <2>2, <2>3 DEF EndsLast
  <1>6. RecoveredFirst'
    <2>1. \A i \in 1..Len(replies) : pending'[replies[i].id].cmd.op = "recover" => replies[i].id = 1
      BY <1>3, <1>4 DEF RecoveredFirst, LeftOf, HelperInvariant, StateTypes
    <2> QED
      BY <2>1 DEF RecoveredFirst
  <1> QED
    BY <1>1, <1>2, <1>5, <1>6

\* The stream is given up, with everything in flight.
LEMMA StreamGone ==
    ASSUME CaptureInvariant, HelperInvariant', NEW W, Told(W), UNCHANGED calls,
           \A i \in 1..Len(calls) : LeftOf(W, calls[i], calls[i]),
           ~connected', DOMAIN pending' = {}, replies' = <<>>,
           generation' = 0 /\ ~ready' => generation = 0 /\ ~ready,
           \A i \in 1..Len(wire') : \E j \in 1..Len(wire) : wire'[i] = wire[j],
           \A e \in W : media'[e] # "done",
           minimum' \in Nat, \A e \in Epochs : e < minimum' => Absent(e),
           helper' = "none" => helper = "none" \/ captures' = {},
           captures' \subseteq captures, UNCHANGED uncertain
    PROVE  CaptureInvariant'
  <1> USE DEF CaptureInvariant
  <1>1. MediaInvariant'
    <2>1. \A i \in 1..Len(calls') : i + 0 \in 1..Len(calls) /\ LeftOf(W, calls[i + 0], calls'[i])
      BY DEF HelperInvariant, QueueTypes
    <2>2. Len(calls') \in Nat /\ captures' \subseteq Epochs /\ uncertain' \subseteq Epochs
      BY ElementFacts DEF HelperInvariant, QueueTypes, MediaInvariant, MediaTypes
    <2> QED
      BY <2>1, <2>2, MediaKept
  <1>2. GroupsNamed' /\ BelowMinimum' /\ OverIsOver'
    BY AbsenceKept
  <1>3. EndsLast'
    BY DEF EndsLast
  <1>4. RecoveredFirst'
    BY DEF RecoveredFirst
  <1> QED
    BY <1>1, <1>2, <1>3, <1>4

\* Whoever waited for a request that failed with the stream is told so.
LEMMA ToldOfTheEnd ==
    ASSUME CaptureInvariant, RepliedErr({pending[i] : i \in DOMAIN pending})
    PROVE  \E W : /\ Told(W) /\ \A e \in W : media'[e] # "done"
                  /\ \A i \in 1..Len(calls) : LeftOf(W, calls[i], calls[i])
  <1> USE DEF CaptureInvariant, MediaInvariant
  <1> DEFINE W == {e \in Epochs : \E i \in DOMAIN pending : pending[i].waited /\ pending[i].who = e}
  <1>1. ASSUME NEW e \in Epochs, NEW i \in DOMAIN pending, pending[i].waited, pending[i].who = e
        PROVE  media[e] \in {"streaming", "ending"}
    <2>1. e # 0
      BY DEF Epochs
    <2> QED
      BY <1>1, <2>1 DEF MediaCalls, OfMedia
  <1>2. \A e \in W : MediaAfter(e, FALSE)[e] \in {"guarded", "unconfirmed"}
    BY DEF MediaAfter, MediaTypes
  <1>3. media' = [e \in Epochs |-> IF e \in W THEN MediaAfter(e, FALSE)[e] ELSE media[e]]
    BY DEF RepliedErr
  <1>4. \A i \in 1..Len(calls) : calls[i].waited => calls[i].who \notin W
    <2> SUFFICES ASSUME NEW i \in 1..Len(calls), calls[i].waited, NEW j \in DOMAIN pending,
                        pending[j].waited, pending[j].who = calls[i].who, calls[i].who \in Epochs
                 PROVE  FALSE
      OBVIOUS
    <2>1. calls[i].who # 0
      BY DEF Epochs
    <2>2. BothAwaited(calls[i], pending[j])
      BY <2>1 DEF BothAwaited
    <2> QED
      BY <2>2 DEF MediaWaitsForOne
  <1>5. \A e \in W : media[e] \in {"streaming", "ending"}
    BY <1>1
  <1>6. W \subseteq Epochs
    OBVIOUS
  <1> HIDE DEF W
  <1>7. Told(W)
    BY <1>2, <1>3, <1>5, <1>6 DEF Told, MediaTypes, MediaStates
  <1>8. \A e \in W : media'[e] # "done"
    BY <1>2, <1>3, <1>6
  <1>9. \A i \in 1..Len(calls) : LeftOf(W, calls[i], calls[i])
    BY <1>4 DEF LeftOf
  <1> QED
    BY <1>7, <1>8, <1>9

\* The one that waited for a call is told the answer.
Awaiting(c) == IF c.waited /\ c.who # 0 THEN {c.who} ELSE {}
LEMMA ToldTheAnswer ==
    ASSUME CaptureInvariant, NEW c, OfMedia(c), NEW ok \in BOOLEAN, Replied(c, ok)
    PROVE  /\ Told(Awaiting(c))
           /\ \A e \in Awaiting(c) : /\ e = c.who /\ c.waited /\ c.cmd.epoch = e
                                     /\ media'[e] = "done" => ok /\ c.cmd.op = "end"
  <1> USE DEF CaptureInvariant, MediaInvariant
  <1>1. CASE c.waited /\ c.who # 0
    <2>1. /\ c.who \in Epochs /\ c.cmd.op \in {"group", "end"} /\ c.cmd.epoch = c.who
          /\ media[c.who] = (IF c.cmd.op = "group" THEN "streaming" ELSE "ending")
      BY <1>1 DEF OfMedia
    <2>2. media' = [media EXCEPT ![c.who] = IF media[c.who] # "ending" THEN "guarded"
                                            ELSE IF ok THEN "done" ELSE "unconfirmed"]
      BY <1>1 DEF Replied, MediaAfter
    <2>3. Awaiting(c) = {c.who}
      BY <1>1 DEF Awaiting
    <2> QED
      BY <1>1, <2>1, <2>2, <2>3 DEF Told, MediaTypes, MediaStates
  <1>2. CASE ~(c.waited /\ c.who # 0)
    <2>1. media' = media /\ Awaiting(c) = {}
      BY <1>2 DEF Replied, Awaiting
    <2> QED
      BY <2>1 DEF Told, MediaTypes
  <1> QED
    BY <1>1, <1>2

\* A call is queued: a media task's when it waits for none.
LEMMA CallAdded ==
    ASSUME CaptureInvariant, HelperInvariant', NEW c \in CallRec, calls' = Append(calls, c),
           OfMedia(c)', CutsNothing(c), media' \in [Epochs -> MediaStates],
           \A e \in Epochs : \/ media'[e] = media[e]
                             \/ e = c.who /\ media[e] = "guarded" /\ media'[e] \in {"streaming", "ending"},
           c.who # 0 => media[c.who] = "guarded",
           UNCHANGED <<core, pending, minimum, uncertain, captures>>
    PROVE  CaptureInvariant'
  <1> USE DEF CaptureInvariant, MediaInvariant
  <1>1. /\ calls' \in Seq(CallRec) /\ Len(calls') = Len(calls) + 1 /\ Len(calls) \in Nat
        /\ calls'[Len(calls) + 1] = c
        /\ \A i \in 1..Len(calls) : calls'[i] = calls[i]
        /\ \A i \in 1..Len(calls') : i \in 1..Len(calls) \/ i = Len(calls) + 1
    BY AppendFacts DEF HelperInvariant, QueueTypes
  <1>2. MediaTypes'
    BY DEF MediaTypes
  <1>3. ASSUME NEW d, OfMedia(d), c.who # 0, d.waited
        PROVE  d.who # c.who
    BY <1>3 DEF OfMedia
  <1>4. ASSUME NEW d, OfMedia(d)
        PROVE  OfMedia(d)'
    BY <1>4 DEF OfMedia
  <1>5. MediaCalls'
    BY <1>1, <1>4 DEF MediaCalls
  <1>6. \A d : OfMedia(d) => ~BothAwaited(c, d) /\ ~BothAwaited(d, c)
    BY <1>3 DEF BothAwaited
  <1>7. MediaWaitsForOne'
    <2>1. \A i, j \in 1..Len(calls') : BothAwaited(calls'[i], calls'[j]) => i = j
      BY <1>1, <1>6 DEF MediaWaitsForOne, MediaCalls
    <2>2. \A i \in 1..Len(calls'), j \in DOMAIN pending : ~BothAwaited(calls'[i], pending[j])
      BY <1>1, <1>6 DEF MediaWaitsForOne, MediaCalls
    <2> QED
      BY <2>1, <2>2 DEF MediaWaitsForOne, BothAwaited
  <1>8. FirstGeneration'
    <2>1. generation = 0 /\ ~ready => \A e \in Epochs : media'[e] = Unused
      BY DEF FirstGeneration, Unused
    <2>2. \A i \in 1..Len(calls') : CutsNothing(calls'[i])
      BY <1>1 DEF FirstGeneration
    <2> QED
      BY <2>1, <2>2 DEF FirstGeneration, CutsNothing, core
  <1>9. GroupsNamed' /\ BelowMinimum' /\ EndsLast' /\ RecoveredFirst'
    BY DEF GroupsNamed, BelowMinimum, EndsLast, RecoveredFirst, Absent, Starts, core
  <1>10. OverIsOver'
    <2>1. \A e : Absent(e)' <=> Absent(e)
      BY DEF Absent, Starts, core
    <2> QED
      BY <2>1 DEF OverIsOver, Unused
  <1> QED
    BY <1>2, <1>5, <1>7, <1>8, <1>9, <1>10

\* A media task that waits for nothing goes on; its guard is given up only
\* below the cutoff.
LEMMA TaskGoesOn ==
    ASSUME CaptureInvariant, HelperInvariant', media' \in [Epochs -> MediaStates],
           uncertain' \subseteq Epochs,
           generation = 0 /\ ~ready => media' = media,
           \A e \in Epochs : media'[e] # media[e] => media[e] \notin {"streaming", "ending"},
           \A e \in Epochs : media'[e] = Unused => media[e] = Unused,
           \A e \in Epochs : media'[e] = "done" /\ e \notin uncertain' =>
                (media[e] = "done" /\ e \notin uncertain) \/ e < minimum,
           UNCHANGED <<core, calls, pending, minimum, captures>>
    PROVE  CaptureInvariant'
  <1> USE DEF CaptureInvariant, MediaInvariant
  <1>1. MediaTypes'
    BY DEF MediaTypes
  <1>2. ASSUME NEW d, OfMedia(d)
        PROVE  OfMedia(d)'
    BY <1>2 DEF OfMedia
  <1>3. MediaCalls' /\ MediaWaitsForOne'
    BY <1>2 DEF MediaCalls, MediaWaitsForOne, BothAwaited
  <1>4. FirstGeneration'
    BY DEF FirstGeneration, CutsNothing, core
  <1>5. GroupsNamed' /\ BelowMinimum' /\ EndsLast' /\ RecoveredFirst'
    BY DEF GroupsNamed, BelowMinimum, EndsLast, RecoveredFirst, Absent, Starts, core
  <1>6. OverIsOver'
    <2>1. \A e : Absent(e)' <=> Absent(e)
      BY DEF Absent, Starts, core
    <2> QED
      BY <2>1 DEF OverIsOver, BelowMinimum
  <1> QED
    BY <1>1, <1>3, <1>4, <1>5, <1>6

\* The cutoff of the recovery that is answered: the first generation's cuts
\* nothing, and before a later one's nothing was captured.
LEMMA CutoffIsClear ==
    ASSUME CaptureInvariant, connected, replies # <<>>,
           pending[Head(replies).id].cmd.op = "recover"
    PROVE  /\ pending[Head(replies).id].min \in Nat
           /\ \A e \in Epochs : e < pending[Head(replies).id].min => Absent(e)
  <1> USE DEF CaptureInvariant
  <1> DEFINE r == Head(replies)
             c == pending[r.id]
  <1>1. r = replies[1] /\ 1 \in 1..Len(replies)
    BY TailFacts DEF HelperInvariant, QueueTypes
  <1>2. r.id \in DOMAIN pending /\ r.id = 1
    BY <1>1 DEF HelperInvariant, AnsweredOnce, RecoveredFirst
  <1>3. c \in CallRec /\ c.gen = generation /\ CutsNothing(c)
    BY <1>2 DEF HelperInvariant, QueueTypes, Generations, MediaInvariant, FirstGeneration
  <1>4. c.min \in Nat
    BY <1>3 DEF CallRec
  <1>5. CASE generation = 0
    <2>1. c.min = 1
      BY <1>3, <1>5 DEF CutsNothing
    <2> QED
      BY <2>1 DEF Epochs
  <1>6. CASE generation # 0
    <2>1. generation > 0 /\ ~ready
      BY <1>2, <1>6 DEF RecoveredFirst, HelperInvariant, StateTypes
    <2>2. captures = {} /\ \A i \in DOMAIN pending : pending[i].cmd.op = "recover"
      BY <2>1 DEF RecoveredFirst, HelperInvariant, RecoveryOnly
    <2>3. \A i \in 1..Len(wire) : wire[i].cmd.op = "recover"
      BY <2>2 DEF HelperInvariant, InOrder
    <2> QED
      BY <1>4, <2>2, <2>3 DEF Absent, Starts
  <1> QED
    BY <1>4, <1>5, <1>6

\* An answer in time.  The one that ends a track leaves no group of it.
LEMMA AnswerTaken ==
    ASSUME CaptureInvariant, HelperInvariant', connected, replies # <<>>,
           NEW r, r = Head(replies), NEW c, c = pending[r.id],
           Replied(c, r.ok),
           minimum' = IF c.cmd.op = "recover" THEN c.min ELSE minimum,
           ready' = (ready \/ c.cmd.op = "recover" \/ (c.gen = 0 /\ c.cmd.op # "group")),
           pending' = [i \in DOMAIN pending \ {r.id} |-> pending[i]],
           replies' = Tail(replies),
           UNCHANGED <<generation, connected, next, calls, wire, helper, captures, uncertain>>
    PROVE  CaptureInvariant'
  <1> USE DEF CaptureInvariant
  <1>1. /\ Len(replies') = Len(replies) - 1 /\ Len(replies) \in Nat /\ Len(replies) >= 1
        /\ r = replies[1] /\ r \in Response
        /\ \A i \in 1..Len(replies') : i + 1 \in 1..Len(replies) /\ replies'[i] = replies[i + 1]
    BY TailFacts DEF HelperInvariant, QueueTypes
  <1>2. 1 \in 1..Len(replies) /\ r.ok \in BOOLEAN /\ r.id \in Nat
    BY <1>1, RecordFacts
  <1>3. /\ r.id \in DOMAIN pending /\ r.id <= last
        /\ \A i \in 1..Len(replies') : replies'[i].id \in DOMAIN pending \ {r.id}
    BY <1>1, <1>2 DEF HelperInvariant, AnsweredOnce
  <1>4. OfMedia(c)
    BY <1>3 DEF MediaInvariant, MediaCalls
  <1> DEFINE W == Awaiting(c)
  <1>5. /\ Told(W)
        /\ \A e \in W : /\ e = c.who /\ c.waited /\ c.cmd.epoch = e
                        /\ media'[e] = "done" => r.ok /\ c.cmd.op = "end"
    BY <1>2, <1>4, ToldTheAnswer
  <1>6. /\ \A i \in 1..Len(calls) : calls[i].waited => calls[i].who \notin W
        /\ \A i \in DOMAIN pending \ {r.id} : pending[i].waited => pending[i].who \notin W
    BY <1>3 DEF Awaiting, MediaInvariant, MediaWaitsForOne, BothAwaited
  <1> HIDE DEF W
  <1>7. /\ minimum' \in Nat /\ \A e \in Epochs : e < minimum' => Absent(e)
    BY CutoffIsClear DEF BelowMinimum, MediaInvariant, MediaTypes
  <1>8. MediaInvariant'
    <2>1. Len(calls) \in Nat
      BY ElementFacts DEF HelperInvariant, QueueTypes
    <2>2. \A i \in 1..Len(calls') : i + 0 \in 1..Len(calls) /\ LeftOf(W, calls[i + 0], calls'[i])
      BY <1>6, <2>1 DEF LeftOf
    <2>3. \A i \in DOMAIN pending' : i \in DOMAIN pending /\ LeftOf(W, pending[i], pending'[i])
      BY <1>6 DEF LeftOf
    <2>4. captures' \subseteq Epochs /\ uncertain' \subseteq Epochs
      BY DEF MediaInvariant, MediaTypes
    <2>5. generation' = 0 /\ ~ready' => generation = 0 /\ ~ready
      OBVIOUS
    <2> QED
      BY <1>5, <1>7, <2>1, <2>2, <2>3, <2>4, <2>5, MediaKept
  <1>9. \A e \in W : media'[e] = "done" => Absent(e)
    <2> SUFFICES ASSUME NEW e \in W, media'[e] = "done"
                 PROVE  Absent(e)
      OBVIOUS
    <2>1. r.ok /\ c.cmd.op = "end" /\ c.waited /\ c.who = e
      BY <1>5
    <2>2. e \notin captures
      BY <1>1, <1>2, <2>1 DEF EndsLast
    <2>3. \A j \in 1..Len(wire) : wire[j].cmd.op = "group" /\ wire[j].cmd.epoch = e => wire[j].id < r.id
      BY <1>3, <2>1 DEF EndsLast
    <2>4. \A j \in 1..Len(wire) : ~(wire[j].id < r.id)
      <3>1. last \in Nat /\ \A j \in 1..Len(wire) : wire[j].id = last + j
        BY DEF HelperInvariant, InOrder, StateTypes
      <3> QED
        BY <1>2, <1>3, <3>1
    <2> QED
      BY <2>2, <2>3, <2>4 DEF Absent, Starts
  <1>10. GroupsNamed' /\ BelowMinimum' /\ OverIsOver'
    <2>1. \A i \in 1..Len(wire') : \E j \in 1..Len(wire) : wire'[i] = wire[j]
      OBVIOUS
    <2> QED
      BY <1>5, <1>7, <1>9, <2>1, AbsenceKept
  <1>11. EndsLast'
    <2>1. \A i \in DOMAIN pending' : pending'[i].cmd.op = "end" /\ pending'[i].waited =>
            \A j \in 1..Len(wire') :
                wire'[j].cmd.op = "group" /\ wire'[j].cmd.epoch = pending'[i].who => wire'[j].id < i
      BY DEF EndsLast
    <2>2. \A i \in 1..Len(replies') :
            replies'[i].ok /\ pending'[replies'[i].id].cmd.op = "end" /\ pending'[replies'[i].id].waited =>
                pending'[replies'[i].id].who \notin captures'
      <3> SUFFICES ASSUME NEW i \in 1..Len(replies'),
                          replies'[i].ok /\ pending[replies'[i].id].cmd.op = "end",
                          pending[replies'[i].id].waited
                   PROVE  pending[replies'[i].id].who \notin captures
        BY <1>3
      <3>1. i + 1 \in 1..Len(replies) /\ replies'[i] = replies[i + 1]
        BY <1>1
      <3> QED
        BY <3>1 DEF EndsLast
    <2> QED
      BY <2>1, <2>2 DEF EndsLast
  <1>12. RecoveredFirst'
    <2>1. \A i \in 1..Len(replies') : pending'[replies'[i].id].cmd.op = "recover" => replies'[i].id = 1
      BY <1>1, <1>3 DEF RecoveredFirst
    <2>2. generation > 0 /\ (next = 0 \/ 1 \in DOMAIN pending') => FALSE
      <3> SUFFICES ASSUME generation > 0, next = 0 \/ 1 \in DOMAIN pending'
                   PROVE  FALSE
        OBVIOUS
      <3>1. next # 0
        BY <1>3 DEF HelperInvariant, InOrder
      <3>2. 1 \in DOMAIN pending /\ r.id # 1
        BY <3>1
      <3>3. ~ready
        BY <3>2 DEF RecoveredFirst
      <3>4. c.cmd.op = "recover"
        BY <1>3, <3>3 DEF HelperInvariant, RecoveryOnly
      <3> QED
        BY <1>1, <1>2, <3>2, <3>4 DEF RecoveredFirst
    <2>3. ~ready' => ~ready
      OBVIOUS
    <2> QED
      BY <2>1, <2>2, <2>3 DEF RecoveredFirst
  <1> QED
    BY <1>8, <1>10, <1>11, <1>12

\* A call becomes a request, behind every request of the stream.
LEMMA SendKeepsGuards ==
    ASSUME CaptureInvariant, HelperInvariant', WorkerSends
    PROVE  CaptureInvariant'
  <1> USE DEF CaptureInvariant
  <1> DEFINE c == calls[1]
             n == next + 1
             x == [id |-> n, cmd |-> c.cmd, keys |-> c.keys, gen |-> c.gen]
  <1>1. /\ calls' = Tail(calls) /\ Len(calls') = Len(calls) - 1 /\ Len(calls) \in Nat
        /\ Len(calls) >= 1 /\ Head(calls) = c /\ c \in CallRec
        /\ \A i \in 1..Len(calls') : i + 1 \in 1..Len(calls) /\ calls'[i] = calls[i + 1]
    BY TailFacts DEF WorkerSends, HelperInvariant, QueueTypes
  <1>2. /\ 1 \in 1..Len(calls) /\ next \in Nat /\ last \in Nat
        /\ c.keys \in SUBSET Keys /\ c.cmd \in Command /\ c.gen \in Nat
    BY <1>1, RecordFacts DEF HelperInvariant, StateTypes
  <1>3. /\ connected /\ ~Fenced(c) /\ ~BelowCutoff(c) /\ ~c.late /\ next' = n
        /\ pending' = [i \in DOMAIN pending \cup {n} |-> IF i = n THEN c ELSE pending[i]]
        /\ wire' = Append(wire, x)
        /\ UNCHANGED <<generation, ready, minimum, uncertain, connected, replies, helper, captures,
                       media>>
    BY <1>1 DEF WorkerSends, proxy, native, callers
  <1>4. /\ Len(wire') = Len(wire) + 1 /\ Len(wire) \in Nat /\ wire'[Len(wire) + 1] = x
        /\ \A i \in 1..Len(wire) : wire'[i] = wire[i]
        /\ \A i \in 1..Len(wire') : i \in 1..Len(wire) \/ i = Len(wire) + 1
    <2>1. x \in Request
      BY <1>2 DEF Request
    <2>2. wire \in Seq(Request)
      BY DEF HelperInvariant, QueueTypes
    <2> HIDE DEF x
    <2> QED
      BY <1>3, <2>1, <2>2, AppendFacts
  <1>5. x.id = n /\ x.cmd = c.cmd
    OBVIOUS
  <1>6. /\ DOMAIN pending \subseteq 1..next /\ last + Len(wire) = next
        /\ \A i \in 1..Len(wire) : wire[i].id = last + i
    BY <1>3 DEF HelperInvariant, InOrder
  <1>7. n \notin DOMAIN pending /\ \A i \in DOMAIN pending : i # n /\ i < n
    BY <1>2, <1>6
  <1>8. \A i \in 1..Len(wire) : wire[i].id < n
    BY <1>2, <1>4, <1>6
  <1>9. \A i \in 1..Len(replies) : replies[i].id \in DOMAIN pending
    BY <1>3 DEF HelperInvariant, AnsweredOnce
  <1>10. /\ c.waited /\ OfMedia(c) /\ CutsNothing(c)
         /\ \A j \in DOMAIN pending : ~BothAwaited(c, pending[j])
         /\ \A i \in 1..Len(calls) : BothAwaited(c, calls[i]) => i = 1
    <2>1. c.waited
      BY <1>2, <1>3 DEF HelperInvariant, CallsFormed, WellFormed
    <2> QED
      BY <1>2, <2>1 DEF MediaInvariant, MediaCalls, MediaWaitsForOne, FirstGeneration, BothAwaited
  <1> HIDE DEF x
  <1>11. DOMAIN pending' = DOMAIN pending \cup {n} /\ pending'[n] = c
         /\ \A i \in DOMAIN pending : pending'[i] = pending[i]
    BY <1>3, <1>7
  <1> HIDE DEF c, n
  <1>12. MediaInvariant'
    <2> USE DEF MediaInvariant
    <2>1. MediaTypes'
      BY <1>3 DEF MediaTypes
    <2>2. MediaCalls'
      BY <1>1, <1>3, <1>10, <1>11 DEF MediaCalls, OfMedia
    <2>3. MediaWaitsForOne'
      <3>1. \A i, j \in 1..Len(calls') : BothAwaited(calls'[i], calls'[j]) => i + 1 = j + 1
        BY <1>1 DEF MediaWaitsForOne
      <3>2. \A i, j \in DOMAIN pending' : BothAwaited(pending'[i], pending'[j]) => i = j
        BY <1>10, <1>11 DEF MediaWaitsForOne, BothAwaited
      <3>3. \A i \in 1..Len(calls') : i + 1 # 1 /\ i \in Int
        BY <1>1
      <3>4. \A i \in 1..Len(calls'), j \in DOMAIN pending' : ~BothAwaited(calls'[i], pending'[j])
        BY <1>1, <1>10, <1>11, <3>3 DEF MediaWaitsForOne, BothAwaited
      <3>5. \A i, j \in 1..Len(calls') : i + 1 = j + 1 => i = j
        BY <3>3
      <3> QED
        BY <3>1, <3>2, <3>4, <3>5 DEF MediaWaitsForOne, BothAwaited
    <2>4. FirstGeneration'
      BY <1>1, <1>3, <1>10, <1>11 DEF FirstGeneration, CutsNothing
    <2> QED
      BY <2>1, <2>2, <2>3, <2>4
  <1>13. ASSUME NEW e \in Epochs, Absent(e)
         PROVE  Absent(e)' \/ (c.cmd.op = "group" /\ c.cmd.epoch = e)
    BY <1>3, <1>4, <1>5, <1>13 DEF Absent, Starts
  <1>14. GroupsNamed' /\ BelowMinimum'
    <2>1. c.cmd.op = "group" => c.cmd.epoch \in Epochs
      BY <1>10 DEF OfMedia
    <2>2. GroupsNamed'
      BY <1>4, <1>5, <2>1 DEF GroupsNamed
    <2>3. BelowMinimum'
      BY <1>3, <1>13 DEF BelowMinimum, BelowCutoff
    <2> QED
      BY <2>2, <2>3
  <1>15. OverIsOver'
    <2>1. c.cmd.op = "group" => media[c.cmd.epoch] = "streaming"
      BY <1>10 DEF OfMedia
    <2> QED
      BY <1>3, <1>13, <2>1 DEF OverIsOver, Unused
  <1>16. EndsLast'
    <2>1. ASSUME NEW i \in DOMAIN pending', pending'[i].cmd.op = "end", pending'[i].waited,
                 NEW j \in 1..Len(wire'), wire'[j].cmd.op = "group", wire'[j].cmd.epoch = pending'[i].who
          PROVE  wire'[j].id < i
      <3>1. CASE i = n
        <4>1. j \in 1..Len(wire)
          BY <1>4, <1>5, <1>11, <2>1, <3>1
        <4> QED
          BY <1>4, <1>8, <3>1, <4>1
      <3>2. CASE i # n /\ j \in 1..Len(wire)
        BY <1>3, <1>4, <1>11, <2>1, <3>2 DEF EndsLast
      <3>3. CASE i # n /\ j \notin 1..Len(wire)
        <4>1. c.cmd.op = "group" /\ c.cmd.epoch = pending[i].who /\ i \in DOMAIN pending /\ pending[i].waited
          BY <1>4, <1>5, <1>11, <2>1, <3>3
        <4>2. BothAwaited(c, pending[i])
          BY <1>10, <4>1 DEF OfMedia, BothAwaited
        <4> QED
          BY <1>10, <4>1, <4>2
      <3> QED
        BY <3>1, <3>2, <3>3
    <2>2. \A i \in 1..Len(replies) : pending'[replies[i].id] = pending[replies[i].id]
      BY <1>9, <1>11
    <2>0. connected /\ UNCHANGED <<replies, captures>>
      BY <1>3
    <2>3. \A i \in 1..Len(replies') :
            replies'[i].ok /\ pending'[replies'[i].id].cmd.op = "end" /\ pending'[replies'[i].id].waited =>
                pending'[replies'[i].id].who \notin captures'
      BY <2>0, <2>2 DEF EndsLast
    <2> QED
      BY <2>1, <2>3 DEF EndsLast
  <1>17. RecoveredFirst'
    <2>1. next' # 0 /\ (1 \in DOMAIN pending' => 1 \in DOMAIN pending \/ next = 0)
      BY <1>2, <1>3, <1>11 DEF n
    <2> QED
      BY <1>3, <1>9, <1>11, <2>1 DEF RecoveredFirst
  <1> QED
    BY <1>12, <1>14, <1>15, <1>16, <1>17

\* A helper without captures is connected.
LEMMA ConnectKeepsGuards ==
    ASSUME CaptureInvariant, HelperInvariant', Connect
    PROVE  CaptureInvariant'
  <1> USE DEF CaptureInvariant
  <1>1. /\ ~connected /\ calls # <<>> /\ helper = "none" /\ connected' /\ helper' = "serving"
        /\ UNCHANGED <<generation, ready, minimum, uncertain, pending, wire, replies, captures, media>>
    BY DEF Connect, proxy, callers
  <1>2. /\ ~ready /\ DOMAIN pending = {} /\ Len(replies) = 0 /\ captures = {}
    BY <1>1 DEF HelperInvariant, Connection, RecoveredFirst, StateTypes
  <1> DEFINE k == IF Head(calls).cmd.op = "recover" THEN RecoveryKeys ELSE {}
             d == [calls[1] EXCEPT !.keys = k]
  <1>3. calls' = [calls EXCEPT ![1].keys = k]
    BY DEF Connect
  <1>4. calls \in Seq(CallRec) /\ Len(calls) \in Nat /\ 1 \in 1..Len(calls) /\ calls[1] \in CallRec
    BY <1>1, TailFacts DEF HelperInvariant, QueueTypes
  <1>5. /\ d.who = calls[1].who /\ d.cmd = calls[1].cmd /\ d.gen = calls[1].gen
        /\ d.min = calls[1].min /\ d.waited = calls[1].waited
    BY <1>4 DEF CallRec
  <1>6. calls' = [calls EXCEPT ![1] = d]
    BY <1>3
  <1> HIDE DEF d, k
  <1>7. Len(calls') = Len(calls) /\ \A i \in 1..Len(calls) : LeftOf({}, calls[i], calls'[i])
    BY <1>4, <1>5, <1>6 DEF LeftOf
  <1>8. Told({})
    BY <1>1 DEF Told, MediaInvariant, MediaTypes
  <1>9. MediaInvariant'
    <2>1. \A i \in 1..Len(calls') : i + 0 \in 1..Len(calls) /\ LeftOf({}, calls[i + 0], calls'[i])
      BY <1>4, <1>7
    <2>2. \A i \in DOMAIN pending' : i \in DOMAIN pending /\ LeftOf({}, pending[i], pending'[i])
      BY <1>1, <1>2
    <2> QED
      BY <1>1, <1>4, <1>7, <1>8, <2>1, <2>2, MediaKept DEF MediaInvariant, MediaTypes
  <1>10. GroupsNamed' /\ BelowMinimum' /\ OverIsOver'
    BY <1>1 DEF GroupsNamed, BelowMinimum, OverIsOver, Absent, Starts
  <1>11. EndsLast' /\ RecoveredFirst'
    BY <1>1, <1>2 DEF EndsLast, RecoveredFirst
  <1> QED
    BY <1>9, <1>10, <1>11

\* The helper executes a request: an end that succeeds leaves no capture.
LEMMA ExecutedKeepsGuards ==
    ASSUME CaptureInvariant, HelperInvariant', NEW req, NEW ok, Executed(req, ok),
           captures' = IF ok /\ req.cmd.op = "end" THEN captures \ {req.cmd.epoch} ELSE captures,
           UNCHANGED <<minimum, uncertain, media>>
    PROVE  CaptureInvariant'
  <1> USE DEF CaptureInvariant
  <1>1. /\ Len(wire') = Len(wire) - 1 /\ Len(wire) \in Nat /\ Len(wire) >= 1
        /\ req = wire[1] /\ 1 \in 1..Len(wire) /\ req.id \in Nat
        /\ \A i \in 1..Len(wire') : i + 1 \in 1..Len(wire) /\ wire'[i] = wire[i + 1]
    BY TailFacts, RecordFacts DEF Executed, HelperInvariant, QueueTypes
  <1>2. /\ helper = "serving" /\ (req.cmd.op = "recover" => last = 0) /\ Replies(req.id, ok)
        /\ UNCHANGED <<generation, ready, connected, next, helper, calls, pending>>
    BY DEF Executed
  <1>3. connected => /\ req.id = last + 1 /\ last \in Nat /\ req.id \in DOMAIN pending
                     /\ pending[req.id].cmd = req.cmd
    BY <1>1 DEF HelperInvariant, InOrder, StateTypes
  <1>4. connected =>
            \A i \in 1..Len(replies') :
                \/ i \in 1..Len(replies) /\ replies'[i] = replies[i]
                \/ replies'[i].id = req.id /\ replies'[i].ok = ok
    <2> SUFFICES ASSUME connected
                 PROVE  <1>4!2
      OBVIOUS
    <2> DEFINE x == [id |-> req.id, ok |-> ok]
    <2>1. x \in Response /\ x.id = req.id /\ x.ok = ok
      BY <1>1 DEF Executed, Response
    <2>2. replies' = Append(replies, x) /\ replies \in Seq(Response)
      BY <1>2 DEF Replies, HelperInvariant, QueueTypes
    <2> HIDE DEF x
    <2> QED
      BY <2>1, <2>2, AppendFacts
  <1>5. ~connected => Len(replies') = 0
    BY <1>2 DEF Replies, HelperInvariant, Connection
  <1>6. Told({})
    BY DEF Told, MediaInvariant, MediaTypes
  <1>7. MediaInvariant'
    <2>1. Len(calls) \in Nat
      BY ElementFacts DEF HelperInvariant, QueueTypes
    <2>2. \A i \in 1..Len(calls') : i + 0 \in 1..Len(calls) /\ LeftOf({}, calls[i + 0], calls'[i])
      BY <1>2, <2>1 DEF LeftOf
    <2>3. \A i \in DOMAIN pending' : i \in DOMAIN pending /\ LeftOf({}, pending[i], pending'[i])
      BY <1>2 DEF LeftOf
    <2>4. captures' \subseteq Epochs /\ uncertain' \subseteq Epochs /\ minimum' \in Nat
      BY DEF MediaInvariant, MediaTypes
    <2> QED
      BY <1>2, <1>6, <2>1, <2>2, <2>3, <2>4, MediaKept
  <1>8. GroupsNamed' /\ BelowMinimum' /\ OverIsOver'
    <2>1. \A i \in 1..Len(wire') : \E j \in 1..Len(wire) : wire'[i] = wire[j]
      BY <1>1
    <2>2. captures' \subseteq captures /\ \A e \in Epochs : e < minimum' => Absent(e)
      BY DEF BelowMinimum
    <2> QED
      BY <1>6, <2>1, <2>2, AbsenceKept
  <1>9. EndsLast'
    <2> SUFFICES ASSUME connected
                 PROVE  EndsLast'
      BY <1>2 DEF EndsLast
    <2>1. \A i \in DOMAIN pending : pending[i].cmd.op = "end" /\ pending[i].waited =>
            \A j \in 1..Len(wire') :
                wire'[j].cmd.op = "group" /\ wire'[j].cmd.epoch = pending[i].who => wire'[j].id < i
      BY <1>1 DEF EndsLast
    <2>2. OfMedia(pending[req.id]) /\ req.id \in DOMAIN pending
      BY <1>3 DEF MediaInvariant, MediaCalls
    <2>3. ASSUME NEW i \in 1..Len(replies'), replies'[i].ok,
                 pending[replies'[i].id].cmd.op = "end", pending[replies'[i].id].waited
          PROVE  pending[replies'[i].id].who \notin captures'
      <3>1. CASE i \in 1..Len(replies) /\ replies'[i] = replies[i]
        BY <2>3, <3>1 DEF EndsLast
      <3>2. CASE replies'[i].id = req.id /\ replies'[i].ok = ok
        BY <1>3, <2>2, <2>3, <3>2 DEF OfMedia
      <3> QED
        BY <1>4, <3>1, <3>2
    <2> QED
      BY <1>2, <2>1, <2>3 DEF EndsLast
  <1>10. RecoveredFirst'
    <2>1. \A i \in 1..Len(replies') : pending[replies'[i].id].cmd.op = "recover" => replies'[i].id = 1
      <3>1. CASE connected
        BY <1>2, <1>3, <1>4, <3>1 DEF RecoveredFirst
      <3>2. CASE ~connected
        BY <1>5, <3>2
      <3> QED
        BY <3>1, <3>2
    <2> QED
      BY <1>2, <2>1 DEF RecoveredFirst
  <1> QED
    BY <1>7, <1>8, <1>9, <1>10

\* A group that starts was asked for: its track is neither over nor below the
\* cutoff, and no end of it was answered.
LEMMA GroupKeepsGuards ==
    ASSUME CaptureInvariant, HelperInvariant', GroupStarts
    PROVE  CaptureInvariant'
  <1> USE DEF CaptureInvariant
  <1> DEFINE e == wire[1].cmd.epoch
  <1>1. /\ Len(wire') = Len(wire) - 1 /\ Len(wire) \in Nat /\ 1 \in 1..Len(wire)
        /\ Head(wire) = wire[1] /\ wire[1].id \in Nat
        /\ \A i \in 1..Len(wire') : i + 1 \in 1..Len(wire) /\ wire'[i] = wire[i + 1]
    BY TailFacts, RecordFacts DEF GroupStarts, HelperInvariant, QueueTypes
  <1>2. /\ helper = "serving" /\ wire[1].cmd.op = "group" /\ captures' = captures \cup {e}
        /\ UNCHANGED <<generation, ready, minimum, uncertain, calls, connected, next, pending,
                       replies, helper, media>>
    BY <1>1 DEF GroupStarts, proxy, worker, callers
  <1>3. Starts(e) /\ \A f : Absent(f) => Absent(f)' \/ f = e
    BY <1>1, <1>2 DEF Absent, Starts
  <1>4. e \in Epochs
    BY <1>1, <1>2 DEF GroupsNamed
  <1>5. connected => /\ wire[1].id = last + 1 /\ last \in Nat
                     /\ last + 1 \in DOMAIN pending /\ pending[last + 1].cmd = wire[1].cmd
    BY <1>1 DEF HelperInvariant, InOrder, StateTypes
  <1>6. \A j \in 1..Len(wire') : \E i \in 1..Len(wire) : wire'[j] = wire[i]
    BY <1>1
  <1>7. ~Absent(e)
    BY <1>3 DEF Absent
  <1>8. connected => \A i \in 1..Len(replies) :
            replies[i].ok /\ pending[replies[i].id].cmd.op = "end" /\ pending[replies[i].id].waited =>
                pending[replies[i].id].who # e
    <2> SUFFICES ASSUME connected, NEW i \in 1..Len(replies), pending[replies[i].id].cmd.op = "end",
                        pending[replies[i].id].waited, pending[replies[i].id].who = e
                 PROVE  FALSE
      OBVIOUS
    <2>1. replies[i].id \in DOMAIN pending /\ replies[i].id <= last /\ replies[i].id \in Nat
      BY DEF HelperInvariant, AnsweredOnce, QueueTypes
    <2>2. wire[1].id < replies[i].id
      BY <1>1, <1>2, <2>1 DEF EndsLast
    <2> QED
      BY <1>5, <2>1, <2>2
  <1> HIDE DEF e
  <1>9. Told({}) /\ MediaTypes'
    BY <1>2, <1>4 DEF Told, MediaInvariant, MediaTypes
  <1>10. MediaInvariant'
    BY <1>2, <1>9 DEF MediaInvariant, MediaCalls, OfMedia, MediaWaitsForOne, BothAwaited,
                      FirstGeneration, CutsNothing
  <1>11. GroupsNamed'
    BY <1>6 DEF GroupsNamed
  <1>12. BelowMinimum' /\ OverIsOver'
    BY <1>2, <1>3, <1>7 DEF BelowMinimum, OverIsOver
  <1>13. EndsLast'
    <2> SUFFICES ASSUME connected
                 PROVE  EndsLast'
      BY <1>2 DEF EndsLast
    <2>1. \A i \in DOMAIN pending : pending[i].cmd.op = "end" /\ pending[i].waited =>
            \A j \in 1..Len(wire') :
                wire'[j].cmd.op = "group" /\ wire'[j].cmd.epoch = pending[i].who => wire'[j].id < i
      BY <1>6 DEF EndsLast
    <2>2. \A i \in 1..Len(replies) :
            replies[i].ok /\ pending[replies[i].id].cmd.op = "end" /\ pending[replies[i].id].waited =>
                pending[replies[i].id].who \notin captures'
      BY <1>2, <1>8 DEF EndsLast
    <2> QED
      BY <1>2, <2>1, <2>2 DEF EndsLast
  <1>14. RecoveredFirst'
    <2>1. connected /\ generation > 0 => ready
      BY <1>2, <1>5 DEF HelperInvariant, RecoveryOnly
    <2> QED
      BY <1>2, <2>1 DEF RecoveredFirst
  <1> QED
    BY <1>10, <1>11, <1>12, <1>13, <1>14

\* The helper or its process ends with nobody connected, or a group is
\* answered: no call, no request and no capture is added.
LEMMA HelperGoesOn ==
    ASSUME CaptureInvariant, HelperInvariant',
           \A i \in 1..Len(wire') : \E j \in 1..Len(wire) : wire'[i] = wire[j],
           captures' \subseteq captures,
           helper' = "none" => helper = "none" \/ captures' = {},
           connected => \A i \in 1..Len(replies') :
                \/ i \in 1..Len(replies) /\ replies'[i] = replies[i]
                \/ pending[replies'[i].id].cmd.op = "group",
           ~connected => Len(replies') = 0,
           UNCHANGED <<generation, ready, minimum, uncertain, calls, connected, next, pending, media>>
    PROVE  CaptureInvariant'
  <1> USE DEF CaptureInvariant
  <1>1. Told({}) /\ MediaTypes'
    BY DEF Told, MediaInvariant, MediaTypes
  <1>2. MediaInvariant'
    BY <1>1 DEF MediaInvariant, MediaCalls, OfMedia, MediaWaitsForOne, BothAwaited,
                FirstGeneration, CutsNothing
  <1>3. GroupsNamed' /\ BelowMinimum' /\ OverIsOver'
    <2>1. \A e \in Epochs : e < minimum' => Absent(e)
      BY DEF BelowMinimum
    <2> QED
      BY <1>1, <2>1, AbsenceKept
  <1>4. EndsLast'
    <2> SUFFICES ASSUME connected
                 PROVE  EndsLast'
      BY DEF EndsLast
    <2>1. \A i \in DOMAIN pending : pending[i].cmd.op = "end" /\ pending[i].waited =>
            \A j \in 1..Len(wire') :
                wire'[j].cmd.op = "group" /\ wire'[j].cmd.epoch = pending[i].who => wire'[j].id < i
      BY DEF EndsLast
    <2>2. \A i \in 1..Len(replies') :
            replies'[i].ok /\ pending[replies'[i].id].cmd.op = "end" /\ pending[replies'[i].id].waited =>
                pending[replies'[i].id].who \notin captures'
      BY DEF EndsLast
    <2> QED
      BY <2>1, <2>2 DEF EndsLast
  <1>5. RecoveredFirst'
    BY DEF RecoveredFirst
  <1> QED
    BY <1>2, <1>3, <1>4, <1>5

\* The steps that queue a call.
LEMMA CallersKeepGuards ==
    ASSUME HelperAssumption, CaptureInvariant, HelperInvariant',
           \/ \E k \in Keys : input_viewport(Press(k)) \/ input_viewport(Lift(k))
           \/ input_viewport(ReleaseAll) \/ query \/ recover
           \/ \E e \in Epochs : stream_group_at_rate(e) \/ end_track(e)
    PROVE  CaptureInvariant'
  <1> USE DEF CaptureInvariant, MediaInvariant
  <1>1. ASSUME NEW who \in Nat, NEW cmd \in Command, NEW min \in Nat, Enqueue(who, cmd, min),
               media' \in [Epochs -> MediaStates],
               \A e \in Epochs : \/ media'[e] = media[e]
                                 \/ e = who /\ media[e] = "guarded" /\ media'[e] \in {"streaming", "ending"},
               who # 0 => media[who] = "guarded" /\ who \in Epochs /\ cmd.epoch = who,
               who # 0 => \/ cmd.op = "group" /\ media'[who] = "streaming"
                          \/ cmd.op = "end" /\ media'[who] = "ending",
               who = 0 => cmd.op \notin {"group", "end"},
               generation = 0 /\ cmd.op = "recover" => min = 1,
               UNCHANGED <<core, pending, minimum, uncertain, captures>>
        PROVE  CaptureInvariant'
    <2>0. PICK c : c = Call(who, cmd, generation, min)
      OBVIOUS
    <2>1. /\ c.who = who /\ c.cmd = cmd /\ c.gen = generation /\ c.min = min /\ c.waited
      BY <2>0 DEF Call
    <2>2. c \in CallRec
      BY <2>0 DEF Call, CallRec, HelperInvariant, StateTypes
    <2>3. calls' = Append(calls, c)
      BY <1>1, <2>0 DEF Enqueue
    <2>4. who # 0 => /\ who \in Epochs /\ cmd.op \in {"group", "end"} /\ cmd.epoch = who
                     /\ media'[who] = (IF cmd.op = "group" THEN "streaming" ELSE "ending")
      BY <1>1
    <2>5. OfMedia(c)'
      BY <1>1, <2>1, <2>4 DEF OfMedia
    <2>6. CutsNothing(c)
      BY <1>1, <2>1 DEF CutsNothing
    <2>7. \A e \in Epochs : \/ media'[e] = media[e]
                            \/ e = c.who /\ media[e] = "guarded" /\ media'[e] \in {"streaming", "ending"}
      BY <1>1, <2>1
    <2>8. c.who # 0 => media[c.who] = "guarded"
      BY <1>1, <2>1
    <2>9. /\ media' \in [Epochs -> MediaStates]
          /\ UNCHANGED <<core, pending, minimum, uncertain, captures>>
      BY <1>1
    <2> QED
      BY <2>2, <2>3, <2>5, <2>6, <2>7, <2>8, <2>9, CallAdded
  <1>2. media \in [Epochs -> MediaStates]
    BY DEF MediaTypes
  <1>3. ASSUME NEW cmd \in Command, cmd.op \in {"down", "up", "releaseAll", "query"},
               Enqueue(0, cmd, 0), UNCHANGED <<core, pending, minimum, uncertain, captures, media>>
        PROVE  CaptureInvariant'
    BY <1>1, <1>2, <1>3
  <1>4. ASSUME NEW cmd \in Command, cmd.op \in {"down", "up", "releaseAll"}, input_viewport(cmd)
        PROVE  CaptureInvariant'
    BY <1>3, <1>4 DEF input_viewport, proxy, worker, native, core
  <1>5. CASE query
    <2>1. Query \in Command /\ Query.op = "query"
      BY CommandFacts DEF Query
    <2> QED
      BY <1>3, <1>5, <2>1 DEF query, proxy, worker, native, core
  <1>6. CASE recover
    <2>1. Recover \in Command /\ Recover.op = "recover"
      BY CommandFacts DEF Recover
    <2>2. Cardinality(Used) + 1 \in Nat
      <3>1. IsFiniteSet(1..MaxEpoch)
        BY FS_Interval DEF HelperAssumption
      <3>2. Used \in SUBSET (1..MaxEpoch)
        BY DEF Used, Epochs
      <3> QED
        <4>1. IsFiniteSet(Used)
          BY <3>1, <3>2, FS_Subset
        <4>2. Cardinality(Used) \in Nat
          BY <4>1, FS_CardinalityType
        <4> QED
          BY <4>2
    <2>3. generation = 0 => Cardinality(Used) + 1 = 1
      <3> SUFFICES ASSUME generation = 0
                   PROVE  Cardinality(Used) = 0
        OBVIOUS
      <3>1. Used = {}
        BY <1>6 DEF recover, Used, FirstGeneration
      <3> QED
        BY <3>1, FS_EmptySet
    <2>4. /\ Enqueue(0, Recover, Cardinality(Used) + 1)
          /\ UNCHANGED <<core, pending, minimum, uncertain, captures, media>>
      BY <1>6 DEF recover, proxy, worker, native, core
    <2> QED
      BY <1>1, <1>2, <2>1, <2>2, <2>3, <2>4
  <1>7. ASSUME NEW e \in Epochs, stream_group_at_rate(e)
        PROVE  CaptureInvariant'
    <2>1. media[e] = "guarded" /\ UNCHANGED <<core, pending, minimum, uncertain, captures>>
      BY <1>7 DEF stream_group_at_rate, proxy, worker, native, core
    <2>2. CASE e < minimum
      BY <1>2, <1>7, <2>1, <2>2, TaskGoesOn DEF stream_group_at_rate, MediaTypes
    <2>3. CASE ~(e < minimum)
      <3>1. Enqueue(e, StreamGroup(e), 0) /\ media' = [media EXCEPT ![e] = "streaming"]
        BY <1>7, <2>3 DEF stream_group_at_rate
      <3>2. e \in Nat /\ e # 0
        BY DEF Epochs, HelperAssumption
      <3>3. StreamGroup(e) \in Command /\ StreamGroup(e).op = "group" /\ StreamGroup(e).epoch = e
        BY <3>2, CommandFacts DEF StreamGroup
      <3>4. /\ media' \in [Epochs -> MediaStates] /\ media'[e] = "streaming"
            /\ \A f \in Epochs : f # e => media'[f] = media[f]
        BY <1>2, <3>1 DEF MediaStates
      <3> QED
        BY <1>1, <2>1, <3>1, <3>2, <3>3, <3>4
    <2> QED
      BY <2>2, <2>3
  <1>8. ASSUME NEW e \in Epochs, end_track(e)
        PROVE  CaptureInvariant'
    <2>1. media[e] = "guarded" /\ UNCHANGED <<core, pending, minimum, uncertain, captures>>
      BY <1>8 DEF end_track, proxy, worker, native, core
    <2>2. CASE e < minimum
      <3>1. media' = [media EXCEPT ![e] = "done"] /\ calls' = calls
        BY <1>8, <2>2 DEF end_track
      <3>2. generation = 0 /\ ~ready => FALSE
        BY <2>1 DEF FirstGeneration, Unused
      <3> QED
        BY <1>2, <2>1, <2>2, <3>1, <3>2, TaskGoesOn DEF MediaTypes, MediaStates, Unused
    <2>3. CASE ~(e < minimum)
      <3>1. Enqueue(e, EndTrack(e), 0) /\ media' = [media EXCEPT ![e] = "ending"]
        BY <1>8, <2>3 DEF end_track
      <3>2. e \in Nat /\ e # 0
        BY DEF Epochs, HelperAssumption
      <3>3. EndTrack(e) \in Command /\ EndTrack(e).op = "end" /\ EndTrack(e).epoch = e
        BY <3>2, CommandFacts DEF EndTrack
      <3>4. /\ media' \in [Epochs -> MediaStates] /\ media'[e] = "ending"
            /\ \A f \in Epochs : f # e => media'[f] = media[f]
        BY <1>2, <3>1 DEF MediaStates
      <3> QED
        BY <1>1, <2>1, <3>1, <3>2, <3>3, <3>4
    <2> QED
      BY <2>2, <2>3
  <1>9. /\ \A k \in Keys : /\ Press(k) \in Command /\ Press(k).op = "down"
                           /\ Lift(k) \in Command /\ Lift(k).op = "up"
        /\ ReleaseAll \in Command /\ ReleaseAll.op = "releaseAll"
    BY CommandFacts DEF Press, Lift, ReleaseAll
  <1> QED
    BY <1>4, <1>5, <1>6, <1>7, <1>8, <1>9

\* The other steps of the broker and of the media tasks.
LEMMA OthersKeepGuards ==
    ASSUME CaptureInvariant, HelperInvariant',
           \/ RecoverReturns \/ RecoverFails
           \/ \E e \in Epochs : StartMedia(e) \/ EndTrackBusy(e) \/ retain_uncertain_capture(e)
    PROVE  CaptureInvariant'
  <1> USE DEF CaptureInvariant, MediaInvariant
  <1>1. media \in [Epochs -> MediaStates] /\ uncertain \subseteq Epochs /\ minimum \in Nat
    BY DEF MediaTypes
  <1>2. CASE RecoverReturns
    <2>1. /\ uncertain' = {e \in uncertain : e >= minimum} /\ ready
          /\ UNCHANGED <<generation, ready, minimum, calls, worker, wire, replies, native, media>>
      BY <1>2 DEF RecoverReturns
    <2>2. \A e \in Epochs : e \notin uncertain' => e \notin uncertain \/ e < minimum
      BY <1>1, <2>1 DEF Epochs
    <2>3. MediaInvariant'
      BY <1>1, <2>1 DEF MediaTypes, MediaCalls, OfMedia, MediaWaitsForOne, BothAwaited, FirstGeneration,
                        CutsNothing, worker, native
    <2>4. \A e : Absent(e)' <=> Absent(e)
      BY <2>1 DEF Absent, Starts, native
    <2>5. GroupsNamed' /\ BelowMinimum' /\ OverIsOver'
      BY <2>1, <2>2, <2>4 DEF GroupsNamed, BelowMinimum, OverIsOver
    <2>6. EndsLast' /\ RecoveredFirst'
      BY <2>1 DEF EndsLast, RecoveredFirst, worker, native
    <2> QED
      BY <2>3, <2>5, <2>6
  <1>3. CASE RecoverFails
    BY <1>1, <1>3, TaskGoesOn DEF RecoverFails, proxy, worker, native, core
  <1>4. ASSUME NEW e \in Epochs, StartMedia(e)
        PROVE  CaptureInvariant'
    <2>1. /\ ready /\ media[e] = Unused /\ media' = [media EXCEPT ![e] = "guarded"]
          /\ UNCHANGED <<core, calls, pending, minimum, uncertain, captures>>
      BY <1>4 DEF StartMedia, proxy, worker, native, core
    <2> QED
      BY <1>1, <2>1, TaskGoesOn DEF MediaStates, Unused
  <1>5. ASSUME NEW e \in Epochs, EndTrackBusy(e)
        PROVE  CaptureInvariant'
    <2>1. /\ media[e] = "guarded" /\ media' = [media EXCEPT ![e] = "unconfirmed"]
          /\ UNCHANGED <<core, calls, pending, minimum, uncertain, captures>>
      BY <1>5 DEF EndTrackBusy, proxy, worker, native, core
    <2>2. ~(generation = 0 /\ ~ready)
      BY <2>1 DEF FirstGeneration, Unused
    <2> QED
      BY <1>1, <2>1, <2>2, TaskGoesOn DEF MediaStates, Unused
  <1>6. ASSUME NEW e \in Epochs, retain_uncertain_capture(e)
        PROVE  CaptureInvariant'
    <2>1. /\ media[e] = "unconfirmed" /\ media' = [media EXCEPT ![e] = "done"]
          /\ uncertain' = IF e >= minimum THEN uncertain \cup {e} ELSE uncertain
          /\ UNCHANGED <<calls, pending, minimum, captures>>
      BY <1>6 DEF retain_uncertain_capture, worker, native
    <2>2. UNCHANGED core
      BY <1>6 DEF retain_uncertain_capture, worker, native, core
    <2>3. ~(generation = 0 /\ ~ready)
      BY <2>1 DEF FirstGeneration, Unused
    <2>4. e < minimum \/ e \in uncertain'
      BY <1>1, <2>1 DEF Epochs
    <2>5. uncertain' \subseteq Epochs /\ uncertain \subseteq uncertain'
      BY <1>1, <2>1
    <2> QED
      BY <1>1, <2>1, <2>2, <2>3, <2>4, <2>5, TaskGoesOn DEF MediaStates, Unused
  <1> QED
    BY <1>2, <1>3, <1>4, <1>5, <1>6

\* The steps that mark a call late or given up.
LEMMA TimeKeepsGuards ==
    ASSUME CaptureInvariant, HelperInvariant',
           QueuedCallExpires \/ SentCallExpires \/ CallerGivesUp
    PROVE  CaptureInvariant'
  <1> USE DEF CaptureInvariant, MediaInvariant
  <1>1. /\ DOMAIN calls = 1..Len(calls) /\ Len(calls) \in Nat
        /\ \A i \in 1..Len(calls) : calls[i] \in CallRec
        /\ \A i \in DOMAIN pending : pending[i] \in CallRec
    BY ElementFacts DEF HelperInvariant, QueueTypes
  <1>2. /\ \A i, j \in 1..Len(calls) : i # j => ~BothAwaited(calls[i], calls[j])
        /\ \A i, j \in DOMAIN pending : i # j => ~BothAwaited(pending[i], pending[j])
        /\ \A i \in 1..Len(calls), j \in DOMAIN pending :
              ~BothAwaited(calls[i], pending[j]) /\ ~BothAwaited(pending[j], calls[i])
    BY DEF MediaWaitsForOne, BothAwaited
  <1>3. \A c, d : ~BothAwaited(c, d) => LeftOf(Awaiting(c), d, d)
    BY DEF BothAwaited, Awaiting, LeftOf
  <1>4. \A c \in CallRec : /\ LeftOf({}, c, Expire(c)) /\ LeftOf(Awaiting(c), c, GiveUp(c))
                           /\ LeftOf({}, c, c)
    BY DEF LeftOf, Expire, GiveUp, CallRec
  <1>5. Told({}) \/ media' # media
    BY DEF Told, MediaTypes
  <1>6. ASSUME NEW W, Told(W), \A e \in W : media'[e] # "done",
               Len(calls') = Len(calls), DOMAIN pending' = DOMAIN pending,
               \A i \in 1..Len(calls) : LeftOf(W, calls[i], calls'[i]),
               \A i \in DOMAIN pending : LeftOf(W, pending[i], pending'[i]),
               UNCHANGED <<generation, ready, connected, next, wire, replies, helper>>,
               UNCHANGED <<minimum, uncertain, captures>>
        PROVE  CaptureInvariant'
    <2>1. \A i \in 1..Len(calls') : i + 0 \in 1..Len(calls) /\ LeftOf(W, calls[i + 0], calls'[i])
      BY <1>1, <1>6
    <2> QED
      BY <1>1, <1>6, <2>1, CallsDone
  <1>7. CASE QueuedCallExpires
    <2>1. PICK n \in DOMAIN calls : calls' = [calls EXCEPT ![n] = Expire(calls[n])]
      BY <1>7 DEF QueuedCallExpires
    <2>2. /\ Len(calls') = Len(calls) /\ \A i \in 1..Len(calls) : LeftOf({}, calls[i], calls'[i])
      BY <1>1, <1>4, <2>1
    <2>3. UNCHANGED <<pending, generation, ready, connected, next, wire, replies, helper, minimum,
                      uncertain, captures, media>>
      BY <1>7 DEF QueuedCallExpires, proxy, worker, native, callers
    <2> QED
      BY <1>1, <1>4, <1>5, <1>6, <2>2, <2>3
  <1>8. CASE SentCallExpires
    <2>1. PICK n \in DOMAIN pending : pending' = [pending EXCEPT ![n] = Expire(pending[n])]
      BY <1>8 DEF SentCallExpires
    <2>2. DOMAIN pending' = DOMAIN pending /\ \A i \in DOMAIN pending : LeftOf({}, pending[i], pending'[i])
      BY <1>1, <1>4, <2>1
    <2>3. UNCHANGED <<calls, generation, ready, connected, next, wire, replies, helper, minimum,
                      uncertain, captures, media>>
      BY <1>8 DEF SentCallExpires, proxy, native, callers
    <2> QED
      BY <1>1, <1>4, <1>5, <1>6, <2>2, <2>3
  <1>9. CASE /\ \E i \in DOMAIN calls :
                  /\ calls[i].late /\ calls[i].waited
                  /\ calls' = [calls EXCEPT ![i] = GiveUp(@)]
                  /\ Replied(calls[i], FALSE)
             /\ UNCHANGED <<proxy, worker, wire, replies, native, recovered, made>>
    <2>1. PICK n \in DOMAIN calls : /\ calls' = [calls EXCEPT ![n] = GiveUp(calls[n])]
                                    /\ Replied(calls[n], FALSE)
      BY <1>9
    <2> DEFINE W == Awaiting(calls[n])
    <2>2. OfMedia(calls[n]) /\ calls[n] \in CallRec
      BY <1>1 DEF MediaCalls
    <2>3. Told(W) /\ \A e \in W : media'[e] # "done"
      BY <2>1, <2>2, ToldTheAnswer
    <2>4. \A i \in 1..Len(calls) : i # n => LeftOf(W, calls[i], calls[i])
      BY <1>1, <1>2, <1>3
    <2>5. \A i \in DOMAIN pending : LeftOf(W, pending[i], pending[i])
      BY <1>1, <1>2, <1>3
    <2>6. LeftOf(W, calls[n], GiveUp(calls[n]))
      BY <1>4, <2>2
    <2> HIDE DEF W
    <2>7. Len(calls') = Len(calls) /\ \A i \in 1..Len(calls) : LeftOf(W, calls[i], calls'[i])
      BY <1>1, <2>1, <2>4, <2>6
    <2>8. UNCHANGED <<pending, generation, ready, connected, next, wire, replies, helper, minimum,
                      uncertain, captures>>
      BY <1>9 DEF proxy, worker, native
    <2> QED
      BY <1>6, <2>3, <2>5, <2>7, <2>8
  <1>10. CASE /\ \E i \in DOMAIN pending :
                  /\ pending[i].late /\ pending[i].waited
                  /\ pending' = [pending EXCEPT ![i] = GiveUp(@)]
                  /\ Replied(pending[i], FALSE)
              /\ UNCHANGED <<proxy, calls, connected, next, ledger, wire, replies, native,
                             recovered, made>>
    <2>1. PICK n \in DOMAIN pending : /\ pending' = [pending EXCEPT ![n] = GiveUp(pending[n])]
                                      /\ Replied(pending[n], FALSE)
      BY <1>10
    <2> DEFINE W == Awaiting(pending[n])
    <2>2. OfMedia(pending[n]) /\ pending[n] \in CallRec
      BY <1>1 DEF MediaCalls
    <2>3. Told(W) /\ \A e \in W : media'[e] # "done"
      BY <2>1, <2>2, ToldTheAnswer
    <2>4. \A i \in 1..Len(calls) : LeftOf(W, calls[i], calls[i])
      BY <1>1, <1>2, <1>3
    <2>5. \A i \in DOMAIN pending : i # n => LeftOf(W, pending[i], pending[i])
      BY <1>1, <1>2, <1>3
    <2>6. LeftOf(W, pending[n], GiveUp(pending[n]))
      BY <1>4, <2>2
    <2> HIDE DEF W
    <2>7. DOMAIN pending' = DOMAIN pending /\ \A i \in DOMAIN pending : LeftOf(W, pending[i], pending'[i])
      BY <2>1, <2>5, <2>6
    <2>8. UNCHANGED <<calls, generation, ready, connected, next, wire, replies, helper, minimum,
                      uncertain, captures>>
      BY <1>10 DEF proxy, native
    <2> QED
      BY <1>6, <2>3, <2>4, <2>7, <2>8
  <1> QED
    BY <1>7, <1>8, <1>9, <1>10 DEF CallerGivesUp

\* A call leaves the queue without becoming a request: the end of a track is
\* confirmed that way only below the cutoff.
LEMMA TurnedAwayKeepsGuards ==
    ASSUME CaptureInvariant, HelperInvariant', Refuse \/ WorkerRejects
    PROVE  CaptureInvariant'
  <1> USE DEF CaptureInvariant
  <1>1. PICK c : c = Head(calls)
    OBVIOUS
  <1>2. calls # <<>> /\ calls' = Tail(calls)
    BY DEF Refuse, WorkerRejects
  <1>3. /\ UNCHANGED <<pending, generation, ready, connected, next, wire, replies, helper>>
        /\ UNCHANGED <<minimum, uncertain, captures>>
    BY DEF Refuse, WorkerRejects, proxy, worker, native
  <1>4. \E ok \in BOOLEAN : Replied(c, ok) /\ (ok => c.cmd.epoch < minimum)
    BY <1>1 DEF Refuse, WorkerRejects, BelowCutoff
  <1>5. PICK ok \in BOOLEAN : Replied(c, ok) /\ (ok => c.cmd.epoch < minimum)
    BY <1>4
  <1>6. /\ Len(calls') = Len(calls) - 1 /\ Len(calls) \in Nat /\ Len(calls) >= 1 /\ c = calls[1]
        /\ \A i \in 1..Len(calls') : i + 1 \in 1..Len(calls) /\ calls'[i] = calls[i + 1]
    BY <1>1, <1>2, TailFacts DEF HelperInvariant, QueueTypes
  <1>7. OfMedia(c)
    BY <1>6 DEF MediaInvariant, MediaCalls
  <1>8. /\ Told(Awaiting(c))
        /\ \A e \in Awaiting(c) : /\ e = c.who /\ c.waited /\ c.cmd.epoch = e
                                  /\ media'[e] = "done" => ok /\ c.cmd.op = "end"
    BY <1>5, <1>7, ToldTheAnswer
  <1>9. \A e \in Awaiting(c) : media'[e] = "done" => e < minimum
    BY <1>5, <1>8
  <1>10. \A i \in 1..Len(calls') : LeftOf(Awaiting(c), calls[i + 1], calls'[i])
    <2> SUFFICES ASSUME NEW i \in 1..Len(calls')
                 PROVE  LeftOf(Awaiting(c), calls[i + 1], calls[i + 1])
      BY <1>6
    <2>1. 1 \in 1..Len(calls) /\ i + 1 \in 1..Len(calls) /\ i + 1 # 1
      BY <1>6
    <2>2. ~BothAwaited(calls[1], calls[i + 1])
      BY <2>1 DEF MediaInvariant, MediaWaitsForOne
    <2> QED
      BY <1>6, <2>2 DEF BothAwaited, Awaiting, LeftOf
  <1>11. \A i \in DOMAIN pending : LeftOf(Awaiting(c), pending[i], pending'[i])
    <2> SUFFICES ASSUME NEW i \in DOMAIN pending
                 PROVE  LeftOf(Awaiting(c), pending[i], pending[i])
      BY <1>3
    <2>1. ~BothAwaited(calls[1], pending[i])
      BY <1>6 DEF MediaInvariant, MediaWaitsForOne, BothAwaited
    <2> QED
      BY <1>6, <2>1 DEF BothAwaited, Awaiting, LeftOf
  <1>12. Len(calls') \in Nat /\ DOMAIN pending' = DOMAIN pending
    BY <1>3, <1>6
  <1> QED
    BY <1>3, <1>6, <1>8, <1>9, <1>10, <1>11, <1>12, CallsDone

\* The stream is lost: no end of a capture is confirmed by that.
LEMMA LostKeepsGuards ==
    ASSUME CaptureInvariant, HelperInvariant', RepliedErr({pending[i] : i \in DOMAIN pending}),
           UNCHANGED <<calls, uncertain>>, ~connected', DOMAIN pending' = {}, replies' = <<>>, ~ready',
           generation' = generation + 1,
           \A i \in 1..Len(wire') : \E j \in 1..Len(wire) : wire'[i] = wire[j],
           minimum' \in Nat, \A e \in Epochs : e < minimum' => Absent(e),
           helper' = "none" => helper = "none" \/ captures' = {}, captures' \subseteq captures
    PROVE  CaptureInvariant'
  <1>1. PICK W : /\ Told(W) /\ \A e \in W : media'[e] # "done"
                 /\ \A i \in 1..Len(calls) : LeftOf(W, calls[i], calls[i])
    BY ToldOfTheEnd
  <1>2. ~(generation' = 0)
    BY DEF CaptureInvariant, HelperInvariant, StateTypes
  <1> QED
    BY <1>1, <1>2, StreamGone

\* An answer, or the loss of the stream.
LEMMA WorkerKeepsGuards ==
    ASSUME CaptureInvariant, HelperInvariant', WorkerReceives \/ ConnectionLost
    PROVE  CaptureInvariant'
  <1>1. \A i \in 1..Len(wire) : \E j \in 1..Len(wire) : wire[i] = wire[j]
    OBVIOUS
  <1>2. minimum \in Nat /\ \A e \in Epochs : e < minimum => Absent(e)
    BY DEF CaptureInvariant, MediaInvariant, MediaTypes, BelowMinimum
  <1>3. CASE ConnectionLost
    <2>1. /\ RepliedErr({pending[i] : i \in DOMAIN pending})
          /\ UNCHANGED <<calls, uncertain, minimum, wire, helper, captures>>
          /\ ~connected' /\ ~ready' /\ DOMAIN pending' = {} /\ replies' = <<>>
          /\ generation' = generation + 1
      BY <1>3 DEF ConnectionLost, Disconnected, native
    <2> QED
      BY <1>1, <1>2, <2>1, LostKeepsGuards
  <1>4. CASE WorkerReceives
    <2>1. PICK r : r = Head(replies)
      OBVIOUS
    <2>2. PICK c : c = pending[r.id]
      OBVIOUS
    <2>3. /\ connected /\ replies # <<>>
          /\ UNCHANGED <<uncertain, calls, wire, helper, captures>>
      BY <1>4 DEF WorkerReceives, native
    <2>4. CASE /\ minimum' = IF ~c.late /\ r.ok /\ c.cmd.op = "recover" THEN c.min ELSE minimum
               /\ connected' = FALSE /\ ready' = FALSE /\ generation' = generation + 1
               /\ RepliedErr({pending[i] : i \in DOMAIN pending})
               /\ pending' = [i \in {} |-> Query] /\ replies' = <<>>
      <3>1. minimum' \in Nat /\ \A e \in Epochs : e < minimum' => Absent(e)
        BY <1>2, <2>1, <2>2, <2>3, <2>4, CutoffIsClear
      <3>2. DOMAIN pending' = {}
        BY <2>4
      <3> QED
        BY <1>1, <2>3, <2>4, <3>1, <3>2, LostKeepsGuards
    <2>5. CASE /\ minimum' = IF c.cmd.op = "recover" THEN c.min ELSE minimum
               /\ ready' = (\/ ready \/ c.cmd.op = "recover"
                            \/ c.gen = 0 /\ c.cmd.op # "group")
               /\ Replied(c, r.ok)
               /\ pending' = [i \in DOMAIN pending \ {r.id} |-> pending[i]]
               /\ replies' = Tail(replies)
               /\ UNCHANGED <<generation, connected, next>>
      <3>1. ready' = (ready \/ c.cmd.op = "recover" \/ (c.gen = 0 /\ c.cmd.op # "group"))
        BY <2>5
      <3> QED
        BY <2>1, <2>2, <2>3, <2>5, <3>1, AnswerTaken
    <2> QED
      BY <1>4, <2>1, <2>2, <2>4, <2>5 DEF WorkerReceives
  <1> QED
    BY <1>3, <1>4

\* The steps of serve_until and of its process.
LEMMA HelperKeepsGuards ==
    ASSUME CaptureInvariant, HelperInvariant',
           HelperExecutes \/ HelperStops \/ HelperCleansUp \/ HelperDies
    PROVE  CaptureInvariant'
  <1>1. CASE HelperExecutes
    <2>1. PICK req : req = Head(wire)
      OBVIOUS
    <2>2. /\ helper = "serving" /\ wire # <<>> /\ req.cmd.op # "group"
          /\ req.cmd.op = "recover" => last = 0
          /\ last' = req.id /\ wire' = Tail(wire)
          /\ UNCHANGED <<generation, ready, connected, next, ledger, helper, groups, recovered,
                         forgotten, calls, pending, broker, minimum, uncertain, media>>
      BY <1>1, <2>1 DEF HelperExecutes, proxy, worker, callers
    <2>3. \E ok \in BOOLEAN :
            /\ Reply(req.id, ok) /\ down' \in {down, Injected(down, req)}
            /\ ok => down' = Injected(down, req)
            /\ captures' = IF ok /\ req.cmd.op = "end" THEN captures \ {req.cmd.epoch} ELSE captures
      BY <1>1, <2>1 DEF HelperExecutes
    <2>4. PICK ok \in BOOLEAN :
            /\ Reply(req.id, ok) /\ down' \in {down, Injected(down, req)}
            /\ ok => down' = Injected(down, req)
            /\ captures' = IF ok /\ req.cmd.op = "end" THEN captures \ {req.cmd.epoch} ELSE captures
      BY <2>3
    <2>5. Executed(req, ok)
      BY <2>1, <2>2, <2>4 DEF Executed, Reply, Replies
    <2> QED
      BY <2>2, <2>4, <2>5, ExecutedKeepsGuards
  <1>2. minimum \in Nat /\ \A e \in Epochs : e < minimum => Absent(e)
    BY DEF CaptureInvariant, MediaInvariant, MediaTypes, BelowMinimum
  <1>3. ~connected => Len(replies) = 0
    BY DEF CaptureInvariant, HelperInvariant, Connection
  <1>4. CASE HelperStops \/ HelperDies
    <2>1. /\ wire' = <<>> /\ UNCHANGED <<calls, uncertain, minimum>> /\ captures' \subseteq captures
          /\ helper' = "none" => captures' = {}
      BY <1>4 DEF HelperStops, HelperDies, Disconnected
    <2>2. \A i \in 1..Len(wire') : \E j \in 1..Len(wire) : wire'[i] = wire[j]
      BY <2>1
    <2>3. CASE connected
      <3>1. /\ RepliedErr({pending[i] : i \in DOMAIN pending})
            /\ ~connected' /\ ~ready' /\ DOMAIN pending' = {} /\ replies' = <<>>
            /\ generation' = generation + 1
        BY <1>4, <2>3 DEF HelperStops, HelperDies, Disconnected
      <3> QED
        BY <1>2, <2>1, <2>2, <3>1, LostKeepsGuards
    <2>4. CASE ~connected
      <3>1. UNCHANGED <<generation, ready, connected, next, pending, replies, media>>
        BY <1>4, <2>4 DEF HelperStops, HelperDies
      <3> QED
        BY <1>3, <2>1, <2>2, <2>4, <3>1, HelperGoesOn
    <2> QED
      BY <2>3, <2>4
  <1>5. CASE HelperCleansUp
    <2>1. /\ captures' = {} /\ helper' = "none" /\ helper = "ending"
          /\ UNCHANGED <<generation, ready, minimum, uncertain, calls, connected, next, pending,
                         wire, replies, media>>
      BY <1>5 DEF HelperCleansUp, proxy, worker, callers
    <2>2. ~connected
      BY <2>1 DEF CaptureInvariant, HelperInvariant, Connection
    <2> QED
      BY <1>3, <2>1, <2>2, HelperGoesOn
  <1> QED
    BY <1>1, <1>4, <1>5

\* The task of a group answers its own request.
LEMMA GroupEndsKeepsGuards ==
    ASSUME CaptureInvariant, HelperInvariant', NEW g \in groups, GroupEnds(g)
    PROVE  CaptureInvariant'
  <1> USE DEF CaptureInvariant
  <1>1. UNCHANGED <<generation, ready, minimum, uncertain, calls, connected, next, pending, wire,
                    helper, captures, media>>
    BY DEF GroupEnds, proxy, worker, callers
  <1>2. PICK ok \in BOOLEAN : Reply(g.id, ok)
    BY DEF GroupEnds
  <1>3. PICK x : x = [id |-> g.id, ok |-> ok]
    OBVIOUS
  <1>4. g.id \in Nat /\ x \in Response /\ x.id = g.id
    BY <1>3 DEF HelperInvariant, QueueTypes, Group, Response
  <1>5. connected => \A i \in 1..Len(replies') : \/ i \in 1..Len(replies) /\ replies'[i] = replies[i]
                                                 \/ pending[replies'[i].id].cmd.op = "group"
    <2> SUFFICES ASSUME connected
                 PROVE  <1>5!2
      OBVIOUS
    <2>1. replies' = Append(replies, x) /\ replies \in Seq(Response)
      BY <1>2, <1>3 DEF Reply, HelperInvariant, QueueTypes
    <2>2. pending[g.id].cmd.op = "group"
      BY DEF HelperInvariant, AnsweredOnce
    <2> QED
      BY <1>4, <2>1, <2>2, AppendFacts
  <1>6. ~connected => Len(replies') = 0
    BY <1>2 DEF Reply, HelperInvariant, Connection
  <1>7. \A i \in 1..Len(wire') : \E j \in 1..Len(wire) : wire'[i] = wire[j]
    BY <1>1
  <1>8. helper' = "none" => helper = "none"
    BY <1>1
  <1> QED
    BY <1>1, <1>5, <1>6, <1>7, <1>8, HelperGoesOn

\* Nothing is captured at the start, and no epoch is used.
LEMMA CaptureInit ==
    ASSUME Init, HelperInvariant
    PROVE  CaptureInvariant
  <1>1. /\ Len(calls) = 0 /\ Len(wire) = 0 /\ Len(replies) = 0 /\ DOMAIN pending = {}
        /\ uncertain = {} /\ captures = {} /\ minimum = 0 /\ generation = 0
        /\ media = [e \in Epochs |-> Unused] /\ helper = "none"
    BY DEF Init
  <1>2. MediaTypes
    BY <1>1 DEF MediaTypes, MediaStates
  <1>3. MediaCalls /\ MediaWaitsForOne
    BY <1>1 DEF MediaCalls, MediaWaitsForOne
  <1>4. FirstGeneration
    BY <1>1 DEF FirstGeneration
  <1>5. GroupsNamed /\ BelowMinimum /\ OverIsOver
    BY <1>1 DEF GroupsNamed, BelowMinimum, OverIsOver, Absent, Starts
  <1>6. EndsLast /\ RecoveredFirst
    BY <1>1 DEF EndsLast, RecoveredFirst
  <1> QED
    BY <1>2, <1>3, <1>4, <1>5, <1>6 DEF CaptureInvariant, MediaInvariant

\* Every step keeps the invariant of the guards.
LEMMA CaptureStep ==
    ASSUME HelperAssumption, CaptureInvariant, [Next]_vars
    PROVE  CaptureInvariant'
  <1>1. HelperInvariant'
    BY HelperStep DEF CaptureInvariant
  <1>2. CASE UNCHANGED vars
    <2>1. UNCHANGED <<core, calls, pending, minimum, uncertain, captures, media>>
      BY <1>2 DEF vars, proxy, worker, native, callers, core
    <2>2. media \in [Epochs -> MediaStates] /\ uncertain \subseteq Epochs
      BY DEF CaptureInvariant, MediaInvariant, MediaTypes
    <2> QED
      BY <1>1, <2>1, <2>2, TaskGoesOn
  <1>3. CASE \/ \E k \in Keys : input_viewport(Press(k)) \/ input_viewport(Lift(k))
             \/ input_viewport(ReleaseAll) \/ query \/ recover
             \/ \E e \in Epochs : stream_group_at_rate(e) \/ end_track(e)
    BY <1>1, <1>3, CallersKeepGuards
  <1>4. CASE \/ RecoverReturns \/ RecoverFails
             \/ \E e \in Epochs : StartMedia(e) \/ EndTrackBusy(e) \/ retain_uncertain_capture(e)
    BY <1>1, <1>4, OthersKeepGuards
  <1>5. CASE QueuedCallExpires \/ SentCallExpires \/ CallerGivesUp
    BY <1>1, <1>5, TimeKeepsGuards
  <1>6. CASE Refuse \/ WorkerRejects
    BY <1>1, <1>6, TurnedAwayKeepsGuards
  <1>7. CASE WorkerReceives \/ ConnectionLost
    BY <1>1, <1>7, WorkerKeepsGuards
  <1>8. CASE Connect
    BY <1>1, <1>8, ConnectKeepsGuards
  <1>9. CASE WorkerSends
    BY <1>1, <1>9, SendKeepsGuards
  <1>10. CASE HelperExecutes \/ HelperStops \/ HelperCleansUp \/ HelperDies
    BY <1>1, <1>10, HelperKeepsGuards
  <1>11. CASE GroupStarts
    BY <1>1, <1>11, GroupKeepsGuards
  <1>12. CASE \E g \in groups : GroupEnds(g)
    BY <1>1, <1>12, GroupEndsKeepsGuards
  <1> QED
    BY <1>2, <1>3, <1>4, <1>5, <1>6, <1>7, <1>8, <1>9, <1>10, <1>11, <1>12 DEF Next

\* While a native capture is alive its work guard is, in the media task or
\* among the uncertain captures: a task gives its guard up only when the end of
\* its capture was answered, and RecoverReturns drops only what is below the
\* cutoff (retain_uncertain_capture and recover, desktop_ipc.rs 583-611;
\* finish_capture, desktop_rpc.rs 628-640).
THEOREM CapturesKeepTheirGuard ==
    ASSUME HelperAssumption
    PROVE  Spec => []CapturesAreGuarded
  <1>1. Init => CaptureInvariant
    BY HelperInit, CaptureInit
  <1>2. CaptureInvariant /\ [Next]_vars => CaptureInvariant'
    BY CaptureStep
  <1>3. CaptureInvariant => CapturesAreGuarded
    <2> SUFFICES ASSUME CaptureInvariant, NEW e \in captures
                 PROVE  media[e] \notin {Unused, "done"} \/ e \in uncertain
      BY DEF CapturesAreGuarded
    <2>1. e \in Epochs /\ ~Absent(e)
      BY DEF CaptureInvariant, MediaInvariant, MediaTypes, Absent
    <2>2. ~(media[e] = Unused \/ (media[e] = "done" /\ e \notin uncertain))
      BY <2>1 DEF CaptureInvariant, OverIsOver
    <2> QED
      BY <2>2
  <1> QED
    BY <1>1, <1>2, <1>3, PTL DEF Spec
=============================================================================
