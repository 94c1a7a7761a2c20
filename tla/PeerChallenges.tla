--------------------------- MODULE PeerChallenges ---------------------------
(***************************************************************************)
(* Challenges of cluster peers and clients: the second half of             *)
(* daemon/host/src/server/cluster_rpc.rs, with the proofs of               *)
(* cluster/primary/runtime/peer.rs, client.rs and join.rs.                 *)
(*                                                                         *)
(* A connection asks for a nonce and answers it once, within Life seconds, *)
(* in one of three requests: a peer's request, a joining node's reading of *)
(* the history, or a client's proof of its grant. The streams of a         *)
(* connection run at the same time, and one that is running when its       *)
(* connection ends may finish after the connection's cleanup. The proof of *)
(* a grant is checked in a task of its own and the session bound to it     *)
(* after that, while other calls of the session may authenticate it too.   *)
(***************************************************************************)
EXTENDS Integers, Sequences, FiniteSets

CONSTANTS
    Conns,      \* connections; a session id is never used twice
    Grants,     \* grants of the cluster's clients
    Cap,        \* capacity of the table, 128
    Life,       \* seconds a challenge lives, 5
    MaxTime,    \* bound on the clock
    MaxNonces   \* bound on the nonces given out

ChallengesAssumption ==
    /\ IsFiniteSet(Conns) /\ Cap \in Nat \ {0} /\ Life \in Nat \ {0}
    /\ MaxTime \in Nat /\ MaxNonces \in Nat

VARIABLES
    now,        \* seconds
    open,       \* connections that are open
    table,      \* PEER_CHALLENGES: the challenge of each connection that has one
    asking,     \* connections with a GetClusterPeerChallenge stream
    given,      \* every nonce given out, in order: its connection and its time
    taken,      \* every answer that was accepted
    proving,    \* proofs of grants being checked
    revoked,    \* grants revoked in the log the node holds
    who         \* the identity each session is bound to

vars == <<now, open, table, asking, given, taken, proving, revoked, who>>

Nonces == 1..Len(given)
Nobody == "nobody"
Paired == "paired"
Kinds == {"peer", "history", "client"}

TypeOK ==
    /\ now \in 0..MaxTime /\ open \subseteq Conns /\ asking \subseteq Conns
    /\ DOMAIN table \subseteq Conns
    /\ \A c \in DOMAIN table :
        /\ table[c].nonce \in Nonces /\ table[c].issued \in 0..now /\ table[c].used \in BOOLEAN
        /\ given[table[c].nonce] = [conn |-> c, at |-> table[c].issued]
    /\ \A i \in 1..Len(taken) : taken[i].nonce \in Nonces /\ taken[i].kind \in Kinds
    /\ revoked \subseteq Grants /\ who \in [Conns -> Grants \cup {Nobody, Paired}]
    /\ \A p \in proving : p.conn \in Conns /\ p.grant \in Grants /\ p.step \in {"check", "bind"}

Init ==
    /\ now = 0 /\ open = Conns /\ table = <<>> /\ asking = {} /\ given = <<>>
    /\ taken = <<>> /\ proving = {} /\ revoked = {} /\ who = [c \in Conns |-> Nobody]

Only(t, S) == [c \in S |-> t[c]]

-----------------------------------------------------------------------------
(* Giving out *)

Ask(c) ==
    /\ c \in open /\ Len(given) < MaxNonces /\ asking' = asking \cup {c}
    /\ UNCHANGED <<now, open, table, given, taken, proving, revoked, who>>

\* Old challenges are forgotten; a connection may ask once in a second, and a
\* new one only while there is room.
Young == Only(table, {c \in DOMAIN table : now - table[c].issued < Life})
NoLimit(c) == TRUE
HasRoom(c) == Cardinality(DOMAIN Young) < Cap \/ c \in DOMAIN Young
TooSoon(c) == c \in DOMAIN Young /\ now - Young[c].issued < 1
KeepsClock(c) ==
    /\ given' = Append(given, [conn |-> c, at |-> now])
    /\ table' = [d \in DOMAIN Young \cup {c} |->
          IF d \in DOMAIN Young THEN [Young[d] EXCEPT !.nonce = Len(given) + 1]
          ELSE [nonce |-> Len(given) + 1, issued |-> now, used |-> FALSE]]
fresh_peer_challenge(c) ==
    IF TooSoon(c) \/ ~HasRoom(c)
    THEN table' = Young /\ UNCHANGED given
    ELSE /\ given' = Append(given, [conn |-> c, at |-> now])
         /\ table' = [d \in DOMAIN Young \cup {c} |->
              IF d = c THEN [nonce |-> Len(given) + 1, issued |-> now, used |-> FALSE] ELSE Young[d]]
get_cluster_peer_challenge(c) ==
    /\ c \in asking /\ asking' = asking \ {c} /\ Len(given) < MaxNonces
    /\ fresh_peer_challenge(c)
    /\ UNCHANGED <<now, open, taken, proving, revoked, who>>

\* The connection ends; its streams are told to stop, and one that is running
\* finishes.
Close(c) ==
    /\ c \in open /\ open' = open \ {c}
    /\ table' = Only(table, DOMAIN table \ {c})
    /\ \E A \in {asking, asking \ {c}} : asking' = A
    /\ \E P \in {proving, {p \in proving : p.conn # c}} : proving' = P
    /\ UNCHANGED <<now, given, taken, revoked, who>>

-----------------------------------------------------------------------------
(* Answering *)

UsedAgain(ch, x) == now - ch.issued < Life /\ ch.nonce = x
AnyNonce(ch, x) == ~ch.used /\ now - ch.issued < Life
Answers(ch, x) == ~ch.used /\ now - ch.issued < Life /\ ch.nonce = x
consume_peer_challenge(c, x) == c \in DOMAIN table /\ Answers(table[c], x)

Consume(c, x, kind) ==
    /\ table' = [table EXCEPT ![c].used = TRUE]
    /\ taken' = Append(taken, [nonce |-> x, conn |-> c, at |-> now, kind |-> kind])

\* A peer's request or a joining node's, then checked against the log; a
\* request for another connection, or an answer that is refused, changes
\* nothing.
execute_cluster_peer_request(c, x) ==
    /\ c \in open /\ consume_peer_challenge(c, x) /\ Consume(c, x, "peer")
    /\ UNCHANGED <<now, open, asking, given, proving, revoked, who>>
read_cluster_join_history(c, x) ==
    /\ c \in open /\ consume_peer_challenge(c, x) /\ Consume(c, x, "history")
    /\ UNCHANGED <<now, open, asking, given, proving, revoked, who>>

authenticate_cluster_client(c, x, g) ==
    /\ c \in open /\ consume_peer_challenge(c, x) /\ Consume(c, x, "client")
    /\ proving' = proving \cup {[conn |-> c, grant |-> g, nonce |-> x, step |-> "check"]}
    /\ UNCHANGED <<now, open, asking, given, revoked, who>>

\* Principal::check and the signature over the nonce.
check(g) == g \notin revoked
authenticate(p) ==
    /\ p \in proving /\ p.step = "check"
    /\ proving' = (proving \ {p}) \cup (IF check(p.grant) THEN {[p EXCEPT !.step = "bind"]} ELSE {})
    /\ UNCHANGED <<now, open, table, asking, given, taken, revoked, who>>
BindsAlways(c) == TRUE
Unbound(c) == who[c] = Nobody
Bind(p) ==
    /\ p \in proving /\ p.step = "bind" /\ proving' = proving \ {p}
    /\ who' = IF Unbound(p.conn) THEN [who EXCEPT ![p.conn] = p.grant] ELSE who
    /\ UNCHANGED <<now, open, table, asking, given, taken, revoked>>

\* SessionAuthenticate with a paired secret.
authenticate_session_control(c) ==
    /\ c \in open /\ Unbound(c) /\ who' = [who EXCEPT ![c] = Paired]
    /\ UNCHANGED <<now, open, table, asking, given, taken, proving, revoked>>

Revoke(g) ==
    /\ g \notin revoked /\ revoked' = revoked \cup {g}
    /\ UNCHANGED <<now, open, table, asking, given, taken, proving, who>>
Tick ==
    /\ now < MaxTime /\ now' = now + 1
    /\ UNCHANGED <<open, table, asking, given, taken, proving, revoked, who>>

Next ==
    \/ Tick
    \/ \E g \in Grants : Revoke(g)
    \/ \E p \in proving : authenticate(p) \/ Bind(p)
    \/ \E c \in Conns :
        \/ Ask(c) \/ get_cluster_peer_challenge(c) \/ Close(c) \/ authenticate_session_control(c)
        \/ \E x \in Nonces :
            \/ execute_cluster_peer_request(c, x) \/ read_cluster_join_history(c, x)
            \/ \E g \in Grants : authenticate_cluster_client(c, x, g)

Spec == Init /\ [][Next]_vars

-----------------------------------------------------------------------------
(* A nonce is accepted at most once, on the connection it was given to and *)
(* within its life, whatever the three handlers that take it and the       *)
(* connection's other streams do (consume_peer_challenge).                 *)
OnceInTime ==
    \A i \in 1..Len(taken) :
        LET x == taken[i].nonce IN
        /\ given[x].conn = taken[i].conn /\ taken[i].at - given[x].at < Life
        /\ \A j \in 1..Len(taken) : taken[j].nonce = x => j = i

(* A newer challenge ends the older one of its connection: what is taken   *)
(* of one connection is taken in the order it was given.                   *)
OldNonceEnds ==
    \A i, j \in 1..Len(taken) :
        i < j /\ taken[i].conn = taken[j].conn => taken[i].nonce < taken[j].nonce

(* The table never holds more than its capacity, also when streams that    *)
(* outlive their connection put a challenge back (fresh_peer_challenge).   *)
WithinCapacity == Cardinality(DOMAIN table) <= Cap

(* The safety of the challenge table.                                      *)
ChallengesSound == OnceInTime /\ OldNonceEnds /\ WithinCapacity

(* A session is bound to one identity for its life: two proofs and a       *)
(* paired secret checked at the same time leave the first one bound.       *)
OneIdentity == [][\A c \in Conns : who[c] # Nobody => who'[c] = who[c]]_vars
=============================================================================
