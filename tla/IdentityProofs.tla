--------------------------- MODULE IdentityProofs ---------------------------
(***************************************************************************)
(* Who a connection is and what its calls may do: the challenges of peers  *)
(* (PeerChallenges), the pairing of clients (PairingSessions), the calls   *)
(* of a session (RpcStreams) and the window that asks the user about a     *)
(* pairing (PairingGui).                                                   *)
(*                                                                         *)
(* A nonce counts once, in time and on its connection, and the table stays *)
(* within its capacity: for any number of connections and nonces and any   *)
(* times. What makes it inductive (Ahead): the challenge a connection has  *)
(* is newer than every nonce taken of it, and as long as it is unused it   *)
(* is not one of them. Closing a connection or the end of a challenge's    *)
(* life forgets that, but the next nonce is newer than all of them.        *)
(***************************************************************************)
EXTENDS PeerChallenges, FiniteSetTheorems, TLAPS

Challenge == [nonce : Nat, issued : Nat, used : BOOLEAN]
Given == [conn : Conns, at : Nat]
Taken == [nonce : Nat, conn : Conns, at : Nat, kind : Kinds]
Proof == [conn : Conns, grant : Grants, nonce : Nat, step : {"check", "bind"}]

TableTypes ==
    /\ now \in 0..MaxTime /\ DOMAIN table \subseteq Conns
    /\ table \in [DOMAIN table -> Challenge]
    /\ given \in Seq(Given) /\ taken \in Seq(Taken)
SessionTypes ==
    /\ open \subseteq Conns /\ asking \subseteq Conns /\ proving \subseteq Proof
    /\ revoked \subseteq Grants /\ who \in [Conns -> Grants \cup {Nobody, Paired}]

\* Challenges and answers are of nonces that were given, to that connection.
TableIsGiven ==
    \A c \in DOMAIN table :
        /\ table[c].nonce \in Nonces /\ table[c].issued <= now
        /\ given[table[c].nonce].conn = c /\ given[table[c].nonce].at = table[c].issued
TakenIsGiven ==
    \A i \in 1..Len(taken) :
        /\ taken[i].nonce \in Nonces /\ given[taken[i].nonce].conn = taken[i].conn
        /\ taken[i].at - given[taken[i].nonce].at < Life
Ahead ==
    \A c \in DOMAIN table : \A i \in 1..Len(taken) :
        taken[i].conn = c =>
            /\ taken[i].nonce <= table[c].nonce
            /\ ~table[c].used => taken[i].nonce < table[c].nonce

TableInvariant ==
    /\ TableTypes /\ TableIsGiven /\ TakenIsGiven /\ Ahead /\ OldNonceEnds /\ WithinCapacity
ChallengesInvariant == TableInvariant /\ SessionTypes

-----------------------------------------------------------------------------
\* The order in which the nonces of a connection are taken makes each of them
\* taken once.
LEMMA SoundChallenges ==
  ASSUME ChallengesAssumption, ChallengesInvariant PROVE ChallengesSound
<1>1. \A i \in 1..Len(taken) : taken[i].nonce \in Nat
  <2>1. \A i \in 1..Len(taken) : taken[i] \in Taken
    BY DEF ChallengesInvariant, TableInvariant, TableTypes
  <2> QED
    BY <2>1 DEF Taken
<1>2. OnceInTime
  <2> SUFFICES ASSUME NEW i \in 1..Len(taken)
               PROVE  /\ given[taken[i].nonce].conn = taken[i].conn
                      /\ taken[i].at - given[taken[i].nonce].at < Life
                      /\ \A j \in 1..Len(taken) : taken[j].nonce = taken[i].nonce => j = i
    BY DEF OnceInTime
  <2>1. \A j \in 1..Len(taken) : given[taken[j].nonce].conn = taken[j].conn
    BY DEF ChallengesInvariant, TableInvariant, TakenIsGiven
  <2>2. ASSUME NEW j \in 1..Len(taken), taken[j].nonce = taken[i].nonce PROVE j = i
    <3>1. taken[i].conn = taken[j].conn
      BY <2>1, <2>2
    <3>2. ~(i < j) /\ ~(j < i)
      BY <1>1, <2>2, <3>1 DEF ChallengesInvariant, TableInvariant, OldNonceEnds
    <3> QED
      BY <3>2
  <2> QED
    BY <2>2 DEF ChallengesInvariant, TableInvariant, TakenIsGiven
<1> QED
  BY <1>2 DEF ChallengesInvariant, TableInvariant, ChallengesSound

LEMMA ChallengeTypes ==
  ASSUME ChallengesInvariant PROVE TypeOK
<1>1. ASSUME NEW c \in DOMAIN table
      PROVE  /\ table[c].nonce \in Nonces /\ table[c].issued \in 0..now /\ table[c].used \in BOOLEAN
             /\ given[table[c].nonce] = [conn |-> c, at |-> table[c].issued]
  <2>1. table[c] \in Challenge /\ table[c].nonce \in Nonces /\ table[c].issued <= now
        /\ given[table[c].nonce].conn = c /\ given[table[c].nonce].at = table[c].issued
    BY DEF ChallengesInvariant, TableInvariant, TableTypes, TableIsGiven
  <2>2. given[table[c].nonce] \in Given
    BY <2>1 DEF ChallengesInvariant, TableInvariant, TableTypes, Nonces
  <2>3. given[table[c].nonce] = [conn |-> c, at |-> table[c].issued]
    BY <2>1, <2>2 DEF Given
  <2>4. table[c].issued \in 0..now
    BY <2>1 DEF Challenge, ChallengesInvariant, TableInvariant, TableTypes
  <2>5. table[c].used \in BOOLEAN
    BY <2>1, Zenon DEF Challenge
  <2> QED
    BY <2>1, <2>3, <2>4, <2>5
<1>2. \A i \in 1..Len(taken) : taken[i].nonce \in Nonces /\ taken[i].kind \in Kinds
  <2>1. \A i \in 1..Len(taken) : taken[i] \in Taken
    BY DEF ChallengesInvariant, TableInvariant, TableTypes
  <2> QED
    BY <2>1 DEF ChallengesInvariant, TableInvariant, TakenIsGiven, Taken
<1>3. \A p \in proving : p.conn \in Conns /\ p.grant \in Grants /\ p.step \in {"check", "bind"}
  BY DEF ChallengesInvariant, SessionTypes, Proof
<1> QED
  BY <1>1, <1>2, <1>3, Zenon DEF TypeOK, ChallengesInvariant, TableInvariant, TableTypes, SessionTypes

LEMMA ChallengesEstablished ==
  ASSUME ChallengesAssumption, Init PROVE ChallengesInvariant
<1>1. DOMAIN table = {} /\ Len(given) = 0 /\ Len(taken) = 0
  BY DEF Init
<1>2. TableTypes
  <2>1. table \in [DOMAIN table -> Challenge]
    BY <1>1 DEF Init
  <2>2. now \in 0..MaxTime
    BY DEF Init, ChallengesAssumption
  <2> QED
    BY <1>1, <2>1, <2>2 DEF Init, TableTypes
<1>3. SessionTypes
  BY DEF Init, SessionTypes
<1>4. TableIsGiven /\ TakenIsGiven /\ Ahead /\ OldNonceEnds
  BY <1>1 DEF TableIsGiven, TakenIsGiven, Ahead, OldNonceEnds
<1>5. WithinCapacity
  BY <1>1, FS_EmptySet DEF WithinCapacity, ChallengesAssumption
<1> QED
  BY <1>2, <1>3, <1>4, <1>5 DEF ChallengesInvariant, TableInvariant

-----------------------------------------------------------------------------
\* The table has as many challenges as it may, and no more than there are connections.
LEMMA TableFinite ==
  ASSUME ChallengesAssumption, TableInvariant, NEW S \in SUBSET DOMAIN table
  PROVE  IsFiniteSet(S) /\ Cardinality(S) \in Nat /\ Cardinality(S) <= Cap
<1>1. IsFiniteSet(DOMAIN table)
  BY FS_Subset DEF ChallengesAssumption, TableInvariant, TableTypes
<1>2. IsFiniteSet(S) /\ Cardinality(S) <= Cardinality(DOMAIN table)
  BY <1>1, FS_Subset
<1>3. Cardinality(S) \in Nat /\ Cardinality(DOMAIN table) \in Nat
  BY <1>1, <1>2, FS_CardinalityType
<1> QED
  BY <1>2, <1>3 DEF ChallengesAssumption, TableInvariant, WithinCapacity

\* Challenges are forgotten: the connection closed, or they are too old.
LEMMA ForgettingKeeps ==
  ASSUME ChallengesAssumption, TableInvariant, NEW S \in SUBSET DOMAIN table,
         table' = Only(table, S), UNCHANGED <<now, given, taken>>
  PROVE  TableInvariant'
<1>1. DOMAIN table' = S /\ \A c \in S : table'[c] = table[c]
  BY DEF Only
<1>2. TableTypes'
  <2>1. table' \in [S -> Challenge]
    BY DEF Only, TableInvariant, TableTypes
  <2> QED
    BY <1>1, <2>1 DEF TableInvariant, TableTypes
<1>3. TableIsGiven'
  BY <1>1 DEF TableInvariant, TableIsGiven, Nonces
<1>4. TakenIsGiven' /\ OldNonceEnds'
  BY DEF TableInvariant, TakenIsGiven, OldNonceEnds, Nonces
<1>5. Ahead'
  BY <1>1 DEF TableInvariant, Ahead
<1>6. WithinCapacity'
  BY <1>1, TableFinite DEF WithinCapacity
<1> QED
  BY <1>2, <1>3, <1>4, <1>5, <1>6 DEF TableInvariant

\* A new challenge is newer than everything taken, and has room.
LEMMA GivingKeeps ==
  ASSUME ChallengesAssumption, TableInvariant, NEW c \in Conns, HasRoom(c),
         given' = Append(given, [conn |-> c, at |-> now]),
         table' = [d \in DOMAIN Young \cup {c} |->
              IF d = c THEN [nonce |-> Len(given) + 1, issued |-> now, used |-> FALSE] ELSE Young[d]],
         UNCHANGED <<now, taken>>
  PROVE  TableInvariant'
<1> DEFINE S == DOMAIN Young
           new == [nonce |-> Len(given) + 1, issued |-> now, used |-> FALSE]
<1>1. S \subseteq DOMAIN table /\ \A d \in S : Young[d] = table[d]
  BY DEF Young, Only
<1>2. now \in Nat /\ Len(given) \in Nat
  BY DEF TableInvariant, TableTypes, ChallengesAssumption
<1>3. new \in Challenge /\ new.nonce = Len(given) + 1 /\ new.issued = now /\ ~new.used
  BY <1>2 DEF Challenge
<1>4. [conn |-> c, at |-> now] \in Given
  BY <1>2 DEF Given
<1>5. /\ given' \in Seq(Given) /\ Len(given') = Len(given) + 1
      /\ given'[Len(given) + 1] = [conn |-> c, at |-> now]
      /\ \A x \in Nonces : given'[x] = given[x]
  BY <1>4 DEF TableInvariant, TableTypes, Nonces
<1>6. DOMAIN table' = S \cup {c} /\ table'[c] = new
      /\ \A d \in S : d # c => table'[d] = table[d]
  BY <1>1
<1>7. \A d \in DOMAIN table : table[d] \in Challenge
  BY DEF TableInvariant, TableTypes
<1> HIDE DEF S, new
<1>8. TableTypes'
  <2>1. table' = [d \in S \cup {c} |-> table'[d]]
    BY DEF S
  <2>2. table' \in [S \cup {c} -> Challenge]
    BY <1>1, <1>3, <1>6, <1>7, <2>1
  <2> QED
    BY <1>1, <1>5, <1>6, <2>2 DEF TableInvariant, TableTypes
<1>9. TableIsGiven'
  BY <1>1, <1>2, <1>3, <1>5, <1>6 DEF TableInvariant, TableIsGiven, Nonces
<1>10. TakenIsGiven'
  BY <1>2, <1>5 DEF TableInvariant, TakenIsGiven, Nonces
<1>11. Ahead'
  <2>1. \A i \in 1..Len(taken) : taken[i].nonce \in Nat /\ taken[i].nonce < Len(given) + 1
    BY <1>2 DEF TableInvariant, TakenIsGiven, Nonces
  <2> QED
    BY <1>1, <1>3, <1>6, <2>1 DEF TableInvariant, Ahead
<1>12. OldNonceEnds'
  BY DEF TableInvariant, OldNonceEnds
<1>13. WithinCapacity'
  <2>1. IsFiniteSet(S) /\ Cardinality(S) \in Nat /\ Cardinality(S) <= Cap
    BY <1>1, TableFinite
  <2>2. Cardinality(S) < Cap \/ c \in S
    BY DEF HasRoom, S
  <2>3. Cardinality(S \cup {c}) = IF c \in S THEN Cardinality(S) ELSE Cardinality(S) + 1
    BY <2>1, FS_AddElement
  <2>4. Cap \in Nat
    BY DEF ChallengesAssumption
  <2>5. Cardinality(S \cup {c}) <= Cap
    BY <2>1, <2>2, <2>3, <2>4
  <2> QED
    BY <1>6, <2>5 DEF WithinCapacity
<1> QED
  BY <1>8, <1>9, <1>10, <1>11, <1>12, <1>13 DEF TableInvariant

\* What is taken is the challenge the connection has, unused until then.
LEMMA TakingKeeps ==
  ASSUME ChallengesAssumption, TableInvariant, NEW c \in Conns, NEW x, NEW kind \in Kinds,
         consume_peer_challenge(c, x), Consume(c, x, kind), UNCHANGED <<now, given>>
  PROVE  TableInvariant'
<1>1. c \in DOMAIN table /\ table[c].nonce = x /\ ~table[c].used /\ now - table[c].issued < Life
  BY DEF consume_peer_challenge, Answers
<1>2. \A d \in DOMAIN table : table[d] \in Challenge
  BY DEF TableInvariant, TableTypes
<1>3. [table[c] EXCEPT !.used = TRUE] \in Challenge
      /\ [table[c] EXCEPT !.used = TRUE].nonce = x
      /\ [table[c] EXCEPT !.used = TRUE].issued = table[c].issued
      /\ [table[c] EXCEPT !.used = TRUE].used
  BY <1>1, <1>2 DEF Challenge
<1>4. table' = [table EXCEPT ![c] = [table[c] EXCEPT !.used = TRUE]]
  BY DEF Consume
<1>5. DOMAIN table' = DOMAIN table /\ table'[c] = [table[c] EXCEPT !.used = TRUE]
      /\ \A d \in DOMAIN table : d # c => table'[d] = table[d]
  BY <1>1, <1>4
<1>6. x \in Nat /\ x \in Nonces /\ given[x].conn = c /\ given[x].at = table[c].issued /\ now \in Nat
  BY <1>1, <1>2 DEF Challenge, TableInvariant, TableIsGiven, TableTypes
<1> DEFINE t == [nonce |-> x, conn |-> c, at |-> now, kind |-> kind]
<1>7. t \in Taken /\ t.nonce = x /\ t.conn = c /\ t.at = now
  BY <1>6 DEF Taken
<1>8. /\ taken' \in Seq(Taken) /\ Len(taken') = Len(taken) + 1 /\ taken'[Len(taken) + 1] = t
      /\ \A i \in 1..Len(taken) : taken'[i] = taken[i] /\ taken[i] \in Taken
      /\ Len(taken) \in Nat
  BY <1>7 DEF Consume, TableInvariant, TableTypes
<1> HIDE DEF t
<1>9. TableTypes'
  <2>1. table' \in [DOMAIN table -> Challenge]
    BY <1>3, <1>4 DEF TableInvariant, TableTypes
  <2> QED
    BY <1>5, <1>8, <2>1 DEF TableInvariant, TableTypes
<1>10. TableIsGiven'
  <2> SUFFICES ASSUME NEW d \in DOMAIN table
               PROVE  /\ table'[d].nonce \in Nonces /\ table'[d].issued <= now
                      /\ given[table'[d].nonce].conn = d /\ given[table'[d].nonce].at = table'[d].issued
    BY <1>5 DEF TableIsGiven, Nonces
  <2>1. table'[d].nonce = table[d].nonce /\ table'[d].issued = table[d].issued
    BY <1>1, <1>3, <1>5
  <2> QED
    BY <2>1 DEF TableInvariant, TableIsGiven
<1>11. TakenIsGiven'
  <2> SUFFICES ASSUME NEW i \in 1..Len(taken')
               PROVE  /\ taken'[i].nonce \in Nonces /\ given[taken'[i].nonce].conn = taken'[i].conn
                      /\ taken'[i].at - given[taken'[i].nonce].at < Life
    BY DEF TakenIsGiven, Nonces
  <2>1. CASE i = Len(taken) + 1
    BY <1>1, <1>6, <1>7, <1>8, <2>1
  <2>2. CASE i \in 1..Len(taken)
    BY <1>8, <2>2 DEF TableInvariant, TakenIsGiven
  <2> QED
    BY <1>8, <2>1, <2>2
<1>12. \A i \in 1..Len(taken) : taken[i].conn = c => taken[i].nonce < x
  BY <1>1 DEF TableInvariant, Ahead
<1>13. Ahead'
  <2> SUFFICES ASSUME NEW d \in DOMAIN table, NEW i \in 1..Len(taken'), taken'[i].conn = d
               PROVE  /\ taken'[i].nonce <= table'[d].nonce
                      /\ ~table'[d].used => taken'[i].nonce < table'[d].nonce
    BY <1>5 DEF Ahead
  <2>1. CASE d = c
    <3>1. taken'[i].nonce <= x
      <4>1. CASE i = Len(taken) + 1
        BY <1>6, <1>7, <1>8, <4>1
      <4>2. CASE i \in 1..Len(taken)
        <5>1. taken[i] \in Taken /\ taken[i].nonce < x /\ taken'[i] = taken[i]
          BY <1>8, <1>12, <2>1, <4>2
        <5>2. taken[i].nonce \in Nat
          BY <5>1 DEF Taken
        <5> QED
          BY <1>6, <5>1, <5>2
      <4> QED
        BY <1>8, <4>1, <4>2
    <3> QED
      BY <1>3, <1>5, <2>1, <3>1
  <2>2. CASE d # c
    <3>1. i \in 1..Len(taken)
      BY <1>7, <1>8, <2>2
    <3> QED
      BY <1>5, <1>8, <2>2, <3>1 DEF TableInvariant, Ahead
  <2> QED
    BY <2>1, <2>2
<1>14. OldNonceEnds'
  <2> SUFFICES ASSUME NEW i \in 1..Len(taken'), NEW j \in 1..Len(taken'),
                      i < j, taken'[i].conn = taken'[j].conn
               PROVE  taken'[i].nonce < taken'[j].nonce
    BY DEF OldNonceEnds
  <2>1. CASE j = Len(taken) + 1
    BY <1>7, <1>8, <1>12, <2>1
  <2>2. CASE j \in 1..Len(taken)
    BY <1>8, <2>2 DEF TableInvariant, OldNonceEnds
  <2> QED
    BY <1>8, <2>1, <2>2
<1>15. WithinCapacity'
  BY <1>5 DEF TableInvariant, WithinCapacity
<1> QED
  BY <1>9, <1>10, <1>11, <1>13, <1>14, <1>15 DEF TableInvariant

\* The clock may go on, and everything else of the table stays.
LEMMA WaitingKeeps ==
  ASSUME ChallengesAssumption, TableInvariant, now' \in 0..MaxTime, now' >= now,
         UNCHANGED <<table, given, taken>>
  PROVE  TableInvariant'
<1>1. TableTypes'
  BY DEF TableInvariant, TableTypes
<1>2. TableIsGiven'
  <2>1. now \in Int /\ now' \in Int
    BY DEF TableInvariant, TableTypes
  <2>2. \A c \in DOMAIN table : table[c].issued \in Nat
    <3>1. \A c \in DOMAIN table : table[c] \in Challenge
      BY DEF TableInvariant, TableTypes
    <3> QED
      BY <3>1 DEF Challenge
  <2> QED
    BY <2>1, <2>2 DEF TableInvariant, TableIsGiven, Nonces
<1>3. TakenIsGiven' /\ Ahead' /\ OldNonceEnds' /\ WithinCapacity'
  BY DEF TableInvariant, TakenIsGiven, Ahead, OldNonceEnds, WithinCapacity, Nonces
<1> QED
  BY <1>1, <1>2, <1>3 DEF TableInvariant

LEMMA NextKeepsTable ==
  ASSUME ChallengesAssumption, ChallengesInvariant, Next PROVE TableInvariant'
<1> USE DEF ChallengesInvariant
<1>1. now \in 0..MaxTime /\ now \in Int /\ MaxTime \in Int
  BY DEF TableInvariant, TableTypes, ChallengesAssumption
<1>2. CASE UNCHANGED <<now, table, given, taken>>
  BY <1>1, <1>2, WaitingKeeps
<1>3. CASE Tick
  BY <1>1, <1>3, WaitingKeeps DEF Tick
<1>4. ASSUME NEW c \in Conns, get_cluster_peer_challenge(c) PROVE TableInvariant'
  <2>1. CASE TooSoon(c) \/ ~HasRoom(c)
    BY <1>4, <2>1, ForgettingKeeps DEF get_cluster_peer_challenge, fresh_peer_challenge, Young
  <2>2. CASE ~(TooSoon(c) \/ ~HasRoom(c))
    BY <1>4, <2>2, GivingKeeps DEF get_cluster_peer_challenge, fresh_peer_challenge
  <2> QED
    BY <2>1, <2>2
<1>5. ASSUME NEW c \in Conns, Close(c) PROVE TableInvariant'
  BY <1>5, ForgettingKeeps DEF Close
<1>6. ASSUME NEW c \in Conns, NEW x \in Nonces,
             \/ execute_cluster_peer_request(c, x) \/ read_cluster_join_history(c, x)
             \/ \E g \in Grants : authenticate_cluster_client(c, x, g)
      PROVE  TableInvariant'
  BY <1>6, TakingKeeps
     DEF execute_cluster_peer_request, read_cluster_join_history, authenticate_cluster_client, Kinds
<1> QED
  BY <1>2, <1>3, <1>4, <1>5, <1>6
     DEF Next, Revoke, authenticate, Bind, Ask, authenticate_session_control

LEMMA NextKeepsSessions ==
  ASSUME ChallengesAssumption, ChallengesInvariant, Next PROVE SessionTypes'
<1> USE DEF ChallengesInvariant
<1>1. open' \subseteq Conns /\ asking' \subseteq Conns /\ revoked' \subseteq Grants
  BY DEF SessionTypes, Next, Tick, Revoke, authenticate, Bind, Ask, get_cluster_peer_challenge, Close,
         authenticate_session_control, execute_cluster_peer_request, read_cluster_join_history,
         authenticate_cluster_client
<1>2. proving' \subseteq Proof
  <2>1. CASE proving' \subseteq proving
    BY <2>1 DEF SessionTypes
  <2>2. ASSUME NEW p \in proving, authenticate(p) PROVE proving' \subseteq Proof
    <3>1. p \in Proof /\ [p EXCEPT !.step = "bind"] \in Proof
      BY DEF SessionTypes, Proof
    <3> QED
      BY <2>2, <3>1 DEF authenticate, SessionTypes
  <2>3. ASSUME NEW c \in Conns, NEW x \in Nonces, NEW g \in Grants, authenticate_cluster_client(c, x, g)
        PROVE  proving' \subseteq Proof
    <3>1. x \in Nat
      BY DEF Nonces, TableInvariant, TableTypes
    <3>2. [conn |-> c, grant |-> g, nonce |-> x, step |-> "check"] \in Proof
      BY <3>1 DEF Proof
    <3> QED
      BY <2>3, <3>2 DEF authenticate_cluster_client, SessionTypes
  <2> QED
    BY <2>1, <2>2, <2>3
       DEF Next, Tick, Revoke, Bind, Ask, get_cluster_peer_challenge, Close, authenticate_session_control,
           execute_cluster_peer_request, read_cluster_join_history
<1>3. who' \in [Conns -> Grants \cup {Nobody, Paired}]
  <2>1. CASE who' = who
    BY <2>1 DEF SessionTypes
  <2>2. ASSUME NEW p \in proving, Bind(p) PROVE who' \in [Conns -> Grants \cup {Nobody, Paired}]
    <3>1. p.conn \in Conns /\ p.grant \in Grants
      BY DEF SessionTypes, Proof
    <3> QED
      BY <2>2, <3>1 DEF Bind, SessionTypes
  <2>3. ASSUME NEW c \in Conns, authenticate_session_control(c)
        PROVE  who' \in [Conns -> Grants \cup {Nobody, Paired}]
    BY <2>3 DEF authenticate_session_control, SessionTypes
  <2> QED
    BY <2>1, <2>2, <2>3
       DEF Next, Tick, Revoke, authenticate, Ask, get_cluster_peer_challenge, Close,
           execute_cluster_peer_request, read_cluster_join_history, authenticate_cluster_client
<1> QED
  BY <1>1, <1>2, <1>3 DEF SessionTypes

LEMMA ChallengesPreserved ==
  ASSUME ChallengesAssumption, ChallengesInvariant, [Next]_vars PROVE ChallengesInvariant'
<1>1. CASE Next
  BY <1>1, NextKeepsTable, NextKeepsSessions DEF ChallengesInvariant
<1>2. CASE UNCHANGED vars
  <2>1. TableInvariant'
    <3>1. now' \in 0..MaxTime /\ now' >= now
      BY <1>2 DEF vars, ChallengesInvariant, TableInvariant, TableTypes
    <3> QED
      BY <1>2, <3>1, WaitingKeeps DEF vars, ChallengesInvariant
  <2>2. SessionTypes'
    BY <1>2 DEF vars, ChallengesInvariant, SessionTypes
  <2> QED
    BY <2>1, <2>2 DEF ChallengesInvariant
<1> QED
  BY <1>1, <1>2

-----------------------------------------------------------------------------
(* Every reachable state has the types and the inductive invariant.         *)
THEOREM ChallengesAreTyped ==
  ASSUME ChallengesAssumption PROVE Spec => [](TypeOK /\ ChallengesInvariant)
<1>1. ChallengesInvariant => TypeOK
  BY ChallengeTypes
<1>2. Init => ChallengesInvariant
  BY ChallengesEstablished
<1>3. ChallengesInvariant /\ [Next]_vars => ChallengesInvariant'
  BY ChallengesPreserved
<1> QED
  BY <1>1, <1>2, <1>3, PTL DEF Spec

(* A nonce is accepted at most once, on its connection, within its life and *)
(* until a newer one is given, and the table never exceeds its capacity     *)
(* (consume_peer_challenge, fresh_peer_challenge).                          *)
THEOREM ChallengesCountOnce ==
  ASSUME ChallengesAssumption PROVE Spec => []ChallengesSound
<1>1. ChallengesInvariant => ChallengesSound
  BY SoundChallenges
<1> QED
  BY <1>1, ChallengesAreTyped, PTL

(* A session keeps the identity it was bound to first, however many proofs  *)
(* are checked at once (authenticate_cluster_client, SessionAuthenticate).  *)
THEOREM IdentityIsKept ==
  ASSUME ChallengesAssumption PROVE Spec => OneIdentity
<1> DEFINE Keeps == \A c \in Conns : who[c] # Nobody => who'[c] = who[c]
<1>1. ASSUME ChallengesInvariant, Next PROVE Keeps
  <2>1. CASE who' = who
    BY <2>1
  <2>2. ASSUME NEW d, who[d] = Nobody, \E v : who' = [who EXCEPT ![d] = v] PROVE Keeps
    BY <1>1, <2>2 DEF ChallengesInvariant, SessionTypes
  <2> HIDE DEF Keeps
  <2> QED
    BY <1>1, <2>1, <2>2
       DEF Keeps, Next, Tick, Revoke, authenticate, Bind, Unbound, Ask, get_cluster_peer_challenge, Close,
           authenticate_session_control, execute_cluster_peer_request, read_cluster_join_history,
           authenticate_cluster_client
<1>2. ChallengesInvariant /\ [Next]_vars => [Keeps]_vars
  BY <1>1
<1>3. [][Keeps]_vars <=> OneIdentity
  BY PTL DEF OneIdentity
<1> HIDE DEF Keeps
<1> QED
  BY <1>2, <1>3, ChallengesAreTyped, PTL DEF Spec

-----------------------------------------------------------------------------
(* Pairing (PairingSessions). The handlers of several attempts of a client  *)
(* run between each other's steps; each looks again, under the lock, whether*)
(* its attempt is the current one. What makes that enough (CurrentIsNewest):*)
(* attempts are numbered in the order they begin and the current one of a   *)
(* client is always the newest that began.                                  *)

CONSTANTS Clients, Sessions, Renewals, Removals, MaxAttempts, PairingTime, Ttl
VARIABLES next, current, challenge, attempt, file, edit, auth, verified, removed, clock
P == INSTANCE PairingSessions WITH MaxTime <- PairingTime

\* A call of StartPairing.
Attempt == [at : P!Steps, key : P!Keys, session : Sessions \cup {P!None}, expires : Nat]

PairingTypes ==
    /\ next \in 0..MaxAttempts /\ current \in [P!Keys -> 0..MaxAttempts]
    /\ challenge \in 0..MaxAttempts /\ attempt \in [P!Attempts -> Attempt]
SessionAuth ==
    /\ auth \in [Sessions -> P!Ids \cup {P!None}] /\ verified \in [Sessions -> SUBSET P!Ids]
    /\ clock \in Nat

\* Attempts are numbered in the order in which they were begun.
BegunInOrder == \A a \in P!Attempts : P!Begun(a) => a <= next

\* The current attempt of a client is its newest.
CurrentIsNewest == \A k \in P!Keys : current[k] # P!None =>
    /\ attempt[current[k]].key = k /\ P!Begun(current[k])
    /\ \A b \in P!Attempts : b > current[k] /\ P!Begun(b) => attempt[b].key # k

PairingInvariant ==
    /\ PairingTypes /\ BegunInOrder /\ CurrentIsNewest /\ P!ChallengeCurrent

\* The numbers of attempts, and what the names stand for.
LEMMA AttemptFacts ==
    ASSUME P!PairingAssumption
    PROVE  /\ P!None \notin P!Attempts /\ \A a \in P!Attempts : a \in Int /\ a \in 0..MaxAttempts
           /\ \A n \in 0..MaxAttempts : n # P!None => n \in P!Attempts
           /\ \A n \in 0..MaxAttempts : n < MaxAttempts => n + 1 \in P!Attempts
           /\ P!Ids = Clients \cup P!Attempts /\ P!Attempts \subseteq P!Edits
           /\ MaxAttempts \in Nat /\ Ttl \in Nat
  BY DEF P!PairingAssumption, P!Attempts, P!None, P!Ids, P!Edits

\* A new attempt is the newest of its client and ends the challenge of the older one.
LEMMA StartKeeps ==
    ASSUME P!PairingAssumption, PairingInvariant, NEW k \in P!Keys, NEW s \in Sessions,
           P!StartPairing(k, s)
    PROVE  PairingInvariant'
  <1> DEFINE n == next + 1
             new == [at |-> "confirming", key |-> k, session |-> s, expires |-> 0]
  <1>1. /\ next \in 0..MaxAttempts /\ next < MaxAttempts /\ n \in P!Attempts /\ n \in 0..MaxAttempts
        /\ next' = n /\ current' = [current EXCEPT ![k] = n] /\ challenge' = P!Superseded(k)
        /\ attempt' = [attempt EXCEPT ![n] = new]
        /\ \A a \in P!Attempts : a \in Int
    BY AttemptFacts DEF PairingInvariant, PairingTypes, P!StartPairing
  <1>2. new \in Attempt
    BY DEF Attempt, P!Steps
  <1>3. /\ \A a \in P!Attempts : a # n => attempt'[a] = attempt[a]
        /\ attempt'[n].key = k /\ attempt'[n].at = "confirming"
        /\ \A x \in P!Keys : x # k => current'[x] = current[x]
        /\ current'[k] = n
    BY <1>1 DEF PairingInvariant, PairingTypes
  <1>4. PairingTypes'
    <2>1. challenge' \in 0..MaxAttempts
      <3>1. P!None \in 0..MaxAttempts
        BY AttemptFacts DEF P!None
      <3> QED  BY <1>1, <3>1 DEF P!Superseded, PairingInvariant, PairingTypes
    <2> HIDE DEF new
    <2> QED  BY <1>1, <1>2, <2>1 DEF PairingInvariant, PairingTypes
  <1> HIDE DEF n, new
  <1>5. \A a \in P!Attempts : P!Begun(a) => a < n
    BY <1>1 DEF PairingInvariant, BegunInOrder, n
  <1>6. BegunInOrder'
    BY <1>1, <1>3, <1>5 DEF BegunInOrder, P!Begun, PairingInvariant
  <1>7. \A x \in P!Keys : current[x] # P!None => current[x] \in P!Attempts /\ current[x] < n
    BY <1>5, AttemptFacts DEF PairingInvariant, PairingTypes, CurrentIsNewest
  <1>8. CurrentIsNewest'
    BY <1>1, <1>3, <1>5, <1>7 DEF CurrentIsNewest, P!Begun, PairingInvariant
  <1>9. P!ChallengeCurrent'
    <2>1. CASE challenge' = P!None
      BY <2>1 DEF P!ChallengeCurrent
    <2>2. CASE challenge' # P!None
      <3>1. challenge' = challenge /\ challenge # P!None /\ attempt[challenge].key # k
        BY <1>1, <2>2 DEF P!Superseded
      <3>2. /\ challenge \in P!Attempts /\ current[attempt[challenge].key] = challenge
            /\ attempt[challenge].at \in {"showing", "shown"}
        BY <3>1, AttemptFacts DEF PairingInvariant, PairingTypes, P!ChallengeCurrent, P!IsCurrent
      <3>3. challenge < n
        BY <1>5, <3>2 DEF P!Begun
      <3>4. attempt'[challenge] = attempt[challenge] /\ attempt[challenge].key \in P!Keys
        BY <1>1, <1>3, <3>2, <3>3 DEF PairingInvariant, PairingTypes, Attempt
      <3> QED  BY <1>3, <3>1, <3>2, <3>4 DEF P!ChallengeCurrent, P!IsCurrent
    <2> QED  BY <2>1, <2>2
  <1> QED  BY <1>4, <1>6, <1>8, <1>9 DEF PairingInvariant

\* What a step of an attempt changes: its step, and perhaps the expiry of its code; it may
\* stop being current; the challenge stays, goes, or becomes this attempt.
LEMMA StepKeeps ==
    ASSUME P!PairingAssumption, PairingInvariant, NEW a \in P!Attempts,
           NEW to \in P!Steps \ {"unused"},
           attempt[a].at # "unused", next' = next,
           \E x \in Nat : attempt' = [attempt EXCEPT ![a] =
                [at |-> to, key |-> @.key, session |-> @.session, expires |-> x]],
           current' = current \/ (P!IsCurrent(a) /\ P!Forget(a)),
           \/ challenge' = P!None
           \/ /\ challenge' = challenge
              /\ challenge = a => current' = current /\ to \in {"showing", "shown"}
           \/ challenge' = a /\ P!IsCurrent(a) /\ current' = current /\ to = "showing"
    PROVE  PairingInvariant'
  <1>1. PICK x \in Nat : attempt' = [attempt EXCEPT ![a] =
            [at |-> to, key |-> @.key, session |-> @.session, expires |-> x]]
    OBVIOUS
  <1>2. /\ attempt \in [P!Attempts -> Attempt] /\ attempt[a] \in Attempt
        /\ current \in [P!Keys -> 0..MaxAttempts] /\ attempt[a].key \in P!Keys
    BY DEF PairingInvariant, PairingTypes, Attempt
  <1>3. /\ \A b \in P!Attempts : attempt'[b].key = attempt[b].key
        /\ \A b \in P!Attempts : b # a => attempt'[b] = attempt[b]
        /\ attempt'[a].at = to
    BY <1>1, <1>2
  <1>4. \A b \in P!Attempts : P!Begun(b)' <=> P!Begun(b)
    BY <1>3 DEF P!Begun
  <1>5. \A k \in P!Keys : current'[k] = current[k] \/ current'[k] = P!None
    BY <1>2 DEF P!Forget
  <1>6. PairingTypes'
    <2>1. [at |-> to, key |-> attempt[a].key, session |-> attempt[a].session, expires |-> x]
             \in Attempt
      BY <1>2 DEF Attempt
    <2>2. attempt' \in [P!Attempts -> Attempt]
      BY <1>1, <1>2, <2>1
    <2>3. 0 \in 0..MaxAttempts /\ a \in 0..MaxAttempts
      BY AttemptFacts
    <2>4. current' \in [P!Keys -> 0..MaxAttempts]
      BY <1>2, <2>3 DEF P!Forget, P!None
    <2>5. challenge' \in 0..MaxAttempts
      BY <2>3 DEF P!None, PairingInvariant, PairingTypes
    <2> QED  BY <2>2, <2>4, <2>5 DEF PairingTypes, PairingInvariant
  <1>7. BegunInOrder'
    BY <1>4 DEF PairingInvariant, BegunInOrder
  <1>8. \A k \in P!Keys : current[k] # P!None => current[k] \in P!Attempts
    BY <1>2, AttemptFacts
  <1>9. CurrentIsNewest'
    BY <1>3, <1>4, <1>5, <1>8 DEF PairingInvariant, CurrentIsNewest
  <1>10. P!ChallengeCurrent'
    <2>1. CASE challenge' = P!None
      BY <2>1 DEF P!ChallengeCurrent
    <2>2. CASE challenge' = a /\ P!IsCurrent(a) /\ current' = current /\ to \in {"showing", "shown"}
      BY <1>3, <2>2 DEF P!ChallengeCurrent, P!IsCurrent
    <2>3. CASE challenge' = challenge /\ challenge # P!None
      <3>1. /\ challenge \in P!Attempts /\ P!IsCurrent(challenge)
            /\ attempt[challenge].at \in {"showing", "shown"}
        BY <2>3, AttemptFacts DEF PairingInvariant, PairingTypes, P!ChallengeCurrent
      <3>2. CASE challenge = a
        BY <2>2, <2>3, <3>1, <3>2 DEF P!None
      <3>3. CASE challenge # a
        <4>1. attempt'[challenge] = attempt[challenge]
          BY <1>3, <3>1, <3>3
        <4>2. current'[attempt[challenge].key] = current[attempt[challenge].key]
          <5>1. attempt[challenge].key \in P!Keys
            BY <1>2, <3>1 DEF Attempt
          <5>2. P!IsCurrent(a) => attempt[challenge].key # attempt[a].key
            BY <3>1, <3>3 DEF P!IsCurrent
          <5> QED  BY <1>2, <5>1, <5>2 DEF P!Forget
        <4> QED  BY <2>3, <3>1, <4>1, <4>2 DEF P!ChallengeCurrent, P!IsCurrent
      <3> QED  BY <3>2, <3>3
    <2> QED  BY <2>1, <2>2, <2>3
  <1> QED  BY <1>6, <1>7, <1>9, <1>10 DEF PairingInvariant

\* Naming the step of an attempt alone leaves the rest of its record.
LEMMA SteppedRecord ==
    ASSUME PairingInvariant, NEW a \in P!Attempts, NEW to
    PROVE  \E x \in Nat : P!Stepped(a, to) = [attempt EXCEPT ![a] =
                [at |-> to, key |-> @.key, session |-> @.session, expires |-> x]]
  <1>1. attempt \in [P!Attempts -> Attempt] /\ attempt[a] \in Attempt
    BY DEF PairingInvariant, PairingTypes
  <1>2. [attempt[a] EXCEPT !.at = to] =
            [at |-> to, key |-> attempt[a].key, session |-> attempt[a].session,
             expires |-> attempt[a].expires]
    BY <1>1 DEF Attempt
  <1>3. P!Stepped(a, to) = [attempt EXCEPT ![a] = [attempt[a] EXCEPT !.at = to]]
    BY <1>1 DEF P!Stepped
  <1>4. attempt[a].expires \in Nat
    BY <1>1 DEF Attempt
  <1> QED  BY <1>2, <1>3, <1>4

\* Making the code names the step of an attempt and the expiry of its code.
LEMMA InstalledRecord ==
    ASSUME P!PairingAssumption, PairingInvariant, clock \in Nat, NEW a \in P!Attempts
    PROVE  \E x \in Nat : [attempt EXCEPT ![a].at = "showing", ![a].expires = clock + Ttl]
                = [attempt EXCEPT ![a] =
                      [at |-> "showing", key |-> @.key, session |-> @.session, expires |-> x]]
  <1>1. attempt \in [P!Attempts -> Attempt] /\ attempt[a] \in Attempt
    BY DEF PairingInvariant, PairingTypes
  <1>2. clock + Ttl \in Nat
    BY AttemptFacts
  <1> DEFINE x == clock + Ttl
             r == [at |-> "showing", key |-> attempt[a].key, session |-> attempt[a].session,
                   expires |-> x]
  <1>3. [attempt EXCEPT ![a].at = "showing", ![a].expires = x] = [attempt EXCEPT ![a] = r]
    <2>1. [attempt EXCEPT ![a].at = "showing", ![a].expires = x]
            = [[attempt EXCEPT ![a].at = "showing"] EXCEPT ![a].expires = x]
      BY <1>1
    <2>2. [attempt EXCEPT ![a].at = "showing"]
            = [attempt EXCEPT ![a] = [attempt[a] EXCEPT !.at = "showing"]]
      BY <1>1
    <2>3. [attempt[a] EXCEPT !.at = "showing"]
            = [at |-> "showing", key |-> attempt[a].key, session |-> attempt[a].session,
               expires |-> attempt[a].expires]
      BY <1>1 DEF Attempt
    <2>4. [[attempt[a] EXCEPT !.at = "showing"] EXCEPT !.expires = x] = r
      <3>1. [[at |-> "showing", key |-> attempt[a].key, session |-> attempt[a].session,
              expires |-> attempt[a].expires] EXCEPT !.expires = x] = r
        OBVIOUS
      <3> HIDE DEF r, x
      <3> QED  BY <2>3, <3>1
    <2> QED  BY <1>1, <2>1, <2>2, <2>4
  <1> QED  BY <1>2, <1>3

\* Every step of a call of StartPairing, and CompletePairing, is one StepKeeps speaks of.
LEMMA PairingKeeps ==
    ASSUME P!PairingAssumption, PairingInvariant, clock \in Nat, NEW a \in P!Attempts, P!Pairing(a)
    PROVE  PairingInvariant'
  <1>1. next' = next
    BY DEF P!Pairing, P!ConfirmFails, P!Confirmed, P!Install, P!Shown, P!ShowFails,
           P!complete_pairing
  <1>2. \A to : \E x \in Nat : P!Stepped(a, to) = [attempt EXCEPT ![a] =
            [at |-> to, key |-> @.key, session |-> @.session, expires |-> x]]
    BY SteppedRecord
  <1>3. CASE P!ConfirmFails(a)
    <2>1. /\ attempt[a].at = "confirming" /\ attempt' = P!Stepped(a, "failed")
          /\ challenge' = challenge
          /\ current' = current \/ (P!IsCurrent(a) /\ P!Forget(a))
      BY <1>3 DEF P!ConfirmFails, P!Step
    <2>2. challenge = a => challenge = P!None
      BY <2>1 DEF PairingInvariant, P!ChallengeCurrent
    <2>3. challenge # a
      BY <2>2, AttemptFacts
    <2> QED  BY <1>1, <1>2, <2>1, <2>3, StepKeeps DEF P!Steps
  <1>4. CASE P!Confirmed(a)
    <2>1. \E to \in {"current", "failed"} :
            /\ attempt[a].at = "confirming" /\ attempt' = P!Stepped(a, to)
            /\ challenge' = challenge /\ current' = current
      BY <1>4 DEF P!Confirmed, P!Step
    <2>2. challenge # a
      BY <2>1, AttemptFacts DEF PairingInvariant, P!ChallengeCurrent
    <2> QED  BY <1>1, <1>2, <2>1, <2>2, StepKeeps DEF P!Steps
  <1>5. CASE P!Install(a)
    <2>1. attempt[a].at = "current" /\ current' = current
      BY <1>5 DEF P!Install
    <2>2. challenge # a
      BY <2>1, AttemptFacts DEF PairingInvariant, P!ChallengeCurrent
    <2>3. CASE P!IsCurrent(a) /\ challenge' = a
               /\ attempt' = [attempt EXCEPT ![a].at = "showing", ![a].expires = clock + Ttl]
      <3>1. \E x \in Nat : attempt' = [attempt EXCEPT ![a] =
                [at |-> "showing", key |-> @.key, session |-> @.session, expires |-> x]]
        BY <2>3, InstalledRecord
      <3> QED  BY <1>1, <2>1, <2>3, <3>1, StepKeeps DEF P!Steps
    <2>4. CASE attempt' = P!Stepped(a, "failed") /\ challenge' = challenge
      BY <1>1, <1>2, <2>1, <2>2, <2>4, StepKeeps DEF P!Steps
    <2> QED  BY <1>5, <2>3, <2>4 DEF P!Install, P!Step
  <1>6. CASE P!Shown(a)
    <2>1. /\ attempt[a].at = "showing" /\ attempt' = P!Stepped(a, "shown")
          /\ challenge' = challenge /\ current' = current
      BY <1>6 DEF P!Shown, P!Step
    <2> QED  BY <1>1, <1>2, <2>1, StepKeeps DEF P!Steps
  <1>7. CASE P!ShowFails(a)
    <2>1. attempt[a].at = "showing" /\ attempt' = P!Stepped(a, "failed")
      BY <1>7 DEF P!ShowFails, P!Step
    <2>2. CASE challenge = a
      <3>1. P!IsCurrent(a)
        BY <2>2, AttemptFacts DEF PairingInvariant, P!ChallengeCurrent
      <3>2. challenge' = P!None /\ P!Forget(a)
        BY <1>7, <2>2 DEF P!ShowFails
      <3> QED  BY <1>1, <1>2, <2>1, <3>1, <3>2, StepKeeps DEF P!Steps
    <2>3. CASE challenge # a
      <3>1. challenge' = challenge /\ current' = current
        BY <1>7, <2>3 DEF P!ShowFails
      <3> QED  BY <1>1, <1>2, <2>1, <2>3, <3>1, StepKeeps DEF P!Steps
    <2> QED  BY <2>2, <2>3
  <1>8. CASE P!complete_pairing(a)
    <2>1. \E to \in {"expired", "taken"} :
            /\ attempt[a].at \in {"showing", "shown"} /\ attempt' = P!Stepped(a, to)
            /\ challenge' = P!None /\ challenge = a /\ P!Forget(a)
      BY <1>8 DEF P!complete_pairing, P!Step
    <2>2. P!IsCurrent(a)
      BY <2>1, AttemptFacts DEF PairingInvariant, P!ChallengeCurrent
    <2> QED  BY <1>1, <1>2, <2>1, <2>2, StepKeeps DEF P!Steps
  <1> QED  BY <1>3, <1>4, <1>5, <1>6, <1>7, <1>8 DEF P!Pairing

\* Edits and authentications leave the attempts alone.
LEMMA QuietKeepsPairing ==
    ASSUME PairingInvariant, UNCHANGED P!pairing
    PROVE  PairingInvariant'
  BY DEF PairingInvariant, PairingTypes, BegunInOrder, CurrentIsNewest, P!ChallengeCurrent,
         P!IsCurrent, P!Begun, P!pairing

\* The sessions and the clock keep their types.
LEMMA SessionKeeps ==
    ASSUME SessionAuth, P!Next, P!PairingAssumption
    PROVE  SessionAuth'
  <1>1. CASE UNCHANGED <<auth, verified, clock>>
    BY <1>1 DEF SessionAuth
  <1>2. ASSUME NEW s \in Sessions, NEW i \in P!Ids, P!AuthVerifies(s, i) \/ P!AuthSets(s, i)
        PROVE  SessionAuth'
    BY <1>2 DEF SessionAuth, P!AuthVerifies, P!AuthSets
  <1>3. CASE P!Tick
    BY <1>3 DEF SessionAuth, P!Tick
  <1>4. ASSUME NEW k \in P!Keys, NEW s \in Sessions, P!StartPairing(k, s) PROVE SessionAuth'
    BY <1>1, <1>4 DEF P!StartPairing
  <1>5. ASSUME NEW a \in P!Attempts, P!Pairing(a) PROVE SessionAuth'
    BY <1>1, <1>5 DEF P!Pairing, P!ConfirmFails, P!Confirmed, P!Install, P!Shown, P!ShowFails,
                      P!complete_pairing
  <1>6. ASSUME NEW e \in P!Edits, P!Load(e) \/ P!Store(e) PROVE SessionAuth'
    BY <1>1, <1>6 DEF P!Load, P!Store
  <1>7. ASSUME NEW e, NEW s, P!RenewBegins(e, s) \/ P!RemoveBegins(e, s) PROVE SessionAuth'
    BY <1>1, <1>7 DEF P!RenewBegins, P!RemoveBegins
  <1> QED  BY <1>2, <1>3, <1>4, <1>5, <1>6, <1>7 DEF P!Next

(* Every reachable state of pairing has the inductive invariant.            *)
THEOREM PairingIsSound ==
    ASSUME P!PairingAssumption PROVE P!Spec => [](PairingInvariant /\ SessionAuth)
  <1>1. P!Init => PairingInvariant /\ SessionAuth
    <2> SUFFICES ASSUME P!Init PROVE PairingInvariant /\ SessionAuth
      OBVIOUS
    <2>1. 0 \in 0..MaxAttempts /\ P!NoAttempt \in Attempt
      BY AttemptFacts DEF P!NoAttempt, Attempt, P!Steps, P!Keys
    <2>2. PairingTypes
      BY <2>1 DEF P!Init, PairingTypes, P!None
    <2>3. BegunInOrder /\ CurrentIsNewest /\ P!ChallengeCurrent
      BY DEF P!Init, BegunInOrder, CurrentIsNewest, P!ChallengeCurrent, P!Begun, P!NoAttempt
    <2>4. SessionAuth
      BY DEF P!Init, SessionAuth
    <2> QED  BY <2>2, <2>3, <2>4 DEF PairingInvariant
  <1>2. PairingInvariant /\ SessionAuth /\ [P!Next]_P!vars
            => PairingInvariant' /\ SessionAuth'
    <2> SUFFICES ASSUME PairingInvariant, SessionAuth, [P!Next]_P!vars
                 PROVE  PairingInvariant' /\ SessionAuth'
      OBVIOUS
    <2>1. CASE UNCHANGED P!vars
      BY <2>1, QuietKeepsPairing DEF P!vars, P!pairing, SessionAuth
    <2>2. CASE P!Next
      <3>1. SessionAuth'
        BY <2>2, SessionKeeps
      <3>2. ASSUME NEW k \in P!Keys, NEW s \in Sessions, P!StartPairing(k, s)
            PROVE  PairingInvariant'
        BY <3>2, StartKeeps
      <3>3. ASSUME NEW a \in P!Attempts, P!Pairing(a) PROVE PairingInvariant'
        BY <3>3, PairingKeeps DEF SessionAuth
      <3>4. CASE UNCHANGED P!pairing
        BY <3>1, <3>4, QuietKeepsPairing DEF P!pairing
      <3>5. ASSUME NEW e \in P!Edits, P!Load(e) \/ P!Store(e) PROVE UNCHANGED P!pairing
        BY <3>5 DEF P!Load, P!Store
      <3>6. ASSUME NEW e, NEW s, P!RenewBegins(e, s) \/ P!RemoveBegins(e, s)
            PROVE  UNCHANGED P!pairing
        BY <3>6 DEF P!RenewBegins, P!RemoveBegins
      <3>7. ASSUME NEW s, NEW i, P!AuthVerifies(s, i) \/ P!AuthSets(s, i) \/ P!Tick
            PROVE  UNCHANGED P!pairing
        BY <3>7 DEF P!AuthVerifies, P!AuthSets, P!Tick
      <3> QED  BY <2>2, <3>1, <3>2, <3>3, <3>4, <3>5, <3>6, <3>7 DEF P!Next
    <2> QED  BY <2>1, <2>2
  <1> QED  BY <1>1, <1>2, PTL DEF P!Spec

(* Only the newest attempt of a client is ever taken: one that was          *)
(* superseded at any step never yields a secret (start_pairing,             *)
(* complete_pairing).                                                       *)
THEOREM NewestIsTaken ==
    ASSUME P!PairingAssumption PROVE P!Spec => P!NewestTaken
  <1> DEFINE Newest == \A a \in P!Attempts :
          (attempt'[a].at = "taken" /\ attempt[a].at # "taken") =>
              \A b \in P!Attempts : (b > a /\ P!Begun(b)) => attempt[b].key # attempt[a].key
  <1>1. ASSUME PairingInvariant, P!Next PROVE Newest
    <2> SUFFICES ASSUME NEW a \in P!Attempts,
                        attempt'[a].at = "taken", attempt[a].at # "taken"
                 PROVE  \A b \in P!Attempts :
                            (b > a /\ P!Begun(b)) => attempt[b].key # attempt[a].key
      OBVIOUS
    <2>1. attempt \in [P!Attempts -> Attempt] /\ attempt' # attempt
      BY <1>1 DEF PairingInvariant, PairingTypes
    <2>2. challenge = a
      <3>1. ASSUME NEW c \in P!Attempts, P!complete_pairing(c) PROVE challenge = a
        BY <2>1, <3>1 DEF P!complete_pairing, P!Step, P!Stepped
      <3>2. ASSUME NEW c \in P!Attempts, P!Pairing(c) PROVE challenge = a
        <4>1. ASSUME NEW to, to # "taken", attempt' = P!Stepped(c, to) PROVE FALSE
          BY <2>1, <4>1 DEF P!Stepped
        <4>2. ASSUME attempt' = [attempt EXCEPT ![c].at = "showing", ![c].expires = clock + Ttl]
              PROVE  FALSE
          <5>1. attempt' = [[attempt EXCEPT ![c].at = "showing"] EXCEPT ![c].expires = clock + Ttl]
            BY <2>1, <4>2
          <5>2. [attempt EXCEPT ![c].at = "showing"] = P!Stepped(c, "showing")
            BY DEF P!Stepped
          <5> QED  BY <2>1, <5>1, <5>2 DEF P!Stepped
        <4> QED  BY <3>1, <3>2, <4>1, <4>2 DEF P!Pairing, P!ConfirmFails, P!Confirmed, P!Install,
                                               P!Shown, P!ShowFails, P!Step
      <3>3. ASSUME NEW k \in P!Keys, NEW s \in Sessions, P!StartPairing(k, s) PROVE FALSE
        BY <2>1, <3>3 DEF P!StartPairing
      <3>4. ASSUME NEW e \in P!Edits, P!Load(e) \/ P!Store(e) PROVE FALSE
        BY <2>1, <3>4 DEF P!Load, P!Store, P!pairing
      <3>5. ASSUME NEW e, NEW s, P!RenewBegins(e, s) \/ P!RemoveBegins(e, s) PROVE FALSE
        BY <2>1, <3>5 DEF P!RenewBegins, P!RemoveBegins, P!pairing
      <3>6. ASSUME NEW s, NEW i, P!AuthVerifies(s, i) \/ P!AuthSets(s, i) \/ P!Tick PROVE FALSE
        BY <2>1, <3>6 DEF P!AuthVerifies, P!AuthSets, P!Tick, P!pairing
      <3> QED  BY <1>1, <3>2, <3>3, <3>4, <3>5, <3>6 DEF P!Next
    <2>3. P!IsCurrent(a) /\ a # P!None /\ attempt[a].key \in P!Keys
      BY <1>1, <2>1, <2>2, AttemptFacts DEF PairingInvariant, P!ChallengeCurrent, Attempt
    <2> QED  BY <1>1, <2>3 DEF PairingInvariant, CurrentIsNewest, P!IsCurrent
  <1>2. PairingInvariant /\ [P!Next]_P!vars => [Newest]_P!vars
    BY <1>1
  <1>3. [][Newest]_P!vars <=> P!NewestTaken
    BY PTL DEF P!NewestTaken
  <1> HIDE DEF Newest
  <1> QED  BY <1>2, <1>3, PairingIsSound, PTL DEF P!Spec

(* The active challenge is that of its client's current attempt, and has a  *)
(* code (every place that changes current_attempts or active_challenge).    *)
THEOREM ChallengeIsCurrent ==
    ASSUME P!PairingAssumption PROVE P!Spec => []P!ChallengeCurrent
  <1>1. PairingInvariant => P!ChallengeCurrent
    BY DEF PairingInvariant
  <1> QED  BY <1>1, PairingIsSound, PTL

(* A session stays the client it was authenticated as, however many calls   *)
(* authenticate it at once (authenticate_session_control).                  *)
THEOREM AuthIsStable ==
    ASSUME P!PairingAssumption PROVE P!Spec => P!AuthStable
  <1> DEFINE Stays == \A s \in Sessions : auth[s] # P!None => auth'[s] = auth[s]
  <1>1. ASSUME SessionAuth, P!Next PROVE Stays
    <2> SUFFICES ASSUME NEW s \in Sessions, auth[s] # P!None PROVE auth'[s] = auth[s]
      OBVIOUS
    <2>1. ASSUME NEW r \in Sessions, NEW i \in P!Ids, P!AuthSets(r, i) PROVE auth'[s] = auth[s]
      BY <1>1, <2>1 DEF P!AuthSets, SessionAuth
    <2>2. CASE auth' = auth
      BY <2>2
    <2>3. ASSUME NEW k \in P!Keys, NEW r \in Sessions, P!StartPairing(k, r) PROVE auth' = auth
      BY <2>3 DEF P!StartPairing
    <2>4. ASSUME NEW a \in P!Attempts, P!Pairing(a) PROVE auth' = auth
      BY <2>4 DEF P!Pairing, P!ConfirmFails, P!Confirmed, P!Install, P!Shown, P!ShowFails,
                  P!complete_pairing
    <2>5. ASSUME NEW e \in P!Edits, P!Load(e) \/ P!Store(e) PROVE auth' = auth
      BY <2>5 DEF P!Load, P!Store
    <2>6. ASSUME NEW e, NEW r, P!RenewBegins(e, r) \/ P!RemoveBegins(e, r) PROVE auth' = auth
      BY <2>6 DEF P!RenewBegins, P!RemoveBegins
    <2>7. ASSUME NEW r, NEW i, P!AuthVerifies(r, i) \/ P!Tick PROVE auth' = auth
      BY <2>7 DEF P!AuthVerifies, P!Tick
    <2> QED  BY <1>1, <2>1, <2>2, <2>3, <2>4, <2>5, <2>6, <2>7 DEF P!Next
  <1>2. SessionAuth /\ [P!Next]_P!vars => [Stays]_P!vars
    BY <1>1
  <1>3. [][Stays]_P!vars <=> P!AuthStable
    BY PTL DEF P!AuthStable
  <1> HIDE DEF Stays
  <1> QED  BY <1>2, <1>3, PairingIsSound, PTL DEF P!Spec

-----------------------------------------------------------------------------
(***************************************************************************)
(* The calls of a server's sessions (RpcStreams), for any number of them:  *)
(* whoever runs and may change the host holds a guard, also after the end  *)
(* of its session, and a drain begins only when there is none (Guarded);   *)
(* a call is answered once (Answered).                                     *)
(***************************************************************************)
CONSTANTS Calls, Procs, MaxDrains, MaxWrites
VARIABLES session, sessionAuth, sessionRevoked, call, task, guard, draining, answers, written,
          drains
R == INSTANCE RpcStreams WITH auth <- sessionAuth, revoked <- sessionRevoked

Ended == {"done", "failed", "aborted"}

\* What a call is at any time.
CallTypes ==
    call \in [Calls -> [at : R!Steps, session : Sessions \cup {R!NoCall.session},
                        proc : Procs \cup {"GetDaemonInfo"}, first : R!Shapes,
                        extra : BOOLEAN, sent : BOOLEAN]]

\* A call was opened on a session.
OnASession == \A c \in Calls : call[c].at # "unused" => call[c].session \in Sessions

\* Whoever runs and may change the host holds a guard, and a drain waits for them all.
Guarded ==
    /\ task \subseteq Calls /\ guard \subseteq Calls
    /\ \A c \in Calls : R!Protected(c) /\ R!Running(c) => c \in guard
    /\ draining => guard = {}

\* The answers count the calls that are done.
Answered ==
    /\ answers \in [Calls -> {0, 1}]
    /\ \A c \in Calls : call[c].at = "done" <=> answers[c] = 1

\* Inductive together.
StreamInvariant ==
    /\ R!TypeOK /\ CallTypes /\ OnASession /\ Guarded /\ Answered /\ R!KnownClient

\* What the control of a session may become.
Kept == \A s \in Sessions : sessionAuth[s] # "none" => sessionAuth'[s] = sessionAuth[s]

\* What one call's step leaves of the others.
LEMMA CallEdited ==
    ASSUME CallTypes, NEW c \in Calls, NEW step \in R!Steps, R!At(c, step)
    PROVE  /\ CallTypes'
           /\ call'[c].at = step
           /\ \A x \in Calls : /\ call'[x].session = call[x].session /\ call'[x].proc = call[x].proc
                               /\ call'[x].first = call[x].first
                               /\ x # c => call'[x] = call[x]
  BY DEF CallTypes, R!At

\* The two ends of a call and the answers they add.
Ending(step, n) == (step = "done" /\ n = 1) \/ (step = "failed" /\ n = 0)

\* A call ends with its answer, or without one.
LEMMA FinishKeeps ==
    ASSUME StreamInvariant, NEW c \in Calls, NEW step, NEW n, R!Finish(c, step, n),
           Ending(step, n),
           call[c].at \notin Ended \cup {"unused"}
    PROVE  StreamInvariant' /\ Kept
  <1>1. step \in R!Steps /\ R!At(c, step)
    BY DEF R!Finish, R!Steps, Ending
  <1>2. /\ CallTypes' /\ call'[c].at = step
        /\ \A x \in Calls : /\ call'[x].session = call[x].session /\ call'[x].proc = call[x].proc
                            /\ call'[x].first = call[x].first
                            /\ x # c => call'[x] = call[x]
    BY <1>1, CallEdited DEF StreamInvariant
  <1>3. answers[c] = 0 /\ answers' = [answers EXCEPT ![c] = n] /\ n \in {0, 1}
    <2>1. answers[c] \in {0, 1} /\ answers[c] # 1
      BY DEF StreamInvariant, Answered, Ended
    <2>2. answers' = [answers EXCEPT ![c] = answers[c] + n] /\ n \in {0, 1}
      BY DEF R!Finish, Ending
    <2>3. answers[c] = 0 /\ 0 + n = n
      BY <2>1, <2>2
    <2> QED  BY <2>2, <2>3
  <1>4. /\ answers' \in [Calls -> {0, 1}] /\ answers'[c] = n
        /\ \A x \in Calls : x # c => answers'[x] = answers[x]
    BY <1>3 DEF StreamInvariant, Answered
  <1>5. /\ guard' = guard \ {c} /\ task' = task \ {c}
        /\ UNCHANGED <<session, sessionAuth, sessionRevoked, draining>>
    BY DEF R!Finish, R!state
  <1>6. \A x \in Calls : R!Protected(x)' = R!Protected(x)
    BY <1>2 DEF R!Protected
  <1>7. \A x \in Calls : x # c => R!Running(x)' = R!Running(x)
    BY <1>2 DEF R!Running
  <1>8. ~R!Running(c)'
    BY <1>2 DEF R!Running, Ending
  <1>9. R!TypeOK'
    BY <1>1, <1>2, <1>5, <1>7 DEF R!TypeOK, StreamInvariant, Guarded
  <1>10. Guarded'
    BY <1>5, <1>6, <1>7, <1>8 DEF Guarded, StreamInvariant
  <1>11. Answered'
    BY <1>2, <1>4 DEF Answered, StreamInvariant, Ending
  <1>12. OnASession'
    BY <1>2 DEF OnASession, StreamInvariant, Ending
  <1>13. R!KnownClient'
    BY <1>2, <1>5 DEF R!KnownClient, StreamInvariant, Ending
  <1> QED  BY <1>2, <1>5, <1>9, <1>10, <1>11, <1>12, <1>13 DEF StreamInvariant, Kept

\* The final answer goes out, or the stream turns out to be gone.
LEMMA AnswerKeeps ==
    ASSUME StreamInvariant, NEW c \in Calls, R!Answer(c), call[c].at \notin Ended \cup {"unused"}
    PROVE  StreamInvariant' /\ Kept
  <1>1. CASE R!Open(c)
    <2>1. R!Finish(c, "done", 1) /\ Ending("done", 1)
      BY <1>1 DEF R!Answer, Ending
    <2> QED  BY <2>1, FinishKeeps
  <1>2. CASE ~R!Open(c)
    <2>1. R!Finish(c, "failed", 0) /\ Ending("failed", 0)
      BY <1>2 DEF R!Answer, Ending
    <2> QED  BY <2>1, FinishKeeps
  <1> QED  BY <1>1, <1>2

\* A running call goes on. Only the dispatch lets it run, and only for a known client.
LEMMA GoesOn ==
    ASSUME StreamInvariant, NEW c \in Calls, NEW step \in {"rest", "dispatch", "run", "answer"},
           R!At(c, step), R!Running(c),
           step = "run" => /\ R!requires_authentication(call[c].proc)
                                => sessionAuth[call[c].session] # "none",
           UNCHANGED <<session, sessionRevoked, task, guard, draining, answers>>,
           sessionAuth' \in [Sessions -> {"none", "paired", "cluster"}], Kept
    PROVE  StreamInvariant'
  <1>1. step \in R!Steps
    BY DEF R!Steps
  <1>2. /\ CallTypes' /\ call'[c].at = step
        /\ \A x \in Calls : /\ call'[x].session = call[x].session /\ call'[x].proc = call[x].proc
                            /\ call'[x].first = call[x].first
                            /\ x # c => call'[x] = call[x]
    BY <1>1, CallEdited DEF StreamInvariant
  <1>3. \A x \in Calls : R!Protected(x)' = R!Protected(x) /\ R!Running(x)' = R!Running(x)
    BY <1>2 DEF R!Protected, R!Running
  <1>4. call[c].at \notin Ended \cup {"unused"}
    BY DEF R!Running, Ended
  <1>5. R!TypeOK'
    BY <1>1, <1>2, <1>3, <1>4 DEF R!TypeOK, StreamInvariant, Guarded
  <1>6. Guarded'
    BY <1>3 DEF Guarded, StreamInvariant
  <1>7. Answered'
    BY <1>2, <1>4 DEF Answered, StreamInvariant, Ended
  <1>8. OnASession'
    BY <1>2, <1>4 DEF OnASession, StreamInvariant
  <1>9. R!KnownClient'
    BY <1>2, <1>8 DEF R!KnownClient, StreamInvariant, OnASession, Kept
  <1> QED  BY <1>2, <1>5, <1>6, <1>7, <1>8, <1>9 DEF StreamInvariant

\* The first frame admits a call, and under a drain only one that changes nothing.
LEMMA AdmitKeeps ==
    ASSUME StreamInvariant, NEW c \in Calls, R!Admit(c)
    PROVE  StreamInvariant' /\ Kept
  <1>0. call[c].at = "first" /\ call[c].at \notin Ended \cup {"unused"}
    BY DEF R!Admit, Ended
  <1>1. CASE R!Protected(c) /\ draining
    BY <1>0, <1>1, AnswerKeeps DEF R!Admit
  <1>2. CASE ~(R!Protected(c) /\ draining)
    <2>1. /\ R!At(c, "rest") /\ guard' = IF R!Protected(c) THEN guard \cup {c} ELSE guard
          /\ UNCHANGED <<session, sessionAuth, sessionRevoked, task, draining, answers>>
      BY <1>2 DEF R!Admit, R!state
    <2>2. "rest" \in R!Steps
      BY DEF R!Steps
    <2>3. /\ CallTypes' /\ call'[c].at = "rest"
          /\ \A x \in Calls : /\ call'[x].session = call[x].session /\ call'[x].proc = call[x].proc
                              /\ call'[x].first = call[x].first
                              /\ x # c => call'[x] = call[x]
      BY <2>1, <2>2, CallEdited DEF StreamInvariant
    <2>4. /\ \A x \in Calls : R!Protected(x)' = R!Protected(x)
          /\ \A x \in Calls : x # c => R!Running(x)' = R!Running(x)
          /\ R!Running(c)'
      BY <2>3 DEF R!Protected, R!Running
    <2>5. R!TypeOK'
      BY <2>1, <2>2, <2>3, <2>4 DEF R!TypeOK, StreamInvariant, Guarded
    <2>6. Guarded'
      BY <1>2, <2>1, <2>4 DEF Guarded, StreamInvariant
    <2>7. Answered'
      BY <1>0, <2>1, <2>3 DEF Answered, StreamInvariant
    <2>8. OnASession' /\ R!KnownClient'
      BY <1>0, <2>1, <2>3 DEF OnASession, R!KnownClient, StreamInvariant
    <2> QED  BY <2>1, <2>3, <2>5, <2>6, <2>7, <2>8 DEF StreamInvariant, Kept
  <1> QED  BY <1>1, <1>2

\* The tail of a handler's steps: one step of the call, nothing else.
Steps(c, step) ==
    /\ R!At(c, step)
    /\ UNCHANGED <<session, sessionAuth, sessionRevoked, task, guard, draining, answers>>

\* A step of a call alone.
LEMMA GoesKeeps ==
    ASSUME StreamInvariant, NEW c \in Calls, NEW step \in {"rest", "dispatch", "run", "answer"},
           Steps(c, step), R!Running(c),
           step = "run" => /\ R!requires_authentication(call[c].proc)
                                => sessionAuth[call[c].session] # "none"
    PROVE  StreamInvariant' /\ Kept
  <1>1. Kept
    BY DEF Kept, Steps
  <1>2. sessionAuth' \in [Sessions -> {"none", "paired", "cluster"}]
    BY DEF Steps, StreamInvariant, R!TypeOK
  <1> QED  BY <1>1, <1>2, GoesOn DEF Steps

\* The rest of the stream is read before anything is dispatched.
LEMMA RestKeeps ==
    ASSUME StreamInvariant, NEW c \in Calls, R!Rest(c)
    PROVE  StreamInvariant' /\ Kept
  <1>1. R!Running(c) /\ call[c].at \notin Ended \cup {"unused"}
    BY DEF R!Rest, R!Running, Ended
  <1>2. R!Answer(c) \/ Steps(c, "dispatch")
    BY DEF R!Rest, R!Excess, Steps, R!state
  <1> QED  BY <1>1, <1>2, AnswerKeeps, GoesKeeps

\* The dispatch refuses whoever is not known.
LEMMA DispatchKeeps ==
    ASSUME StreamInvariant, NEW c \in Calls, NEW decodes \in BOOLEAN, R!Dispatch(c, decodes)
    PROVE  StreamInvariant' /\ Kept
  <1>1. R!Running(c)
    BY DEF R!Dispatch, R!Running
  <1>2. \/ Steps(c, "answer")
        \/ Steps(c, "run") /\ ~R!Refused(c)
    BY DEF R!Dispatch, Steps, R!state
  <1>3. ~R!Refused(c) => (R!requires_authentication(call[c].proc)
                            => sessionAuth[call[c].session] # "none")
    BY DEF R!Refused, R!is_authenticated
  <1> QED  BY <1>1, <1>2, <1>3, GoesKeeps

\* A control call makes its session somebody, once.
LEMMA AuthenticateKeeps ==
    ASSUME StreamInvariant, NEW c \in Calls, NEW as \in {"paired", "cluster"}, R!Authenticate(c, as)
    PROVE  StreamInvariant' /\ Kept
  <1>1. R!Running(c) /\ R!At(c, "answer") /\ call[c].session \in Sessions
        /\ UNCHANGED <<session, sessionRevoked, task, guard, draining, answers>>
    BY DEF R!Authenticate, R!Running, StreamInvariant, OnASession
  <1>2. R!Becomes(call[c].session, as) \in {"none", "paired", "cluster"}
    BY <1>1 DEF R!Becomes, StreamInvariant, R!TypeOK
  <1>3. sessionAuth' = [sessionAuth EXCEPT ![call[c].session] = R!Becomes(call[c].session, as)]
    BY DEF R!Authenticate
  <1>4. sessionAuth' \in [Sessions -> {"none", "paired", "cluster"}]
    BY <1>2, <1>3 DEF StreamInvariant, R!TypeOK
  <1>5. Kept
    BY <1>1, <1>3 DEF Kept, R!Becomes, StreamInvariant, R!TypeOK
  <1> QED  BY <1>1, <1>4, <1>5, GoesOn

\* The server's steps of one call.
LEMMA ServerKeeps ==
    ASSUME StreamInvariant, NEW c \in Calls, R!Server(c) \/ R!StreamEnds(c)
    PROVE  StreamInvariant' /\ Kept
  <1>1. CASE R!ReadFails(c)
    <2>1. R!Finish(c, "failed", 0) /\ Ending("failed", 0) /\ call[c].at \notin Ended \cup {"unused"}
      BY <1>1 DEF R!ReadFails, Ended, Ending
    <2> QED  BY <2>1, FinishKeeps
  <1>2. CASE R!Handled(c) \/ R!StreamEnds(c)
    <2>1. R!Running(c) /\ Steps(c, "answer")
      BY <1>2 DEF R!Handled, R!StreamEnds, R!Running, Steps, R!state
    <2> QED  BY <2>1, GoesKeeps
  <1>3. CASE R!Respond(c)
    <2>1. R!Answer(c) /\ call[c].at \notin Ended \cup {"unused"}
      BY <1>3 DEF R!Respond, Ended
    <2> QED  BY <2>1, AnswerKeeps
  <1> QED  BY <1>1, <1>2, <1>3, AdmitKeeps, RestKeeps, AuthenticateKeeps, DispatchKeeps DEF R!Server

\* A client opens a stream.
LEMMA AcceptKeeps ==
    ASSUME StreamInvariant, NEW c \in Calls, NEW s \in Sessions, NEW p \in Procs,
           NEW f \in R!Shapes, NEW e \in BOOLEAN, R!Accept(c, s, p, f, e)
    PROVE  StreamInvariant' /\ Kept
  <1> DEFINE new == [at |-> "first", session |-> s, proc |-> p, first |-> f,
                     extra |-> e, sent |-> FALSE]
  <1>1. /\ call[c].at = "unused" /\ call' = [call EXCEPT ![c] = new] /\ task' = task \cup {c}
        /\ UNCHANGED <<session, sessionAuth, sessionRevoked, guard, draining, answers>>
    BY DEF R!Accept, R!state
  <1>2. /\ new \in [at : R!Steps, session : Sessions \cup {R!NoCall.session},
                    proc : Procs \cup {"GetDaemonInfo"}, first : R!Shapes,
                    extra : BOOLEAN, sent : BOOLEAN]
        /\ new.at = "first" /\ new.session = s
    BY DEF R!Steps
  <1> HIDE DEF new
  <1>3. /\ CallTypes' /\ call'[c] = new
        /\ \A x \in Calls : x # c => call'[x] = call[x]
    BY <1>1, <1>2 DEF StreamInvariant, CallTypes
  <1>4. /\ \A x \in Calls : x # c => /\ R!Running(x)' = R!Running(x)
                                   /\ R!Protected(x)' = R!Protected(x)
        /\ ~R!Running(c)' /\ ~R!Running(c)
    BY <1>1, <1>2, <1>3 DEF R!Running, R!Protected
  <1>5. R!TypeOK'
    BY <1>1, <1>2, <1>3, <1>4 DEF R!TypeOK, StreamInvariant, Guarded, R!Steps
  <1>6. Guarded'
    BY <1>1, <1>4 DEF Guarded, StreamInvariant
  <1>7. Answered'
    BY <1>1, <1>2, <1>3 DEF Answered, StreamInvariant
  <1>8. OnASession' /\ R!KnownClient'
    BY <1>1, <1>2, <1>3 DEF OnASession, R!KnownClient, StreamInvariant
  <1> QED  BY <1>1, <1>3, <1>5, <1>6, <1>7, <1>8 DEF StreamInvariant, Kept

\* A session that ends aborts its calls that hold no guard.
LEMMA CloseKeeps ==
    ASSUME StreamInvariant, NEW s \in Sessions, R!Close(s)
    PROVE  StreamInvariant' /\ Kept
  <1> DEFINE hit(x) == call[x].session = s /\ x \in task /\ x \notin guard
             gone(x) == [call[x] EXCEPT !.at = "aborted"]
  <1>1. /\ call' = [x \in Calls |-> IF hit(x) THEN gone(x) ELSE call[x]]
        /\ task' \subseteq task /\ guard' = guard /\ session' = [session EXCEPT ![s] = "closed"]
        /\ \A x \in task' : call[x].session # s
        /\ UNCHANGED <<sessionAuth, sessionRevoked, draining, answers>>
    BY DEF R!Close, R!Aborted
  <1>2. \A x \in Calls :
            /\ gone(x) \in [at : R!Steps, session : Sessions \cup {R!NoCall.session},
                    proc : Procs \cup {"GetDaemonInfo"}, first : R!Shapes,
                    extra : BOOLEAN, sent : BOOLEAN]
            /\ gone(x).at = "aborted" /\ gone(x).session = call[x].session
            /\ gone(x).first = call[x].first /\ gone(x).proc = call[x].proc
    BY DEF StreamInvariant, CallTypes, R!Steps
  <1> HIDE DEF gone
  <1>3. CallTypes'
    BY <1>1, <1>2 DEF StreamInvariant, CallTypes
  <1>4. \A x \in Calls : /\ hit(x) => call'[x] = gone(x)
                         /\ ~hit(x) => call'[x] = call[x]
    BY <1>1
  <1>5. \A x \in Calls : hit(x) => call[x].at \notin Ended \cup {"unused"}
    BY DEF StreamInvariant, R!TypeOK, Ended
  <1>6. \A x \in Calls : /\ R!Protected(x)' = R!Protected(x)
                         /\ hit(x) => ~R!Running(x)'
                         /\ ~hit(x) => R!Running(x)' = R!Running(x)
    BY <1>2, <1>4 DEF R!Protected, R!Running
  <1>7. R!TypeOK'
    <2>1. \A x \in guard' : R!Running(x)'
      BY <1>1, <1>6 DEF StreamInvariant, R!TypeOK, Guarded
    <2>2. \A x \in task' : call'[x].at \notin {"unused", "done", "failed", "aborted"}
      BY <1>1, <1>4 DEF StreamInvariant, R!TypeOK, Guarded
    <2>3. \A x \in Calls : call'[x].at \in R!Steps
      BY <1>3 DEF CallTypes
    <2> QED  BY <1>1, <2>1, <2>2, <2>3 DEF StreamInvariant, R!TypeOK
  <1>8. Guarded'
    BY <1>1, <1>6 DEF Guarded, StreamInvariant
  <1>9. Answered'
    BY <1>1, <1>2, <1>4, <1>5 DEF Answered, StreamInvariant, Ended
  <1>10. OnASession' /\ R!KnownClient'
    BY <1>1, <1>2, <1>4, <1>5 DEF OnASession, R!KnownClient, StreamInvariant
  <1> QED  BY <1>1, <1>3, <1>7, <1>8, <1>9, <1>10 DEF StreamInvariant, Kept

\* The steps that leave the calls alone, but for what a client has sent.
LEMMA OutsideKeeps ==
    ASSUME StreamInvariant,
           \/ \E c \in Calls : R!Sent(c) \/ R!WriteEvent(c)
           \/ \E s \in Sessions : R!Revoke(s)
           \/ R!BeginDrain \/ R!EndDrain \/ UNCHANGED R!vars
    PROVE  StreamInvariant' /\ Kept
  <1>1. /\ UNCHANGED <<session, sessionAuth, task, guard, answers>>
        /\ sessionRevoked' \subseteq Sessions
    BY DEF R!Sent, R!WriteEvent, R!Revoke, R!BeginDrain, R!EndDrain, R!vars, R!state, R!calls,
       StreamInvariant, R!TypeOK
  <1>2. /\ CallTypes'
        /\ \A x \in Calls : /\ call'[x].at = call[x].at
                            /\ call'[x].session = call[x].session
                            /\ call'[x].proc = call[x].proc /\ call'[x].first = call[x].first
    <2>1. CASE call' = call
      BY <2>1 DEF StreamInvariant, CallTypes
    <2>2. ASSUME NEW c \in Calls, R!Sent(c)
          PROVE  /\ CallTypes'
                 /\ \A x \in Calls : /\ call'[x].at = call[x].at
                            /\ call'[x].session = call[x].session
                            /\ call'[x].proc = call[x].proc /\ call'[x].first = call[x].first
      BY <2>2 DEF R!Sent, StreamInvariant, CallTypes
    <2> QED
      BY <2>1, <2>2 DEF R!WriteEvent, R!Revoke, R!BeginDrain, R!EndDrain, R!vars, R!calls
  <1>3. \A x \in Calls : R!Protected(x)' = R!Protected(x) /\ R!Running(x)' = R!Running(x)
    BY <1>2 DEF R!Protected, R!Running
  <1>4. /\ draining' \in BOOLEAN
        /\ draining' => guard' = {}
    <2>1. CASE draining' = draining
      BY <1>1, <2>1 DEF StreamInvariant, R!TypeOK, Guarded
    <2>2. CASE R!BeginDrain
      BY <1>1, <2>2 DEF R!BeginDrain, R!MayDrain
    <2>3. CASE R!EndDrain
      BY <2>3 DEF R!EndDrain
    <2> QED  BY <2>1, <2>2, <2>3 DEF R!Sent, R!WriteEvent, R!Revoke, R!vars
  <1>5. R!TypeOK'
    BY <1>1, <1>2, <1>3, <1>4 DEF StreamInvariant, R!TypeOK, Guarded
  <1>6. Guarded' /\ Answered' /\ OnASession' /\ R!KnownClient'
    BY <1>1, <1>2, <1>3, <1>4 DEF StreamInvariant, Guarded, Answered, OnASession, R!KnownClient
  <1> QED  BY <1>1, <1>2, <1>5, <1>6 DEF StreamInvariant, Kept

\* Nothing has run.
LEMMA StreamsEstablished == R!Init => StreamInvariant
  <1> SUFFICES ASSUME R!Init PROVE StreamInvariant
    OBVIOUS
  <1>1. \A c \in Calls : call[c] = R!NoCall
    BY DEF R!Init
  <1>2. /\ R!NoCall \in [at : R!Steps, session : Sessions \cup {R!NoCall.session},
                    proc : Procs \cup {"GetDaemonInfo"}, first : R!Shapes,
                    extra : BOOLEAN, sent : BOOLEAN]
        /\ R!NoCall.at = "unused"
    BY DEF R!NoCall, R!Steps, R!Shapes
  <1>3. CallTypes
    BY <1>2 DEF R!Init, CallTypes
  <1>4. R!TypeOK
    BY <1>1, <1>2 DEF R!Init, R!TypeOK, R!Steps
  <1>5. Guarded /\ Answered /\ OnASession /\ R!KnownClient
    BY <1>1, <1>2 DEF R!Init, Guarded, Answered, OnASession, R!KnownClient, R!Running
  <1> QED  BY <1>3, <1>4, <1>5 DEF StreamInvariant

\* Every step of the server, its clients and the update worker.
LEMMA StreamsPreserved ==
    ASSUME StreamInvariant, [R!Next]_R!vars
    PROVE  StreamInvariant' /\ Kept
  <1>1. CASE \E s \in Sessions : R!Disconnect(s) \/ R!CloseExpired(s)
    BY <1>1, CloseKeeps DEF R!Disconnect, R!CloseExpired
  <1> QED  BY <1>1, AcceptKeeps, ServerKeeps, OutsideKeeps DEF R!Next

\* The inductive invariant of the server's calls holds in every state, for any number of
\* sessions and calls (run_rpc_session, handle_reqres_stream).
THEOREM StreamsAreSound == R!Spec => []StreamInvariant
  <1>1. R!Init => StreamInvariant
    BY StreamsEstablished
  <1>2. StreamInvariant /\ [R!Next]_R!vars => StreamInvariant'
    BY StreamsPreserved
  <1> QED  BY <1>1, <1>2, PTL DEF R!Spec

\* While an update drains the host no admitted operation runs, also none whose session ended
\* in the middle of it; a call has one final answer, and just those that are done have one;
\* and a handler that needs a client runs for an authenticated session (the work guard of
\* handle_reqres_stream, dispatch_unary_rpc).
THEOREM CallsAreServed == R!Spec => [](R!DrainExclusive /\ R!AnsweredOnce /\ R!KnownClient)
  <1>1. StreamInvariant => R!DrainExclusive /\ R!AnsweredOnce /\ R!KnownClient
    BY DEF StreamInvariant, Guarded, Answered, R!DrainExclusive, R!AnsweredOnce
  <1> QED  BY <1>1, StreamsAreSound, PTL

\* A session is authenticated as one thing for as long as it lasts, whatever control calls run
\* at once (authenticate_session_control).
THEOREM SessionIsOnePrincipal == R!Spec => R!AuthOnce
  <1>1. StreamInvariant /\ [R!Next]_R!vars => [Kept]_R!vars
    BY StreamsPreserved
  <1>2. [][Kept]_R!vars <=> R!AuthOnce
    BY PTL DEF R!AuthOnce, Kept
  <1> QED  BY <1>1, <1>2, StreamsAreSound, PTL DEF R!Spec

-----------------------------------------------------------------------------
(***************************************************************************)
(* The window that asks the user about a pairing (PairingGui), for any     *)
(* number of connections and whatever the user does. A connection is asked *)
(* about once: as long as its request is in the queue it has no reply and  *)
(* is not the pending one (Queued). What was drawn for the present         *)
(* generation is what the controller is about (DrawnAsIs), so a click on   *)
(* it is about the request that is pending.                                *)
(***************************************************************************)
CONSTANTS Asked, MaxGeneration
VARIABLES conn, queue, ctl, view, drawn, notification, told, visible, approved
G == INSTANCE PairingGui

Connection == [step : {"new", "waiting", "eof", "done"}, kind : G!Kinds, up : BOOLEAN,
               reply : {G!None, "accepted", "rejected", "ok", "error"}]
Event == [of : Conns, ended : BOOLEAN]
Controller == [route : G!Routes, of : Conns \cup {G!None}, generation : Nat,
               pending : Conns \cup {G!None}, disposed : BOOLEAN, ended : BOOLEAN]
WindowTypes ==
    /\ conn \in [Conns -> Connection] /\ queue \in Seq(Event) /\ ctl \in Controller
    /\ view \in [generation : Nat, resolved : BOOLEAN]
    /\ drawn \in [generation : Nat, of : Conns \cup {G!None}]
    /\ {notification, told} \subseteq Nat /\ visible \in BOOLEAN /\ approved \subseteq Conns
Ordered ==
    /\ view.generation <= ctl.generation /\ drawn.generation <= ctl.generation
    /\ notification <= ctl.generation /\ told <= ctl.generation

Unasked(c) == conn[c].reply = G!None /\ c # ctl.pending
Queued ==
    /\ \A c \in Conns : conn[c].step = "new" => Unasked(c)
    /\ \A i \in 1..Len(queue) :
        ~queue[i].ended => conn[queue[i].of].step # "new" /\ Unasked(queue[i].of)
    /\ \A i, j \in 1..Len(queue) :
        ~queue[i].ended /\ ~queue[j].ended /\ queue[i].of = queue[j].of => i = j
DrawnAsIs == drawn.generation = ctl.generation => drawn.of = ctl.of
ToldOnce == told = ctl.generation => notification = 0

WindowInvariant ==
    /\ WindowTypes /\ Ordered /\ Queued /\ DrawnAsIs /\ ToldOnce
    /\ G!PendingOnRoute /\ G!AcceptedAsSeen /\ G!NeverUnseen

\* What the fields of the controller become.
LEMMA ControllerFacts ==
  ASSUME ctl \in Controller
  PROVE  /\ ctl.pending \in Conns \cup {G!None} /\ ctl.generation \in Nat /\ ctl.of \in Conns \cup {G!None}
         /\ \A r \in G!Routes : /\ G!route(r) \in Controller /\ G!route(r).pending = G!None
                                /\ G!route(r).route = r
                                /\ G!route(r).generation = ctl.generation + 1
<1>1. /\ ctl.pending \in Conns \cup {G!None} /\ ctl.generation \in Nat
      /\ ctl.of \in Conns \cup {G!None} /\ ctl.disposed \in BOOLEAN /\ ctl.ended \in BOOLEAN
  BY DEF Controller
<1>2. ASSUME NEW r \in G!Routes
      PROVE  G!route(r) \in Controller
  <2>1. PICK x : x = [ctl EXCEPT !.route = r, !.of = G!None]
    OBVIOUS
  <2>2. x \in Controller
    BY <2>1 DEF Controller
  <2>3. PICK n \in Nat : n = ctl.generation + 1
    BY <1>1
  <2>4. [x EXCEPT !.pending = G!None, !.generation = n] \in Controller
    BY <2>2 DEF Controller
  <2> QED
    BY <2>1, <2>3, <2>4, Zenon DEF G!route
<1>3. \A r \in G!Routes : /\ G!route(r).pending = G!None /\ G!route(r).route = r
                          /\ G!route(r).generation = ctl.generation + 1
  BY DEF Controller, G!route
<1> QED
  BY <1>1, <1>2, <1>3

\* A settled confirmation has a reply, the others keep theirs.
LEMMA SettleFacts ==
  ASSUME WindowTypes, NEW b \in BOOLEAN
  PROVE  /\ G!settle(b) \in [Conns -> Connection]
         /\ \A c \in Conns :
              /\ G!settle(b)[c].step = conn[c].step
              /\ G!settle(b)[c].reply = IF c # ctl.pending THEN conn[c].reply
                                        ELSE IF b THEN "accepted" ELSE "rejected"
  BY DEF WindowTypes, Connection, G!settle

LEMMA AnswerFacts ==
  ASSUME NEW conns \in [Conns -> Connection], NEW c \in Conns, NEW r \in {"ok", "error"}
  PROVE  /\ G!Answer(conns, c, r) \in [Conns -> Connection]
         /\ \A e \in Conns :
              /\ G!Answer(conns, c, r)[e].step = conns[e].step
              /\ G!Answer(conns, c, r)[e].reply = IF e = c THEN r ELSE conns[e].reply
  BY DEF Connection, G!Answer

\* What is still in the queue stays unasked when the pending confirmation is
\* settled and the first event is taken.
LEMMA QueueKept ==
  ASSUME G!NoneAssumption, Queued, WindowTypes, WindowTypes', NEW n \in {0, 1},
         \A i \in 1..Len(queue') : i + n \in 1..Len(queue) /\ queue'[i] = queue[i + n],
         \A c \in Conns : (conn'[c].step = "new") <=> (conn[c].step = "new"),
         n = 1 => Len(queue) >= 1,
         \A c \in Conns : \/ conn'[c].reply = conn[c].reply
                          \/ c = ctl.pending
                          \/ n = 1 /\ ~queue[1].ended /\ c = queue[1].of,
         \/ ctl'.pending \in {ctl.pending, G!None}
         \/ n = 1 /\ ~queue[1].ended /\ ctl'.pending = queue[1].of
  PROVE  Queued'
<1>1. /\ Len(queue) \in Nat /\ Len(queue') \in Nat
      /\ \A i \in 1..Len(queue) : queue[i].of \in Conns
  <2>1. queue \in Seq(Event) /\ queue' \in Seq(Event)
    BY DEF WindowTypes
  <2>2. Len(queue) \in Nat /\ Len(queue') \in Nat /\ \A i \in 1..Len(queue) : queue[i] \in Event
    BY <2>1
  <2> QED
    BY <2>2 DEF Event
<1>2. n = 1 => 1 \in 1..Len(queue)
  BY <1>1
<1>3. ASSUME NEW c \in Conns, Unasked(c), n = 1 /\ ~queue[1].ended => c # queue[1].of
      PROVE  Unasked(c)'
  BY <1>3 DEF Unasked, G!NoneAssumption
<1>4. ASSUME NEW i \in 1..Len(queue'), ~queue'[i].ended
      PROVE  /\ i + n \in 1..Len(queue) /\ queue'[i] = queue[i + n] /\ ~queue[i + n].ended
             /\ conn'[queue'[i].of].step # "new"
             /\ conn'[queue'[i].of].reply = G!None /\ queue'[i].of # ctl'.pending
  <2>1. /\ i + n \in 1..Len(queue) /\ queue'[i] = queue[i + n] /\ ~queue[i + n].ended
        /\ queue'[i].of \in Conns
    BY <1>1, <1>4
  <2>2. conn[queue'[i].of].step # "new" /\ Unasked(queue'[i].of)
    BY <2>1 DEF Queued
  <2>3. n = 1 /\ ~queue[1].ended => queue'[i].of # queue[1].of
    <3>1. n = 1 => i + n # 1
      BY <1>1
    <3> QED
      BY <1>2, <2>1, <3>1 DEF Queued
  <2>4. \A c \in Conns : c = queue'[i].of => Unasked(c)'
    BY <1>3, <2>2, <2>3
  <2> QED
    BY <2>1, <2>2, <2>4 DEF Unasked
<1>5. ASSUME NEW c \in Conns, conn'[c].step = "new"
      PROVE  Unasked(c)'
  <2>1. conn[c].step = "new" /\ Unasked(c)
    BY <1>5 DEF Queued
  <2>2. n = 1 /\ ~queue[1].ended => c # queue[1].of
    BY <1>2, <2>1 DEF Queued
  <2> QED
    BY <1>3, <2>1, <2>2
<1>6. ASSUME NEW i \in 1..Len(queue'), NEW j \in 1..Len(queue'), ~queue'[i].ended, ~queue'[j].ended,
             queue'[i].of = queue'[j].of
      PROVE  i = j
  <2>1. i + n = j + n
    BY <1>4, <1>6 DEF Queued
  <2> QED
    BY <1>1, <2>1
<1>7. /\ \A c \in Conns : conn'[c].step = "new" => Unasked(c)'
      /\ \A i \in 1..Len(queue') :
            ~queue'[i].ended => /\ conn'[queue'[i].of].step # "new"
                                /\ conn'[queue'[i].of].reply = G!None /\ queue'[i].of # ctl'.pending
      /\ \A i, j \in 1..Len(queue') :
            ~queue'[i].ended /\ ~queue'[j].ended /\ queue'[i].of = queue'[j].of => i = j
  BY <1>4, <1>5, <1>6
<1> QED
  BY <1>7 DEF Queued, Unasked

\* A step that leaves the pending confirmation, if there is one, and its window.
LEMMA WindowStays ==
  ASSUME WindowInvariant, WindowTypes', Queued',
         ctl'.generation = ctl.generation, ctl'.of = ctl.of, ctl'.route = ctl.route,
         ctl'.pending = ctl.pending, ctl'.disposed = ctl.disposed \/ ctl.pending = G!None,
         \A c \in Conns : conn'[c].reply # conn[c].reply => c # ctl.pending /\ conn'[c].reply # "accepted",
         \/ drawn' = drawn
         \/ drawn'.generation = ctl.generation /\ drawn'.of = ctl.of,
         view'.generation \in {view.generation, ctl.generation},
         \/ told' = told /\ notification' = notification
         \/ told' \in {told, notification} /\ notification' = 0,
         approved \subseteq approved', G!NeverUnseen'
  PROVE  WindowInvariant'
<1> USE DEF WindowInvariant
<1>1. ctl.generation \in Nat /\ ctl.pending \in Conns \cup {G!None}
  BY ControllerFacts DEF WindowTypes
<1>2. {notification, told} \subseteq Nat
  BY DEF WindowTypes
<1>3. Ordered' /\ ToldOnce'
  BY <1>1, <1>2 DEF Ordered, ToldOnce
<1>4. DrawnAsIs'
  BY DEF DrawnAsIs
<1>5. G!PendingOnRoute'
  <2> SUFFICES ASSUME ctl.pending # G!None
               PROVE  /\ ctl.route = "confirm" /\ ctl.of = ctl.pending /\ ~ctl'.disposed
                      /\ conn'[ctl.pending].reply = G!None
    BY DEF G!PendingOnRoute
  <2> QED
    BY <1>1 DEF G!PendingOnRoute
<1>6. G!AcceptedAsSeen'
  BY DEF G!AcceptedAsSeen
<1> QED
  BY <1>3, <1>4, <1>5, <1>6

\* A step after which nothing is pending.
LEMMA WindowResets ==
  ASSUME WindowInvariant, WindowTypes', Queued', ctl'.pending = G!None,
         \/ ctl'.generation = ctl.generation /\ ctl'.of = ctl.of
         \/ ctl'.generation = ctl.generation + 1,
         \A c \in Conns : conn'[c].reply = "accepted" => conn[c].reply = "accepted" \/ c \in approved',
         view'.generation \in {view.generation, ctl.generation, ctl'.generation},
         drawn' = drawn, told' = told, notification' = notification,
         approved \subseteq approved'
  PROVE  WindowInvariant'
<1> USE DEF WindowInvariant
<1>1. ctl.generation \in Nat /\ drawn.generation \in Nat /\ view.generation \in Nat
  BY ControllerFacts DEF WindowTypes
<1>2. {notification, told} \subseteq Nat
  BY DEF WindowTypes
<1>3. Ordered' /\ ToldOnce'
  BY <1>1, <1>2 DEF Ordered, ToldOnce
<1>4. DrawnAsIs'
  BY <1>1 DEF DrawnAsIs, Ordered
<1>5. G!PendingOnRoute' /\ G!NeverUnseen'
  BY DEF G!PendingOnRoute, G!NeverUnseen
<1>6. G!AcceptedAsSeen'
  BY DEF G!AcceptedAsSeen
<1> QED
  BY <1>3, <1>4, <1>5, <1>6

\* A confirmation replaces what was pending; its notification is on its way.
LEMMA ConfirmKeeps ==
  ASSUME G!NoneAssumption, WindowInvariant, NEW c \in Conns, Unasked(c), G!confirm(c), ~ctl.disposed,
         view'.generation \in {view.generation, ctl.generation, ctl'.generation},
         Queued', WindowTypes', UNCHANGED <<drawn, told, approved>>
  PROVE  WindowInvariant'
<1> USE DEF WindowInvariant
<1>1. /\ ctl.generation \in Nat /\ drawn.generation \in Nat /\ view.generation \in Nat
      /\ {notification, told} \subseteq Nat
  BY ControllerFacts DEF WindowTypes
<1>2. /\ ctl'.generation = ctl.generation + 1 /\ ctl'.pending = c /\ ctl'.of = c
      /\ ctl'.route = "confirm" /\ ctl'.disposed = ctl.disposed
      /\ notification' = ctl'.generation
      /\ conn' = G!settle(FALSE)
  BY DEF G!confirm, G!route, WindowTypes, Controller
<1>3. Ordered' /\ ToldOnce' /\ DrawnAsIs'
  BY <1>1, <1>2 DEF Ordered, ToldOnce, DrawnAsIs
<1>4. G!NeverUnseen'
  BY <1>2 DEF G!NeverUnseen
<1>5. conn'[c].reply = G!None /\ \A e \in Conns : conn'[e].reply = "accepted" => conn[e].reply = "accepted"
  BY <1>2, SettleFacts DEF Unasked
<1>6. G!AcceptedAsSeen'
  BY <1>5 DEF G!AcceptedAsSeen
<1>7. G!PendingOnRoute'
  BY <1>2, <1>5 DEF G!PendingOnRoute
<1> QED
  BY <1>3, <1>4, <1>6, <1>7

\* The steps of a connection's task.
LEMMA ConnectionsKeep ==
  ASSUME G!GuiAssumption, G!NoneAssumption, WindowInvariant, NEW c \in Conns,
         G!Request(c) \/ G!HangsUp(c) \/ G!SeesEof(c) \/ G!Responds(c)
  PROVE  WindowInvariant'
<1> USE DEF WindowInvariant
<1>1. UNCHANGED <<ctl, view, drawn, notification, told, visible, approved>>
  BY DEF G!Request, G!HangsUp, G!SeesEof, G!Responds, G!Window
<1>2. /\ conn \in [Conns -> Connection] /\ queue \in Seq(Event)
      /\ \A e \in Conns : conn[e] \in Connection
  BY DEF WindowTypes
<1>3. /\ conn' \in [Conns -> Connection]
      /\ \A e \in Conns : conn'[e].reply = conn[e].reply
      /\ \A e \in Conns : e # c => conn'[e] = conn[e]
      /\ conn'[c].step # "new"
  <2>1. CASE G!Request(c)
    <3>1. PICK k \in G!Kinds : conn' = [conn EXCEPT ![c].step = "waiting", ![c].kind = k]
      BY <2>1 DEF G!Request, G!GuiAssumption
    <3> QED
      BY <1>2, <3>1 DEF Connection
  <2>2. CASE G!HangsUp(c)
    BY <1>2, <2>2 DEF G!HangsUp, Connection
  <2>3. CASE G!SeesEof(c)
    BY <1>2, <2>3 DEF G!SeesEof, Connection
  <2>4. CASE G!Responds(c)
    BY <1>2, <2>4 DEF G!Responds, Connection
  <2> QED
    BY <2>1, <2>2, <2>3, <2>4
<1>4. \/ queue' = queue /\ conn[c].step # "new"
      \/ \E x \in Event : /\ queue' = Append(queue, x) /\ x.of = c
                          /\ x.ended \/ conn[c].step = "new"
                          /\ x.ended => conn[c].step # "new"
  <2>1. \A b \in BOOLEAN : [of |-> c, ended |-> b] \in Event
    BY DEF Event
  <2>2. CASE G!Request(c)
    BY <2>1, <2>2 DEF G!Request
  <2>3. CASE G!SeesEof(c)
    BY <2>1, <2>3 DEF G!SeesEof
  <2> QED
    BY <2>2, <2>3 DEF G!HangsUp, G!Responds
<1>5. WindowTypes'
  <2>1. queue' \in Seq(Event)
    BY <1>2, <1>4
  <2> QED
    BY <1>1, <1>3, <2>1 DEF WindowTypes
<1>6. Queued'
  <2>1. \A e \in Conns : Unasked(e)' <=> Unasked(e)
    BY <1>1, <1>3 DEF Unasked
  <2>2. \A e \in Conns : conn'[e].step = "new" => conn[e].step = "new"
    BY <1>3
  <2>3. \A e \in Conns : conn[e].step # "new" => conn'[e].step # "new"
    BY <1>3
  <2>4. CASE queue' = queue
    <3>1. \A i \in 1..Len(queue) : queue[i].of \in Conns
      <4>1. \A i \in 1..Len(queue) : queue[i] \in Event
        BY <1>2
      <4> QED
        BY <4>1 DEF Event
    <3> QED
      BY <1>1, <1>3, <2>2, <2>3, <2>4, <3>1 DEF Queued, Unasked
  <2>5. ASSUME NEW x \in Event, queue' = Append(queue, x), x.of = c,
               x.ended \/ conn[c].step = "new"
        PROVE  Queued'
    <3>1. /\ Len(queue') = Len(queue) + 1 /\ Len(queue) \in Nat
          /\ queue'[Len(queue) + 1] = x
          /\ \A i \in 1..Len(queue) : queue'[i] = queue[i]
          /\ \A i \in 1..Len(queue') : i \in 1..Len(queue) \/ i = Len(queue) + 1
          /\ \A i \in 1..Len(queue) : queue[i] \in Event
      BY <1>2, <2>5
    <3>2. \A i \in 1..Len(queue) : queue[i].of \in Conns
      BY <3>1 DEF Event
    <3>3. \A e \in Conns : conn'[e].step = "new" => Unasked(e)
      BY <2>2 DEF Queued
    <3>4. ASSUME NEW i \in 1..Len(queue'), ~queue'[i].ended
          PROVE  /\ conn'[queue'[i].of].step # "new"
                 /\ queue'[i].of \in Conns /\ Unasked(queue'[i].of)
      <4>1. CASE i \in 1..Len(queue)
        BY <2>3, <3>1, <3>2, <3>4, <4>1 DEF Queued
      <4>2. CASE i = Len(queue) + 1
        BY <1>3, <2>5, <3>1, <3>4, <4>2 DEF Queued
      <4> QED
        BY <3>1, <4>1, <4>2
    <3>5. ASSUME NEW i \in 1..Len(queue'), NEW j \in 1..Len(queue'), ~queue'[i].ended,
                 ~queue'[j].ended, queue'[i].of = queue'[j].of
          PROVE  i = j
      <4>1. \A k \in 1..Len(queue) : ~x.ended /\ ~queue[k].ended => queue[k].of # c
        BY <2>5 DEF Queued
      <4> QED
        BY <2>5, <3>1, <3>5, <4>1 DEF Queued
    <3>6. \A i \in 1..Len(queue') : ~queue'[i].ended =>
              /\ conn'[queue'[i].of].step # "new" /\ conn'[queue'[i].of].reply = G!None
              /\ queue'[i].of # ctl'.pending
      BY <1>1, <1>3, <3>4 DEF Unasked
    <3>7. \A e \in Conns : conn'[e].step = "new" => Unasked(e)'
      BY <2>1, <3>3
    <3>8. \A i, j \in 1..Len(queue') :
            ~queue'[i].ended /\ ~queue'[j].ended /\ queue'[i].of = queue'[j].of => i = j
      BY <3>5
    <3> QED
      BY <3>6, <3>7, <3>8 DEF Queued, Unasked
  <2> QED
    BY <1>4, <2>4, <2>5
<1>7. G!NeverUnseen'
  BY <1>1 DEF G!NeverUnseen
<1> QED
  BY <1>1, <1>3, <1>5, <1>6, <1>7, WindowStays

\* n events are taken, and who has a reply then.
Dequeued(n) ==
    /\ n \in {0, 1} /\ queue' \in Seq(Event)
    /\ n = 1 => Len(queue) >= 1
    /\ \A i \in 1..Len(queue') : i + n \in 1..Len(queue) /\ queue'[i] = queue[i + n]
Replied(n) ==
    /\ conn' \in [Conns -> Connection]
    /\ \A c \in Conns : (conn'[c].step = "new") <=> (conn[c].step = "new")
    /\ \A c \in Conns : \/ conn'[c].reply = conn[c].reply
                        \/ c = ctl.pending
                        \/ n = 1 /\ ~queue[1].ended /\ c = queue[1].of
RepliedNone == \A c \in Conns : conn'[c].reply = "accepted" => conn[c].reply = "accepted"
Looked ==
    /\ view' \in [generation : Nat, resolved : BOOLEAN]
    /\ view'.generation \in {view.generation, ctl.generation, ctl'.generation}

\* A new route, with nothing pending.
LEMMA Rerouted ==
  ASSUME G!NoneAssumption, WindowInvariant, NEW n, Dequeued(n), Replied(n), RepliedNone,
         ctl' \in Controller, ctl'.pending = G!None,
         \/ ctl'.generation = ctl.generation /\ ctl'.of = ctl.of
         \/ ctl'.generation = ctl.generation + 1,
         Looked, visible' \in BOOLEAN,
         UNCHANGED <<drawn, told, notification, approved>>
  PROVE  WindowInvariant'
<1>1. WindowTypes'
  BY DEF WindowInvariant, WindowTypes, Dequeued, Replied, Looked
<1>2. Queued'
  <2>1. n \in {0, 1}
    BY DEF Dequeued
  <2> QED
    BY <1>1, <2>1, QueueKept DEF WindowInvariant, Dequeued, Replied
<1> QED
  BY <1>1, <1>2, WindowResets DEF Looked, RepliedNone

\* The same request stays pending.
LEMMA Untouched ==
  ASSUME G!NoneAssumption, WindowInvariant, NEW n, Dequeued(n), Replied(n), RepliedNone,
         ctl' = ctl, \A c \in Conns : c = ctl.pending => conn'[c].reply = conn[c].reply,
         Looked, visible' \in BOOLEAN, visible => visible' \/ ctl.pending = G!None,
         UNCHANGED <<drawn, told, notification, approved>>
  PROVE  WindowInvariant'
<1>1. WindowTypes'
  BY DEF WindowInvariant, WindowTypes, Dequeued, Replied, Looked
<1>2. Queued'
  <2>1. n \in {0, 1}
    BY DEF Dequeued
  <2> QED
    BY <1>1, <2>1, QueueKept DEF WindowInvariant, Dequeued, Replied
<1>3. G!NeverUnseen'
  BY DEF G!NeverUnseen, WindowInvariant
<1>4. \A c \in Conns : conn'[c].reply # conn[c].reply => c # ctl.pending /\ conn'[c].reply # "accepted"
  BY DEF RepliedNone
<1>5. view'.generation \in {view.generation, ctl.generation}
  BY DEF Looked
<1> QED
  BY <1>1, <1>2, <1>3, <1>4, <1>5, WindowStays

\* The picture of the present generation has been looked at, or none.
LEMMA LookedFacts ==
  ASSUME WindowTypes, ctl' \in Controller, G!Refreshed \/ view' = view
  PROVE  Looked
<1>1. ctl'.generation \in Nat
  BY DEF Controller
<1>2. view \in [generation : Nat, resolved : BOOLEAN]
  BY DEF WindowTypes
<1>3. CASE view' = view
  BY <1>2, <1>3 DEF Looked
<1>4. CASE view' = [generation |-> ctl'.generation, resolved |-> FALSE]
  <2>1. \A n \in Nat : LET v == [generation |-> n, resolved |-> FALSE]
                       IN  v \in [generation : Nat, resolved : BOOLEAN] /\ v.generation = n
    OBVIOUS
  <2> QED
    BY <1>1, <1>4, <2>1 DEF Looked
<1> QED
  BY <1>3, <1>4 DEF G!Refreshed

\* The window is closed: what was pending is rejected.
LEMMA WindowCloses ==
  ASSUME G!NoneAssumption, WindowInvariant, NEW n, Dequeued(n), G!close,
         G!Refreshed \/ view' = view, UNCHANGED <<drawn, told, approved>>
  PROVE  WindowInvariant'
<1>0. WindowTypes /\ ctl \in Controller /\ conn \in [Conns -> Connection]
  BY DEF WindowInvariant, WindowTypes
<1>1. visible' = FALSE /\ UNCHANGED notification
  BY DEF G!close
<1>2. CASE ctl.route = "confirm"
  <2>1. conn' = G!settle(FALSE) /\ ctl' = G!route("idle") /\ "idle" \in G!Routes
    BY <1>2 DEF G!close, G!Routes
  <2>2. /\ ctl' \in Controller /\ ctl'.pending = G!None /\ ctl'.generation = ctl.generation + 1
    BY <1>0, <2>1, ControllerFacts
  <2>3. Replied(n) /\ RepliedNone
    BY <1>0, <2>1, SettleFacts DEF Replied, RepliedNone
  <2>4. Looked
    BY <1>0, <2>2, LookedFacts
  <2> QED
    BY <1>1, <2>2, <2>3, <2>4, Rerouted
<1>3. CASE ctl.route # "confirm"
  <2>1. ctl' = ctl /\ conn' = conn
    BY <1>3 DEF G!close
  <2>2. ctl.pending = G!None
    BY <1>3 DEF WindowInvariant, G!PendingOnRoute
  <2>3. Replied(n) /\ RepliedNone
    BY <1>0, <2>1 DEF Replied, RepliedNone
  <2>4. Looked
    BY <1>0, <2>1, LookedFacts
  <2> QED
    BY <1>1, <2>1, <2>2, <2>3, <2>4, Untouched
<1> QED
  BY <1>2, <1>3

\* A tick takes the first event of the queue.
LEMMA TickKeeps ==
  ASSUME G!NoneAssumption, WindowInvariant, G!Tick
  PROVE  WindowInvariant'
<1>0. /\ WindowTypes /\ ctl \in Controller /\ conn \in [Conns -> Connection] /\ Queued
      /\ visible \in BOOLEAN
  BY DEF WindowInvariant, WindowTypes
<1>1. /\ Dequeued(1) /\ Head(queue) = queue[1] /\ 1 \in 1..Len(queue) /\ queue[1] \in Event
  <2>1. queue \in Seq(Event) /\ queue # <<>> /\ queue' = Tail(queue)
    BY DEF G!Tick, WindowInvariant, WindowTypes
  <2> QED
    BY <2>1 DEF Dequeued
<1>2. PICK c \in Conns : c = queue[1].of
  BY <1>1 DEF Event
<1>3. G!Refreshed /\ UNCHANGED <<drawn, told, approved>>
  BY DEF G!Tick
<1>4. CASE queue[1].ended
  <2>1. G!disconnected(c)
    BY <1>1, <1>2, <1>4 DEF G!Tick
  <2>2. CASE ctl.pending = c
    <3>1. G!close
      BY <2>1, <2>2 DEF G!disconnected, G!IsPending
    <3> QED
      BY <1>1, <1>3, <3>1, WindowCloses
  <2>3. CASE ctl.pending # c
    <3>1. UNCHANGED <<conn, ctl, visible, notification>>
      BY <2>1, <2>3 DEF G!disconnected, G!IsPending
    <3>2. Replied(1) /\ RepliedNone
      BY <1>0, <3>1 DEF Replied, RepliedNone
    <3>3. Looked
      BY <1>0, <1>3, <3>1, LookedFacts
    <3> QED
      BY <1>0, <1>1, <1>3, <3>1, <3>2, <3>3, Untouched
  <2> QED
    BY <2>2, <2>3
<1>5. CASE ~queue[1].ended
  <2>1. G!request(c)
    BY <1>1, <1>2, <1>5 DEF G!Tick
  <2>2. Unasked(c)
    BY <1>0, <1>1, <1>2, <1>5 DEF Queued
  <2>3. ASSUME conn' = G!Answer(conn, c, "ok") \/ conn' = G!Answer(conn, c, "error"),
               ctl' = ctl, visible' \in BOOLEAN, visible => visible', UNCHANGED notification
        PROVE  WindowInvariant'
    <3>1. /\ conn' \in [Conns -> Connection] /\ \A e \in Conns : conn'[e].step = conn[e].step
          /\ \A e \in Conns : e # c => conn'[e].reply = conn[e].reply
          /\ conn'[c].reply \in {"ok", "error"}
      BY <1>0, <2>3, AnswerFacts
    <3>2. Replied(1) /\ RepliedNone
      BY <1>2, <1>5, <3>1 DEF Replied, RepliedNone
    <3>3. Looked
      BY <1>0, <1>3, <2>3, LookedFacts
    <3>4. \A e \in Conns : e = ctl.pending => conn'[e].reply = conn[e].reply
      BY <2>2, <3>1 DEF Unasked
    <3> QED
      BY <1>1, <1>3, <2>3, <3>2, <3>3, <3>4, Untouched
  <2>4. ASSUME NEW r \in G!Routes, conn' = G!Answer(G!settle(FALSE), c, "ok"), ctl' = G!route(r),
               visible' \in BOOLEAN, UNCHANGED notification
        PROVE  WindowInvariant'
    <3>1. /\ conn' \in [Conns -> Connection] /\ \A e \in Conns : conn'[e].step = conn[e].step
          /\ \A e \in Conns : e # c /\ e # ctl.pending => conn'[e].reply = conn[e].reply
          /\ \A e \in Conns : conn'[e].reply = "accepted" => conn[e].reply = "accepted"
      <4>1. /\ G!settle(FALSE) \in [Conns -> Connection]
            /\ \A e \in Conns :
                 /\ G!settle(FALSE)[e].step = conn[e].step
                 /\ G!settle(FALSE)[e].reply = IF e # ctl.pending THEN conn[e].reply ELSE "rejected"
        BY <1>0, SettleFacts
      <4>2. /\ conn' \in [Conns -> Connection]
            /\ \A e \in Conns :
                 /\ conn'[e].step = G!settle(FALSE)[e].step
                 /\ conn'[e].reply = IF e = c THEN "ok" ELSE G!settle(FALSE)[e].reply
        <5>1. PICK x \in [Conns -> Connection] : x = G!settle(FALSE)
          BY <4>1
        <5>2. conn' = G!Answer(x, c, "ok") /\ "ok" \in {"ok", "error"}
          BY <2>4, <5>1
        <5>3. /\ G!Answer(x, c, "ok") \in [Conns -> Connection]
              /\ \A e \in Conns :
                   /\ G!Answer(x, c, "ok")[e].step = x[e].step
                   /\ G!Answer(x, c, "ok")[e].reply = IF e = c THEN "ok" ELSE x[e].reply
          BY <5>2, AnswerFacts
        <5> QED
          BY <5>1, <5>2, <5>3
      <4> QED
        BY <4>1, <4>2
    <3>2. Replied(1) /\ RepliedNone
      BY <1>2, <1>5, <3>1 DEF Replied, RepliedNone
    <3>3. ctl' \in Controller /\ ctl'.pending = G!None /\ ctl'.generation = ctl.generation + 1
      BY <1>0, <2>4, ControllerFacts
    <3>4. Looked
      BY <1>0, <1>3, <3>3, LookedFacts
    <3> QED
      BY <1>1, <1>3, <2>4, <3>2, <3>3, <3>4, Rerouted
  <2>5. CASE G!refuse(c)
    BY <1>0, <2>3, <2>5 DEF G!refuse
  <2>6. CASE G!valid(c) /\ G!confirm(c)
    <3>1. /\ conn' \in [Conns -> Connection] /\ \A e \in Conns : conn'[e].step = conn[e].step
          /\ \A e \in Conns : e # ctl.pending => conn'[e].reply = conn[e].reply
      BY <1>0, <2>6, SettleFacts DEF G!confirm
    <3>2. ctl' \in Controller /\ ctl'.pending = c /\ visible' = visible
      <4>1. G!route("confirm") \in Controller
        BY <1>0, ControllerFacts DEF G!Routes
      <4>2. ctl' = [G!route("confirm") EXCEPT !.of = c, !.pending = c] /\ visible' = visible
        BY <2>6 DEF G!confirm
      <4> QED
        BY <4>1, <4>2 DEF Controller
    <3>3. Looked
      BY <1>0, <1>3, <3>2, LookedFacts
    <3>4. notification' \in Nat
      BY <1>0, <2>6, <3>2 DEF G!confirm, Controller
    <3>5. WindowTypes'
      <4>1. told \in Nat /\ approved \subseteq Conns
        BY <1>0 DEF WindowTypes
      <4>2. drawn \in [generation : Nat, of : Conns \cup {G!None}]
        BY <1>0 DEF WindowTypes
      <4>3. queue' \in Seq(Event) /\ view' \in [generation : Nat, resolved : BOOLEAN]
        BY <1>1, <3>3 DEF Dequeued, Looked
      <4> QED
        BY <1>0, <1>3, <3>1, <3>2, <3>4, <4>1, <4>2, <4>3 DEF WindowTypes
    <3>6. Queued'
      BY <1>0, <1>1, <1>2, <1>5, <3>1, <3>2, <3>5, QueueKept DEF Dequeued
    <3>7. ~ctl.disposed
      BY <2>6 DEF G!valid
    <3> QED
      BY <1>3, <2>2, <2>6, <3>3, <3>5, <3>6, <3>7, ConfirmKeeps DEF Looked
  <2>7. CASE G!show_code(c)
    BY <1>0, <2>4, <2>7 DEF G!show_code, G!Routes
  <2>8. CASE conn' = G!Answer(G!settle(FALSE), c, "ok") /\ G!show_info /\ UNCHANGED notification
    BY <1>0, <2>4, <2>8 DEF G!show_info, G!Routes
  <2>9. CASE conn' = G!Answer(conn, c, "ok") /\ visible' = TRUE /\ UNCHANGED <<ctl, notification>>
    BY <2>3, <2>9
  <2>10. CASE G!completed(c)
    <3>1. CASE ctl.route # "code"
      BY <1>0, <2>3, <2>10, <3>1 DEF G!completed
    <3>2. CASE ctl.route = "code"
      <4>1. /\ conn' = G!Answer(conn, c, "ok") /\ UNCHANGED notification /\ visible' = FALSE
            /\ ctl' = [ctl EXCEPT !.route = "idle", !.generation = ctl.generation + 1]
        BY <2>10, <3>2 DEF G!completed
      <4>2. ctl.pending = G!None /\ ctl.generation \in Nat
        BY <1>0, <3>2, ControllerFacts DEF WindowInvariant, G!PendingOnRoute
      <4>3. ctl' \in Controller /\ ctl'.pending = G!None /\ ctl'.generation = ctl.generation + 1
        <5>1. PICK m \in Nat : m = ctl.generation + 1
          BY <4>2
        <5>2. ctl' = [ctl EXCEPT !.route = "idle", !.generation = m]
          BY <4>1, <5>1
        <5> QED
          BY <1>0, <4>2, <5>1, <5>2 DEF Controller, G!Routes
      <4>4. /\ conn' \in [Conns -> Connection] /\ \A e \in Conns : conn'[e].step = conn[e].step
            /\ \A e \in Conns : e # c => conn'[e].reply = conn[e].reply
            /\ conn'[c].reply = "ok"
        BY <1>0, <4>1, AnswerFacts
      <4>5. Replied(1) /\ RepliedNone
        BY <1>2, <1>5, <4>4 DEF Replied, RepliedNone
      <4>6. Looked
        BY <1>0, <1>3, <4>3, LookedFacts
      <4> QED
        BY <1>1, <1>3, <4>1, <4>3, <4>5, <4>6, Rerouted
    <3> QED
      BY <3>1, <3>2
  <2> QED
    BY <2>1, <2>5, <2>6, <2>7, <2>8, <2>9, <2>10 DEF G!request
<1> QED
  BY <1>4, <1>5

\* Nothing is taken from the queue.
LEMMA NothingDequeued ==
  ASSUME WindowTypes, queue' = queue \/ queue' = <<>>
  PROVE  Dequeued(0)
<1>1. queue \in Seq(Event) /\ Len(queue) \in Nat /\ <<>> \in Seq(Event) /\ Len(<<>>) = 0
  BY DEF WindowTypes
<1>2. queue' \in Seq(Event)
  BY <1>1
<1>3. ASSUME NEW i \in 1..Len(queue')
      PROVE  i + 0 \in 1..Len(queue) /\ queue'[i] = queue[i + 0]
  <2>1. i \in Nat /\ i + 0 = i
    BY <1>1
  <2>2. CASE queue' = queue
    BY <2>1, <2>2
  <2>3. CASE queue' = <<>>
    BY <1>1, <2>3
  <2> QED
    BY <2>2, <2>3
<1> QED
  BY <1>2, <1>3 DEF Dequeued

\* What the user and the timer do to the window.
LEMMA WindowKeeps ==
  ASSUME G!NoneAssumption, WindowInvariant,
         \/ G!TickIdle \/ (\E shown \in BOOLEAN : G!Notified(shown) \/ G!Click(shown))
         \/ G!Shows \/ G!Closes \/ G!Informs \/ G!Draw \/ G!Quit \/ G!Ends
  PROVE  WindowInvariant'
<1>0. /\ WindowTypes /\ ctl \in Controller /\ conn \in [Conns -> Connection] /\ Queued
      /\ visible \in BOOLEAN /\ {notification, told} \subseteq Nat /\ approved \subseteq Conns
      /\ queue \in Seq(Event) /\ drawn \in [generation : Nat, of : Conns \cup {G!None}]
      /\ view \in [generation : Nat, resolved : BOOLEAN]
  BY DEF WindowInvariant, WindowTypes
<1>1. ASSUME queue' = queue
      PROVE  Dequeued(0)
  BY <1>0, <1>1, NothingDequeued
<1>2. ASSUME conn' = conn
      PROVE  Replied(0) /\ RepliedNone
  BY <1>0, <1>2 DEF Replied, RepliedNone
<1>3. ASSUME conn' = G!settle(FALSE)
      PROVE  Replied(0) /\ RepliedNone
  BY <1>0, <1>3, SettleFacts DEF Replied, RepliedNone
<1>4. ASSUME queue' = queue, WindowTypes', ctl'.pending \in {ctl.pending, G!None},
             \A c \in Conns : (conn'[c].step = "new") <=> (conn[c].step = "new"),
             \A c \in Conns : conn'[c].reply = conn[c].reply \/ c = ctl.pending
      PROVE  Queued'
  <2>1. Dequeued(0)
    BY <1>1, <1>4
  <2> QED
    BY <1>0, <1>4, <2>1, QueueKept DEF Dequeued
<1>5. CASE G!TickIdle
  <2>1. /\ UNCHANGED <<conn, queue, ctl, drawn, notification, told, visible, approved>>
        /\ G!Refreshed
    BY <1>5 DEF G!TickIdle
  <2>2. Looked
    BY <1>0, <2>1, LookedFacts
  <2> QED
    BY <1>0, <1>1, <1>2, <2>1, <2>2, Untouched
<1>6. ASSUME NEW shown \in BOOLEAN, G!Notified(shown)
      PROVE  WindowInvariant'
  <2>1. /\ UNCHANGED <<conn, queue, ctl, drawn, approved>> /\ G!Refreshed
        /\ notification # 0 /\ notification' = 0
        /\ visible' = (visible \/ G!Falls(shown))
        /\ told' = IF shown THEN notification ELSE told
    BY <1>6 DEF G!Notified
  <2>2. Looked
    BY <1>0, <2>1, LookedFacts
  <2>3. visible' \in BOOLEAN
    BY <1>0, <2>1 DEF G!Falls
  <2>4. WindowTypes'
    BY <1>0, <2>1, <2>2, <2>3 DEF WindowTypes, Looked
  <2>5. Queued'
    BY <1>4, <2>1, <2>4
  <2>6. G!NeverUnseen'
    <3> SUFFICES ASSUME ctl.pending # G!None
                 PROVE  visible' \/ told' = ctl.generation
      BY <2>1 DEF G!NeverUnseen
    <3>1. ~ctl.disposed
      BY DEF WindowInvariant, G!PendingOnRoute
    <3>2. visible \/ notification = ctl.generation
      BY <2>1 DEF WindowInvariant, G!NeverUnseen, ToldOnce
    <3> QED
      BY <2>1, <3>1, <3>2 DEF G!Falls
  <2>7. view'.generation \in {view.generation, ctl.generation}
    BY <2>1, <2>2 DEF Looked
  <2> QED
    BY <1>0, <2>1, <2>4, <2>5, <2>6, <2>7, WindowStays
<1>7. ASSUME NEW accepted \in BOOLEAN, G!Click(accepted)
      PROVE  WindowInvariant'
  <2>1. /\ UNCHANGED <<queue, drawn, notification, told, visible>>
        /\ drawn.of # G!None
        /\ approved' = IF accepted THEN approved \cup {drawn.of} ELSE approved
    BY <1>7 DEF G!Click
  <2>2. approved \subseteq approved' /\ approved' \subseteq Conns
    BY <1>0, <2>1
  <2>3. CASE ~ctl.disposed /\ G!Matches(drawn.generation)
    <3>1. /\ conn' = G!settle(accepted) /\ ctl' = [ctl EXCEPT !.pending = G!None]
          /\ view' = [view EXCEPT !.resolved = TRUE]
      BY <1>7, <2>3 DEF G!Click
    <3>2. /\ conn' \in [Conns -> Connection] /\ \A c \in Conns : conn'[c].step = conn[c].step
          /\ \A c \in Conns : c # ctl.pending => conn'[c].reply = conn[c].reply
          /\ \A c \in Conns : conn'[c].reply = "accepted"
                                => conn[c].reply = "accepted" \/ (c = ctl.pending /\ accepted)
      <4>1. /\ G!settle(accepted) \in [Conns -> Connection]
            /\ \A c \in Conns :
                 /\ G!settle(accepted)[c].step = conn[c].step
                 /\ G!settle(accepted)[c].reply = IF c # ctl.pending THEN conn[c].reply
                                                 ELSE IF accepted THEN "accepted" ELSE "rejected"
        BY <1>0, SettleFacts
      <4> QED
        BY <3>1, <4>1
    <3>3. /\ ctl' \in Controller /\ ctl'.pending = G!None
          /\ ctl'.generation = ctl.generation /\ ctl'.of = ctl.of
      BY <1>0, <3>1 DEF Controller
    <3>4. view' \in [generation : Nat, resolved : BOOLEAN] /\ view'.generation = view.generation
      BY <1>0, <3>1
    <3>5. WindowTypes'
      BY <1>0, <2>1, <2>2, <3>2, <3>3, <3>4 DEF WindowTypes
    <3>6. Queued'
      BY <1>4, <2>1, <3>2, <3>3, <3>5
    <3>7. drawn.of = ctl.pending
      BY <2>3 DEF G!Matches, WindowInvariant, DrawnAsIs, G!PendingOnRoute
    <3>8. \A c \in Conns : conn'[c].reply = "accepted" => conn[c].reply = "accepted" \/ c \in approved'
      BY <2>1, <3>2, <3>7
    <3> QED
      BY <2>1, <2>2, <3>3, <3>4, <3>5, <3>6, <3>8, WindowResets
  <2>4. CASE ~(~ctl.disposed /\ G!Matches(drawn.generation))
    <3>1. UNCHANGED <<conn, ctl, view>>
      BY <1>7, <2>4 DEF G!Click
    <3>2. WindowTypes'
      BY <1>0, <2>1, <2>2, <3>1 DEF WindowTypes
    <3>3. Queued'
      BY <1>4, <2>1, <3>1, <3>2
    <3>4. G!NeverUnseen'
      BY <2>1, <3>1 DEF WindowInvariant, G!NeverUnseen
    <3> QED
      BY <2>1, <2>2, <3>1, <3>2, <3>3, <3>4, WindowStays
  <2> QED
    BY <2>3, <2>4
<1>8. CASE G!Shows
  <2>1. UNCHANGED <<conn, queue, ctl, view, drawn, notification, told, approved>> /\ visible' = TRUE
    BY <1>8 DEF G!Shows
  <2>2. Looked
    BY <1>0, <2>1, LookedFacts
  <2> QED
    BY <1>0, <1>1, <1>2, <2>1, <2>2, Untouched
<1>9. CASE G!Closes
  <2>1. G!close /\ (G!Refreshed \/ view' = view) /\ UNCHANGED <<queue, drawn, told, approved>>
    BY <1>9 DEF G!Closes
  <2> QED
    BY <1>1, <2>1, WindowCloses
<1>10. CASE G!Informs
  <2>1. /\ conn' = G!settle(FALSE) /\ ctl' = G!route("info") /\ visible' = TRUE
        /\ G!Refreshed \/ view' = view
        /\ "info" \in G!Routes
        /\ UNCHANGED <<queue, drawn, notification, told, approved>>
    BY <1>10 DEF G!Informs, G!show_info, G!Routes
  <2>2. ctl' \in Controller /\ ctl'.pending = G!None /\ ctl'.generation = ctl.generation + 1
    BY <1>0, <1>10, ControllerFacts DEF G!Informs, G!show_info, G!Routes
  <2>3. Looked
    BY <1>0, <2>1, <2>2, LookedFacts
  <2> QED
    BY <1>1, <1>3, <2>1, <2>2, <2>3, Rerouted
<1>11. CASE G!Draw
  <2>1. /\ UNCHANGED <<conn, queue, ctl, view, notification, told, visible, approved>>
        /\ drawn' = [generation |-> ctl.generation, of |-> ctl.of]
    BY <1>11 DEF G!Draw
  <2>2. WindowTypes'
    BY <1>0, <2>1, ControllerFacts DEF WindowTypes
  <2>3. Queued'
    BY <1>4, <2>1, <2>2
  <2>4. G!NeverUnseen'
    BY <2>1 DEF WindowInvariant, G!NeverUnseen
  <2> QED
    BY <2>1, <2>2, <2>3, <2>4, WindowStays
<1>12. CASE G!Quit
  <2>1. /\ conn' = G!settle(FALSE) /\ ctl' = [ctl EXCEPT !.disposed = TRUE, !.pending = G!None]
        /\ G!Refreshed /\ UNCHANGED <<queue, drawn, notification, told, visible, approved>>
    BY <1>12 DEF G!Quit
  <2>2. /\ ctl' \in Controller /\ ctl'.pending = G!None
        /\ ctl'.generation = ctl.generation /\ ctl'.of = ctl.of
    BY <1>0, <2>1 DEF Controller
  <2>3. Looked
    BY <1>0, <2>1, <2>2, LookedFacts
  <2> QED
    BY <1>0, <1>1, <1>3, <2>1, <2>2, <2>3, Rerouted
<1>13. CASE G!Ends
  <2>1. /\ ctl.disposed /\ ctl' = [ctl EXCEPT !.ended = TRUE] /\ queue' = <<>>
        /\ conn' = [c \in Conns |->
                      [conn[c] EXCEPT !.step = IF conn[c].step = "new" THEN conn[c].step ELSE "done"]]
        /\ UNCHANGED <<view, drawn, notification, told, visible, approved>>
    BY <1>13 DEF G!Ends
  <2>2. ctl.pending = G!None
    BY <2>1 DEF WindowInvariant, G!PendingOnRoute
  <2>3. /\ ctl' \in Controller /\ ctl'.pending = G!None
        /\ ctl'.generation = ctl.generation /\ ctl'.of = ctl.of
    BY <1>0, <2>1, <2>2 DEF Controller
  <2>4. /\ conn' \in [Conns -> Connection]
        /\ \A c \in Conns : conn'[c].reply = conn[c].reply
        /\ \A c \in Conns : (conn'[c].step = "new") <=> (conn[c].step = "new")
    BY <1>0, <2>1 DEF Connection
  <2>5. Replied(0) /\ RepliedNone
    BY <2>4 DEF Replied, RepliedNone
  <2>6. Dequeued(0) /\ Looked
    BY <1>0, <2>1, <2>3, NothingDequeued, LookedFacts
  <2> QED
    BY <1>0, <2>1, <2>3, <2>5, <2>6, Rerouted
<1> QED
  BY <1>5, <1>6, <1>7, <1>8, <1>9, <1>10, <1>11, <1>12, <1>13

\* The invariant of the pairing window, which is inductive.
LEMMA WindowHolds ==
  ASSUME G!GuiAssumption, G!NoneAssumption
  PROVE  G!Spec => []WindowInvariant
<1>1. ASSUME G!Init
      PROVE  WindowInvariant
  <2>1. WindowTypes
    <3>1. [step |-> "new", kind |-> "info", up |-> TRUE, reply |-> G!None] \in Connection
      BY DEF Connection, G!Kinds
    <3>2. /\ ctl = [route |-> "idle", of |-> G!None, generation |-> 0, pending |-> G!None,
                    disposed |-> FALSE, ended |-> FALSE]
          /\ conn = [c \in Conns |-> [step |-> "new", kind |-> "info", up |-> TRUE, reply |-> G!None]]
          /\ queue = <<>> /\ view = [generation |-> 0, resolved |-> FALSE]
          /\ drawn = [generation |-> 0, of |-> G!None]
          /\ notification = 0 /\ told = 0 /\ visible \in BOOLEAN /\ approved = {}
      BY <1>1 DEF G!Init
    <3>3. ctl \in Controller
      BY <3>2 DEF Controller, G!Routes
    <3> QED
      BY <3>1, <3>2, <3>3 DEF WindowTypes
  <2>2. Ordered /\ Queued /\ DrawnAsIs /\ ToldOnce
    BY <1>1 DEF G!Init, Ordered, Queued, Unasked, DrawnAsIs, ToldOnce, G!NoneAssumption
  <2>3. G!PendingOnRoute /\ G!AcceptedAsSeen /\ G!NeverUnseen
    BY <1>1 DEF G!Init, G!PendingOnRoute, G!AcceptedAsSeen, G!NeverUnseen, G!None
  <2> QED
    BY <2>1, <2>2, <2>3 DEF WindowInvariant
<1>2. ASSUME WindowInvariant, [G!Next]_(G!vars)
      PROVE  WindowInvariant'
  <2>1. ASSUME NEW c \in Conns, G!Request(c) \/ G!HangsUp(c) \/ G!SeesEof(c) \/ G!Responds(c)
        PROVE  WindowInvariant'
    BY <1>2, <2>1, ConnectionsKeep
  <2>2. CASE G!Tick
    BY <1>2, <2>2, TickKeeps
  <2>3. CASE \/ G!TickIdle \/ (\E shown \in BOOLEAN : G!Notified(shown) \/ G!Click(shown))
             \/ G!Shows \/ G!Closes \/ G!Informs \/ G!Draw \/ G!Quit \/ G!Ends
    BY <1>2, <2>3, WindowKeeps
  <2>4. CASE UNCHANGED G!vars
    <3>1. UNCHANGED <<conn, queue, ctl, view, drawn, notification, told, visible, approved>>
      BY <2>4 DEF G!vars
    <3> QED
      BY <1>2, <3>1 DEF WindowInvariant, WindowTypes, Ordered, Queued, Unasked, DrawnAsIs, ToldOnce,
         G!PendingOnRoute, G!AcceptedAsSeen, G!NeverUnseen
  <2> QED
    BY <1>2, <2>1, <2>2, <2>3, <2>4 DEF G!Next
<1> QED
  BY <1>1, <1>2, PTL DEF G!Spec

(* A pairing is accepted only by a click on the picture of its own request,   *)
(* a confirmation that waits is the one the window is about, and it is never  *)
(* out of the user's reach, whatever number of connections ask, replace one   *)
(* another and go (serve, Controller::resolve, notification_result).          *)
THEOREM PairingIsSeen ==
  ASSUME G!GuiAssumption, G!NoneAssumption
  PROVE  G!Spec => [](G!TypeOK /\ G!AcceptedAsSeen /\ G!PendingOnRoute /\ G!NeverUnseen)
<1>1. ASSUME WindowInvariant
      PROVE  G!TypeOK /\ G!AcceptedAsSeen /\ G!PendingOnRoute /\ G!NeverUnseen
  <2>1. /\ \A c \in Conns : conn[c] \in Connection
        /\ \A i \in DOMAIN queue : queue[i] \in Event
        /\ ctl \in Controller /\ approved \subseteq Conns /\ Ordered
    BY <1>1 DEF WindowInvariant, WindowTypes
  <2>2. G!TypeOK
    BY <2>1 DEF G!TypeOK, Connection, Event, Controller, Ordered
  <2> QED
    BY <1>1, <2>2 DEF WindowInvariant
<1> QED
  BY <1>1, WindowHolds, PTL
=============================================================================
