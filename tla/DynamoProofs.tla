---------------------------- MODULE DynamoProofs ----------------------------
(***************************************************************************)
(* Proofs about module Dynamo, for any ring of three or more nodes, any    *)
(* keys, and any number of calls, crashes and timeouts.                    *)
(***************************************************************************)
EXTENDS Dynamo, TLAPS, SequenceTheorems, WellFoundedInduction

-----------------------------------------------------------------------------
(* The ring *)

LEMMA Least ==
  ASSUME NEW T, T \subseteq Nat, T # {}
  PROVE  \E x \in T : \A y \in T : x <= y
  <1>1. PICK R : R = OpToRel(<, Nat)
    OBVIOUS
  <1>2. IsWellFoundedOn(R, Nat)
    BY <1>1, NatLessThanWellFounded
  <1>3. PICK x \in T : \A y \in T : ~ (<<y, x>> \in R)
    BY <1>2, WFMin
  <1>4. \A y, z \in Nat : y < z => <<y, z>> \in R
    BY <1>1 DEF OpToRel
  <1>5. \A y \in T : x \in Nat /\ y \in Nat /\ ~(y < x)
    BY <1>3, <1>4
  <1>6. \A y \in T : x <= y
    BY <1>5
  <1> QED BY <1>6

LEMMA Ring ==
  ASSUME NEW n \in Nodes
  PROVE  /\ successor(n) = (IF n = N - 1 THEN 0 ELSE n + 1) /\ successor(n) \in Nodes
         /\ predessor(n) = (IF n = 0 THEN N - 1 ELSE n - 1) /\ predessor(n) \in Nodes
         /\ successor(predessor(n)) = n
  <1>1. N \in Nat \ {0, 1, 2} /\ n \in 0 .. N - 1
    BY DynamoAssumption DEF Nodes
  <1>2. \A i \in 0 .. N - 1 : (i + 1) % N = IF i = N - 1 THEN 0 ELSE i + 1
    BY <1>1
  <1>3. \A i \in 0 .. N - 1 : (i + N - 1) % N = IF i = 0 THEN N - 1 ELSE i - 1
    BY <1>1
  <1>4. successor(n) = (IF n = N - 1 THEN 0 ELSE n + 1) /\ predessor(n) = (IF n = 0 THEN N - 1 ELSE n - 1)
    BY <1>1, <1>2, <1>3 DEF successor, predessor
  <1>5. successor(n) \in Nodes /\ predessor(n) \in Nodes
    BY <1>1, <1>4 DEF Nodes
  <1>6. successor(predessor(n)) = IF predessor(n) = N - 1 THEN 0 ELSE predessor(n) + 1
    BY <1>2, <1>5 DEF Nodes, successor
  <1>7. successor(predessor(n)) = n
    BY <1>1, <1>4, <1>6
  <1> QED BY <1>4, <1>5, <1>7

\* No hash is in the partitions of two nodes ...
LEMMA OnePartition ==
  ASSUME NEW h \in Int, NEW i \in Nodes, NEW j \in Nodes, isMyPartiton(i, h), isMyPartiton(j, h)
  PROVE  i = j
  <1> SUFFICES ASSUME NEW a \in Nodes, NEW b \in Nodes, a < b, isMyPartiton(a, h), isMyPartiton(b, h) PROVE FALSE
    <2>1. i \in Int /\ j \in Int
      BY DynamoAssumption DEF Nodes
    <2> QED BY <2>1
  <1>1. N \in Nat \ {0, 1, 2} /\ a \in 0 .. N - 1 /\ b \in 0 .. N - 1
    BY DynamoAssumption DEF Nodes
  <1>2. predessor(b) = b - 1 /\ predessor(a) = (IF a = 0 THEN N - 1 ELSE a - 1) /\ predessor(a) \in Nodes /\ predessor(b) \in Nodes
    BY <1>1, Ring
  <1>3. \A x, y \in Nodes : NodeHash[x] \in Int /\ (x < y => NodeHash[x] < NodeHash[y])
    BY DynamoAssumption
  <1>4. NodeHash[b - 1] < NodeHash[b] /\ NodeHash[a] =< NodeHash[b - 1]
    <2>1. a = b - 1 \/ a < b - 1
      BY <1>1
    <2>2. b - 1 < b /\ b - 1 \in Nodes
      BY <1>1, <1>2
    <2> QED BY <1>3, <2>1, <2>2
  <1>5. h =< NodeHash[b] /\ h > NodeHash[b - 1]
    BY <1>2, <1>3, <1>4 DEF isMyPartiton
  <1>6. CASE a = 0
    <2>1. NodeHash[b] =< NodeHash[N - 1] /\ N - 1 \in Nodes
      <3>1. b = N - 1 \/ b < N - 1
        BY <1>1
      <3>2. N - 1 \in Nodes
        BY <1>2, <1>6
      <3> QED BY <1>3, <3>1, <3>2
    <2>2. predessor(a) = N - 1 /\ NodeHash[a] \in Int /\ NodeHash[N - 1] \in Int /\ NodeHash[b] \in Int /\ NodeHash[b - 1] \in Int
      BY <1>2, <1>3, <1>6, <2>1
    <2> QED BY <1>4, <1>5, <2>1, <2>2 DEF isMyPartiton
  <1>7. CASE a # 0
    <2>1. NodeHash[a - 1] < NodeHash[a]
      BY <1>1, <1>2, <1>3, <1>7
    <2> QED BY <1>2, <1>3, <1>4, <1>5, <1>7, <2>1 DEF isMyPartiton
  <1> QED BY <1>6, <1>7

\* ... and every hash but that of the first node is in one.
LEMMA SomePartition ==
  ASSUME NEW h \in Int, h # NodeHash[0]
  PROVE  \E n \in Nodes : isMyPartiton(n, h)
  <1>1. N \in Nat \ {0, 1, 2} /\ 0 \in Nodes /\ N - 1 \in Nodes /\ predessor(0) = N - 1
    <2>1. N \in Nat \ {0, 1, 2}
      BY DynamoAssumption
    <2>2. 0 \in Nodes /\ N - 1 \in Nodes
      BY <2>1 DEF Nodes
    <2> QED BY <2>1, <2>2, Ring
  <1>2. \A x, y \in Nodes : NodeHash[x] \in Int /\ (x < y => NodeHash[x] < NodeHash[y])
    BY DynamoAssumption
  <1>3. NodeHash[0] < NodeHash[N - 1]
    BY <1>1, <1>2
  <1>4. CASE h < NodeHash[0] \/ h > NodeHash[N - 1]
    <2>1. isMyPartiton(0, h)
      BY <1>1, <1>2, <1>3, <1>4 DEF isMyPartiton
    <2> QED BY <1>1, <2>1
  <1>5. CASE h > NodeHash[0] /\ h =< NodeHash[N - 1]
    <2> DEFINE T == {n \in Nodes : h =< NodeHash[n]}
    <2>1. T \subseteq Nat /\ N - 1 \in T
      BY <1>1, <1>5 DEF Nodes
    <2>2. PICK x \in T : \A y \in T : x <= y
      BY <2>1, Least
    <2>3. x \in Nodes /\ x # 0 /\ h =< NodeHash[x]
      BY <1>1, <1>2, <1>5, <2>2
    <2>4. x \in Nat /\ predessor(x) = x - 1 /\ x - 1 \in Nodes
      <3>1. x \in Nat
        BY <2>1, <2>2
      <3> QED BY <2>3, <3>1, Ring
    <2>5. x - 1 \notin T
      BY <2>2, <2>4
    <2>6. h > NodeHash[x - 1]
      BY <1>2, <2>4, <2>5
    <2>7. isMyPartiton(x, h)
      BY <2>3, <2>4, <2>6 DEF isMyPartiton
    <2> QED BY <2>3, <2>7
  <1> QED BY <1>1, <1>2, <1>4, <1>5

LEMMA Coordinator ==
  ASSUME NEW k \in Keys
  PROVE  /\ getNode(k) \in Nodes
         /\ \A n \in Nodes : isMyPartiton(n, KeyHash[k]) => n = getNode(k)
         /\ KeyHash[k] # NodeHash[0] => isMyPartiton(getNode(k), KeyHash[k])
  <1>1. KeyHash[k] \in Int /\ LastNode \in Nodes
    BY DynamoAssumption
  <1>2. CASE Placed(k)
    <2>1. getNode(k) \in Nodes /\ isMyPartiton(getNode(k), KeyHash[k])
      BY <1>2, Zenon DEF getNode, Placed
    <2> QED BY <1>1, <2>1, OnePartition
  <1>3. CASE ~Placed(k)
    <2>1. KeyHash[k] = NodeHash[0]
      BY <1>1, <1>3, SomePartition DEF Placed
    <2> QED BY <1>1, <1>3, <2>1 DEF getNode, Placed
  <1> QED BY <1>2, <1>3

-----------------------------------------------------------------------------
(* Messages *)

Types == {"insert", "local", "query-*", "query-k", "query-result", "del-*",
          "del-k", "@-recovery", "recovery", "recovery-result"}
Row  == Keys \cup Values
Rows == SUBSET (Row \X Row)

LEMMA Fields ==
  ASSUME NEW m \in Msg
  PROVE  /\ m.type \in Types /\ m.key \in Keys \cup {None} /\ m.value \in Values \cup {None}
         /\ m.replica \in 0 .. 3 /\ m.sender \in Nodes /\ m.sendto \in Nodes /\ m.by \in Nodes
         /\ m.op \in 0 .. MaxCalls /\ m.inc \in 0 .. MaxCrashes /\ m.result \in Rows
  BY DEF Msg, Types, Row, Rows

\* A message passed on to the next node: what of it is new, the rest as it was.
LEMMA ForwardFields ==
  ASSUME NEW m \in Msg, NEW n \in Nodes
  PROVE  LET f == Forward(n, m) IN
         /\ f \in Msg /\ f.replica = m.replica /\ f.sendto = successor(n) /\ f.by = n
         /\ f.type = m.type /\ f.result = m.result
         /\ f.key = m.key /\ f.value = m.value /\ f.sender = m.sender /\ f.op = m.op /\ f.inc = m.inc
  <1>1. successor(n) \in Nodes
    BY Ring
  <1> QED BY <1>1 DEF Msg, Forward

LEMMA CountedFields ==
  ASSUME NEW m \in Msg, NEW n \in Nodes, NEW r \in 0 .. 3
  PROVE  LET f == Forward(n, [m EXCEPT !.replica = r]) IN
         /\ f \in Msg /\ f.replica = r /\ f.sendto = successor(n) /\ f.by = n
         /\ f.type = m.type /\ f.result = m.result
         /\ f.key = m.key /\ f.value = m.value /\ f.sender = m.sender /\ f.op = m.op /\ f.inc = m.inc
  <1>1. successor(n) \in Nodes
    BY Ring
  <1> QED BY <1>1 DEF Msg, Forward

LEMMA RowsFields ==
  ASSUME NEW m \in Msg, NEW n \in Nodes, NEW rows \in Rows
  PROVE  LET f == Forward(n, [m EXCEPT !.result = rows]) IN
         /\ f \in Msg /\ f.replica = m.replica /\ f.sendto = successor(n) /\ f.by = n
         /\ f.type = m.type /\ f.result = rows
         /\ f.key = m.key /\ f.value = m.value /\ f.sender = m.sender /\ f.op = m.op /\ f.inc = m.inc
  <1>1. successor(n) \in Nodes
    BY Ring
  <1> QED BY <1>1 DEF Msg, Forward, Rows, Row

LEMMA ReplyFields ==
  ASSUME NEW m \in Msg, NEW n \in Nodes, NEW type \in Types, NEW rows \in Rows
  PROVE  LET f == Reply(n, m, type, rows) IN
         /\ f \in Msg /\ f.type = type /\ f.sendto = m.sender /\ f.by = n /\ f.result = rows
         /\ f.replica = m.replica
         /\ f.key = m.key /\ f.value = m.value /\ f.sender = m.sender /\ f.op = m.op /\ f.inc = m.inc
  BY DEF Msg, Reply, Types, Rows, Row

LEMMA RetryFields ==
  ASSUME NEW m \in Msg, NEW f \in Retries(m)
  PROVE  /\ m.type \in {"insert", "query-k", "query-*"}
         /\ f \in Msg /\ f.type = m.type /\ f.sendto = successor(m.sendto) /\ f.by = m.by
         /\ f.replica = (IF m.type = "insert" THEN m.replica + 1 ELSE m.replica)
         /\ m.type = "insert" => m.replica < 3
         /\ f.key = m.key /\ f.value = m.value /\ f.sender = m.sender /\ f.op = m.op /\ f.inc = m.inc
         /\ f.result = m.result
  <1>1. m.sendto \in Nodes /\ successor(m.sendto) \in Nodes /\ m.replica \in 0 .. 3
    BY Ring, Fields
  <1> DEFINE g == [m EXCEPT !.sendto = successor(m.sendto),
                    !.replica = IF m.type = "insert" THEN @ + 1 ELSE @]
  <1>2. f = g /\ m.type \in {"insert", "query-k", "query-*"} /\ (m.type = "insert" => m.replica < 3)
    BY DEF Retries
  <1>3. PICK r \in 0 .. 3 : r = IF m.type = "insert" THEN m.replica + 1 ELSE m.replica
    BY <1>1, <1>2
  <1>4. PICK to \in Nodes : to = successor(m.sendto)
    BY <1>1
  <1>5. g = [m EXCEPT !.sendto = to, !.replica = r]
    BY <1>3, <1>4
  <1> HIDE DEF g
  <1>6. /\ g \in Msg /\ g.type = m.type /\ g.sendto = successor(m.sendto) /\ g.by = m.by
        /\ g.replica = (IF m.type = "insert" THEN m.replica + 1 ELSE m.replica)
        /\ g.key = m.key /\ g.value = m.value /\ g.sender = m.sender /\ g.op = m.op /\ g.inc = m.inc
        /\ g.result = m.result
    BY <1>3, <1>4, <1>5 DEF Msg
  <1> QED BY <1>2, <1>6

LEMMA MessageFields ==
  ASSUME TypeOK, NEW n \in Nodes, NEW to \in Nodes, NEW type \in Types
  PROVE  LET f == Message(n, type, to) IN
         /\ calls < MaxCalls => f \in Msg
         /\ f.type = type /\ f.key = None /\ f.value = None /\ f.replica = 0 /\ f.sender = n
         /\ f.sendto = to /\ f.by = n /\ f.op = calls + 1 /\ f.inc = inc[n] /\ f.result = {}
  <1>1. /\ calls \in 0 .. MaxCalls /\ inc[n] \in 0 .. MaxCrashes /\ MaxCalls \in Nat
        /\ calls < MaxCalls => calls + 1 \in 0 .. MaxCalls
    BY DynamoAssumption DEF TypeOK
  <1> QED BY <1>1 DEF Message, Msg, Types, Rows, Row

LEMMA RequestFields ==
  ASSUME TypeOK, NEW n \in Nodes, NEW to \in Nodes, NEW type \in Types
  PROVE  LET f == Request(n, type, to) IN
         /\ f \in Msg
         /\ f.type = type /\ f.key = None /\ f.value = None /\ f.replica = 0 /\ f.sender = n
         /\ f.sendto = to /\ f.by = n /\ f.op = 0 /\ f.inc = inc[n] /\ f.result = {}
  <1>1. inc[n] \in 0 .. MaxCrashes /\ 0 \in 0 .. MaxCalls
    BY DynamoAssumption DEF TypeOK
  <1>2. Request(n, type, to) = [type |-> type, key |-> None, value |-> None, replica |-> 0,
     sender |-> n, sendto |-> to, by |-> n, op |-> 0, inc |-> inc[n], result |-> {}]
    BY DEF Request, Message
  <1> QED BY <1>1, <1>2 DEF Msg, Types, Rows, Row

-----------------------------------------------------------------------------
(* Tables *)

Table == [Keys -> Seq(Values)]

LEMMA TableRows ==
  ASSUME NEW t \in Table
  PROVE  /\ \A k \in Held(t) : k \in Keys /\ Newest(t, k) \in Values
         /\ \A map \in Rows : AllRows(map, t) \in Rows
         /\ AllRows({}, t) \subseteq Held(t) \X Values
  <1>1. ASSUME NEW k \in Held(t) PROVE k \in Keys /\ Newest(t, k) \in Values
    <2>1. k \in Keys /\ t[k] \in Seq(Values) /\ t[k] # <<>>
      BY DEF Held, Table
    <2>2. Len(t[k]) \in 1 .. Len(t[k])
      BY <2>1
    <2> QED BY <2>1, <2>2 DEF Newest
  <1>2. ASSUME NEW map \in Rows PROVE AllRows(map, t) \in Rows
    BY <1>1 DEF AllRows, Rows, Row
  <1>3. AllRows({}, t) \subseteq Held(t) \X Values
    BY <1>1 DEF AllRows
  <1> QED BY <1>1, <1>2, <1>3

LEMMA EmptyTable == Empty \in Table /\ \A k \in Keys : Empty[k] = <<>>
  BY DEF Empty, Table

LEMMA CursorTable ==
  ASSUME NEW t \in Table, NEW result, result \subseteq Keys \X Values
  PROVE  /\ CursorRows(t, result) \in Table
         /\ \A k \in Keys : CursorRows(t, result)[k] # <<>> =>
              t[k] # <<>> \/ \E r \in result : r[1] = k
  <1> DEFINE C(k) == IF \E r \in result : r[1] = k
                    THEN Append(t[k], (CHOOSE r \in result : r[1] = k)[2]) ELSE t[k]
  <1>1. ASSUME NEW k \in Keys
        PROVE  C(k) \in Seq(Values) /\ (C(k) # <<>> => t[k] # <<>> \/ \E r \in result : r[1] = k)
    <2>1. CASE \E r \in result : r[1] = k
      <3>1. PICK q : q = CHOOSE r \in result : r[1] = k
        OBVIOUS
      <3>2. q \in result
        BY <2>1, <3>1
      <3>3. q[2] \in Values /\ t[k] \in Seq(Values)
        BY <3>2 DEF Table
      <3>4. C(k) = Append(t[k], q[2])
        BY <2>1, <3>1
      <3> QED BY <2>1, <3>3, <3>4
    <2>2. CASE ~\E r \in result : r[1] = k
      BY <2>2 DEF Table
    <2> QED BY <2>1, <2>2
  <1>2. CursorRows(t, result) = [k \in Keys |-> C(k)]
    BY DEF CursorRows
  <1> HIDE DEF C
  <1> QED BY <1>1, <1>2 DEF Table

LEMMA AddTable ==
  ASSUME NEW t \in Table, NEW u \in Table
  PROVE  /\ AddRows(t, u) \in Table
         /\ \A k \in Keys : AddRows(t, u)[k] # <<>> => t[k] # <<>> \/ u[k] # <<>>
  <1>1. ASSUME NEW k \in Keys PROVE t[k] \o u[k] \in Seq(Values) /\ (t[k] = <<>> /\ u[k] = <<>> => t[k] \o u[k] = <<>>)
    BY DEF Table
  <1> QED BY <1>1 DEF AddRows, Table

LEMMA KeptTable ==
  ASSUME TypeOK, NEW n \in Nodes
  PROVE  /\ Kept(n) \in Table
         /\ \A k \in Keys : Kept(n)[k] # <<>> =>
               /\ recoveryCursor[n][k] # <<>>
               /\ status[n] = "rec3" => isMyPartiton(n, KeyHash[k])
  BY DEF TypeOK, Kept, Table

-----------------------------------------------------------------------------
(* Messages and flags: what each message says of where it came from. *)

\* The node that is to store copy r of a key: r nodes after the coordinator.
Copy(k, r) == IF r = 0 THEN getNode(k)
              ELSE IF r = 1 THEN successor(getNode(k))
              ELSE IF r = 2 THEN successor(successor(getNode(k)))
              ELSE successor(successor(successor(getNode(k))))

QueryTypes == {"query-*", "query-k", "query-result"}
RecoveryTypes == {"@-recovery", "recovery", "recovery-result"}

MsgOK(m) ==
  /\ m.type \in {"local", "insert"} => m.key \in Keys /\ m.value \in Values
  /\ m.type = "local" => m.by = getNode(m.key) /\ m.replica = 0
  /\ m.type = "insert" => m.sendto = Copy(m.key, m.replica)
  /\ m.type = "del-k" => m.key \in Keys /\ m.sendto = Copy(m.key, 3 - m.replica)
  /\ m.type = "query-k" => m.key \in Keys /\ m.result = {}
  /\ m.type = "query-result" =>
        m.sendto = m.sender /\ m.result # {} /\ \A r \in m.result : r[1] = m.key
  /\ m.type \in {"@-recovery", "recovery"} => m.result = {}
  /\ m.type = "recovery" => m.sendto \in {predessor(m.sender), predessor(predessor(m.sender))}
  /\ m.type = "recovery-result" => m.sendto = m.sender /\ m.result \subseteq Keys \X Values
  /\ m.op = 0 <=> m.type \in RecoveryTypes

Past(m) == m.op <= calls /\ m.inc <= inc[m.sender]

NetInv == \A m \in net : MsgOK(m) /\ Past(m)

StartInv == \A n \in Nodes :
  /\ status[n] = "down" => inc[n] < MaxCrashes
  /\ asked[n] # None => status[n] = "up" /\ asked[n][2] <= calls

Basic == TypeOK /\ NetInv /\ StartInv

LEMMA Copies ==
  ASSUME NEW k \in Keys
  PROVE  /\ \A r \in 0 .. 3 : Copy(k, r) \in Nodes
         /\ \A r \in 0 .. 2 : successor(Copy(k, r)) = Copy(k, r + 1) /\ Copy(k, r) \in Replicas(k)
  <1>1. getNode(k) \in Nodes
    BY Coordinator
  <1>2. \A n \in Nodes : successor(n) \in Nodes
    BY Ring
  <1> QED BY <1>1, <1>2 DEF Copy, Replicas

\* Of the messages of the next state, the new ones have to be looked at.
LEMMA NewMessages ==
  ASSUME TypeOK, NetInv, NEW new, net' \subseteq net \cup new,
         calls \in Nat, calls' \in {calls, calls + 1},
         \A n \in Nodes : inc'[n] \in Nat /\ inc[n] <= inc'[n],
         \A m \in new : m \in Msg /\ MsgOK(m) /\ m.op <= calls' /\ m.inc <= inc'[m.sender]
  PROVE  net' \subseteq Msg /\ NetInv'
  <1>1. ASSUME NEW m \in net' PROVE m \in Msg /\ MsgOK(m) /\ Past(m)'
    <2>1. CASE m \in net
      <3>1. m \in Msg /\ MsgOK(m) /\ m.op <= calls /\ m.inc <= inc[m.sender]
        BY <2>1 DEF TypeOK, NetInv, Past
      <3>2. m.op \in Nat /\ m.inc \in Nat /\ m.sender \in Nodes /\ inc[m.sender] \in Nat
        BY <3>1, Fields, DynamoAssumption DEF TypeOK
      <3>3. m.op <= calls' /\ m.inc <= inc'[m.sender]
        BY <3>1, <3>2
      <3> QED BY <3>1, <3>3 DEF Past
    <2>2. CASE m \in new
      BY <2>2 DEF Past
    <2> QED BY <2>1, <2>2
  <1> QED BY <1>1 DEF NetInv

LEMMA Numbers ==
  ASSUME TypeOK
  PROVE  /\ N \in Nat /\ MaxCalls \in Nat /\ MaxCrashes \in Nat /\ MaxTimeouts \in Nat
         /\ calls \in Nat /\ calls <= MaxCalls /\ timeouts \in Nat
         /\ \A n \in Nodes : inc[n] \in Nat /\ inc[n] <= MaxCrashes
         /\ calls < MaxCalls => calls + 1 \in Values
  BY DynamoAssumption DEF TypeOK, Values

-----------------------------------------------------------------------------
(* The messages an action sends *)

\* f is what a handler or a Sender makes of m: the next hop or the answer.
Follows(f, m) ==
  /\ f \in Msg /\ MsgOK(f)
  /\ f.sender = m.sender /\ f.op = m.op /\ f.inc = m.inc /\ f.key = m.key
  /\ \/ f.type = m.type /\ m.type \in {"insert", "del-*", "del-k", "query-k", "query-*"}
     \/ f.type = "query-result" /\ m.type = "query-k"
     \/ f.type = "recovery-result" /\ m.type \in {"recovery", "@-recovery"}
  /\ f.type = "recovery-result" /\ m.type = "recovery" => \A r \in f.result : f.sender \in Replicas(r[1])

\* A writing call sends messages of its own.
Written(n, f) ==
  /\ f \in Msg /\ MsgOK(f)
  /\ f.type \in {"insert", "local", "del-*", "del-k"}
  /\ f.sender = n /\ f.op = calls + 1 /\ f.inc = inc[n]

\* What insert sends: one message to the coordinator, or, by the coordinator
\* itself, the copy to the next node and its own store to come.
LEMMA InsertWrites ==
  ASSUME Basic, NEW n \in Nodes, insert(n)
  PROVE  \E k, new :
           /\ k \in Keys /\ NewWrite({k}, calls + 1) /\ net' = net \cup new
           /\ \A f \in new : Written(n, f) /\ f.type \in {"insert", "local"} /\ f.key = k /\ f.value = calls + 1
           /\ \/ \E f \in new : f.type = "insert" /\ f.replica = 0
              \/ (\E f \in new : f.type = "insert" /\ f.replica = 1) /\ (\E f \in new : f.type = "local")
  <1> USE DEF Basic
  <1>1. PICK k \in Keys :
          LET c == getNode(k)
              m == [Message(n, "insert", c) EXCEPT !.key = k, !.value = calls + 1]
          IN  /\ net' = net \cup
                   (IF c = n THEN {[m EXCEPT !.sendto = successor(n), !.replica = 1],
                                   [m EXCEPT !.type = "local"]}
                             ELSE {m})
              /\ NewWrite({k}, calls + 1)
    BY DEF insert
  <1> DEFINE c == getNode(k)
             m0 == Message(n, "insert", c)
             m == [m0 EXCEPT !.key = k, !.value = calls + 1]
             m1 == [m EXCEPT !.sendto = successor(n), !.replica = 1]
             m2 == [m EXCEPT !.type = "local"]
  <1>2. c \in Nodes /\ successor(n) \in Nodes /\ calls + 1 \in Values
    BY Coordinator, Ring, Numbers DEF insert, CanCall
  <1>3. calls < MaxCalls /\ "insert" \in Types
    BY DEF insert, CanCall, Types
  <1>4. m0 \in Msg /\ m0.type = "insert" /\ m0.replica = 0 /\ m0.sender = n /\ m0.sendto = c /\ m0.by = n /\ m0.op = calls + 1 /\ m0.inc = inc[n]
    BY <1>2, <1>3, MessageFields
  <1> HIDE DEF c, m0
  <1>5. /\ m \in Msg /\ m.type = "insert" /\ m.replica = 0 /\ m.sender = n /\ m.sendto = c /\ m.by = n /\ m.op = calls + 1 /\ m.inc = inc[n]
        /\ m.key = k /\ m.value = calls + 1
    BY <1>2, <1>4 DEF Msg
  <1> HIDE DEF m
  <1>6. /\ m1 \in Msg /\ m1.type = "insert" /\ m1.replica = 1 /\ m1.sender = n /\ m1.sendto = successor(n) /\ m1.op = calls + 1 /\ m1.inc = inc[n]
        /\ m1.key = k /\ m1.value = calls + 1
    <2>1. 1 \in 0 .. 3
      OBVIOUS
    <2> QED BY <1>2, <1>5, <2>1 DEF Msg
  <1>7. /\ m2 \in Msg /\ m2.type = "local" /\ m2.replica = 0 /\ m2.sender = n /\ m2.by = n /\ m2.op = calls + 1 /\ m2.inc = inc[n]
        /\ m2.key = k /\ m2.value = calls + 1
    BY <1>5 DEF Msg
  <1> HIDE DEF m1, m2
  <1>8. calls + 1 # 0
    BY Numbers
  <1>9. Written(n, m)
    BY <1>2, <1>5, <1>8 DEF Written, MsgOK, Copy, c, RecoveryTypes
  <1>10. c = n => Written(n, m1) /\ Written(n, m2)
    BY <1>2, <1>6, <1>7, <1>8 DEF Written, MsgOK, Copy, c, RecoveryTypes
  <1>11. net' = net \cup (IF c = n THEN {m1, m2} ELSE {m}) /\ NewWrite({k}, calls + 1)
    BY <1>1 DEF c, m0, m, m1, m2
  <1>12. PICK new : new = IF c = n THEN {m1, m2} ELSE {m}
    OBVIOUS
  <1>13. \A f \in new : Written(n, f) /\ f.type \in {"insert", "local"} /\ f.key = k /\ f.value = calls + 1
    BY <1>5, <1>6, <1>7, <1>9, <1>10, <1>12
  <1>14. \/ \E f \in new : f.type = "insert" /\ f.replica = 0
         \/ (\E f \in new : f.type = "insert" /\ f.replica = 1) /\ (\E f \in new : f.type = "local")
    BY <1>5, <1>6, <1>7, <1>12
  <1>15. k \in Keys /\ NewWrite({k}, calls + 1) /\ net' = net \cup new
    BY <1>11, <1>12
  <1> QED BY <1>13, <1>14, <1>15, Zenon

LEMMA InsertSends ==
  ASSUME Basic, NEW n \in Nodes, insert(n)
  PROVE  \E new : net' = net \cup new /\ \A f \in new : Written(n, f)
  BY InsertWrites

\* delete sends one message, of every key to the next node or of one key to
\* its coordinator.
LEMMA DeleteWrites ==
  ASSUME Basic, NEW n \in Nodes, delete_Star(n) \/ delete_Key(n)
  PROVE  \E f :
           /\ net' = net \cup {f} /\ Written(n, f)
           /\ \/ delete_Star(n) /\ f.type = "del-*" /\ f.sendto = successor(n)
              \/ f.type = "del-k" /\ f.replica = 3 /\ NewWrite({f.key}, None) /\ UNCHANGED <<db, status>>
  <1> USE DEF Basic
  <1>1. calls < MaxCalls /\ "del-*" \in Types /\ "del-k" \in Types /\ calls + 1 # 0
    <2>1. calls < MaxCalls
      BY DEF delete_Star, delete_Key, CanCall
    <2> QED BY <2>1, Numbers DEF Types
  <1>2. CASE delete_Star(n)
    <2> DEFINE m == Message(n, "del-*", successor(n))
    <2>1. m \in Msg /\ m.type = "del-*" /\ m.sendto = successor(n) /\ m.sender = n /\ m.op = calls + 1 /\ m.inc = inc[n]
      BY <1>1, MessageFields, Ring
    <2>2. net' = net \cup {m}
      BY <1>2 DEF delete_Star
    <2> HIDE DEF m
    <2>3. Written(n, m)
      BY <1>1, <2>1 DEF Written, MsgOK, RecoveryTypes
    <2> QED BY <1>2, <2>1, <2>2, <2>3
  <1>3. CASE delete_Key(n)
    <2>1. PICK k \in Keys : /\ net' = net \cup {[Message(n, "del-k", getNode(k)) EXCEPT !.key = k, !.replica = 3]}
                            /\ NewWrite({k}, None)
      BY <1>3 DEF delete_Key
    <2> DEFINE m == Message(n, "del-k", getNode(k))
               f == [m EXCEPT !.key = k, !.replica = 3]
    <2>2. m \in Msg /\ m.type = "del-k" /\ m.sender = n /\ m.op = calls + 1 /\ m.inc = inc[n] /\ m.sendto = getNode(k)
      BY <1>1, MessageFields, Coordinator
    <2> HIDE DEF m
    <2>3. /\ f \in Msg /\ f.type = "del-k" /\ f.sender = n /\ f.op = calls + 1 /\ f.inc = inc[n]
          /\ f.key = k /\ f.replica = 3 /\ f.sendto = getNode(k)
      <3>1. 3 \in 0 .. 3
        OBVIOUS
      <3> QED BY <2>2, <3>1 DEF Msg
    <2>4. net' = net \cup {f}
      BY <2>1 DEF m
    <2> HIDE DEF f
    <2>5. Written(n, f)
      BY <1>1, <2>3 DEF Written, MsgOK, RecoveryTypes, Copy
    <2>6. UNCHANGED <<db, status>>
      BY <1>3 DEF delete_Key
    <2>7. NewWrite({f.key}, None)
      BY <2>1, <2>3
    <2> QED BY <2>3, <2>4, <2>5, <2>6, <2>7
  <1> QED BY <1>2, <1>3

LEMMA DeleteSends ==
  ASSUME Basic, NEW n \in Nodes, delete_Star(n) \/ delete_Key(n)
  PROVE  \E new : net' = net \cup new /\ \A f \in new : Written(n, f)
  <1>1. PICK f : net' = net \cup {f} /\ Written(n, f)
    BY DeleteWrites
  <1>2. PICK new : new = {f}
    OBVIOUS
  <1> QED BY <1>1, <1>2

\* A query asks one question.
Asked(n, what, f) ==
  /\ f \in Msg /\ MsgOK(f)
  /\ \/ f.type = "query-*" /\ what = "*"
     \/ f.type = "query-k" /\ what = f.key
  /\ f.sender = n /\ f.op = calls + 1 /\ f.inc = inc[n]

LEMMA QuerySends ==
  ASSUME Basic, NEW n \in Nodes, query_Key(n) \/ query_Star(n)
  PROVE  \E f, what : what \in Keys \cup {"*"} /\ Asked(n, what, f) /\ Ask(n, what, f)
  <1> USE DEF Basic
  <1>1. calls < MaxCalls /\ "query-*" \in Types /\ "query-k" \in Types /\ calls + 1 # 0
    <2>1. calls < MaxCalls
      BY DEF query_Key, query_Star, Ask, CanCall
    <2> QED BY <2>1, Numbers DEF Types
  <1>2. CASE query_Key(n)
    <2>1. PICK k \in Keys : Ask(n, k, [Message(n, "query-k", getNode(k)) EXCEPT !.key = k])
      BY <1>2 DEF query_Key
    <2> DEFINE m == Message(n, "query-k", getNode(k))
               f == [m EXCEPT !.key = k]
    <2>2. m \in Msg /\ m.type = "query-k" /\ m.sender = n /\ m.op = calls + 1 /\ m.inc = inc[n] /\ m.result = {}
      BY <1>1, MessageFields, Coordinator
    <2> HIDE DEF m
    <2>3. f \in Msg /\ f.type = "query-k" /\ f.sender = n /\ f.op = calls + 1 /\ f.inc = inc[n] /\ f.key = k /\ f.result = {}
      BY <2>2 DEF Msg
    <2>4. Asked(n, k, f)
      BY <1>1, <2>3 DEF Asked, MsgOK, RecoveryTypes
    <2> QED BY <2>1, <2>4 DEF m
  <1>3. CASE query_Star(n)
    <2> DEFINE m == Message(n, "query-*", successor(n))
               rows == UNION {{<<db[n][k][i], k>> : i \in 1 .. Len(db[n][k])} : k \in Keys}
               f == [m EXCEPT !.result = rows]
    <2>1. Ask(n, "*", f)
      BY <1>3 DEF query_Star
    <2>2. m \in Msg /\ m.type = "query-*" /\ m.sender = n /\ m.op = calls + 1 /\ m.inc = inc[n]
      BY <1>1, MessageFields, Ring
    <2>3. \A k \in Keys : \A i \in 1 .. Len(db[n][k]) : db[n][k][i] \in Values
      BY DEF TypeOK
    <2>4. rows \in Rows
      BY <2>3 DEF Rows, Row
    <2> HIDE DEF m, rows
    <2>5. f \in Msg /\ f.type = "query-*" /\ f.sender = n /\ f.op = calls + 1 /\ f.inc = inc[n]
      BY <2>2, <2>4 DEF Msg, Rows, Row
    <2> HIDE DEF f
    <2>6. Asked(n, "*", f)
      BY <1>1, <2>5 DEF Asked, MsgOK, RecoveryTypes
    <2> QED BY <2>1, <2>6
  <1> QED BY <1>2, <1>3

\* What is left of a message when it is handled or its Sender fails.
Becomes(m, new) ==
  /\ net' = (net \ {m}) \cup new
  /\ new = {} \/ \E f : new = {f} /\ Follows(f, m)

\* Where a message may end: a write is done, a message came to nothing, or
\* its waiter has its answer.
Ended(n, m) == \/ m.type \notin QueryTypes \cup RecoveryTypes
               \/ Gone({m})
               \/ TakeAnswer(n, m) /\ m.type \in QueryTypes /\ m.sender = n
               \/ processRecovery_Result(n, m)

HandledBy(n, m) == \E new : Becomes(m, new) /\ (new = {} => Ended(n, m))

LEMMA HandledOne ==
  ASSUME NEW n, NEW m, NEW f, Handles(n, m, {f}), Follows(f, m)
  PROVE  HandledBy(n, m)
  <1>1. PICK new : new = {f}
    OBVIOUS
  <1> QED BY <1>1 DEF Becomes, Handles, HandledBy

LEMMA HandledNone ==
  ASSUME NEW n, NEW m, Handles(n, m, {}), Ended(n, m)
  PROVE  HandledBy(n, m)
  <1>1. PICK new : new = {}
    OBVIOUS
  <1> QED BY <1>1 DEF Becomes, Handles, HandledBy

LEMMA Handled ==
  ASSUME Basic, NEW m \in net, processMessage(m.sendto, m)
  PROVE  HandledBy(m.sendto, m)
  <1>1. PICK n \in Nodes : n = m.sendto
    BY Fields DEF Basic, TypeOK
  <1>2. m \in Msg /\ MsgOK(m) /\ m.op \in Nat /\ m.replica \in 0 .. 3 /\ m.sender \in Nodes /\ m.result \in Rows
    BY Fields, Numbers DEF Basic, TypeOK, NetInv
  <1>3. db[n] \in Table
    BY <1>1 DEF Basic, TypeOK, Table
  <1>4. ASSUME processInsert(n, m) PROVE HandledBy(n, m)
    <2>1. CASE m.replica < 3
      <3> DEFINE f == Forward(n, [m EXCEPT !.replica = m.replica + 1])
      <3>1. Handles(n, m, {f}) /\ m.type = "insert"
        BY <1>4, <2>1 DEF processInsert
      <3>2. m \in Msg /\ m.replica \in 0 .. 2 /\ m.replica + 1 \in 0 .. 3
        BY <1>2, <2>1
      <3>3. /\ f \in Msg /\ f.replica = m.replica + 1 /\ f.sendto = successor(n) /\ f.type = m.type
            /\ f.key = m.key /\ f.value = m.value /\ f.sender = m.sender /\ f.op = m.op /\ f.inc = m.inc
        <4>1. m \in Msg /\ m.replica + 1 \in 0 .. 3
          BY <3>2
        <4> QED BY <4>1, CountedFields
      <3> HIDE DEF f
      <3>4. successor(n) = Copy(m.key, m.replica + 1) /\ m.key \in Keys
        BY <1>1, <1>2, <3>1, <3>2, Copies DEF MsgOK
      <3>5. Follows(f, m)
        BY <1>2, <3>1, <3>3, <3>4 DEF Follows, MsgOK, RecoveryTypes
      <3> QED BY <3>1, <3>5, HandledOne
    <2>2. CASE ~(m.replica < 3)
      <3>1. Handles(n, m, {}) /\ Ended(n, m)
        BY <1>4, <2>2 DEF processInsert, Ended, QueryTypes, RecoveryTypes
      <3> QED BY <3>1, HandledNone
    <2> QED BY <2>1, <2>2
  <1>5. ASSUME StopsAtBoot(n, m) PROVE HandledBy(n, m)
    BY <1>5, HandledNone DEF StopsAtBoot, Ended
  <1>6. ASSUME processQuery_Star(n, m) PROVE HandledBy(n, m)
    <2>1. CASE m.sender = n
      <3>1. TakeAnswer(n, m) /\ m.type \in QueryTypes
        BY <1>6, <2>1 DEF processQuery_Star, QueryTypes
      <3>2. Handles(n, m, {})
        BY <3>1 DEF TakeAnswer
      <3> QED BY <2>1, <3>1, <3>2, HandledNone DEF Ended
    <2>2. CASE m.sender # n
      <3> DEFINE rows == AllRows(m.result, db[n])
                 f == Forward(n, [m EXCEPT !.result = rows])
      <3>1. Handles(n, m, {f}) /\ m.type = "query-*"
        BY <1>6, <2>2 DEF processQuery_Star
      <3>2. m \in Msg /\ rows \in Rows
        BY <1>2, <1>3, TableRows
      <3> HIDE DEF rows
      <3>3. /\ f \in Msg /\ f.type = m.type
            /\ f.key = m.key /\ f.sender = m.sender /\ f.op = m.op /\ f.inc = m.inc
        BY <3>2, RowsFields
      <3> HIDE DEF f
      <3>5. Follows(f, m)
        BY <1>2, <3>1, <3>3 DEF Follows, MsgOK, RecoveryTypes
      <3> QED BY <3>1, <3>5, HandledOne
    <2> QED BY <2>1, <2>2
  <1>7. ASSUME processQuery_Key(n, m) PROVE HandledBy(n, m)
    <2>1. CASE db[n][m.key] = <<>>
      <3>1. Handles(n, m, {}) /\ Gone({m})
        BY <1>7, <2>1 DEF processQuery_Key
      <3> QED BY <3>1, HandledNone DEF Ended
    <2>2. CASE db[n][m.key] # <<>>
      <3> DEFINE rows == put(m.result, m.key, Newest(db[n], m.key))
                 f == Reply(n, m, "query-result", rows)
      <3>1. Handles(n, m, {f}) /\ m.type = "query-k"
        BY <1>7, <2>2 DEF processQuery_Key
      <3>2. m.key \in Keys /\ m.result = {}
        BY <1>2, <3>1 DEF MsgOK
      <3>3. m.key \in Held(db[n])
        BY <2>2, <3>2 DEF Held
      <3>4. Newest(db[n], m.key) \in Values
        BY <1>3, <3>3, TableRows
      <3>5. rows = {<<m.key, Newest(db[n], m.key)>>}
        BY <3>2 DEF put
      <3>6. rows \in Rows /\ rows # {} /\ \A r \in rows : r[1] = m.key
        <4>1. PICK q : q = <<m.key, Newest(db[n], m.key)>>
          OBVIOUS
        <4>2. q \in Row \X Row /\ q[1] = m.key
          BY <3>2, <3>4, <4>1 DEF Row
        <4>3. rows = {q}
          BY <3>5, <4>1
        <4> HIDE DEF rows
        <4> QED BY <4>2, <4>3 DEF Rows
      <3> HIDE DEF rows
      <3>7. /\ f \in Msg /\ f.type = "query-result" /\ f.sendto = m.sender /\ f.result = rows
            /\ f.key = m.key /\ f.sender = m.sender /\ f.op = m.op /\ f.inc = m.inc
        BY <1>2, <3>6, ReplyFields DEF Types
      <3> HIDE DEF f
      <3>8. Follows(f, m)
        BY <1>2, <3>1, <3>6, <3>7 DEF Follows, MsgOK, RecoveryTypes
      <3> QED BY <3>1, <3>8, HandledOne
    <2> QED BY <2>1, <2>2
  <1>8. ASSUME processQuery_Result(n, m) PROVE HandledBy(n, m)
    <2>1. TakeAnswer(n, m) /\ m.type \in QueryTypes /\ m.sender = n
      BY <1>1, <1>2, <1>8 DEF processQuery_Result, QueryTypes, MsgOK
    <2>2. Handles(n, m, {})
      BY <2>1 DEF TakeAnswer
    <2> QED BY <2>1, <2>2, HandledNone DEF Ended
  <1>9. ASSUME processDelete(n, m) PROVE HandledBy(n, m)
    <2>1. CASE m.type = "del-*" /\ m.sender # n
      <3> DEFINE f == Forward(n, m)
      <3>1. Handles(n, m, {f})
        BY <1>9, <2>1 DEF processDelete
      <3>2. /\ f \in Msg /\ f.type = m.type
            /\ f.key = m.key /\ f.sender = m.sender /\ f.op = m.op /\ f.inc = m.inc
        BY <1>2, ForwardFields
      <3> HIDE DEF f
      <3>3. Follows(f, m)
        BY <1>2, <2>1, <3>2 DEF Follows, MsgOK, RecoveryTypes
      <3> QED BY <3>1, <3>3, HandledOne
    <2>2. CASE m.type = "del-k" /\ m.replica > 0
      <3> DEFINE f == Forward(n, [m EXCEPT !.replica = m.replica - 1])
      <3>1. Handles(n, m, {f})
        BY <1>9, <2>2 DEF processDelete
      <3>2. m \in Msg /\ m.replica - 1 \in 0 .. 3
        BY <1>2, <2>2
      <3>3. /\ f \in Msg /\ f.type = m.type /\ f.replica = m.replica - 1 /\ f.sendto = successor(n)
            /\ f.key = m.key /\ f.sender = m.sender /\ f.op = m.op /\ f.inc = m.inc
        BY <3>2, CountedFields
      <3> HIDE DEF f
      <3>4. m.key \in Keys /\ n = Copy(m.key, 3 - m.replica) /\ 3 - m.replica \in 0 .. 2
        BY <1>1, <1>2, <2>2 DEF MsgOK
      <3>5. successor(n) = Copy(m.key, 3 - (m.replica - 1))
        BY <1>2, <3>4, Copies
      <3>6. Follows(f, m)
        BY <1>2, <2>2, <3>3, <3>4, <3>5 DEF Follows, MsgOK, RecoveryTypes
      <3> QED BY <3>1, <3>6, HandledOne
    <2>3. CASE (m.type = "del-*" /\ m.sender = n) \/ (m.type = "del-k" /\ m.replica = 0)
      <3>1. Handles(n, m, {}) /\ Ended(n, m)
        BY <1>2, <1>9, <2>3 DEF processDelete, Ended, QueryTypes, RecoveryTypes
      <3> QED BY <3>1, HandledNone
    <2> QED BY <1>9, <2>1, <2>2, <2>3 DEF processDelete
  <1>10. ASSUME processRecovery(n, m) PROVE HandledBy(n, m)
    <2> DEFINE all == AllRows(m.result, db[n])
               own == {r \in all : isMyPartiton(n, KeyHash[r[1]])}
    <2>1. m.type \in {"@-recovery", "recovery"} /\ m.result = {}
      BY <1>2, <1>10 DEF processRecovery, MsgOK
    <2>2. all \subseteq Keys \X Values
      BY <1>3, <2>1, TableRows DEF Held
    <2> HIDE DEF all
    <2>3. all \in Rows /\ own \in Rows /\ own \subseteq Keys \X Values
      BY <2>2 DEF Rows, Row
    <2>4. m.op = 0
      BY <1>2, <2>1 DEF MsgOK, RecoveryTypes
    <2>5. CASE m.type = "@-recovery"
      <3> DEFINE f == Reply(n, m, "recovery-result", all)
      <3>1. Handles(n, m, {f})
        BY <1>10, <2>5 DEF processRecovery, all
      <3>2. /\ f \in Msg /\ f.type = "recovery-result" /\ f.sendto = m.sender /\ f.result = all
            /\ f.key = m.key /\ f.sender = m.sender /\ f.op = m.op /\ f.inc = m.inc
        BY <1>2, <2>3, ReplyFields DEF Types
      <3> HIDE DEF f
      <3>3. Follows(f, m)
        BY <2>2, <2>4, <2>5, <3>2 DEF Follows, MsgOK, RecoveryTypes
      <3> QED BY <3>1, <3>3, HandledOne
    <2>6. CASE m.type = "recovery"
      <3> DEFINE f == Reply(n, m, "recovery-result", own)
      <3>1. Handles(n, m, {f})
        BY <1>10, <2>6 DEF processRecovery, all
      <3>2. ASSUME NEW r \in own PROVE m.sender \in Replicas(r[1])
        <4>1. r[1] \in Keys /\ isMyPartiton(n, KeyHash[r[1]])
          BY <2>2, <3>2
        <4>2. n = getNode(r[1])
          BY <1>1, <4>1, Coordinator
        <4>3. n = predessor(m.sender) \/ n = predessor(predessor(m.sender))
          BY <1>1, <1>2, <2>6 DEF MsgOK
        <4>4. m.sender = successor(predessor(m.sender)) /\ predessor(m.sender) = successor(predessor(predessor(m.sender)))
          BY <1>2, Ring
        <4>5. m.sender = successor(n) \/ m.sender = successor(successor(n))
          BY <4>3, <4>4
        <4> QED BY <4>2, <4>5 DEF Replicas
      <3> HIDE DEF own
      <3>3. /\ f \in Msg /\ f.type = "recovery-result" /\ f.sendto = m.sender /\ f.result = own
            /\ f.key = m.key /\ f.sender = m.sender /\ f.op = m.op /\ f.inc = m.inc
        BY <1>2, <2>3, ReplyFields DEF Types
      <3> HIDE DEF f
      <3>4. Follows(f, m)
        BY <2>3, <2>4, <2>6, <3>2, <3>3 DEF Follows, MsgOK, RecoveryTypes
      <3> QED BY <3>1, <3>4, HandledOne
    <2> QED BY <2>1, <2>5, <2>6
  <1>11. ASSUME processRecovery_Result(n, m) PROVE HandledBy(n, m)
    <2>1. Handles(n, m, {})
      BY <1>11 DEF processRecovery_Result
    <2> QED BY <1>11, <2>1, HandledNone DEF Ended
  <1> QED BY <1>1, <1>4, <1>5, <1>6, <1>7, <1>8, <1>9, <1>10, <1>11 DEF processMessage

LEMMA SenderFailed ==
  ASSUME Basic, NEW m \in net, SendFails(m)
  PROVE  Becomes(m, Retries(m))
  <1>1. m \in Msg /\ MsgOK(m) /\ m.op \in Nat /\ m.replica \in 0 .. 3
    BY Fields, Numbers DEF Basic, TypeOK, NetInv
  <1>2. ASSUME NEW f \in Retries(m) PROVE Follows(f, m)
    <2>1. /\ m.type \in {"insert", "query-k", "query-*"}
          /\ f \in Msg /\ f.type = m.type /\ f.sendto = successor(m.sendto)
          /\ f.replica = (IF m.type = "insert" THEN m.replica + 1 ELSE m.replica)
          /\ m.type = "insert" => m.replica < 3
          /\ f.key = m.key /\ f.value = m.value /\ f.sender = m.sender /\ f.op = m.op /\ f.inc = m.inc
          /\ f.result = m.result
      BY <1>1, RetryFields
    <2>2. m.type = "insert" => successor(m.sendto) = Copy(m.key, m.replica + 1)
      <3>1. m.type = "insert" => m.key \in Keys /\ m.sendto = Copy(m.key, m.replica) /\ m.replica \in 0 .. 2
        BY <1>1, <2>1 DEF MsgOK
      <3> QED BY <3>1, Copies
    <2> QED BY <1>1, <2>1, <2>2 DEF Follows, MsgOK, RecoveryTypes
  <1>3. Retries(m) = {} \/ \E f : Retries(m) = {f}
    BY DEF Retries
  <1>4. net' = (net \ {m}) \cup Retries(m)
    BY DEF SendFails
  <1> QED BY <1>2, <1>3, <1>4 DEF Becomes

\* A starting node asks its neighbours, the last time for everything.
Requested(n, f) ==
  /\ f \in Msg /\ MsgOK(f)
  /\ f.type = "recovery" \/ (f.type = "@-recovery" /\ status[n] = "rec2")
  /\ f.sender = n /\ f.op = 0 /\ f.inc = inc[n]

LEMMA RecoverSends ==
  ASSUME Basic, NEW n \in Nodes, recover(n) \/ recover_Next(n)
  PROVE  \E new : net' = net \cup new /\ \A f \in new : Requested(n, f)
  <1>1. TypeOK /\ "recovery" \in Types /\ "@-recovery" \in Types
    BY DEF Basic, Types
  <1>2. successor(n) \in Nodes /\ predessor(n) \in Nodes /\ predessor(predessor(n)) \in Nodes
    BY Ring
  <1>3. ASSUME NEW to \in {predessor(n), predessor(predessor(n))} PROVE Requested(n, Request(n, "recovery", to))
    <2> DEFINE f == Request(n, "recovery", to)
    <2>1. f \in Msg /\ f.type = "recovery" /\ f.sender = n /\ f.sendto = to /\ f.op = 0 /\ f.inc = inc[n] /\ f.result = {}
      BY <1>1, <1>2, <1>3, RequestFields
    <2> HIDE DEF f
    <2>2. Requested(n, f)
      BY <1>3, <2>1 DEF Requested, MsgOK, RecoveryTypes
    <2> QED BY <2>2 DEF f
  <1>4. status[n] = "rec2" => Requested(n, Request(n, "@-recovery", successor(n)))
    <2> DEFINE f == Request(n, "@-recovery", successor(n))
    <2>1. f \in Msg /\ f.type = "@-recovery" /\ f.sender = n /\ f.op = 0 /\ f.inc = inc[n] /\ f.result = {}
      BY <1>1, <1>2, RequestFields
    <2> HIDE DEF f
    <2>2. status[n] = "rec2" => Requested(n, f)
      BY <2>1 DEF Requested, MsgOK, RecoveryTypes
    <2> QED BY <2>2 DEF f
  <1>5. \/ net' = net \cup {}
        \/ net' = net \cup {Request(n, "recovery", predessor(n))}
        \/ net' = net \cup {Request(n, "recovery", predessor(predessor(n)))}
        \/ status[n] = "rec2" /\ net' = net \cup {Request(n, "@-recovery", successor(n))}
    BY DEF recover, recover_Next
  <1>6. CASE net' = net \cup {}
    <2>1. PICK new : new = {}
      OBVIOUS
    <2> QED BY <1>6, <2>1
  <1>7. ASSUME NEW f, net' = net \cup {f}, Requested(n, f) PROVE \E new : net' = net \cup new /\ \A g \in new : Requested(n, g)
    <2>1. PICK new : new = {f}
      OBVIOUS
    <2> QED BY <1>7, <2>1
  <1> QED BY <1>3, <1>4, <1>5, <1>6, <1>7

\* The steps that take messages away, or leave them alone.
Quiet(n) == \/ delete_At(n) \/ query_Local(n) \/ query_Return(n) \/ Receiver_Eof(n)
            \/ Crash(n) \/ onCreate(n) \/ join(n)

LEMMA QuietSends ==
  ASSUME NEW n, Quiet(n)
  PROVE  net' \subseteq net
  BY DEF Quiet, delete_At, query_Local, query_Return, Receiver_Eof, Crash, onCreate, join

\* What calls and starts do to the counters.
LEMMA Counters ==
  ASSUME Basic, Next
  PROVE  /\ calls' \in {calls, calls + 1} /\ (calls' = calls + 1 => calls < MaxCalls)
         /\ \/ inc' = inc
            \/ \E n \in Nodes : inc[n] < MaxCrashes /\ status[n] = "down" /\ inc' = [inc EXCEPT ![n] = @ + 1]
         /\ \A n \in Nodes : inc'[n] \in Nat /\ inc[n] <= inc'[n] /\ inc'[n] <= MaxCrashes
  <1> USE DEF Same, CanCall, NewWrite, Query, Recovery
  <1>1. calls' \in {calls, calls + 1} /\ (calls' = calls + 1 => calls < MaxCalls)
    <2> USE DEF insert, delete_At, delete_Star, delete_Key, query_Local, query_Key, query_Star, Ask
    <2>1. calls \in Nat
      BY Numbers DEF Basic
    <2>2. ASSUME NEW n \in Nodes, Call(n) PROVE calls' = calls + 1 /\ calls < MaxCalls
      BY <2>2 DEF Call
    <2>3. ASSUME NEW n \in Nodes, query_Return(n) \/ Receiver_Eof(n) \/ Crash(n) \/ onCreate(n) \/ join(n) \/ recover(n) \/ recover_Next(n)
          PROVE calls' = calls
      BY <2>3 DEF query_Return, Receiver_Eof, Crash, onCreate, join, recover, recover_Next
    <2>4. ASSUME NEW m \in net, Progress(m) \/ Sender_Timeout(m) PROVE calls' = calls
      BY <2>4 DEF Progress, Sender_Timeout, Sender_Down, insert_Local, processMessage, processInsert, StopsAtBoot,
           processQuery_Star, processQuery_Key, processQuery_Result, TakeAnswer, processDelete, processRecovery, processRecovery_Result
    <2> QED BY <2>1, <2>2, <2>3, <2>4 DEF Next
  <1>2. inc' = inc \/ \E n \in Nodes : inc[n] < MaxCrashes /\ status[n] = "down" /\ inc' = [inc EXCEPT ![n] = @ + 1]
    <2> USE DEF insert, delete_At, delete_Star, delete_Key, query_Local, query_Key, query_Star, Ask
    <2>2. ASSUME NEW n \in Nodes, Call(n) PROVE inc' = inc
      BY <2>2 DEF Call
    <2>3. ASSUME NEW n \in Nodes, query_Return(n) \/ Receiver_Eof(n) \/ Crash(n) \/ join(n) \/ recover(n) \/ recover_Next(n)
          PROVE inc' = inc
      BY <2>3 DEF query_Return, Receiver_Eof, Crash, join, recover, recover_Next
    <2>4. ASSUME NEW m \in net, Progress(m) \/ Sender_Timeout(m) PROVE inc' = inc
      BY <2>4 DEF Progress, Sender_Timeout, Sender_Down, insert_Local, processMessage, processInsert, StopsAtBoot,
           processQuery_Star, processQuery_Key, processQuery_Result, TakeAnswer, processDelete, processRecovery, processRecovery_Result
    <2>5. ASSUME NEW n \in Nodes, onCreate(n) PROVE inc[n] < MaxCrashes /\ status[n] = "down" /\ inc' = [inc EXCEPT ![n] = @ + 1]
      BY <2>5 DEF onCreate, Basic, StartInv
    <2> QED BY <2>2, <2>3, <2>4, <2>5 DEF Next
  <1>3. ASSUME NEW n \in Nodes PROVE inc'[n] \in Nat /\ inc[n] <= inc'[n] /\ inc'[n] <= MaxCrashes
    <2>1. inc \in [Nodes -> 0 .. MaxCrashes] /\ MaxCrashes \in Nat
      BY DynamoAssumption DEF Basic, TypeOK
    <2>2. CASE inc' = inc
      BY <2>1, <2>2
    <2>3. ASSUME NEW p \in Nodes, inc[p] < MaxCrashes, inc' = [inc EXCEPT ![p] = @ + 1]
          PROVE  inc'[n] \in Nat /\ inc[n] <= inc'[n] /\ inc'[n] <= MaxCrashes
      <3>1. inc'[n] = IF n = p THEN inc[n] + 1 ELSE inc[n]
        BY <2>1, <2>3
      <3> QED BY <2>1, <2>3, <3>1
    <2> QED BY <1>2, <2>2, <2>3
  <1> QED BY <1>1, <1>2, <1>3

LEMMA NetKept ==
  ASSUME Basic, Next
  PROVE  net' \subseteq Msg /\ NetInv'
  <1>1. TypeOK /\ NetInv /\ calls \in Nat /\ calls' \in {calls, calls + 1} /\ \A n \in Nodes : inc[n] \in Nat /\ inc'[n] \in Nat /\ inc[n] <= inc'[n]
    BY Numbers, Counters DEF Basic
  <1>2. ASSUME NEW new, net' \subseteq net \cup new,
               \A f \in new : f \in Msg /\ MsgOK(f) /\ f.op <= calls' /\ f.inc <= inc[f.sender]
        PROVE  net' \subseteq Msg /\ NetInv'
    <2>1. ASSUME NEW f \in new PROVE f.inc <= inc'[f.sender]
      <3>1. f.inc \in Nat /\ f.sender \in Nodes /\ f.inc <= inc[f.sender]
        BY <1>2, Fields, Numbers, <1>1
      <3> QED BY <1>1, <3>1
    <2> QED BY <1>1, <1>2, <2>1, NewMessages
  <1>3. ASSUME NEW n \in Nodes, Call(n) \/ query_Return(n) \/ Receiver_Eof(n) \/ Crash(n) \/ onCreate(n) \/ join(n) \/ recover(n) \/ recover_Next(n)
        PROVE  net' \subseteq Msg /\ NetInv'
    <2>1. CASE Quiet(n)
      <3>1. net' \subseteq net \cup {}
        BY <2>1, QuietSends
      <3>2. PICK new : new = {}
        OBVIOUS
      <3>3. net' \subseteq net \cup new /\ \A f \in new : FALSE
        BY <3>1, <3>2
      <3> QED BY <1>2, <3>3
    <2>2. CASE insert(n) \/ delete_Star(n) \/ delete_Key(n)
      <3>1. PICK new : net' = net \cup new /\ \A f \in new : Written(n, f)
        BY <2>2, InsertSends, DeleteSends
      <3>2. calls' = calls + 1
        BY <2>2 DEF insert, delete_Star, delete_Key, NewWrite
      <3>3. \A f \in new : f \in Msg /\ MsgOK(f) /\ f.op <= calls' /\ f.inc <= inc[f.sender]
        BY <1>1, <3>1, <3>2 DEF Written
      <3> QED BY <1>2, <3>1, <3>3
    <2>3. CASE query_Key(n) \/ query_Star(n)
      <3>1. PICK f, what : Asked(n, what, f) /\ Ask(n, what, f)
        BY <2>3, QuerySends
      <3>2. net' = net \cup {f} /\ calls' = calls + 1
        BY <3>1 DEF Ask
      <3>3. f \in Msg /\ MsgOK(f) /\ f.op <= calls' /\ f.inc <= inc[f.sender]
        BY <1>1, <3>1, <3>2 DEF Asked
      <3>4. PICK new : new = {f}
        OBVIOUS
      <3> QED BY <1>2, <3>2, <3>3, <3>4
    <2>4. CASE recover(n) \/ recover_Next(n)
      <3>1. PICK new : net' = net \cup new /\ \A f \in new : Requested(n, f)
        BY <2>4, RecoverSends
      <3>2. \A f \in new : f \in Msg /\ MsgOK(f) /\ f.op <= calls' /\ f.inc <= inc[f.sender]
        BY <1>1, <3>1 DEF Requested
      <3> QED BY <1>2, <3>1, <3>2
    <2> QED BY <1>3, <2>1, <2>2, <2>3, <2>4 DEF Call, Quiet
  <1>4. ASSUME NEW m \in net, NEW new, Becomes(m, new)
        PROVE  net' \subseteq Msg /\ NetInv'
    <2>1. m.op <= calls /\ m.inc <= inc[m.sender] /\ m \in Msg
      BY <1>1 DEF NetInv, Past, TypeOK
    <2>2. m.op <= calls'
      <3>1. m.op \in Nat
        BY <2>1, Fields, Numbers, <1>1
      <3> QED BY <1>1, <2>1, <3>1
    <2>3. \A f \in new : f \in Msg /\ MsgOK(f) /\ f.op <= calls' /\ f.inc <= inc[f.sender]
      BY <1>4, <2>1, <2>2 DEF Becomes, Follows
    <2>4. net' \subseteq net \cup new
      BY <1>4 DEF Becomes
    <2> QED BY <1>2, <2>3, <2>4
  <1>5. ASSUME NEW m \in net, Progress(m) \/ Sender_Timeout(m)
        PROVE  net' \subseteq Msg /\ NetInv'
    <2>1. CASE insert_Local(m)
      <3>1. net' \subseteq net \cup {}
        BY <2>1 DEF insert_Local
      <3>2. PICK new : new = {}
        OBVIOUS
      <3>3. net' \subseteq net \cup new /\ \A f \in new : FALSE
        BY <3>1, <3>2
      <3> QED BY <1>2, <3>3
    <2>2. CASE processMessage(m.sendto, m)
      BY <1>4, <2>2, Handled DEF HandledBy
    <2>3. CASE SendFails(m)
      BY <1>4, <2>3, SenderFailed
    <2> QED BY <1>5, <2>1, <2>2, <2>3 DEF Progress, Sender_Down, Sender_Timeout
  <1> QED BY <1>3, <1>5 DEF Next

-----------------------------------------------------------------------------
(* Type correctness *)


LEMMA GoneTypes ==
  ASSUME TypeOK, NEW ms, ms \subseteq net, Gone(ms)
  PROVE  /\ vanished' \subseteq (0 .. MaxCalls) \X Nodes \X (0 .. MaxCrashes)
         /\ clean' \in [Keys -> BOOLEAN]
  <1>1. ASSUME NEW m \in ms PROVE Id(m) \in (0 .. MaxCalls) \X Nodes \X (0 .. MaxCrashes)
    <2>1. m \in Msg
      BY DEF TypeOK
    <2> QED BY <2>1, Fields DEF Id
  <1>2. vanished' \subseteq (0 .. MaxCalls) \X Nodes \X (0 .. MaxCrashes)
    BY <1>1 DEF Gone, TypeOK
  <1>3. clean' = [k \in Keys |-> clean[k] /\ ~\E m \in ms : Writes(m, k)]
    BY DEF Gone
  <1>4. clean' \in [Keys -> BOOLEAN]
    BY <1>3, Zenon
  <1> QED BY <1>2, <1>4

LEMMA NewWriteTypes ==
  ASSUME TypeOK, NEW ks, NEW v \in Values \cup {None}, NewWrite(ks, v)
  PROVE  latest' \in [Keys -> Values \cup {None}] /\ clean' \in [Keys -> BOOLEAN]
  <1>1. latest' \in [Keys -> Values \cup {None}]
    BY DEF NewWrite, TypeOK
  <1>2. clean' = [k \in Keys |->
          IF k \in ks THEN Recovering = {} /\ ~\E m \in net : Writes(m, k)
                      ELSE clean[k]]
    BY DEF NewWrite
  <1>3. \A k \in Keys : clean[k] \in BOOLEAN
    BY DEF TypeOK
  <1>4. clean' \in [Keys -> BOOLEAN]
    BY <1>2, <1>3, Zenon
  <1> QED BY <1>1, <1>4

\* The writes' history: latest, clean, vanished, mixed.
LEMMA HistoryTypes ==
  ASSUME Basic, Next
  PROVE  /\ latest' \in [Keys -> Values \cup {None}] /\ clean' \in [Keys -> BOOLEAN]
         /\ vanished' \subseteq (0 .. MaxCalls) \X Nodes \X (0 .. MaxCrashes)
         /\ mixed' \subseteq Nodes
  <1> DEFINE G == /\ latest' \in [Keys -> Values \cup {None}] /\ clean' \in [Keys -> BOOLEAN]
                  /\ vanished' \subseteq (0 .. MaxCalls) \X Nodes \X (0 .. MaxCrashes)
                  /\ mixed' \subseteq Nodes
  <1>0. /\ latest \in [Keys -> Values \cup {None}] /\ clean \in [Keys -> BOOLEAN]
        /\ vanished \subseteq (0 .. MaxCalls) \X Nodes \X (0 .. MaxCrashes) /\ mixed \subseteq Nodes
    BY DEF Basic, TypeOK
  <1>1. NoHistory => G
    BY <1>0 DEF NoHistory
  <1>2. ASSUME NEW ks, NEW v \in Values \cup {None}, NewWrite(ks, v) PROVE G
    BY <1>0, <1>2, NewWriteTypes DEF NewWrite, Basic
  <1>3. ASSUME NEW ms, ms \subseteq net, Gone(ms), UNCHANGED <<latest, mixed>> PROVE G
    BY <1>0, <1>3, GoneTypes DEF Basic
  <1>4. ASSUME NEW m \in net, mixed' = (IF m.inc = inc[m.sendto] THEN mixed ELSE mixed \cup {m.sendto}),
               UNCHANGED <<latest, clean, vanished>> PROVE G
    <2>1. m.sendto \in Nodes
      BY Fields DEF Basic, TypeOK
    <2> QED BY <1>0, <1>4, <2>1
  <1> HIDE DEF G
  <1>5. ASSUME NEW n \in Nodes, Call(n) PROVE G
    <2>1. CASE insert(n)
      <3>1. PICK k \in Keys : NewWrite({k}, calls + 1)
        BY <2>1 DEF insert
      <3>2. calls + 1 \in Values
        BY <2>1, Numbers DEF insert, CanCall, Basic
      <3> QED BY <1>2, <3>1, <3>2
    <2>2. CASE delete_At(n)
      <3>1. clean' = [k \in Keys |-> FALSE] /\ UNCHANGED <<latest, vanished, mixed>>
        BY <2>2 DEF delete_At
      <3> QED BY <1>0, <3>1 DEF G
    <2>3. CASE delete_Star(n)
      BY <1>2, <2>3 DEF delete_Star
    <2>4. CASE delete_Key(n)
      BY <1>2, <2>4 DEF delete_Key
    <2>5. CASE query_Local(n) \/ query_Key(n) \/ query_Star(n)
      BY <1>1, <2>5 DEF query_Local, query_Key, query_Star, Ask
    <2> QED BY <1>5, <2>1, <2>2, <2>3, <2>4, <2>5 DEF Call
  <1>6. ASSUME NEW n \in Nodes, query_Return(n) \/ join(n) \/ recover(n) \/ recover_Next(n) PROVE G
    BY <1>1, <1>6 DEF query_Return, join, recover, recover_Next
  <1>7. ASSUME NEW n \in Nodes, Receiver_Eof(n) PROVE G
    <2>1. PICK ms \in SUBSET {m \in net : m.sendto = n /\ m.type # "local"} : Gone(ms)
      BY <1>7 DEF Receiver_Eof
    <2> QED BY <1>3, <1>7, <2>1 DEF Receiver_Eof
  <1>8. ASSUME NEW n \in Nodes, Crash(n) PROVE G
    <2>1. PICK ms \in SUBSET {m \in net : m.by = n \/ (m.sendto = n /\ m.type # "local")} : Gone({m \in ms : ~Spent(m)})
      BY <1>8 DEF Crash
    <2>2. {m \in ms : ~Spent(m)} \subseteq net
      OBVIOUS
    <2> QED BY <1>3, <1>8, <2>1, <2>2 DEF Crash
  <1>9. ASSUME NEW n \in Nodes, onCreate(n) PROVE G
    <2>1. clean' = [k \in Keys |-> clean[k] /\ (\A o \in Nodes \ {n} : status[o] = "up")
                                            /\ ~\E m \in net : Writes(m, k)]
      BY <1>9 DEF onCreate
    <2>2. clean' \in [Keys -> BOOLEAN]
      BY <2>1, Zenon
    <2> QED BY <1>0, <1>9, <2>2 DEF onCreate, G
  <1>10. ASSUME NEW m \in net, Progress(m) PROVE G
    <2>1. CASE insert_Local(m)
      BY <1>1, <2>1 DEF insert_Local
    <2>2. CASE Sender_Down(m)
      <3>1. Gone({m}) \/ UNCHANGED <<vanished, clean>>
        BY <2>2 DEF Sender_Down
      <3>2. UNCHANGED <<latest, mixed>> /\ {m} \subseteq net
        BY <2>2 DEF Sender_Down
      <3>3. CASE UNCHANGED <<vanished, clean>>
        BY <1>0, <3>2, <3>3 DEF G
      <3> QED BY <1>3, <3>1, <3>2, <3>3
    <2>3. CASE processMessage(m.sendto, m)
      <3>1. PICK n : n = m.sendto
        OBVIOUS
      <3>2. CASE TakeAnswer(n, m) \/ processRecovery_Result(n, m)
        BY <1>4, <3>1, <3>2 DEF TakeAnswer, processRecovery_Result
      <3>3. CASE StopsAtBoot(n, m)
        <4>1. {m} \subseteq net /\ Gone({m}) /\ UNCHANGED <<latest, mixed>>
          BY <3>3 DEF StopsAtBoot
        <4> QED BY <1>3, <4>1
      <3>4. CASE processQuery_Key(n, m)
        <4>1. NoHistory \/ (Gone({m}) /\ UNCHANGED <<latest, mixed>>)
          BY <3>4 DEF processQuery_Key
        <4>2. {m} \subseteq net
          OBVIOUS
        <4> QED BY <1>1, <1>3, <4>1, <4>2
      <3>5. CASE NoHistory
        BY <1>1, <3>5
      <3> QED BY <2>3, <3>1, <3>2, <3>3, <3>4, <3>5 DEF processMessage, processInsert, processQuery_Star, processQuery_Result, processDelete, processRecovery
    <2> QED BY <1>10, <2>1, <2>2, <2>3 DEF Progress
  <1>11. ASSUME NEW m \in net, Sender_Timeout(m) PROVE G
    <2>1. UNCHANGED <<latest, mixed>> /\ {m} \subseteq net
      BY <1>11 DEF Sender_Timeout
    <2>2. CASE Gone({m})
      BY <1>3, <2>1, <2>2
    <2>3. CASE clean' = [k \in Keys |-> clean[k] /\ ~Writes(m, k)] /\ UNCHANGED vanished
      <3>1. clean' \in [Keys -> BOOLEAN]
        BY <2>3, Zenon
      <3> QED BY <1>0, <2>1, <2>3, <3>1 DEF G
    <2> QED BY <1>11, <2>2, <2>3 DEF Sender_Timeout
  <1>12. G
    BY <1>5, <1>6, <1>7, <1>8, <1>9, <1>10, <1>11 DEF Next
  <1> QED BY <1>12 DEF G


\* The states of the nodes: all but the messages and the history.
LEMMA NodeTypes ==
  ASSUME Basic, Next
  PROVE  /\ db' \in [Nodes -> Table] /\ recoveryCursor' \in [Nodes -> Table]
         /\ status' \in [Nodes -> Status]
         /\ asked' \in [Nodes -> {None} \cup ((Keys \cup {"*"}) \X Values)]
         /\ isQueried' \in [Nodes -> BOOLEAN] /\ recovery' \in [Nodes -> BOOLEAN]
         /\ resultCursor' \in [Nodes -> Rows]
         /\ timeouts' \in 0 .. MaxTimeouts
  <1> DEFINE Quest == {None} \cup ((Keys \cup {"*"}) \X Values)
             Tab == db' \in [Nodes -> Table] /\ recoveryCursor' \in [Nodes -> Table]
             Sta == status' \in [Nodes -> Status] /\ recovery' \in [Nodes -> BOOLEAN]
             Que == /\ asked' \in [Nodes -> Quest] /\ isQueried' \in [Nodes -> BOOLEAN]
                    /\ resultCursor' \in [Nodes -> Rows]
             Tim == timeouts' \in 0 .. MaxTimeouts
             G == Tab /\ Sta /\ Que /\ Tim
  <1>0. /\ db \in [Nodes -> Table] /\ recoveryCursor \in [Nodes -> Table]
        /\ status \in [Nodes -> Status] /\ asked \in [Nodes -> Quest]
        /\ isQueried \in [Nodes -> BOOLEAN] /\ recovery \in [Nodes -> BOOLEAN]
        /\ resultCursor \in [Nodes -> Rows] /\ timeouts \in 0 .. MaxTimeouts /\ MaxTimeouts \in Nat
    BY DynamoAssumption DEF Basic, TypeOK, Table, Rows, Row
  <1>1. UNCHANGED <<db, recoveryCursor>> => Tab
    BY <1>0
  <1>2. UNCHANGED <<status, recovery>> => Sta
    BY <1>0
  <1>3. UNCHANGED Query => Que
    BY <1>0 DEF Query
  <1>4. UNCHANGED timeouts => Tim
    BY <1>0
  <1>5. timeouts < MaxTimeouts /\ timeouts' = timeouts + 1 => Tim
    BY <1>0
  <1>6. ASSUME NEW n \in Nodes, db' = [db EXCEPT ![n] = Empty], UNCHANGED recoveryCursor PROVE Tab
    BY <1>0, <1>6, EmptyTable
  <1>7. ASSUME NEW n \in Nodes, NEW k \in Keys, NEW s \in Seq(Values), db' = [db EXCEPT ![n][k] = s], UNCHANGED recoveryCursor PROVE Tab
    <2>1. [db[n] EXCEPT ![k] = s] \in Table
      BY <1>0, <1>7 DEF Table
    <2>2. db' = [db EXCEPT ![n] = [db[n] EXCEPT ![k] = s]]
      BY <1>7
    <2> QED BY <1>0, <1>7, <2>1, <2>2
  <1>8. ASSUME NEW n \in Nodes, NEW s \in Status, status' = [status EXCEPT ![n] = s], recovery' = recovery \/ recovery' = [recovery EXCEPT ![n] = FALSE] PROVE Sta
    BY <1>0, <1>8
  <1> HIDE DEF Tab, Sta, Que, Tim
  <1>10. ASSUME NEW n \in Nodes, Call(n) PROVE G
    <2>1. CASE insert(n) \/ delete_Key(n)
      BY <1>1, <1>2, <1>3, <1>4, <2>1 DEF insert, delete_Key, Recovery
    <2>2. CASE delete_At(n) \/ delete_Star(n)
      BY <1>6, <1>2, <1>3, <1>4, <2>2 DEF delete_At, delete_Star, Recovery
    <2>3. CASE query_Local(n)
      <3>1. resultCursor' = [resultCursor EXCEPT ![n] = {}] /\ {} \in Rows /\ UNCHANGED <<asked, isQueried>>
        BY <2>3 DEF query_Local, Rows
      <3>2. Que
        BY <1>0, <3>1 DEF Que
      <3> QED BY <1>1, <1>2, <1>4, <2>3, <3>2 DEF query_Local, Recovery
    <2>4. CASE query_Key(n) \/ query_Star(n)
      <3>1. PICK f, what : what \in Keys \cup {"*"} /\ Ask(n, what, f)
        BY <2>4, QuerySends
      <3>2. calls + 1 \in Values
        BY <3>1, Numbers DEF Ask, CanCall, Basic
      <3>3. <<what, calls + 1>> \in Quest /\ {} \in Rows
        BY <3>1, <3>2 DEF Rows
      <3>4. /\ resultCursor' = [resultCursor EXCEPT ![n] = {}] /\ asked' = [asked EXCEPT ![n] = <<what, calls + 1>>] /\ UNCHANGED isQueried
        BY <3>1 DEF Ask
      <3>5. Que
        BY <1>0, <3>3, <3>4 DEF Que
      <3> QED BY <1>1, <1>2, <1>4, <3>1, <3>5 DEF Ask, Recovery
    <2> QED BY <1>10, <2>1, <2>2, <2>3, <2>4 DEF Call
  <1>11. ASSUME NEW n \in Nodes, query_Return(n) PROVE G
    <2>1. Que
      BY <1>0, <1>11 DEF query_Return, Que
    <2> QED BY <1>1, <1>2, <1>4, <1>11, <2>1 DEF query_Return, Recovery
  <1>12. ASSUME NEW n \in Nodes, Receiver_Eof(n) PROVE G
    BY <1>1, <1>2, <1>3, <1>5, <1>12 DEF Receiver_Eof, Recovery
  <1>13. ASSUME NEW n \in Nodes, Crash(n) PROVE G
    <2>1. /\ asked' = [asked EXCEPT ![n] = None] /\ isQueried' = [isQueried EXCEPT ![n] = FALSE]
          /\ resultCursor' = [resultCursor EXCEPT ![n] = {}] /\ {} \in Rows
      BY <1>13 DEF Crash, Rows
    <2>2. Que
      BY <1>0, <2>1 DEF Que
    <2>3. Tab
      BY <1>0, <1>13, EmptyTable DEF Crash, Tab
    <2> QED BY <1>8, <1>4, <1>13, <2>2, <2>3 DEF Crash, Status, Same
  <1>14. ASSUME NEW n \in Nodes, onCreate(n) PROVE G
    BY <1>1, <1>3, <1>4, <1>8, <1>14 DEF onCreate, Recovery, Status
  <1>15. ASSUME NEW n \in Nodes, join(n) PROVE G
    <2>1. Que
      BY <1>0, <1>15 DEF join, Que
    <2> QED BY <1>1, <1>8, <1>4, <1>15, <2>1 DEF join, Recovery, Same, Status
  <1>16. ASSUME NEW n \in Nodes, recover(n) PROVE G
    <2>1. Tab
      BY <1>0, <1>16, EmptyTable DEF recover, Tab
    <2> QED BY <1>3, <1>8, <1>4, <1>16, <2>1 DEF recover, Same, Status
  <1>17. ASSUME NEW n \in Nodes, recover_Next(n) PROVE G
    <2>1. db' = [db EXCEPT ![n] = AddRows(@, Kept(n))] /\ recoveryCursor' = [recoveryCursor EXCEPT ![n] = Empty]
      BY <1>17 DEF recover_Next
    <2>2. AddRows(db[n], Kept(n)) \in Table
      BY <1>0, AddTable, KeptTable DEF Basic
    <2>3. Tab
      BY <1>0, <2>1, <2>2, EmptyTable DEF Tab
    <2>4. \E s \in Status : status' = [status EXCEPT ![n] = s]
      BY <1>17 DEF recover_Next, Status
    <2>5. recovery' = [recovery EXCEPT ![n] = FALSE] /\ UNCHANGED <<Query, timeouts>>
      BY <1>17 DEF recover_Next, Same
    <2> QED BY <1>3, <1>8, <1>4, <2>3, <2>4, <2>5
  <1>18. ASSUME NEW m \in net, Progress(m) PROVE G
    <2>1. m \in Msg /\ MsgOK(m) /\ m.sendto \in Nodes /\ m.by \in Nodes /\ m.result \in Rows
      BY Fields DEF Basic, TypeOK, NetInv
    <2>2. PICK n \in Nodes : n = m.sendto
      BY <2>1
    <2>3. \A p \in Nodes, k \in Keys : db[p][k] \in Seq(Values)
      BY <1>0 DEF Table
    <2>4. CASE insert_Local(m)
      <3>1. m.key \in Keys /\ m.value \in Values
        BY <2>1, <2>4 DEF MsgOK, insert_Local
      <3>2. Append(db[m.by][m.key], m.value) \in Seq(Values)
        BY <2>1, <2>3, <3>1
      <3> QED BY <1>7, <1>2, <1>3, <1>4, <2>1, <2>4, <3>1, <3>2 DEF insert_Local, Recovery
    <2>5. CASE Sender_Down(m)
      BY <1>1, <1>2, <1>3, <1>4, <2>5 DEF Sender_Down, Recovery, Same
    <2>6. CASE processInsert(n, m)
      <3>1. m.key \in Keys /\ m.value \in Values
        BY <2>1, <2>6 DEF MsgOK, processInsert
      <3>2. Append(db[n][m.key], m.value) \in Seq(Values)
        BY <2>1, <2>3, <3>1
      <3>3. Tab
        BY <1>7, <1>1, <2>6, <3>1, <3>2 DEF processInsert, Recovery
      <3> QED BY <1>2, <1>3, <1>4, <2>6, <3>3 DEF processInsert, Recovery, Same
    <2>7. CASE StopsAtBoot(n, m)
      <3>1. UNCHANGED <<status, Query, Recovery, Same>>
        BY <2>7 DEF StopsAtBoot
      <3>2. Tab
        <4>1. CASE UNCHANGED db
          BY <1>1, <3>1, <4>1 DEF Recovery
        <4>2. CASE db' = [db EXCEPT ![n] = Empty]
          BY <1>6, <3>1, <4>2 DEF Recovery
        <4>3. CASE m.type = "del-k" /\ db' = [db EXCEPT ![n][m.key] = IF m.replica > 0 THEN <<>> ELSE @]
          <5>1. m.key \in Keys
            BY <2>1, <4>3 DEF MsgOK
          <5>2. (IF m.replica > 0 THEN <<>> ELSE db[n][m.key]) \in Seq(Values)
            BY <2>3, <5>1
          <5> QED BY <1>7, <3>1, <4>3, <5>1, <5>2 DEF Recovery
        <4> QED BY <2>7, <4>1, <4>2, <4>3 DEF StopsAtBoot
      <3> QED BY <1>2, <1>3, <1>4, <3>1, <3>2 DEF Recovery, Same
    <2>8. CASE TakeAnswer(n, m)
      <3>1. resultCursor[n] \cup m.result \in Rows
        BY <1>0, <2>1 DEF Rows
      <3>2. Que
        BY <1>0, <2>8, <3>1 DEF TakeAnswer, Que
      <3> QED BY <1>1, <1>2, <1>4, <2>8, <3>2 DEF TakeAnswer, Recovery, Same
    <2>9. CASE UNCHANGED <<db, status, Query, Recovery, Same>>
      BY <1>1, <1>2, <1>3, <1>4, <2>9 DEF Recovery, Same
    <2>10. CASE processDelete(n, m)
      <3>1. UNCHANGED <<status, Query, Recovery, Same>>
        BY <2>10 DEF processDelete
      <3>2. Tab
        <4>1. CASE UNCHANGED db
          BY <1>1, <3>1, <4>1 DEF Recovery
        <4>2. CASE db' = [db EXCEPT ![n] = Empty]
          BY <1>6, <3>1, <4>2 DEF Recovery
        <4>3. CASE m.type = "del-k" /\ db' = [db EXCEPT ![n][m.key] = <<>>]
          <5>1. m.key \in Keys /\ <<>> \in Seq(Values)
            BY <2>1, <4>3 DEF MsgOK
          <5> QED BY <1>7, <3>1, <4>3, <5>1 DEF Recovery
        <4> QED BY <2>10, <4>1, <4>2, <4>3 DEF processDelete
      <3> QED BY <1>2, <1>3, <1>4, <3>1, <3>2 DEF Recovery, Same
    <2>11. CASE processRecovery_Result(n, m)
      <3>1. /\ recoveryCursor' = [recoveryCursor EXCEPT ![n] = CursorRows(@, m.result)]
            /\ recovery' = [recovery EXCEPT ![n] = TRUE] /\ m.type = "recovery-result"
            /\ UNCHANGED <<db, status, Query, Same>>
        BY <2>11 DEF processRecovery_Result
      <3>2. CursorRows(recoveryCursor[n], m.result) \in Table
        BY <1>0, <2>1, <3>1, CursorTable DEF MsgOK
      <3>3. Tab
        BY <1>0, <3>1, <3>2 DEF Tab
      <3>4. Sta
        BY <1>0, <3>1 DEF Sta
      <3> QED BY <1>3, <1>4, <3>1, <3>3, <3>4 DEF Same
    <2> QED BY <1>18, <2>2, <2>4, <2>5, <2>6, <2>7, <2>8, <2>9, <2>10, <2>11
           DEF Progress, processMessage, processQuery_Star, processQuery_Key, processQuery_Result, processRecovery
  <1>19. ASSUME NEW m \in net, Sender_Timeout(m) PROVE G
    BY <1>1, <1>2, <1>3, <1>5, <1>19 DEF Sender_Timeout, Recovery
  <1>20. G
    BY <1>10, <1>11, <1>12, <1>13, <1>14, <1>15, <1>16, <1>17, <1>18, <1>19 DEF Next
  <1> QED BY <1>20 DEF Tab, Sta, Que, Tim


LEMMA StartKept ==
  ASSUME Basic, Next
  PROVE  StartInv'
  <1>0. /\ status \in [Nodes -> Status] /\ asked \in [Nodes -> {None} \cup ((Keys \cup {"*"}) \X Values)]
        /\ calls \in Nat /\ MaxCrashes \in Nat /\ inc \in [Nodes -> 0 .. MaxCrashes] /\ StartInv
    BY Numbers DEF Basic, TypeOK
  <1>1. calls' \in {calls, calls + 1}
    BY Counters
  <1>2. \A n \in Nodes : asked[n] # None => asked[n][2] <= calls'
    <2>1. ASSUME NEW n \in Nodes, asked[n] # None PROVE asked[n][2] <= calls'
      <3>1. asked[n][2] \in Nat /\ asked[n][2] <= calls
        BY <1>0, <2>1, DynamoAssumption DEF StartInv, Values
      <3> QED BY <1>0, <1>1, <3>1
    <2> QED BY <2>1
  <1>3. CASE UNCHANGED <<status, asked, inc>>
    BY <1>0, <1>2, <1>3 DEF StartInv
  <1>4. ASSUME NEW n \in Nodes, Call(n) PROVE StartInv'
    <2>1. CASE query_Key(n) \/ query_Star(n)
      <3>1. PICK f, what : what \in Keys \cup {"*"} /\ Ask(n, what, f)
        BY <2>1, QuerySends
      <3>2. status[n] = "up" /\ UNCHANGED <<status, inc>> /\ asked' = [asked EXCEPT ![n] = <<what, calls + 1>>] /\ calls' = calls + 1
        BY <3>1 DEF Ask, CanCall
      <3> QED BY <1>0, <1>2, <3>2 DEF StartInv
    <2>2. CASE ~(query_Key(n) \/ query_Star(n))
      <3>1. UNCHANGED <<status, asked, inc>>
        BY <1>4, <2>2 DEF Call, insert, delete_At, delete_Star, delete_Key, query_Local, Query
      <3> QED BY <1>3, <3>1
    <2> QED BY <2>1, <2>2
  <1>5. ASSUME NEW n \in Nodes, query_Return(n) PROVE StartInv'
    BY <1>0, <1>2, <1>5 DEF query_Return, StartInv
  <1>6. ASSUME NEW n \in Nodes, Receiver_Eof(n) PROVE StartInv'
    BY <1>3, <1>6 DEF Receiver_Eof, Query
  <1>7. ASSUME NEW n \in Nodes, Crash(n) PROVE StartInv'
    <2>1. inc' = inc /\ asked' = [asked EXCEPT ![n] = None] /\ status' = [status EXCEPT ![n] = "down"] /\ inc[n] < MaxCrashes
      BY <1>7 DEF Crash, Same
    <2> QED BY <1>0, <1>2, <2>1 DEF StartInv
  <1>8. ASSUME NEW n \in Nodes, onCreate(n) PROVE StartInv'
    <2>1. asked' = asked /\ status' = [status EXCEPT ![n] = "boot"] /\ inc' = [inc EXCEPT ![n] = @ + 1] /\ asked[n] = None
      BY <1>0, <1>8 DEF onCreate, Query, StartInv
    <2>2. \A p \in Nodes \ {n} : inc'[p] = inc[p] /\ status'[p] = status[p]
      BY <1>0, <2>1
    <2>3. status'[n] = "boot"
      BY <1>0, <2>1
    <2> QED BY <1>0, <1>2, <2>1, <2>2, <2>3 DEF StartInv
  <1>9. ASSUME NEW n \in Nodes, join(n) \/ recover(n) \/ recover_Next(n) PROVE StartInv'
    <2>1. inc' = inc /\ asked' = asked /\ status[n] # "up"
      BY <1>9 DEF join, recover, recover_Next, Same, Query
    <2>2. \E s \in Status \ {"down"} : status' = [status EXCEPT ![n] = s]
      BY <1>9 DEF join, recover, recover_Next, Status
    <2> QED BY <1>0, <1>2, <2>1, <2>2 DEF StartInv
  <1>10. ASSUME NEW m \in net, Progress(m) \/ Sender_Timeout(m) PROVE StartInv'
    <2>1. UNCHANGED <<status, asked, inc>>
      BY <1>10 DEF Progress, Sender_Timeout, Sender_Down, insert_Local, processMessage, processInsert, StopsAtBoot,
           processQuery_Star, processQuery_Key, processQuery_Result, TakeAnswer, processDelete, processRecovery,
           processRecovery_Result, Query, Same
    <2> QED BY <1>3, <2>1
  <1> QED BY <1>4, <1>5, <1>6, <1>7, <1>8, <1>9, <1>10 DEF Next

LEMMA BasicInit ==
  ASSUME Init
  PROVE  Basic
  <1>1. TypeOK
    <2>1. db \in [Nodes -> Table] /\ recoveryCursor \in [Nodes -> Table]
      BY EmptyTable DEF Init
    <2>2. clean \in [Keys -> BOOLEAN]
      BY DEF Init
    <2>3. calls \in 0 .. MaxCalls /\ timeouts \in 0 .. MaxTimeouts /\ 0 \in 0 .. MaxCrashes
      BY DynamoAssumption DEF Init
    <2> QED BY <2>1, <2>2, <2>3 DEF Init, TypeOK, Status, Table
  <1>2. NetInv /\ StartInv
    BY DEF Init, NetInv, StartInv
  <1> QED BY <1>1, <1>2 DEF Basic

LEMMA BasicStep ==
  ASSUME Basic, [Next]_vars
  PROVE  Basic'
  <1>1. CASE Next
    <2>1. calls' \in 0 .. MaxCalls
      <3>1. calls \in Nat /\ calls <= MaxCalls /\ MaxCalls \in Nat
        BY Numbers DEF Basic
      <3>2. calls' = calls \/ (calls' = calls + 1 /\ calls < MaxCalls)
        BY <1>1, Counters
      <3> QED BY <3>1, <3>2
    <2>2. inc' \in [Nodes -> 0 .. MaxCrashes]
      <3>1. \E F : inc' = [n \in Nodes |-> F[n]]
        <4>1. inc \in [Nodes -> 0 .. MaxCrashes]
          BY DEF Basic, TypeOK
        <4>2. inc' = [n \in Nodes |-> inc'[n]]
          BY <1>1, <4>1, Counters
        <4> QED BY <4>2
      <3>2. \A n \in Nodes : inc'[n] \in 0 .. MaxCrashes
        BY <1>1, Counters, DynamoAssumption
      <3> QED BY <3>1, <3>2
    <2>3. TypeOK'
      <3>1. net' \subseteq Msg
        BY <1>1, NetKept
      <3> QED BY <1>1, <2>1, <2>2, <3>1, HistoryTypes, NodeTypes DEF TypeOK, Table, Rows, Row
    <2> QED BY <1>1, <2>3, NetKept, StartKept DEF Basic
  <1>2. CASE UNCHANGED vars
    BY <1>2 DEF vars, Basic, TypeOK, NetInv, Past, StartInv
  <1> QED BY <1>1, <1>2

\* Type correctness of SimpleDynamo, for any ring and any number of calls,
\* crashes and timeouts: what is on the way is a message a handler can take,
\* and every table and result holds rows of keys and values.
THEOREM TypeCorrect == Spec => []TypeOK
  <1>1. Init => Basic
    BY BasicInit
  <1>2. Basic /\ [Next]_vars => Basic'
    BY BasicStep
  <1>3. Basic => TypeOK
    BY DEF Basic
  <1> QED BY <1>1, <1>2, <1>3, PTL DEF Spec

-----------------------------------------------------------------------------
(* Rows are only on the replicas of their key *)

Early == {"boot", "joined", "rec1", "rec2"}
Current(m) == m.inc = inc[m.sender]

\* A node that has not yet had the answers of its predecessors is given no
\* rows but those of its predecessors' own partitions.
RecOK(m) == Current(m) /\ status[m.sender] \in Early =>
              /\ m.type # "@-recovery"
              /\ m.type = "recovery-result" => \A r \in m.result : m.sender \in Replicas(r[1])

RecInv == \A m \in net : RecOK(m)

CursorInv == mixed = {} => \A n \in Nodes, k \in Keys :
    status[n] \in {"rec1", "rec2"} /\ recoveryCursor[n][k] # <<>> => n \in Replicas(k)

StoreInv == RecInv /\ CursorInv /\ StoredOnlyOnReplicas

LEMMA MixedGrows ==
  ASSUME Next
  PROVE  mixed \subseteq mixed'
  <1>1. ASSUME NEW n \in Nodes, Call(n) PROVE mixed' = mixed
    BY <1>1 DEF Call, insert, delete_At, delete_Star, delete_Key, query_Local, query_Key, query_Star, Ask, NewWrite, NoHistory
  <1>2. ASSUME NEW n \in Nodes, query_Return(n) \/ Receiver_Eof(n) \/ Crash(n) \/ onCreate(n) \/ join(n) \/ recover(n) \/ recover_Next(n)
        PROVE  mixed' = mixed
    BY <1>2 DEF query_Return, Receiver_Eof, Crash, onCreate, join, recover, recover_Next, NoHistory
  <1>3. ASSUME NEW m \in net, Progress(m) \/ Sender_Timeout(m) PROVE mixed \subseteq mixed'
    BY <1>3 DEF Progress, Sender_Timeout, Sender_Down, insert_Local, processMessage, processInsert, StopsAtBoot,
           processQuery_Star, processQuery_Key, processQuery_Result, TakeAnswer, processDelete, processRecovery, processRecovery_Result, NoHistory
  <1> QED BY <1>1, <1>2, <1>3 DEF Next

\* Only the calls and starts of nodes change a status or a number of starts.
LEMMA MessagesLeave ==
  ASSUME NEW m, Progress(m) \/ Sender_Timeout(m)
  PROVE  UNCHANGED <<status, inc, calls, asked>>
  BY DEF Progress, Sender_Timeout, Sender_Down, insert_Local, processMessage, processInsert, StopsAtBoot,
         processQuery_Star, processQuery_Key, processQuery_Result, TakeAnswer, processDelete, processRecovery,
         processRecovery_Result, Query, Same

LEMMA CallsLeave ==
  ASSUME NEW n, Call(n) \/ query_Return(n) \/ Receiver_Eof(n)
  PROVE  UNCHANGED <<status, inc, recoveryCursor, recovery>>
  BY DEF Call, insert, delete_At, delete_Star, delete_Key, query_Local, query_Key, query_Star, Ask,
         query_Return, Receiver_Eof, Recovery, Same

LEMMA RecStep ==
  ASSUME Basic, RecInv, Next
  PROVE  RecInv'
  <1>0. /\ status \in [Nodes -> Status] /\ inc \in [Nodes -> 0 .. MaxCrashes] /\ MaxCrashes \in Nat
        /\ \A m \in net : m.sender \in Nodes
    BY Fields, DynamoAssumption DEF Basic, TypeOK
  <1>1. ASSUME NEW new, net' \subseteq net \cup new, inc' = inc,
               \A n \in Nodes : status'[n] \in Early => status[n] \in Early,
               \A f \in new : RecOK(f)'
        PROVE  RecInv'
    <2>1. ASSUME NEW m \in net, m \in net' PROVE RecOK(m)'
      BY <1>0, <1>1, <2>1 DEF RecInv, RecOK, Current
    <2> QED BY <1>1, <2>1 DEF RecInv
  <1>2. ASSUME net' \subseteq net, inc' = inc,
               \A n \in Nodes : status'[n] \in Early => status[n] \in Early
        PROVE  RecInv'
    <2>1. PICK new : new = {}
      OBVIOUS
    <2>2. net' \subseteq net \cup new /\ \A f \in new : FALSE
      BY <1>2, <2>1
    <2> QED BY <1>1, <1>2, <2>2
  <1>3. ASSUME NEW n \in Nodes, Call(n) \/ query_Return(n) \/ Receiver_Eof(n) PROVE RecInv'
    <2>1. UNCHANGED <<status, inc>>
      BY <1>3, CallsLeave
    <2>2. CASE Quiet(n)
      BY <1>2, <2>1, <2>2, QuietSends
    <2>3. CASE insert(n) \/ delete_Star(n) \/ delete_Key(n)
      <3>1. PICK new : net' = net \cup new /\ \A f \in new : Written(n, f)
        BY <2>3, InsertSends, DeleteSends
      <3>2. \A f \in new : RecOK(f)'
        BY <3>1 DEF Written, RecOK
      <3> QED BY <1>1, <2>1, <3>1, <3>2
    <2>4. CASE query_Key(n) \/ query_Star(n)
      <3>1. PICK f, what : Asked(n, what, f) /\ Ask(n, what, f)
        BY <2>4, QuerySends
      <3>2. net' = net \cup {f} /\ RecOK(f)'
        BY <3>1 DEF Ask, Asked, RecOK
      <3>3. PICK new : new = {f}
        OBVIOUS
      <3> QED BY <1>1, <2>1, <3>2, <3>3
    <2> QED BY <1>3, <2>2, <2>3, <2>4 DEF Call, Quiet
  <1>4. ASSUME NEW n \in Nodes, Crash(n) \/ join(n) PROVE RecInv'
    <2>1. net' \subseteq net /\ inc' = inc
      BY <1>4 DEF Crash, join, Same
    <2>2. \/ status' = [status EXCEPT ![n] = "down"]
          \/ status[n] = "boot" /\ status' = [status EXCEPT ![n] = "joined"]
      BY <1>4 DEF Crash, join
    <2>3. \A p \in Nodes : status'[p] \in Early => status[p] \in Early
      BY <1>0, <2>2 DEF Early
    <2> QED BY <1>2, <2>1, <2>3
  <1>5. ASSUME NEW n \in Nodes, onCreate(n) PROVE RecInv'
    <2>1. net' = net /\ inc' = [inc EXCEPT ![n] = @ + 1] /\ status' = [status EXCEPT ![n] = "boot"]
      BY <1>5 DEF onCreate
    <2>2. ASSUME NEW m \in net PROVE RecOK(m)'
      <3>1. CASE m.sender = n
        <4>1. m.inc \in Nat /\ m.inc <= inc[n]
          BY <3>1, Fields, DynamoAssumption DEF Basic, TypeOK, NetInv, Past
        <4>2. inc'[m.sender] = inc[n] + 1 /\ inc[n] \in Nat
          BY <1>0, <2>1, <3>1
        <4>3. m.inc # inc'[m.sender]
          BY <4>1, <4>2
        <4> QED BY <4>3 DEF RecOK, Current
      <3>2. CASE m.sender # n
        <4>1. inc'[m.sender] = inc[m.sender] /\ status'[m.sender] = status[m.sender]
          BY <1>0, <2>1, <3>2
        <4> QED BY <4>1 DEF RecInv, RecOK, Current
      <3> QED BY <3>1, <3>2
    <2> QED BY <2>1, <2>2 DEF RecInv
  <1>6. ASSUME NEW n \in Nodes, recover(n) \/ recover_Next(n) PROVE RecInv'
    <2>1. PICK new : net' = net \cup new /\ \A f \in new : Requested(n, f)
      BY <1>6, RecoverSends
    <2>2. \/ status[n] = "joined" /\ status' = [status EXCEPT ![n] = "rec1"]
          \/ status[n] = "rec1" /\ status' = [status EXCEPT ![n] = "rec2"]
          \/ status[n] = "rec2" /\ status' = [status EXCEPT ![n] = "rec3"]
          \/ status[n] = "rec3" /\ status' = [status EXCEPT ![n] = "up"]
      BY <1>6 DEF recover, recover_Next
    <2>3. inc' = inc /\ \A p \in Nodes : status'[p] \in Early => status[p] \in Early
      <3>1. inc' = inc
        BY <1>6 DEF recover, recover_Next, Same
      <3> QED BY <1>0, <2>2, <3>1 DEF Early
    <2>4. ASSUME NEW f \in new PROVE RecOK(f)'
      <3>1. f.sender = n /\ (f.type = "recovery" \/ (f.type = "@-recovery" /\ status[n] = "rec2"))
        BY <2>1 DEF Requested
      <3>2. status[n] = "rec2" => status'[n] = "rec3"
        BY <1>0, <2>2
      <3> QED BY <3>1, <3>2 DEF RecOK, Early
    <2> QED BY <1>1, <2>1, <2>3, <2>4
  <1>7. ASSUME NEW m \in net, NEW new, Becomes(m, new), UNCHANGED <<status, inc>> PROVE RecInv'
    <2>1. ASSUME NEW f \in new PROVE RecOK(f)'
      <3>1. Follows(f, m)
        BY <1>7 DEF Becomes
      <3>2. RecOK(m)
        BY DEF RecInv
      <3> QED BY <1>7, <3>1, <3>2 DEF Follows, RecOK, Current
    <2>2. net' \subseteq net \cup new
      BY <1>7 DEF Becomes
    <2> QED BY <1>1, <1>7, <2>1, <2>2
  <1>8. ASSUME NEW m \in net, Progress(m) \/ Sender_Timeout(m) PROVE RecInv'
    <2>1. UNCHANGED <<status, inc>>
      BY <1>8, MessagesLeave
    <2>2. CASE insert_Local(m)
      <3>1. net' \subseteq net
        BY <2>2 DEF insert_Local
      <3> QED BY <1>2, <2>1, <3>1
    <2>3. CASE processMessage(m.sendto, m)
      BY <1>7, <2>1, <2>3, Handled DEF HandledBy
    <2>4. CASE SendFails(m)
      BY <1>7, <2>1, <2>4, SenderFailed
    <2> QED BY <1>8, <2>2, <2>3, <2>4 DEF Progress, Sender_Down, Sender_Timeout
  <1> QED BY <1>3, <1>4, <1>5, <1>6, <1>8 DEF Next

LEMMA CursorStep ==
  ASSUME Basic, RecInv, CursorInv, Next
  PROVE  CursorInv'
  <1>0. /\ status \in [Nodes -> Status] /\ recoveryCursor \in [Nodes -> Table]
    BY DEF Basic, TypeOK, Table
  <1>1. SUFFICES ASSUME mixed' = {}, NEW p \in Nodes, NEW k \in Keys, status'[p] \in {"rec1", "rec2"}, recoveryCursor'[p][k] # <<>>
                 PROVE  p \in Replicas(k)
    BY DEF CursorInv
  <1>2. mixed = {}
    BY <1>1, MixedGrows
  <1>3. CASE status'[p] = status[p] /\ recoveryCursor'[p] = recoveryCursor[p]
    BY <1>1, <1>2, <1>3 DEF CursorInv
  <1>4. ASSUME NEW n \in Nodes, Call(n) \/ query_Return(n) \/ Receiver_Eof(n) PROVE p \in Replicas(k)
    BY <1>3, <1>4, CallsLeave
  <1>5. ASSUME NEW n \in Nodes, Crash(n) \/ onCreate(n) \/ join(n) PROVE p \in Replicas(k)
    <2>1. CASE p = n
      <3>1. status'[n] \in {"down", "boot", "joined"}
        BY <1>0, <1>5 DEF Crash, onCreate, join
      <3> QED BY <1>1, <2>1, <3>1
    <2>2. CASE p # n
      <3>1. status'[p] = status[p] /\ recoveryCursor'[p] = recoveryCursor[p]
        BY <1>0, <1>5, <2>2 DEF Crash, onCreate, join, Recovery
      <3> QED BY <1>3, <3>1
    <2> QED BY <2>1, <2>2
  <1>6. ASSUME NEW n \in Nodes, recover(n) \/ recover_Next(n) PROVE p \in Replicas(k)
    <2>1. recoveryCursor' = [recoveryCursor EXCEPT ![n] = Empty]
      BY <1>6 DEF recover, recover_Next
    <2>2. CASE p = n
      BY <1>0, <1>1, <2>1, <2>2, EmptyTable
    <2>3. CASE p # n
      <3>1. status'[p] = status[p] /\ recoveryCursor'[p] = recoveryCursor[p]
        BY <1>0, <1>6, <2>1, <2>3 DEF recover, recover_Next
      <3> QED BY <1>3, <3>1
    <2> QED BY <2>2, <2>3
  <1>7. ASSUME NEW m \in net, Progress(m) \/ Sender_Timeout(m) PROVE p \in Replicas(k)
    <2>1. UNCHANGED <<status, inc>>
      BY <1>7, MessagesLeave
    <2>2. CASE UNCHANGED recoveryCursor
      BY <1>3, <2>1, <2>2
    <2>3. CASE processRecovery_Result(m.sendto, m)
      <3>1. PICK n \in Nodes : n = m.sendto
        BY Fields DEF Basic, TypeOK
      <3>2. m.type = "recovery-result" /\ m.sender = n /\ m.result \subseteq Keys \X Values
        BY <2>3, <3>1 DEF processRecovery_Result, Basic, NetInv, MsgOK
      <3>3. recoveryCursor' = [recoveryCursor EXCEPT ![n] = CursorRows(@, m.result)]
        BY <2>3, <3>1 DEF processRecovery_Result
      <3>4. CASE p # n
        BY <1>0, <1>3, <2>1, <3>3, <3>4
      <3>5. CASE p = n
        <4>1. m.inc = inc[n]
          BY <1>1, <2>3, <3>1 DEF processRecovery_Result
        <4>2. status[n] \in {"rec1", "rec2"}
          BY <1>1, <2>1, <3>5
        <4>3. \A r \in m.result : n \in Replicas(r[1])
          BY <3>2, <4>1, <4>2 DEF RecInv, RecOK, Current, Early
        <4>4. CursorRows(recoveryCursor[n], m.result)[k] # <<>>
          BY <1>0, <1>1, <3>3, <3>5
        <4>5. recoveryCursor[n][k] # <<>> \/ \E r \in m.result : r[1] = k
          BY <1>0, <3>2, <4>4, CursorTable
        <4> QED BY <1>2, <3>5, <4>2, <4>3, <4>5 DEF CursorInv
      <3> QED BY <3>4, <3>5
    <2> QED BY <1>7, <2>2, <2>3
          DEF Progress, Sender_Timeout, Sender_Down, insert_Local, processMessage, processInsert, StopsAtBoot,
              processQuery_Star, processQuery_Key, processQuery_Result, TakeAnswer, processDelete, processRecovery, Recovery
  <1> QED BY <1>4, <1>5, <1>6, <1>7 DEF Next

LEMMA StoredStep ==
  ASSUME Basic, CursorInv, StoredOnlyOnReplicas, Next
  PROVE  StoredOnlyOnReplicas'
  <1>0. status \in [Nodes -> Status] /\ db \in [Nodes -> Table]
    BY DEF Basic, TypeOK, Table
  <1>1. SUFFICES ASSUME mixed' = {}, NEW p \in Nodes, NEW k \in Keys, db'[p][k] # <<>>
                 PROVE  p \in Replicas(k)
    BY DEF StoredOnlyOnReplicas
  <1>2. mixed = {}
    BY <1>1, MixedGrows
  <1>3. db[p][k] # <<>> => p \in Replicas(k)
    BY <1>2 DEF StoredOnlyOnReplicas
  <1>4. ASSUME NEW n \in Nodes, db' = [db EXCEPT ![n] = Empty] PROVE p \in Replicas(k)
    BY <1>0, <1>1, <1>3, <1>4, EmptyTable
  <1>5. ASSUME NEW n \in Nodes, NEW j \in Keys, NEW s, db' = [db EXCEPT ![n][j] = s], s # <<>> /\ s # db[n][j] => n \in Replicas(j)
        PROVE  p \in Replicas(k)
    <2>1. db'[p][k] = IF p = n /\ k = j THEN s ELSE db[p][k]
      BY <1>0, <1>5 DEF Table
    <2> QED BY <1>1, <1>3, <1>5, <2>1
  <1>6. ASSUME NEW n \in Nodes, Call(n) \/ query_Return(n) \/ Receiver_Eof(n) \/ Crash(n) \/ onCreate(n) \/ join(n) \/ recover(n)
        PROVE  p \in Replicas(k)
    <2>1. UNCHANGED db \/ db' = [db EXCEPT ![n] = Empty]
      BY <1>6 DEF Call, insert, delete_At, delete_Star, delete_Key, query_Local, query_Key, query_Star, Ask,
         query_Return, Receiver_Eof, Crash, onCreate, join, recover
    <2> QED BY <1>1, <1>3, <1>4, <2>1
  <1>7. ASSUME NEW n \in Nodes, recover_Next(n) PROVE p \in Replicas(k)
    <2>1. db' = [db EXCEPT ![n] = AddRows(@, Kept(n))] /\ status[n] \in {"rec1", "rec2", "rec3"}
      BY <1>7 DEF recover_Next
    <2>2. CASE p # n
      BY <1>0, <1>1, <1>3, <2>1, <2>2
    <2>3. CASE p = n
      <3>1. AddRows(db[n], Kept(n))[k] # <<>>
        BY <1>0, <1>1, <2>1, <2>3
      <3>2. db[n][k] # <<>> \/ Kept(n)[k] # <<>>
        BY <1>0, <3>1, AddTable, KeptTable DEF Basic
      <3>3. ASSUME Kept(n)[k] # <<>> PROVE n \in Replicas(k)
        <4>1. recoveryCursor[n][k] # <<>> /\ (status[n] = "rec3" => isMyPartiton(n, KeyHash[k]))
          BY <3>3, KeptTable DEF Basic
        <4>2. CASE status[n] = "rec3"
          BY <4>1, <4>2, Coordinator DEF Replicas
        <4>3. CASE status[n] \in {"rec1", "rec2"}
          BY <1>2, <4>1, <4>3 DEF CursorInv
        <4> QED BY <2>1, <4>2, <4>3
      <3> QED BY <1>3, <2>3, <3>2, <3>3
    <2> QED BY <2>2, <2>3
  <1>8. ASSUME NEW m \in net, Progress(m) \/ Sender_Timeout(m) PROVE p \in Replicas(k)
    <2>1. m \in Msg /\ MsgOK(m) /\ m.sendto \in Nodes /\ m.by \in Nodes /\ m.replica \in 0 .. 3
      BY Fields DEF Basic, TypeOK, NetInv
    <2>2. PICK n \in Nodes : n = m.sendto
      BY <2>1
    <2>3. CASE insert_Local(m)
      <3>1. m.key \in Keys /\ m.by = getNode(m.key)
        BY <2>1, <2>3 DEF MsgOK, insert_Local
      <3>2. m.by \in Replicas(m.key)
        BY <3>1 DEF Replicas
      <3> QED BY <1>5, <2>1, <2>3, <3>1, <3>2 DEF insert_Local
    <2>4. CASE processInsert(n, m)
      <3>1. CASE m.replica < 3
        <4>1. m.key \in Keys /\ n = Copy(m.key, m.replica) /\ m.replica \in 0 .. 2
          BY <2>1, <2>2, <2>4, <3>1 DEF MsgOK, processInsert
        <4>2. n \in Replicas(m.key)
          BY <4>1, Copies
        <4>3. db' = [db EXCEPT ![n][m.key] = Append(db[n][m.key], m.value)]
          BY <2>4, <3>1 DEF processInsert
        <4> QED BY <1>5, <4>1, <4>2, <4>3
      <3>2. CASE ~(m.replica < 3)
        BY <1>1, <1>3, <2>4, <3>2 DEF processInsert
      <3> QED BY <3>1, <3>2
    <2>5. CASE StopsAtBoot(n, m) \/ processDelete(n, m)
      <3>1. CASE UNCHANGED db
        BY <1>1, <1>3, <3>1
      <3>2. CASE db' = [db EXCEPT ![n] = Empty]
        BY <1>4, <3>2
      <3>3. CASE m.type = "del-k" /\ (db' = [db EXCEPT ![n][m.key] = <<>>] \/ db' = [db EXCEPT ![n][m.key] = IF m.replica > 0 THEN <<>> ELSE @])
        <4>1. m.key \in Keys
          BY <2>1, <3>3 DEF MsgOK
        <4> QED BY <1>5, <3>3, <4>1
      <3> QED BY <2>5, <3>1, <3>2, <3>3 DEF StopsAtBoot, processDelete
    <2>6. CASE UNCHANGED db
      BY <1>1, <1>3, <2>6
    <2> QED BY <1>8, <2>2, <2>3, <2>4, <2>5, <2>6
          DEF Progress, Sender_Timeout, Sender_Down, processMessage,
              processQuery_Star, processQuery_Key, processQuery_Result, TakeAnswer, processRecovery, processRecovery_Result
  <1> QED BY <1>6, <1>7, <1>8 DEF Next

\* A row is only ever on its coordinator and the two nodes after it: for any
\* ring, through forwarding (MessageProcessor.processInsert), retries at the
\* next node (Sender.run) and recovery, which copies whole tables
\* (SimpleDynamoProvider.recover), so long as no node took an answer meant
\* for an earlier start of it.
THEOREM OnlyOnReplicas == Spec => []StoredOnlyOnReplicas
  <1>1. Init => Basic /\ StoreInv
    <2>1. Init => RecInv /\ CursorInv /\ StoredOnlyOnReplicas
      BY EmptyTable DEF Init, RecInv, CursorInv, StoredOnlyOnReplicas
    <2> QED BY <2>1, BasicInit DEF StoreInv
  <1>2. Basic /\ StoreInv /\ [Next]_vars => Basic' /\ StoreInv'
    <2>1. CASE UNCHANGED vars
      BY <2>1, BasicStep DEF vars, StoreInv, RecInv, RecOK, Current, CursorInv, StoredOnlyOnReplicas
    <2> QED BY <2>1, BasicStep, RecStep, CursorStep, StoredStep DEF StoreInv
  <1>3. StoreInv => StoredOnlyOnReplicas
    BY DEF StoreInv
  <1> QED BY <1>1, <1>2, <1>3, PTL DEF Spec

-----------------------------------------------------------------------------
(* A query that returns has the answer to its question *)

\* The one question a waiting query has on its way.
MsgQ(m) ==
  m.type \in QueryTypes /\ Current(m) /\ m.sender \notin mixed /\ status[m.sender] # "down" =>
     /\ asked[m.sender] # None /\ ~isQueried[m.sender] /\ m.op = asked[m.sender][2]
     /\ m.type = "query-*" => asked[m.sender][1] = "*"
     /\ m.type # "query-*" => asked[m.sender][1] = m.key

AtMostOne == \A m1, m2 \in net :
  m1.type \in QueryTypes /\ m2.type \in QueryTypes /\ m1.op = m2.op => m1 = m2

\* The flag and the rows are those of the query that waits.
NodeQ(n) ==
  n \notin mixed =>
     /\ isQueried[n] => asked[n] # None
     /\ asked[n] # None /\ ~isQueried[n] => resultCursor[n] = {}
     /\ isQueried[n] /\ asked[n] # None /\ asked[n][1] \in Keys =>
           resultCursor[n] # {} /\ \A r \in resultCursor[n] : r[1] = asked[n][1]

QueryInv == (\A m \in net : MsgQ(m)) /\ AtMostOne /\ \A n \in Nodes : NodeQ(n)

LEMMA AskedBefore ==
  ASSUME Basic, NEW n \in Nodes, asked[n] # None
  PROVE  asked[n][1] \in Keys \cup {"*"} /\ asked[n][2] \in Nat /\ asked[n][2] # 0 /\ asked[n][2] <= calls /\ status[n] = "up"
  BY DynamoAssumption DEF Basic, TypeOK, StartInv, Values

LEMMA AtMostOneStep ==
  ASSUME Basic, AtMostOne, Next
  PROVE  AtMostOne'
  <1>0. calls \in Nat /\ \A m \in net : m.op \in Nat /\ m.op <= calls
    BY Fields, Numbers DEF Basic, TypeOK, NetInv, Past
  <1>1. ASSUME net' \subseteq net PROVE AtMostOne'
    BY <1>1 DEF AtMostOne
  <1>2. ASSUME NEW new, net' \subseteq net \cup new, \A f \in new : f.type \notin QueryTypes PROVE AtMostOne'
    BY <1>2 DEF AtMostOne
  <1>3. ASSUME NEW n \in Nodes, Call(n) \/ query_Return(n) \/ Receiver_Eof(n) \/ Crash(n) \/ onCreate(n) \/ join(n) \/ recover(n) \/ recover_Next(n)
        PROVE  AtMostOne'
    <2>1. CASE Quiet(n)
      BY <1>1, <2>1, QuietSends
    <2>2. CASE insert(n) \/ delete_Star(n) \/ delete_Key(n)
      <3>1. PICK new : net' = net \cup new /\ \A f \in new : Written(n, f)
        BY <2>2, InsertSends, DeleteSends
      <3> QED BY <1>2, <3>1 DEF Written, QueryTypes
    <2>3. CASE query_Key(n) \/ query_Star(n)
      <3>1. PICK f, what : Asked(n, what, f) /\ Ask(n, what, f)
        BY <2>3, QuerySends
      <3>2. net' = net \cup {f} /\ f.op = calls + 1
        BY <3>1 DEF Ask, Asked
      <3>3. \A m \in net : m.op # f.op
        BY <1>0, <3>2
      <3> QED BY <3>2, <3>3 DEF AtMostOne
    <2>4. CASE recover(n) \/ recover_Next(n)
      <3>1. PICK new : net' = net \cup new /\ \A f \in new : Requested(n, f)
        BY <2>4, RecoverSends
      <3> QED BY <1>2, <3>1 DEF Requested, QueryTypes
    <2> QED BY <1>3, <2>1, <2>2, <2>3, <2>4 DEF Call, Quiet
  <1>4. ASSUME NEW m \in net, NEW new, Becomes(m, new) PROVE AtMostOne'
    <2>1. CASE new = {}
      BY <1>1, <1>4, <2>1 DEF Becomes
    <2>2. ASSUME NEW f, new = {f}, Follows(f, m) PROVE AtMostOne'
      <3>1. net' = (net \ {m}) \cup {f}
        BY <1>4, <2>2 DEF Becomes
      <3>2. f.op = m.op /\ (f.type \in QueryTypes => m.type \in QueryTypes)
        BY <2>2 DEF Follows, QueryTypes
      <3> QED BY <3>1, <3>2 DEF AtMostOne
    <2> QED BY <1>4, <2>1, <2>2 DEF Becomes
  <1>5. ASSUME NEW m \in net, Progress(m) \/ Sender_Timeout(m) PROVE AtMostOne'
    <2>1. CASE insert_Local(m)
      <3>1. net' \subseteq net
        BY <2>1 DEF insert_Local
      <3> QED BY <1>1, <3>1
    <2>2. CASE processMessage(m.sendto, m)
      BY <1>4, <2>2, Handled DEF HandledBy
    <2>3. CASE SendFails(m)
      BY <1>4, <2>3, SenderFailed
    <2> QED BY <1>5, <2>1, <2>2, <2>3 DEF Progress, Sender_Down, Sender_Timeout
  <1> QED BY <1>3, <1>5 DEF Next

\* An answer that is not of an earlier start is the answer waited for.
LEMMA AnswerFits ==
  ASSUME Basic, QueryInv, NEW m \in net, NEW n \in Nodes, TakeAnswer(n, m), m.sendto = n, m.sender = n,
         m.type \in {"query-*", "query-result"}, status[n] # "down", n \notin mixed'
  PROVE  /\ n \notin mixed /\ Current(m) /\ asked[n] # None /\ ~isQueried[n] /\ m.op = asked[n][2] /\ resultCursor[n] = {}
         /\ \A m2 \in net : m2.type \in QueryTypes /\ Current(m2) /\ m2.sender = n => m2 = m
         /\ NodeQ(n)'
  <1>1. m.inc = inc[n] /\ n \notin mixed
    BY DEF TakeAnswer
  <1>2. /\ asked[n] # None /\ ~isQueried[n] /\ m.op = asked[n][2]
        /\ m.type = "query-*" => asked[n][1] = "*"
        /\ m.type # "query-*" => asked[n][1] = m.key
    BY <1>1 DEF QueryInv, MsgQ, Current, QueryTypes
  <1>3. resultCursor[n] = {}
    BY <1>1, <1>2 DEF QueryInv, NodeQ
  <1>4. ASSUME NEW m2 \in net, m2.type \in QueryTypes, Current(m2), m2.sender = n PROVE m2 = m
    <2>1. m2.op = asked[n][2]
      BY <1>1, <1>4 DEF QueryInv, MsgQ
    <2> QED BY <1>2, <1>4, <2>1 DEF QueryInv, AtMostOne, QueryTypes
  <1>5. resultCursor'[n] = m.result /\ asked'[n] = asked[n] /\ isQueried'[n] = TRUE
    <2>1. n \in DOMAIN resultCursor /\ n \in DOMAIN isQueried
      BY DEF Basic, TypeOK
    <2>2. resultCursor'[n] = resultCursor[n] \cup m.result /\ isQueried'[n] = TRUE /\ asked' = asked
      BY <2>1 DEF TakeAnswer
    <2> QED BY <1>3, <2>2
  <1>6. m.type = "query-result" => m.result # {} /\ \A r \in m.result : r[1] = m.key
    BY DEF Basic, NetInv, MsgOK
  <1>7. "*" \notin Keys
    BY DynamoAssumption
  <1>8. NodeQ(n)'
    BY <1>2, <1>5, <1>6, <1>7 DEF NodeQ
  <1> QED BY <1>1, <1>2, <1>3, <1>4, <1>8 DEF Current

\* Frames: what leaves a node's query alone keeps both parts for it.
QuerySame(n) == asked'[n] = asked[n] /\ isQueried'[n] = isQueried[n] /\ resultCursor'[n] = resultCursor[n]

LEMMA NodeQKept ==
  ASSUME Next, NEW n, NodeQ(n), QuerySame(n)
  PROVE  NodeQ(n)'
  BY MixedGrows DEF NodeQ, QuerySame

LEMMA MsgQKept ==
  ASSUME Next, NEW m, MsgQ(m), QuerySame(m.sender), inc'[m.sender] = inc[m.sender],
         status'[m.sender] # "down" => status[m.sender] # "down"
  PROVE  MsgQ(m)'
  BY MixedGrows DEF MsgQ, QuerySame, Current

LEMMA QueryStep ==
  ASSUME Basic, QueryInv, Next
  PROVE  QueryInv'
  <1>0. /\ status \in [Nodes -> Status] /\ inc \in [Nodes -> 0 .. MaxCrashes] /\ DOMAIN asked = Nodes
        /\ isQueried \in [Nodes -> BOOLEAN] /\ DOMAIN resultCursor = Nodes
        /\ \A m \in net : m.sender \in Nodes
    BY Fields DEF Basic, TypeOK
  <1>1. AtMostOne'
    BY AtMostOneStep DEF QueryInv
  <1>2. SUFFICES (\A m \in net' : MsgQ(m)') /\ (\A n \in Nodes : NodeQ(n)')
    BY <1>1 DEF QueryInv
  <1> DEFINE G == (\A m \in net' : MsgQ(m)') /\ (\A n \in Nodes : NodeQ(n)')
  <1> HIDE DEF G
  \* A step that touches no query.
  <1>3. ASSUME NEW new, net' \subseteq net \cup new, UNCHANGED <<Query, inc>>,
               \A n \in Nodes : status'[n] # "down" => status[n] # "down",
               \A f \in new : MsgQ(f)'
        PROVE  G
    <2>1. \A n \in Nodes : QuerySame(n)
      BY <1>3 DEF Query, QuerySame
    <2>2. \A m \in net : MsgQ(m)'
      <3>1. ASSUME NEW m \in net PROVE MsgQ(m)'
        <4>1. MsgQ(m) /\ m.sender \in Nodes
          BY <1>0 DEF QueryInv
        <4> QED BY <1>3, <2>1, <4>1, MsgQKept
      <3> QED BY <3>1
    <2> QED BY <1>3, <2>1, <2>2, NodeQKept DEF QueryInv, G
  <1>4. ASSUME net' \subseteq net, UNCHANGED <<Query, inc>>, \A n \in Nodes : status'[n] # "down" => status[n] # "down"
        PROVE  G
    <2>1. PICK new : new = {}
      OBVIOUS
    <2>2. net' \subseteq net \cup new /\ \A f \in new : FALSE
      BY <1>4, <2>1
    <2> QED BY <1>3, <1>4, <2>2
  \* A step that touches the query of one node alone.
  <1>5. ASSUME NEW n \in Nodes, NEW new, net' \subseteq net \cup new, inc' = inc,
               \A p \in Nodes : status'[p] # "down" => status[p] # "down",
               \A p \in Nodes \ {n} : QuerySame(p), NodeQ(n)',
               \A m \in net' : m \in new \/ m.sender = n => MsgQ(m)'
        PROVE  G
    <2>1. \A m \in net' : MsgQ(m)'
      <3>1. ASSUME NEW m \in net, m.sender # n PROVE MsgQ(m)'
        <4>1. MsgQ(m) /\ m.sender \in Nodes \ {n}
          BY <1>0, <3>1 DEF QueryInv
        <4> QED BY <1>5, <4>1, MsgQKept
      <3> QED BY <1>5, <3>1
    <2> QED BY <1>5, <2>1, NodeQKept DEF QueryInv, G
  <1>6. ASSUME NEW n \in Nodes, insert(n) \/ delete_At(n) \/ delete_Star(n) \/ delete_Key(n) \/ Receiver_Eof(n) PROVE G
    <2>1. UNCHANGED <<Query, inc, status>>
      BY <1>6 DEF insert, delete_At, delete_Star, delete_Key, Receiver_Eof
    <2>2. CASE delete_At(n) \/ Receiver_Eof(n)
      <3>1. net' \subseteq net
        BY <2>2 DEF delete_At, Receiver_Eof
      <3> QED BY <1>4, <2>1, <3>1
    <2>3. CASE insert(n) \/ delete_Star(n) \/ delete_Key(n)
      <3>1. PICK new : net' = net \cup new /\ \A f \in new : Written(n, f)
        BY <2>3, InsertSends, DeleteSends
      <3>2. \A f \in new : MsgQ(f)'
        BY <3>1 DEF Written, MsgQ, QueryTypes
      <3> QED BY <1>3, <2>1, <3>1, <3>2
    <2> QED BY <1>6, <2>2, <2>3
  <1>7. ASSUME NEW n \in Nodes, asked[n] = None, status[n] = "up", NEW m \in net, m.sender = n, m.type \in QueryTypes, Current(m)
        PROVE  n \in mixed
    BY <1>7 DEF QueryInv, MsgQ
  <1>8. ASSUME NEW n \in Nodes, query_Local(n) PROVE G
    <2>1. /\ asked[n] = None /\ status[n] = "up" /\ net' = net /\ UNCHANGED <<asked, isQueried, inc, status, mixed>>
          /\ resultCursor' = [resultCursor EXCEPT ![n] = {}]
      BY <1>8 DEF query_Local, CanCall, NoHistory
    <2>2. \A p \in Nodes \ {n} : QuerySame(p)
      BY <1>0, <2>1 DEF QuerySame
    <2>3. NodeQ(n)'
      BY <1>0, <2>1 DEF NodeQ, QueryInv
    <2>4. \A m \in net' : m.sender = n => MsgQ(m)'
      BY <1>7, <2>1 DEF MsgQ, Current
    <2>5. PICK new : new = {}
      OBVIOUS
    <2>6. net' \subseteq net \cup new /\ \A f : f \notin new
      BY <2>1, <2>5
    <2> QED BY <1>5, <2>1, <2>2, <2>3, <2>4, <2>6
  <1>9. ASSUME NEW n \in Nodes, query_Key(n) \/ query_Star(n) PROVE G
    <2>1. PICK f, what : what \in Keys \cup {"*"} /\ Asked(n, what, f) /\ Ask(n, what, f)
      BY <1>9, QuerySends
    <2>2. /\ asked[n] = None /\ status[n] = "up" /\ net' = net \cup {f} /\ UNCHANGED <<isQueried, inc, status, mixed>>
          /\ resultCursor' = [resultCursor EXCEPT ![n] = {}] /\ asked' = [asked EXCEPT ![n] = <<what, calls + 1>>]
      BY <2>1 DEF Ask, CanCall, NoHistory
    <2>3. \A p \in Nodes \ {n} : QuerySame(p)
      BY <1>0, <2>2 DEF QuerySame
    <2>4. /\ asked'[n] = <<what, calls + 1>> /\ resultCursor'[n] = {}
          /\ n \notin mixed => ~isQueried'[n]
      BY <1>0, <2>2 DEF QueryInv, NodeQ
    <2>5. asked'[n] # None
      BY <2>1, <2>4, Numbers, DynamoAssumption DEF Ask, CanCall, Basic
    <2>6. NodeQ(n)'
      BY <2>2, <2>4, <2>5 DEF NodeQ
    <2>7. MsgQ(f)'
      BY <2>1, <2>2, <2>4, <2>5 DEF Asked, MsgQ, Current, QueryTypes
    <2>8. \A m \in net : m.sender = n => MsgQ(m)'
      BY <1>7, <2>2 DEF MsgQ, Current
    <2>9. PICK new : new = {f}
      OBVIOUS
    <2>10. net' \subseteq net \cup new /\ \A m \in net' : m \in new \/ m.sender = n => MsgQ(m)'
      BY <2>2, <2>7, <2>8, <2>9
    <2> QED BY <1>5, <2>2, <2>3, <2>6, <2>10
  <1>10. ASSUME NEW n \in Nodes, query_Return(n) PROVE G
    <2>1. /\ asked[n] # None /\ isQueried[n] /\ net' = net /\ UNCHANGED <<resultCursor, inc, status, mixed>>
          /\ asked' = [asked EXCEPT ![n] = None] /\ isQueried' = [isQueried EXCEPT ![n] = FALSE]
      BY <1>10 DEF query_Return, NoHistory, Same
    <2>2. \A p \in Nodes \ {n} : QuerySame(p)
      BY <1>0, <2>1 DEF QuerySame
    <2>3. NodeQ(n)'
      BY <1>0, <2>1 DEF NodeQ
    <2>4. \A m \in net : m.sender = n => MsgQ(m)'
      BY <2>1 DEF QueryInv, MsgQ, Current
    <2>5. PICK new : new = {}
      OBVIOUS
    <2>6. net' \subseteq net \cup new /\ \A f : f \notin new
      BY <2>1, <2>5
    <2> QED BY <1>5, <2>1, <2>2, <2>3, <2>4, <2>6
  <1>11. ASSUME NEW n \in Nodes, Crash(n) PROVE G
    <2>1. /\ net' \subseteq net /\ inc' = inc
          /\ asked' = [asked EXCEPT ![n] = None] /\ isQueried' = [isQueried EXCEPT ![n] = FALSE]
          /\ resultCursor' = [resultCursor EXCEPT ![n] = {}] /\ status' = [status EXCEPT ![n] = "down"]
      BY <1>11 DEF Crash, Same
    <2>2. \A p \in Nodes \ {n} : QuerySame(p)
      BY <1>0, <2>1 DEF QuerySame
    <2>3. NodeQ(n)'
      BY <1>0, <2>1 DEF NodeQ
    <2>4. (\A p \in Nodes : status'[p] # "down" => status[p] # "down") /\ status'[n] = "down"
      BY <1>0, <2>1
    <2>5. \A m \in net : m.sender = n => MsgQ(m)'
      BY <2>4 DEF MsgQ
    <2>6. PICK new : new = {}
      OBVIOUS
    <2>7. net' \subseteq net \cup new /\ \A f : f \notin new
      BY <2>1, <2>6
    <2> QED BY <1>5, <2>1, <2>2, <2>3, <2>4, <2>5, <2>7
  <1>12. ASSUME NEW n \in Nodes, onCreate(n) PROVE G
    <2>1. net' = net /\ inc' = [inc EXCEPT ![n] = @ + 1] /\ UNCHANGED Query /\ status' = [status EXCEPT ![n] = "boot"]
      BY <1>12 DEF onCreate
    <2>2. \A p \in Nodes : QuerySame(p)
      BY <2>1 DEF Query, QuerySame
    <2>3. ASSUME NEW m \in net PROVE MsgQ(m)'
      <3>1. CASE m.sender = n
        <4>1. m.inc \in Nat /\ m.inc <= inc[n]
          BY <3>1, Fields, DynamoAssumption DEF Basic, TypeOK, NetInv, Past
        <4>2. inc'[m.sender] = inc[n] + 1 /\ inc[n] \in Nat
          BY <1>0, <2>1, <3>1, DynamoAssumption
        <4>3. m.inc # inc'[m.sender]
          BY <4>1, <4>2
        <4> QED BY <4>3 DEF MsgQ, Current
      <3>2. CASE m.sender # n
        <4>1. inc'[m.sender] = inc[m.sender] /\ status'[m.sender] = status[m.sender]
          BY <1>0, <2>1, <3>2
        <4>2. MsgQ(m) /\ QuerySame(m.sender)
          BY <1>0, <2>2 DEF QueryInv
        <4> QED BY <4>1, <4>2, MsgQKept
      <3> QED BY <3>1, <3>2
    <2> QED BY <2>1, <2>2, <2>3, NodeQKept DEF G, QueryInv
  <1>13. ASSUME NEW n \in Nodes, join(n) PROVE G
    <2>1. /\ net' = net /\ UNCHANGED <<asked, resultCursor, inc>> /\ status[n] = "boot" /\ status' = [status EXCEPT ![n] = "joined"]
          /\ isQueried' = isQueried \/ isQueried' = [isQueried EXCEPT ![n] = FALSE]
      BY <1>13 DEF join, Same
    <2>2. \A p \in Nodes \ {n} : QuerySame(p)
      BY <1>0, <2>1 DEF QuerySame
    <2>3. asked[n] = None
      BY <2>1 DEF Basic, StartInv
    <2>4. NodeQ(n)'
      BY <1>0, <2>1, <2>3, MixedGrows DEF NodeQ, QueryInv
    <2>5. \A p \in Nodes : status'[p] # "down" => status[p] # "down"
      BY <1>0, <2>1
    <2>6. \A m \in net : m.sender = n => MsgQ(m)'
      BY <2>1, <2>3, MixedGrows DEF QueryInv, MsgQ, Current
    <2>7. PICK new : new = {}
      OBVIOUS
    <2>8. net' \subseteq net \cup new /\ \A f : f \notin new
      BY <2>1, <2>7
    <2> QED BY <1>5, <2>1, <2>2, <2>4, <2>5, <2>6, <2>8
  <1>14. ASSUME NEW n \in Nodes, recover(n) \/ recover_Next(n) PROVE G
    <2>1. PICK new : net' = net \cup new /\ \A f \in new : Requested(n, f)
      BY <1>14, RecoverSends
    <2>2. \A f \in new : MsgQ(f)'
      BY <2>1 DEF Requested, MsgQ, QueryTypes
    <2>3. UNCHANGED <<Query, inc>> /\ status[n] # "down"
      BY <1>14 DEF recover, recover_Next, Same
    <2>4. \E s : status' = [status EXCEPT ![n] = s]
      BY <1>14 DEF recover, recover_Next
    <2>5. \A p \in Nodes : status'[p] # "down" => status[p] # "down"
      BY <1>0, <2>3, <2>4
    <2> QED BY <1>3, <2>1, <2>2, <2>3, <2>5
  <1>15. ASSUME NEW m \in net, NEW new, Becomes(m, new), UNCHANGED <<Query, status, inc>> PROVE G
    <2>1. ASSUME NEW f \in new PROVE MsgQ(f)'
      <3>1. Follows(f, m)
        BY <1>15 DEF Becomes
      <3>2. MsgQ(m) /\ m.sender \in Nodes
        BY <1>0 DEF QueryInv
      <3> QED BY <1>15, <3>1, <3>2, MixedGrows DEF Follows, MsgQ, Current, QueryTypes, Query
    <2>2. net' \subseteq net \cup new
      BY <1>15 DEF Becomes
    <2> QED BY <1>3, <1>15, <2>1, <2>2
  <1>16. ASSUME NEW m \in net, NEW n \in Nodes, n = m.sendto, m.sender = n, TakeAnswer(n, m),
                m.type \in {"query-*", "query-result"}, status[n] # "down"
         PROVE  G
    <2>1. /\ net' = net \ {m} /\ UNCHANGED <<asked, inc, status>>
          /\ \A p \in Nodes \ {n} : QuerySame(p)
      BY <1>0, <1>16 DEF TakeAnswer, Handles, Same, QuerySame
    <2>2. CASE n \in mixed'
      <3>1. NodeQ(n)' /\ \A x : x.sender = n => MsgQ(x)'
        BY <2>2 DEF NodeQ, MsgQ
      <3>2. PICK new : new = {}
        OBVIOUS
      <3>3. net' \subseteq net \cup new /\ \A f : f \notin new
        BY <2>1, <3>2
      <3> QED BY <1>5, <2>1, <3>1, <3>3
    <2>3. CASE n \notin mixed'
      <3>1. /\ \A m2 \in net : m2.type \in QueryTypes /\ Current(m2) /\ m2.sender = n => m2 = m
            /\ NodeQ(n)'
        BY <1>16, <2>3, AnswerFits
      <3>2. \A x \in net' : x.sender = n => MsgQ(x)'
        BY <2>1, <3>1 DEF MsgQ, Current
      <3>3. PICK new : new = {}
        OBVIOUS
      <3>4. net' \subseteq net \cup new /\ \A f : f \notin new
        BY <2>1, <3>3
      <3> QED BY <1>5, <2>1, <3>1, <3>2, <3>4
    <2> QED BY <2>2, <2>3
  <1>17. ASSUME NEW m \in net, Progress(m) \/ Sender_Timeout(m) PROVE G
    <2>1. UNCHANGED <<status, inc>>
      BY <1>17, MessagesLeave
    <2>2. PICK n \in Nodes : n = m.sendto
      BY Fields DEF Basic, TypeOK
    <2>3. CASE insert_Local(m)
      <3>1. net' \subseteq net /\ UNCHANGED Query
        BY <2>3 DEF insert_Local
      <3> QED BY <1>4, <2>1, <3>1
    <2>4. CASE processQuery_Star(n, m) /\ m.sender = n
      BY <1>16, <2>2, <2>4 DEF processQuery_Star, Ready
    <2>5. CASE processQuery_Result(n, m)
      <3>1. m.sender = n
        BY <2>2, <2>5 DEF processQuery_Result, Basic, NetInv, MsgOK
      <3> QED BY <1>16, <2>2, <2>5, <3>1 DEF processQuery_Result
    <2>6. CASE processMessage(n, m) /\ ~(processQuery_Star(n, m) /\ m.sender = n) /\ ~processQuery_Result(n, m)
      <3>1. UNCHANGED Query
        BY <2>6 DEF processMessage, processInsert, StopsAtBoot, processQuery_Star, processQuery_Key, processDelete,
                    processRecovery, processRecovery_Result
      <3>2. \E new : Becomes(m, new)
        BY <2>2, <2>6, Handled DEF HandledBy
      <3> QED BY <1>15, <2>1, <3>1, <3>2
    <2>7. CASE Sender_Down(m) \/ Sender_Timeout(m)
      <3>1. UNCHANGED Query /\ SendFails(m)
        BY <2>7 DEF Sender_Down, Sender_Timeout
      <3>2. \E new : Becomes(m, new)
        BY <3>1, SenderFailed
      <3> QED BY <1>15, <2>1, <3>1, <3>2
    <2> QED BY <1>17, <2>2, <2>3, <2>4, <2>5, <2>6, <2>7 DEF Progress
  <1>18. G
    BY <1>6, <1>8, <1>9, <1>10, <1>11, <1>12, <1>13, <1>14, <1>17 DEF Next, Call
  <1> QED BY <1>18 DEF G

\* A query that returns (SimpleDynamoProvider.query, after its loop) has a
\* row, and only rows, of the key it asked for: messages carry no number
\* that ties an answer to its query, and the answer still is its own, unless
\* the node took one meant for an earlier start of it.
THEOREM QueriesAnswered == Spec => []AnswersTheQuestion
  <1>1. Init => Basic /\ QueryInv
    <2>1. Init => QueryInv
      BY DEF Init, QueryInv, AtMostOne, NodeQ
    <2> QED BY <2>1, BasicInit
  <1>2. Basic /\ QueryInv /\ [Next]_vars => Basic' /\ QueryInv'
    <2>1. CASE UNCHANGED vars
      BY <2>1, BasicStep DEF vars, QueryInv, MsgQ, Current, AtMostOne, NodeQ
    <2> QED BY <2>1, BasicStep, QueryStep
  <1>3. QueryInv => AnswersTheQuestion
    BY DEF QueryInv, NodeQ, AnswersTheQuestion
  <1> QED BY <1>1, <1>2, <1>3, PTL DEF Spec

-----------------------------------------------------------------------------
(* No waiter is forgotten *)

\* The messages that bear the number of a waiting query are that query's.
Owner == \A m \in net, n \in Nodes :
  asked[n] # None /\ m.op = asked[n][2] => m.sender = n /\ m.type \in QueryTypes

WaitInv == Owner /\ NoWaiterForgotten

LEMMA OwnerStep ==
  ASSUME Basic, Owner, Next
  PROVE  Owner'
  <1>0. /\ DOMAIN asked = Nodes /\ calls \in Nat /\ \A m \in net : m.op \in Nat /\ m.op <= calls
    BY Fields, Numbers DEF Basic, TypeOK, NetInv, Past
  <1>1. \A n \in Nodes : asked[n] # None => asked[n][2] \in Nat /\ asked[n][2] # 0 /\ asked[n][2] <= calls
    BY AskedBefore
  <1>2. ASSUME NEW new, net' \subseteq net \cup new, \A n \in Nodes : asked'[n] = None \/ asked'[n] = asked[n],
               \A f \in new, n \in Nodes : asked[n] # None /\ f.op = asked[n][2] => f.sender = n /\ f.type \in QueryTypes
        PROVE  Owner'
    BY <1>2 DEF Owner
  <1>3. ASSUME net' \subseteq net, \A n \in Nodes : asked'[n] = None \/ asked'[n] = asked[n]
        PROVE  Owner'
    BY <1>3 DEF Owner
  <1>4. ASSUME NEW n \in Nodes, Quiet(n) PROVE Owner'
    <2>1. asked' = asked \/ asked' = [asked EXCEPT ![n] = None]
      BY <1>4 DEF Quiet, delete_At, query_Local, query_Return, Receiver_Eof, Crash, onCreate, join, Query
    <2> QED BY <1>0, <1>3, <1>4, <2>1, QuietSends
  <1>5. ASSUME NEW n \in Nodes, insert(n) \/ delete_Star(n) \/ delete_Key(n) PROVE Owner'
    <2>1. PICK new : net' = net \cup new /\ \A f \in new : Written(n, f)
      BY <1>5, InsertSends, DeleteSends
    <2>2. \A f \in new : f.op = calls + 1
      BY <2>1 DEF Written
    <2>3. \A f \in new, p \in Nodes : asked[p] # None => f.op # asked[p][2]
      BY <1>0, <1>1, <2>2
    <2>4. UNCHANGED asked
      BY <1>5 DEF insert, delete_Star, delete_Key, Query
    <2> QED BY <1>2, <2>1, <2>3, <2>4
  <1>6. ASSUME NEW n \in Nodes, query_Key(n) \/ query_Star(n) PROVE Owner'
    <2>1. PICK f, what : Asked(n, what, f) /\ Ask(n, what, f)
      BY <1>6, QuerySends
    <2>2. /\ net' = net \cup {f} /\ asked' = [asked EXCEPT ![n] = <<what, calls + 1>>]
          /\ f.op = calls + 1 /\ f.sender = n /\ f.type \in QueryTypes
      BY <2>1 DEF Ask, Asked, QueryTypes
    <2>3. \A p \in Nodes \ {n} : asked'[p] = asked[p]
      BY <1>0, <2>2
    <2>4. asked'[n][2] = calls + 1
      BY <1>0, <2>2
    <2>5. \A m \in net : m.op # calls + 1
      BY <1>0
    <2>6. \A p \in Nodes : asked[p] # None => asked[p][2] # calls + 1
      BY <1>0, <1>1
    <2> QED BY <2>2, <2>3, <2>4, <2>5, <2>6 DEF Owner
  <1>7. ASSUME NEW n \in Nodes, recover(n) \/ recover_Next(n) PROVE Owner'
    <2>1. PICK new : net' = net \cup new /\ \A f \in new : Requested(n, f)
      BY <1>7, RecoverSends
    <2>2. \A f \in new, p \in Nodes : asked[p] # None => f.op # asked[p][2]
      BY <1>1, <2>1 DEF Requested
    <2>3. UNCHANGED asked
      BY <1>7 DEF recover, recover_Next, Query
    <2> QED BY <1>2, <2>1, <2>2, <2>3
  <1>8. ASSUME NEW m \in net, NEW new, Becomes(m, new), UNCHANGED asked PROVE Owner'
    <2>1. ASSUME NEW f \in new, NEW n \in Nodes, asked[n] # None, f.op = asked[n][2]
          PROVE  f.sender = n /\ f.type \in QueryTypes
      <3>1. Follows(f, m)
        BY <1>8 DEF Becomes
      <3>2. m.sender = n /\ m.type \in QueryTypes
        BY <2>1, <3>1 DEF Owner, Follows
      <3> QED BY <3>1, <3>2 DEF Follows, QueryTypes
    <2>2. net' \subseteq net \cup new
      BY <1>8 DEF Becomes
    <2> QED BY <1>2, <1>8, <2>1, <2>2
  <1>9. ASSUME NEW m \in net, Progress(m) \/ Sender_Timeout(m) PROVE Owner'
    <2>1. UNCHANGED asked
      BY <1>9, MessagesLeave
    <2>2. CASE insert_Local(m)
      <3>1. net' \subseteq net
        BY <2>2 DEF insert_Local
      <3> QED BY <1>3, <2>1, <3>1
    <2>3. CASE processMessage(m.sendto, m)
      BY <1>8, <2>1, <2>3, Handled DEF HandledBy
    <2>4. CASE SendFails(m)
      BY <1>8, <2>1, <2>4, SenderFailed
    <2> QED BY <1>9, <2>2, <2>3, <2>4 DEF Progress, Sender_Down, Sender_Timeout
  <1> QED BY <1>4, <1>5, <1>6, <1>7, <1>9 DEF Next, Call, Quiet

\* The request or answer m is not lost from sight: it is sent on, it is
\* counted among those that came to nothing, or its waiter is told.
Carried(m) ==
  \/ \E f \in net' : f.op = m.op /\ f.sender = m.sender /\ f.inc = m.inc
  \/ Id(m) \in vanished'
  \/ m.type \in QueryTypes /\ isQueried'[m.sender]
  \/ m.type \in RecoveryTypes /\ recovery'[m.sender]

LEMMA VanishedGrows ==
  ASSUME Next
  PROVE  vanished \subseteq vanished'
  <1>1. ASSUME NEW n \in Nodes, Call(n) PROVE vanished' = vanished
    BY <1>1 DEF Call, insert, delete_At, delete_Star, delete_Key, query_Local, query_Key, query_Star, Ask, NewWrite, NoHistory
  <1>2. ASSUME NEW n \in Nodes, query_Return(n) \/ Receiver_Eof(n) \/ Crash(n) \/ onCreate(n) \/ join(n) \/ recover(n) \/ recover_Next(n)
        PROVE  vanished \subseteq vanished'
    BY <1>2 DEF query_Return, Receiver_Eof, Crash, onCreate, join, recover, recover_Next, NoHistory, Gone
  <1>3. ASSUME NEW m \in net, Progress(m) \/ Sender_Timeout(m) PROVE vanished \subseteq vanished'
    BY <1>3 DEF Progress, Sender_Timeout, Sender_Down, insert_Local, processMessage, processInsert, StopsAtBoot,
           processQuery_Star, processQuery_Key, processQuery_Result, TakeAnswer, processDelete, processRecovery,
           processRecovery_Result, NoHistory, Gone
  <1> QED BY <1>1, <1>2, <1>3 DEF Next

LEMMA CarriedOn ==
  ASSUME Basic, Next, NEW m \in net, m.type \in QueryTypes \cup RecoveryTypes
  PROVE  Carried(m)
  <1>0. /\ m \in Msg /\ MsgOK(m) /\ m.sender \in Nodes /\ m.sendto \in Nodes
        /\ DOMAIN isQueried = Nodes /\ DOMAIN recovery = Nodes
        /\ m.type # "insert" /\ m.type # "local" /\ m.type # "del-*" /\ m.type # "del-k"
    BY Fields DEF Basic, TypeOK, NetInv, QueryTypes, RecoveryTypes
  <1>1. CASE m \in net'
    BY <1>1 DEF Carried
  <1>2. ASSUME NEW ms, m \in ms, Gone(ms) PROVE Carried(m)
    BY <1>2 DEF Gone, Carried
  <1>3. ASSUME NEW n \in Nodes, Call(n) \/ query_Return(n) \/ onCreate(n) \/ join(n) \/ recover(n) \/ recover_Next(n) PROVE Carried(m)
    <2>1. m \in net'
      BY <1>3 DEF Call, insert, delete_At, delete_Star, delete_Key, query_Local, query_Key, query_Star, Ask,
                  query_Return, onCreate, join, recover, recover_Next
    <2> QED BY <1>1, <2>1
  <1>4. ASSUME NEW n \in Nodes, Receiver_Eof(n) PROVE Carried(m)
    <2>1. PICK ms : net' = net \ ms /\ Gone(ms)
      BY <1>4 DEF Receiver_Eof
    <2> QED BY <1>1, <1>2, <2>1
  <1>5. ASSUME NEW n \in Nodes, Crash(n) PROVE Carried(m)
    <2>1. PICK ms : net' = net \ ms /\ Gone({x \in ms : ~Spent(x)})
      BY <1>5 DEF Crash
    <2>2. ~Spent(m)
      BY <1>0 DEF Spent
    <2> QED BY <1>1, <1>2, <2>1, <2>2
  <1>6. ASSUME NEW x \in net, NEW new, Becomes(x, new), new # {} PROVE Carried(m)
    <2>1. PICK f : new = {f} /\ Follows(f, x)
      BY <1>6 DEF Becomes
    <2>2. CASE x = m
      <3>1. f \in net' /\ f.op = m.op /\ f.sender = m.sender /\ f.inc = m.inc
        BY <1>6, <2>1, <2>2 DEF Becomes, Follows
      <3> QED BY <3>1 DEF Carried
    <2>3. CASE x # m
      BY <1>1, <1>6, <2>3 DEF Becomes
    <2> QED BY <2>2, <2>3
  <1>7. ASSUME NEW x \in net, Progress(x) \/ Sender_Timeout(x) PROVE Carried(m)
    <2>1. CASE x # m
      <3>1. CASE insert_Local(x)
        BY <1>1, <2>1, <3>1 DEF insert_Local
      <3>2. ASSUME NEW new, Becomes(x, new) PROVE Carried(m)
        BY <1>1, <2>1, <3>2 DEF Becomes
      <3>3. CASE processMessage(x.sendto, x)
        BY <3>2, <3>3, Handled DEF HandledBy
      <3>4. CASE SendFails(x)
        BY <3>2, <3>4, SenderFailed
      <3> QED BY <1>7, <3>1, <3>3, <3>4 DEF Progress, Sender_Down, Sender_Timeout
    <2>2. CASE x = m
      <3>1. PICK n \in Nodes : n = m.sendto
        BY <1>0
      <3>2. ASSUME Gone({m}) PROVE Carried(m)
        <4>1. PICK ms : ms = {m}
          OBVIOUS
        <4> QED BY <1>2, <3>2, <4>1
      <3>3. CASE Sender_Down(m) \/ Sender_Timeout(m)
        <4>1. SendFails(m) /\ (Retries(m) = {} /\ ~Spent(m) => Gone({m}))
          BY <3>3 DEF Sender_Down, Sender_Timeout
        <4>2. ~Spent(m)
          BY <1>0 DEF Spent
        <4>3. Becomes(m, Retries(m))
          BY <4>1, SenderFailed
        <4> QED BY <1>6, <3>2, <4>1, <4>2, <4>3
      <3>4. CASE processMessage(n, m)
        <4>1. PICK new : Becomes(m, new) /\ (new = {} => Ended(n, m))
          BY <3>1, <3>4, Handled DEF HandledBy
        <4>2. CASE new # {}
          BY <1>6, <4>1, <4>2
        <4>3. CASE TakeAnswer(n, m) /\ m.type \in QueryTypes /\ m.sender = n
          <5>1. isQueried'[n]
            BY <1>0, <4>3 DEF TakeAnswer
          <5> QED BY <4>3, <5>1 DEF Carried
        <4>4. CASE processRecovery_Result(n, m)
          <5>1. m.type \in RecoveryTypes /\ recovery'[n] /\ m.sender = n
            BY <1>0, <3>1, <4>4 DEF processRecovery_Result, RecoveryTypes, MsgOK
          <5> QED BY <5>1 DEF Carried
        <4> QED BY <3>2, <4>1, <4>2, <4>3, <4>4 DEF Ended
      <3>5. ~insert_Local(m)
        BY <1>0 DEF insert_Local
      <3> QED BY <1>7, <2>2, <3>1, <3>3, <3>4, <3>5 DEF Progress
    <2> QED BY <2>1, <2>2
  <1> QED BY <1>3, <1>4, <1>5, <1>7 DEF Next

LEMMA WaitStep ==
  ASSUME Basic, WaitInv, Next
  PROVE  NoWaiterForgotten'
  <1>0. /\ DOMAIN asked = Nodes /\ isQueried \in [Nodes -> BOOLEAN] /\ recovery \in [Nodes -> BOOLEAN]
        /\ status \in [Nodes -> Status] /\ DOMAIN inc = Nodes
    BY DEF Basic, TypeOK
  <1>1. ASSUME NEW n \in Nodes, asked'[n] # None
        PROVE  \/ isQueried'[n]
               \/ \E m \in net' : m.op = asked'[n][2]
               \/ \E v \in vanished' : v[1] = asked'[n][2]
    <2>1. ASSUME asked'[n] = asked[n], isQueried[n] => isQueried'[n]
          PROVE  \/ isQueried'[n]
                 \/ \E m \in net' : m.op = asked'[n][2]
                 \/ \E v \in vanished' : v[1] = asked'[n][2]
      <3>1. \/ isQueried[n]
            \/ \E m \in net : m.op = asked[n][2]
            \/ \E v \in vanished : v[1] = asked[n][2]
        BY <1>1, <2>1 DEF WaitInv, NoWaiterForgotten
      <3>2. ASSUME NEW m \in net, m.op = asked[n][2]
            PROVE  \/ isQueried'[n]
                   \/ \E f \in net' : f.op = asked'[n][2]
                   \/ \E v \in vanished' : v[1] = asked'[n][2]
        <4>1. m.sender = n /\ m.type \in QueryTypes /\ m.type \notin RecoveryTypes
          BY <1>1, <2>1, <3>2 DEF WaitInv, Owner, QueryTypes, RecoveryTypes
        <4>2. Carried(m)
          BY <4>1, CarriedOn
        <4>3. Id(m)[1] = m.op
          BY DEF Id
        <4> QED BY <2>1, <3>2, <4>1, <4>2, <4>3 DEF Carried
      <3> QED BY <2>1, <3>1, <3>2, VanishedGrows
    <2>2. ASSUME NEW p \in Nodes, Call(p)
          PROVE (asked'[n] = asked[n] /\ isQueried'[n] = isQueried[n]) \/ \E m \in net' : m.op = asked'[n][2]
      <3>1. CASE query_Key(p) \/ query_Star(p)
        <4>1. PICK f, what : Asked(p, what, f) /\ Ask(p, what, f)
          BY <3>1, QuerySends
        <4>2. f \in net' /\ f.op = calls + 1 /\ asked' = [asked EXCEPT ![p] = <<what, calls + 1>>] /\ isQueried' = isQueried
          BY <4>1 DEF Ask, Asked
        <4> QED BY <1>0, <4>2
      <3>2. CASE ~(query_Key(p) \/ query_Star(p))
        BY <2>2, <3>2 DEF Call, insert, delete_At, delete_Star, delete_Key, query_Local, Query
      <3> QED BY <3>1, <3>2
    <2>3. ASSUME NEW p \in Nodes, query_Return(p) \/ Crash(p) PROVE asked'[n] = asked[n] /\ isQueried'[n] = isQueried[n]
      <3>1. asked' = [asked EXCEPT ![p] = None] /\ isQueried' = [isQueried EXCEPT ![p] = FALSE]
        BY <2>3 DEF query_Return, Crash
      <3>2. p # n
        BY <1>0, <1>1, <3>1
      <3> QED BY <1>0, <3>1, <3>2
    <2>4. ASSUME NEW p \in Nodes, Receiver_Eof(p) \/ onCreate(p) \/ recover(p) \/ recover_Next(p) PROVE asked'[n] = asked[n] /\ isQueried'[n] = isQueried[n]
      BY <2>4 DEF Receiver_Eof, onCreate, recover, recover_Next, Query
    <2>5. ASSUME NEW p \in Nodes, join(p) PROVE asked'[n] = asked[n] /\ isQueried'[n] = isQueried[n]
      <3>1. asked' = asked /\ status[p] = "boot" /\ (isQueried' = isQueried \/ isQueried' = [isQueried EXCEPT ![p] = FALSE])
        BY <2>5 DEF join
      <3>2. p # n
        BY <1>1, <3>1 DEF Basic, StartInv
      <3> QED BY <1>0, <3>1, <3>2
    <2>6. ASSUME NEW m \in net, Progress(m) \/ Sender_Timeout(m) PROVE asked'[n] = asked[n] /\ (isQueried[n] => isQueried'[n])
      <3>1. isQueried' = isQueried \/ isQueried' = [isQueried EXCEPT ![m.sendto] = TRUE]
        BY <2>6 DEF Progress, Sender_Timeout, Sender_Down, insert_Local, processMessage, processInsert, StopsAtBoot,
           processQuery_Star, processQuery_Key, processQuery_Result, TakeAnswer, processDelete, processRecovery,
           processRecovery_Result, Query
      <3> QED BY <1>0, <2>6, <3>1, MessagesLeave
    <2> QED BY <2>1, <2>2, <2>3, <2>4, <2>5, <2>6 DEF Next
  <1>2. ASSUME NEW n \in Nodes, status'[n] \in {"rec1", "rec2", "rec3"}
        PROVE  \/ recovery'[n]
               \/ \E m \in net' : m.op = 0 /\ m.sender = n /\ m.inc = inc'[n]
               \/ <<0, n, inc'[n]>> \in vanished'
    <2>1. ASSUME status'[n] = status[n], inc'[n] = inc[n], recovery[n] => recovery'[n]
          PROVE  \/ recovery'[n]
                 \/ \E m \in net' : m.op = 0 /\ m.sender = n /\ m.inc = inc'[n]
                 \/ <<0, n, inc'[n]>> \in vanished'
      <3>1. \/ recovery[n]
            \/ \E m \in net : m.op = 0 /\ m.sender = n /\ m.inc = inc[n]
            \/ <<0, n, inc[n]>> \in vanished
        BY <1>2, <2>1 DEF WaitInv, NoWaiterForgotten
      <3>2. ASSUME NEW m \in net, m.op = 0, m.sender = n, m.inc = inc[n]
            PROVE  \/ recovery'[n]
                   \/ \E f \in net' : f.op = 0 /\ f.sender = n /\ f.inc = inc'[n]
                   \/ <<0, n, inc'[n]>> \in vanished'
        <4>1. m.type \in RecoveryTypes /\ m.type \notin QueryTypes
          BY <3>2 DEF Basic, NetInv, MsgOK, QueryTypes, RecoveryTypes
        <4>2. Carried(m)
          BY <4>1, CarriedOn
        <4>3. Id(m) = <<0, n, inc'[n]>>
          BY <2>1, <3>2 DEF Id
        <4> QED BY <2>1, <3>2, <4>1, <4>2, <4>3 DEF Carried
      <3> QED BY <2>1, <3>1, <3>2, VanishedGrows
    <2>2. ASSUME NEW p \in Nodes, Call(p) \/ query_Return(p) \/ Receiver_Eof(p) PROVE status'[n] = status[n] /\ inc'[n] = inc[n] /\ recovery'[n] = recovery[n]
      BY <2>2, CallsLeave
    <2>3. ASSUME NEW p \in Nodes, Crash(p) \/ onCreate(p) \/ join(p) PROVE status'[n] = status[n] /\ inc'[n] = inc[n] /\ recovery'[n] = recovery[n]
      <3>1. /\ \E s \in {"down", "boot", "joined"} : status' = [status EXCEPT ![p] = s]
            /\ inc' = inc \/ inc' = [inc EXCEPT ![p] = @ + 1]
            /\ recovery' = recovery \/ recovery' = [recovery EXCEPT ![p] = FALSE]
        BY <2>3 DEF Crash, onCreate, join, Recovery, Same
      <3>2. p # n
        BY <1>0, <1>2, <3>1
      <3> QED BY <1>0, <3>1, <3>2
    <2>4. ASSUME NEW p \in Nodes, recover(p) \/ recover_Next(p)
          PROVE  \/ status'[n] = status[n] /\ inc'[n] = inc[n] /\ recovery'[n] = recovery[n]
                 \/ \E m \in net' : m.op = 0 /\ m.sender = n /\ m.inc = inc'[n]
      <3>1. /\ \E s : status' = [status EXCEPT ![p] = s]
            /\ inc' = inc
            /\ recovery' = recovery \/ recovery' = [recovery EXCEPT ![p] = FALSE]
        BY <2>4 DEF recover, recover_Next, Same
      <3>2. CASE p # n
        BY <1>0, <3>1, <3>2
      <3>3. CASE p = n
        <4>1. \E to \in Nodes, type \in Types : Request(n, type, to) \in net'
          <5>1. predessor(n) \in Nodes /\ predessor(predessor(n)) \in Nodes /\ successor(n) \in Nodes
            BY Ring
          <5>2. "recovery" \in Types /\ "@-recovery" \in Types
            BY DEF Types
          <5>3. \/ Request(n, "recovery", predessor(n)) \in net'
                \/ Request(n, "recovery", predessor(predessor(n))) \in net'
                \/ Request(n, "@-recovery", successor(n)) \in net'
            <6>1. status[n] = "rec3" => status' # [status EXCEPT ![n] = "up"]
              BY <1>0, <1>2
            <6> QED BY <2>4, <3>3, <6>1 DEF recover, recover_Next
          <5> QED BY <5>1, <5>2, <5>3
        <4>2. PICK to \in Nodes, type \in Types : Request(n, type, to) \in net'
          BY <4>1
        <4>3. Request(n, type, to).op = 0 /\ Request(n, type, to).sender = n /\ Request(n, type, to).inc = inc[n]
          BY RequestFields DEF Basic
        <4> QED BY <3>1, <4>2, <4>3
      <3> QED BY <3>2, <3>3
    <2>5. ASSUME NEW m \in net, Progress(m) \/ Sender_Timeout(m) PROVE status'[n] = status[n] /\ inc'[n] = inc[n] /\ (recovery[n] => recovery'[n])
      <3>1. recovery' = recovery \/ recovery' = [recovery EXCEPT ![m.sendto] = TRUE]
        BY <2>5 DEF Progress, Sender_Timeout, Sender_Down, insert_Local, processMessage, processInsert, StopsAtBoot,
           processQuery_Star, processQuery_Key, processQuery_Result, TakeAnswer, processDelete, processRecovery,
           processRecovery_Result, Recovery
      <3> QED BY <1>0, <2>5, <3>1, MessagesLeave
    <2> QED BY <2>1, <2>2, <2>3, <2>4, <2>5 DEF Next
  <1> QED BY <1>1, <1>2 DEF NoWaiterForgotten

\* A thread that waits in query or recover is never forgotten: its answer is
\* there, its request or the answer is on its way, or the message came to
\* nothing at a place the model names (Gone): for any ring, through retries
\* and the crash of any other node.
THEOREM WaitersRemembered == Spec => []NoWaiterForgotten
  <1>1. Init => Basic /\ WaitInv
    <2>1. Init => WaitInv
      BY DEF Init, WaitInv, Owner, NoWaiterForgotten
    <2> QED BY <2>1, BasicInit
  <1>2. Basic /\ WaitInv /\ [Next]_vars => Basic' /\ WaitInv'
    <2>1. CASE UNCHANGED vars
      BY <2>1, BasicStep DEF vars, WaitInv, Owner, NoWaiterForgotten
    <2> QED BY <2>1, BasicStep, OwnerStep, WaitStep DEF WaitInv
  <1>3. WaitInv => NoWaiterForgotten
    BY DEF WaitInv
  <1> QED BY <1>1, <1>2, <1>3, PTL DEF Spec

-----------------------------------------------------------------------------
(* The copies of a key are right when nothing is on its way *)

\* How far node b is from node a along the ring; a itself is a round away.
Dist(a, b) == IF b > a THEN b - a ELSE b - a + N

\* A message that writes key k has still to come to the table of node x.
Reaches(m, k, x) ==
  \/ m.type = "insert" /\ \E r \in 0 .. 2 : r >= m.replica /\ x = Copy(k, r)
  \/ m.type = "local" /\ x = m.by
  \/ m.type = "del-k" /\ \E r \in 0 .. 2 : r >= 3 - m.replica /\ x = Copy(k, r)
  \/ m.type = "del-*" /\ x # m.sender /\ Dist(m.sender, x) >= Dist(m.sender, m.sendto)

Clean(k) == clean[k]

\* What a message makes of the values of its key in a table.
Put(m, old, new) == IF m.type \in {"insert", "local"} THEN new = Append(old, m.value) ELSE new = <<>>

\* What the fate of message m does to key k, while the key stays clean: a
\* table changes only by a write of the key, and who has not had the write
\* of m by now has it from the message that m became.
Effect(m, k) ==
  /\ Clean(k) /\ latest'[k] = latest[k]
  /\ net \ {m} \subseteq net'
  /\ \A f \in net' : Writes(f, k) => f \in net \/ (Writes(m, k) /\ f.type = m.type /\ f.value = m.value)
  /\ \A x \in Nodes : db'[x][k] = db[x][k] \/ (Writes(m, k) /\ Put(m, db[x][k], db'[x][k]))
  /\ Writes(m, k) => \A x \in Nodes : Reaches(m, k, x) /\ status[x] = "up" =>
        Put(m, db[x][k], db'[x][k]) \/ \E f \in net' : Writes(f, k) /\ Reaches(f, k, x)

LEMMA Distance ==
  ASSUME NEW s \in Nodes, NEW n \in Nodes
  PROVE  /\ Dist(s, n) \in 1 .. N /\ (Dist(s, n) = N <=> n = s)
         /\ Dist(s, successor(s)) = 1
         /\ n # s => Dist(s, successor(n)) = Dist(s, n) + 1
         /\ \A x \in Nodes : Dist(s, x) = Dist(s, n) => x = n
  <1>1. N \in Nat /\ N > 2 /\ s \in 0 .. N - 1 /\ n \in 0 .. N - 1
    BY DynamoAssumption DEF Nodes
  <1>2. /\ successor(s) = (IF s = N - 1 THEN 0 ELSE s + 1)
        /\ successor(n) = (IF n = N - 1 THEN 0 ELSE n + 1)
    BY Ring
  <1>3. \A x \in Nodes : x \in 0 .. N - 1
    BY DEF Nodes
  <1> QED BY <1>1, <1>2, <1>3 DEF Dist

LEMMA GoneClean ==
  ASSUME NEW k \in Keys, NEW ms, Gone(ms), Clean(k)'
  PROVE  Clean(k) /\ ~\E m \in ms : Writes(m, k)
  <1>1. Clean(k)' = (Clean(k) /\ ~\E m \in ms : Writes(m, k))
    BY Zenon DEF Gone, Clean
  <1> QED BY <1>1, Zenon

LEMMA EmptyStep ==
  ASSUME Basic, NEW n \in Nodes, db' = [db EXCEPT ![n] = Empty]
  PROVE  \A x \in Nodes, k \in Keys : db'[x][k] = IF x = n THEN <<>> ELSE db[x][k]
  BY EmptyTable DEF Basic, TypeOK

\* A message that does not write the key becomes none that does.
LEMMA NotWritten ==
  ASSUME NEW k \in Keys, NEW m, NEW new, Becomes(m, new), ~Writes(m, k),
         m.type \in {"insert", "del-k"} => m.key # k \/ new = {}
  PROVE  net \ {m} \subseteq net' /\ \A f \in net' : Writes(f, k) => f \in net
  <1>1. ASSUME NEW f \in new PROVE ~Writes(f, k)
    BY <1>1 DEF Becomes, Follows, Writes
  <1> QED BY <1>1 DEF Becomes

LEMMA NoEffect ==
  ASSUME NEW k \in Keys, NEW m, NEW new, Becomes(m, new), ~Writes(m, k),
         m.type \in {"insert", "del-k"} => m.key # k \/ new = {},
         Clean(k), latest'[k] = latest[k], \A x \in Nodes : db'[x][k] = db[x][k]
  PROVE  Effect(m, k)
  BY NotWritten DEF Effect

LEMMA InsertEffect ==
  ASSUME Basic, NEW k \in Keys, NEW m \in net, NEW n \in Nodes, processInsert(n, m), Clean(k)'
  PROVE  Effect(m, k)
  <1>0. m \in Msg /\ MsgOK(m) /\ m.replica \in 0 .. 3 /\ m.type = "insert" /\ m.key \in Keys /\ Clean(k) /\ latest'[k] = latest[k] /\ m.sendto = n
    BY Fields DEF Basic, TypeOK, NetInv, MsgOK, processInsert, NoHistory, Handles, Clean
  <1>1. CASE ~(m.replica < 3)
    <2>1. Becomes(m, {}) /\ UNCHANGED db
      BY <1>1 DEF processInsert, Handles, Becomes
    <2>2. ~Writes(m, k)
      BY <1>0, <1>1 DEF Writes
    <2> QED BY <1>0, <2>1, <2>2, NoEffect
  <1>2. CASE m.replica < 3
    <2> DEFINE f == Forward(n, [m EXCEPT !.replica = m.replica + 1])
    <2>1. net' = (net \ {m}) \cup {f} /\ db' = [db EXCEPT ![n][m.key] = Append(db[n][m.key], m.value)]
      BY <1>2 DEF processInsert, Handles
    <2>2. m \in Msg /\ m.replica \in 0 .. 2 /\ m.replica + 1 \in 0 .. 3
      BY <1>0, <1>2
    <2>3. /\ f \in Msg /\ f.replica = m.replica + 1 /\ f.sendto = successor(n) /\ f.type = m.type
          /\ f.key = m.key /\ f.value = m.value /\ f.sender = m.sender /\ f.op = m.op /\ f.inc = m.inc
      <3>1. m \in Msg /\ m.replica + 1 \in 0 .. 3
        BY <2>2
      <3> QED BY <3>1, CountedFields
    <2> HIDE DEF f
    <2>4. \A x \in Nodes : db'[x][k] = IF x = n /\ k = m.key THEN Append(db[n][m.key], m.value) ELSE db[x][k]
      <3>1. PICK s : s = Append(db[n][m.key], m.value)
        OBVIOUS
      <3>2. m.key \in Keys /\ db' = [db EXCEPT ![n][m.key] = s]
        BY <1>0, <2>1, <3>1
      <3>3. db \in [Nodes -> [Keys -> Seq(Values)]]
        BY DEF Basic, TypeOK
      <3> QED BY <3>1, <3>2, <3>3
    <2>5. Writes(m, k) <=> m.key = k
      BY <1>0, <2>2 DEF Writes
    <2>6. Writes(f, k) => m.key = k
      BY <1>0, <2>3 DEF Writes
    <2>7. ASSUME m.key = k, NEW x \in Nodes, Reaches(m, k, x), x # n PROVE Writes(f, k) /\ Reaches(f, k, x)
      <3>1. PICK r \in 0 .. 2 : r >= m.replica /\ x = Copy(k, r)
        BY <1>0, <2>7 DEF Reaches
      <3>2. r # m.replica
        BY <1>0, <2>7, <3>1 DEF MsgOK
      <3>3. r >= m.replica + 1
        BY <2>2, <3>1, <3>2
      <3>4. m.replica + 1 < 3
        BY <2>2, <3>3
      <3> QED BY <1>0, <2>3, <2>7, <3>1, <3>3, <3>4 DEF Reaches, Writes
    <2>8. \A x \in Nodes : db'[x][k] = db[x][k] \/ (Writes(m, k) /\ Put(m, db[x][k], db'[x][k]))
      BY <1>0, <2>4, <2>5 DEF Put
    <2>9. m.key = k => Put(m, db[n][k], db'[n][k])
      BY <1>0, <2>4 DEF Put
    <2>10. f \in net'
      BY <2>1
    <2>11. \A g \in net' : Writes(g, k) => g \in net \/ (Writes(m, k) /\ g.type = m.type /\ g.value = m.value)
      BY <2>1, <2>3, <2>5, <2>6
    <2>12. Writes(m, k) => \A x \in Nodes : Reaches(m, k, x) =>
        Put(m, db[x][k], db'[x][k]) \/ \E g \in net' : Writes(g, k) /\ Reaches(g, k, x)
      BY <2>5, <2>7, <2>9, <2>10
    <2>13. net \ {m} \subseteq net'
      BY <2>1
    <2> QED BY <1>0, <2>8, <2>11, <2>12, <2>13 DEF Effect
  <1> QED BY <1>1, <1>2

LEMMA DeleteEffect ==
  ASSUME Basic, NEW k \in Keys, NEW m \in net, NEW n \in Nodes, processDelete(n, m), Clean(k)'
  PROVE  Effect(m, k)
  <1>0. m \in Msg /\ MsgOK(m) /\ m.replica \in 0 .. 3 /\ m.sender \in Nodes /\ Clean(k) /\ latest'[k] = latest[k] /\ m.sendto = n
    BY Fields DEF Basic, TypeOK, NetInv, processDelete, NoHistory, Handles, Clean
  <1>1. CASE m.type = "del-*" /\ m.sender # n
    <2> DEFINE f == Forward(n, m)
    <2>1. net' = (net \ {m}) \cup {f} /\ db' = [db EXCEPT ![n] = Empty]
      BY <1>1 DEF processDelete, Handles
    <2>2. f.type = m.type /\ f.sender = m.sender /\ f.sendto = successor(n) /\ f.value = m.value
      BY <1>0, ForwardFields
    <2> HIDE DEF f
    <2>3. \A x \in Nodes : db'[x][k] = IF x = n THEN <<>> ELSE db[x][k]
      BY <2>1, EmptyStep
    <2>4. Writes(m, k) /\ Writes(f, k) /\ f \in net' /\ net \ {m} \subseteq net'
      BY <1>1, <2>1, <2>2 DEF Writes
    <2>5. ASSUME NEW x \in Nodes, Reaches(m, k, x), x # n PROVE Reaches(f, k, x)
      <3>1. x # m.sender /\ Dist(m.sender, x) >= Dist(m.sender, n)
        BY <1>0, <1>1, <2>5 DEF Reaches
      <3>2. Dist(m.sender, x) \in Nat /\ Dist(m.sender, n) \in Nat /\ Dist(m.sender, x) # Dist(m.sender, n)
            /\ Dist(m.sender, successor(n)) = Dist(m.sender, n) + 1
        BY <1>0, <1>1, <2>5, Distance
      <3>3. Dist(m.sender, x) >= Dist(m.sender, successor(n))
        BY <3>1, <3>2
      <3> QED BY <1>1, <2>2, <3>1, <3>3 DEF Reaches
    <2>6. \A x \in Nodes : db'[x][k] = db[x][k] \/ Put(m, db[x][k], db'[x][k])
      BY <1>1, <2>3 DEF Put
    <2>7. Put(m, db[n][k], db'[n][k])
      BY <1>1, <2>3 DEF Put
    <2>8. \A g \in net' : g \in net \/ (g.type = m.type /\ g.value = m.value)
      BY <2>1, <2>2
    <2> QED BY <1>0, <2>4, <2>5, <2>6, <2>7, <2>8 DEF Effect
  <1>2. CASE m.type = "del-k" /\ m.replica > 0
    <2> DEFINE f == Forward(n, [m EXCEPT !.replica = m.replica - 1])
    <2>1. net' = (net \ {m}) \cup {f} /\ db' = [db EXCEPT ![n][m.key] = <<>>] /\ m.key \in Keys /\ n = Copy(m.key, 3 - m.replica)
      BY <1>0, <1>2 DEF processDelete, Handles, MsgOK
    <2>2. m.replica \in 1 .. 3
      BY <1>0, <1>2
    <2>2a. m.replica - 1 \in 0 .. 3 /\ m \in Msg
      BY <1>0, <2>2
    <2>3. /\ f \in Msg /\ f.replica = m.replica - 1 /\ f.sendto = successor(n) /\ f.type = m.type
          /\ f.key = m.key /\ f.value = m.value /\ f.sender = m.sender /\ f.op = m.op /\ f.inc = m.inc
      BY <2>2a, CountedFields
    <2> HIDE DEF f
    <2>4. \A x \in Nodes : db'[x][k] = IF x = n /\ k = m.key THEN <<>> ELSE db[x][k]
      <3>1. PICK s : s = <<>>
        OBVIOUS
      <3>2. m.key \in Keys /\ db' = [db EXCEPT ![n][m.key] = s]
        BY <1>0, <2>1, <3>1
      <3>3. db \in [Nodes -> [Keys -> Seq(Values)]]
        BY DEF Basic, TypeOK
      <3> QED BY <3>1, <3>2, <3>3
    <2>5. Writes(m, k) <=> m.key = k
      BY <1>2 DEF Writes
    <2>6. Writes(f, k) => m.key = k
      BY <1>2, <2>3 DEF Writes
    <2>7. ASSUME m.key = k, NEW x \in Nodes, Reaches(m, k, x), x # n PROVE Writes(f, k) /\ Reaches(f, k, x)
      <3>1. PICK r \in 0 .. 2 : r >= 3 - m.replica /\ x = Copy(k, r)
        BY <1>2, <2>7 DEF Reaches
      <3>2. r # 3 - m.replica
        BY <2>1, <2>7, <3>1
      <3>3. r >= 3 - (m.replica - 1)
        BY <2>2, <3>1, <3>2
      <3>4. m.replica - 1 > 0
        BY <2>2, <3>3
      <3> QED BY <1>2, <2>3, <2>7, <3>1, <3>3, <3>4 DEF Reaches, Writes
    <2>8. \A x \in Nodes : db'[x][k] = db[x][k] \/ (Writes(m, k) /\ Put(m, db[x][k], db'[x][k]))
      BY <1>2, <2>4, <2>5 DEF Put
    <2>9. m.key = k => Put(m, db[n][k], db'[n][k])
      BY <1>2, <2>4 DEF Put
    <2>10. f \in net'
      BY <2>1
    <2>11. \A g \in net' : Writes(g, k) => g \in net \/ (Writes(m, k) /\ g.type = m.type /\ g.value = m.value)
      BY <2>1, <2>3, <2>5, <2>6
    <2>12. Writes(m, k) => \A x \in Nodes : Reaches(m, k, x) =>
        Put(m, db[x][k], db'[x][k]) \/ \E g \in net' : Writes(g, k) /\ Reaches(g, k, x)
      BY <2>5, <2>7, <2>9, <2>10
    <2>13. net \ {m} \subseteq net'
      BY <2>1
    <2> QED BY <1>0, <2>8, <2>11, <2>12, <2>13 DEF Effect
  <1>3. CASE (m.type = "del-*" /\ m.sender = n) \/ (m.type = "del-k" /\ m.replica = 0)
    <2>1. net' = net \ {m} /\ UNCHANGED db
      BY <1>0, <1>3 DEF processDelete, Handles
    <2>2. \A x \in Nodes : Writes(m, k) => ~Reaches(m, k, x)
      <3>1. ASSUME m.type = "del-*", NEW x \in Nodes, x # n PROVE ~(Dist(n, x) >= Dist(n, n))
        <4>1. Dist(n, x) \in 1 .. N /\ Dist(n, x) # N /\ Dist(n, n) = N /\ N \in Nat
          BY <3>1, Distance, DynamoAssumption
        <4> QED BY <4>1
      <3> QED BY <1>0, <1>3, <3>1 DEF Reaches, Writes
    <2> QED BY <1>0, <2>1, <2>2 DEF Effect
  <1> QED BY <1>1, <1>2, <1>3 DEF processDelete

\* A Sender that fails: the next node is tried, or the message is gone.
LEMMA SendEffect ==
  ASSUME Basic, NEW k \in Keys, NEW m \in net, Sender_Down(m) \/ Sender_Timeout(m), Clean(k)'
  PROVE  Effect(m, k)
  <1>0. /\ m \in Msg /\ MsgOK(m) /\ m.replica \in 0 .. 3 /\ latest'[k] = latest[k] /\ UNCHANGED db
        /\ SendFails(m) /\ m.type # "local" /\ net' = (net \ {m}) \cup Retries(m)
    BY Fields DEF Basic, TypeOK, NetInv, Sender_Down, Sender_Timeout, SendFails
  <1>1. Becomes(m, Retries(m))
    BY <1>0, SenderFailed
  <1>2. ASSUME Clean(k), ~Writes(m, k) PROVE Effect(m, k)
    <2>1. m.type \in {"insert", "del-k"} => m.key # k \/ Retries(m) = {}
      BY <1>0, <1>2 DEF Writes, Retries
    <2> QED BY <1>0, <1>1, <1>2, <2>1, NoEffect
  <1>3. CASE Gone({m})
    BY <1>2, <1>3, GoneClean
  <1>4. CASE Sender_Timeout(m) /\ ~Gone({m})
    <2>1. clean' = [j \in Keys |-> clean[j] /\ ~Writes(m, j)]
      BY <1>4 DEF Sender_Timeout
    <2>2. Clean(k) /\ ~Writes(m, k)
      BY <2>1, Zenon DEF Clean
    <2> QED BY <1>2, <2>2
  <1>5. CASE Sender_Down(m) /\ ~Gone({m})
    <2>1. Clean(k) /\ status[m.sendto] = "down" /\ (Spent(m) \/ Retries(m) # {})
      BY <1>5 DEF Sender_Down, Clean
    <2>2. CASE ~Writes(m, k)
      BY <1>2, <2>1, <2>2
    <2>3. CASE Writes(m, k)
      <3>1. ~Spent(m)
        BY <1>0, <2>3 DEF Spent, Writes
      <3>2. PICK f : f \in Retries(m)
        BY <2>1, <3>1
      <3>3. /\ m.type \in {"insert", "query-k", "query-*"} /\ f.type = m.type /\ f.key = m.key /\ f.value = m.value
            /\ f.replica = (IF m.type = "insert" THEN m.replica + 1 ELSE m.replica)
        BY <1>0, <3>2, RetryFields
      <3>4. m.type = "insert" /\ m.key = k /\ m.replica < 3 /\ f.replica = m.replica + 1 /\ f \in net'
        BY <1>0, <2>3, <3>2, <3>3 DEF Writes
      <3>5. \A g \in Retries(m) : g.type = m.type /\ g.value = m.value
        BY <1>0, RetryFields
      <3>6. ASSUME NEW x \in Nodes, Reaches(m, k, x), x # m.sendto PROVE Writes(f, k) /\ Reaches(f, k, x)
        <4>1. PICK r \in 0 .. 2 : r >= m.replica /\ x = Copy(k, r)
          BY <3>4, <3>6 DEF Reaches
        <4>2. r # m.replica
          BY <1>0, <3>4, <3>6, <4>1 DEF MsgOK
        <4>3. r >= m.replica + 1 /\ m.replica + 1 < 3
          BY <1>0, <4>1, <4>2
        <4> QED BY <3>3, <3>4, <4>1, <4>3 DEF Reaches, Writes
      <3>7. \A g \in net' : g \in net \/ (g.type = m.type /\ g.value = m.value)
        BY <1>0, <3>5
      <3>8. \A x \in Nodes : Reaches(m, k, x) /\ status[x] = "up" => \E g \in net' : Writes(g, k) /\ Reaches(g, k, x)
        BY <2>1, <3>4, <3>6
      <3> QED BY <1>0, <2>1, <2>3, <3>7, <3>8 DEF Effect
    <2> QED BY <2>2, <2>3
  <1> QED BY <1>3, <1>4, <1>5

LEMMA LocalEffect ==
  ASSUME Basic, NEW k \in Keys, NEW m \in net, insert_Local(m), Clean(k)'
  PROVE  Effect(m, k)
  <1>0. /\ m \in Msg /\ m.replica = 0 /\ m.type = "local" /\ m.key \in Keys /\ m.by \in Nodes /\ Clean(k)
        /\ latest'[k] = latest[k] /\ net' = net \ {m}
    BY Fields DEF Basic, TypeOK, NetInv, MsgOK, insert_Local, NoHistory, Clean
  <1>1. \A x \in Nodes : db'[x][k] = IF x = m.by /\ k = m.key THEN Append(db[x][k], m.value) ELSE db[x][k]
    <2>1. PICK s : s = Append(db[m.by][m.key], m.value)
      OBVIOUS
    <2>2. m.key \in Keys /\ m.by \in Nodes /\ db' = [db EXCEPT ![m.by][m.key] = s]
      BY <1>0, <2>1 DEF insert_Local
    <2>3. db \in [Nodes -> [Keys -> Seq(Values)]]
      BY DEF Basic, TypeOK
    <2> QED BY <2>1, <2>2, <2>3
  <1>2. Writes(m, k) <=> m.key = k
    BY <1>0 DEF Writes
  <1>3. \A x \in Nodes : db'[x][k] = db[x][k] \/ (Writes(m, k) /\ Put(m, db[x][k], db'[x][k]))
    BY <1>0, <1>1, <1>2 DEF Put
  <1>4. Writes(m, k) => \A x \in Nodes : Reaches(m, k, x) => Put(m, db[x][k], db'[x][k])
    BY <1>0, <1>1, <1>2 DEF Put, Reaches
  <1> QED BY <1>0, <1>3, <1>4 DEF Effect

\* A message at a node that is only starting: it writes the key no more.
LEMMA BootEffect ==
  ASSUME Basic, NEW k \in Keys, NEW m \in net, NEW n \in Nodes, StopsAtBoot(n, m), Clean(k)'
  PROVE  Effect(m, k)
  <1>0. /\ m \in Msg /\ MsgOK(m) /\ m.replica \in 0 .. 3 /\ latest'[k] = latest[k] /\ net' = net \ {m} /\ Gone({m})
    BY Fields DEF Basic, TypeOK, NetInv, StopsAtBoot, Handles
  <1>1. Clean(k) /\ ~Writes(m, k)
    BY <1>0, GoneClean
  <1>2. ASSUME NEW x \in Nodes PROVE db'[x][k] = db[x][k]
    <2>1. CASE UNCHANGED db
      BY <2>1
    <2>2. CASE m.type = "del-k" /\ ~UNCHANGED db
      <3>1. PICK s : s = IF m.replica > 0 THEN <<>> ELSE db[n][m.key]
        OBVIOUS
      <3>2. m.key \in Keys /\ db' = [db EXCEPT ![n][m.key] = s]
        BY <1>0, <2>2, <3>1 DEF MsgOK, StopsAtBoot
      <3>3. db \in [Nodes -> [Keys -> Seq(Values)]]
        BY DEF Basic, TypeOK
      <3>4. db'[x][k] = IF x = n /\ k = m.key THEN s ELSE db[x][k]
        BY <3>2, <3>3
      <3>5. k = m.key => s = db[n][m.key]
        BY <1>1, <2>2, <3>1 DEF Writes
      <3> QED BY <3>4, <3>5
    <2>3. m.type # "del-*"
      BY <1>1 DEF Writes
    <2> QED BY <2>1, <2>2, <2>3 DEF StopsAtBoot
  <1> QED BY <1>0, <1>1, <1>2 DEF Effect

\* A message of a query or of recovery.
LEMMA OtherEffect ==
  ASSUME Basic, NEW k \in Keys, NEW m \in net, processMessage(m.sendto, m), Clean(k)',
         m.type \in QueryTypes \cup RecoveryTypes
  PROVE  Effect(m, k)
  <1>0. ~Writes(m, k) /\ m.type \notin {"insert", "del-k", "del-*"}
    BY DEF Writes, QueryTypes, RecoveryTypes
  <1>1. PICK new : Becomes(m, new)
    BY Handled DEF HandledBy
  <1>2. UNCHANGED db /\ latest'[k] = latest[k]
    BY <1>0 DEF processMessage, processInsert, StopsAtBoot, processQuery_Star, processQuery_Key, processQuery_Result, TakeAnswer,
           processDelete, processRecovery, processRecovery_Result, NoHistory
  <1>3. UNCHANGED clean \/ Gone({m})
    BY <1>0 DEF processMessage, processInsert, StopsAtBoot, processQuery_Star, processQuery_Key, processQuery_Result, TakeAnswer,
           processDelete, processRecovery, processRecovery_Result, NoHistory
  <1>4. Clean(k)
    <2>1. CASE UNCHANGED clean
      BY <2>1 DEF Clean
    <2>2. CASE Gone({m})
      BY <2>2, GoneClean
    <2> QED BY <1>3, <2>1, <2>2
  <1> QED BY <1>0, <1>1, <1>2, <1>4, NoEffect

LEMMA MessageEffect ==
  ASSUME Basic, NEW k \in Keys, NEW m \in net, Progress(m) \/ Sender_Timeout(m), Clean(k)'
  PROVE  Effect(m, k)
  <1>1. PICK n \in Nodes : n = m.sendto
    BY Fields DEF Basic, TypeOK
  <1>2. CASE m.type \in QueryTypes \cup RecoveryTypes /\ processMessage(n, m)
    BY <1>1, <1>2, OtherEffect
  <1>3. CASE m.type \notin QueryTypes \cup RecoveryTypes /\ processMessage(n, m)
    <2>1. processInsert(n, m) \/ StopsAtBoot(n, m) \/ processDelete(n, m)
      BY <1>3 DEF processMessage, processQuery_Star, processQuery_Key, processQuery_Result, processRecovery, processRecovery_Result,
                  QueryTypes, RecoveryTypes
    <2> QED BY <2>1, InsertEffect, BootEffect, DeleteEffect
  <1> QED BY <1>1, <1>2, <1>3, LocalEffect, SendEffect DEF Progress

\* The values s of key k in a table end with the one last written.
Shows(s, k) == IF latest[k] = None THEN s = <<>> ELSE s # <<>> /\ s[Len(s)] = latest[k]

Carries(m, k) == IF m.type \in {"insert", "local"} THEN latest[k] = m.value ELSE latest[k] = None

\* A step of node n that writes key k in no other table.
Aside(n, k) ==
  /\ Clean(k) /\ latest'[k] = latest[k]
  /\ \A f \in net' : Writes(f, k) => f \in net
  /\ \A f \in net : Writes(f, k) => f \in net'
  /\ \A x \in Nodes : x # n => db'[x][k] = db[x][k]

\* A new write of key k is on its way to all its copies.
Renewed(k) ==
  /\ Recovering = {}
  /\ \A f \in net' : Writes(f, k) => Carries(f, k)'
  /\ \A x \in Replicas(k) : Shows(db[x][k], k)' \/ \E f \in net' : Writes(f, k) /\ Reaches(f, k, x)

LEMMA NewClean ==
  ASSUME NEW k \in Keys, NEW ks, NEW v, NewWrite(ks, v), Clean(k)'
  PROVE  IF k \in ks THEN Recovering = {} /\ (~\E m \in net : Writes(m, k)) /\ latest'[k] = v
                     ELSE Clean(k) /\ latest'[k] = latest[k]
  <1>1. Clean(k)' = (IF k \in ks THEN Recovering = {} /\ ~\E m \in net : Writes(m, k) ELSE Clean(k))
    BY Zenon DEF NewWrite, Clean
  <1>2. latest'[k] = IF k \in ks THEN v ELSE latest[k]
    BY DEF NewWrite
  <1> QED BY <1>1, <1>2, Zenon

LEMMA InsertRenews ==
  ASSUME Basic, NEW k \in Keys, NEW n \in Nodes, insert(n), Clean(k)'
  PROVE  (Aside(n, k) /\ db'[n][k] = db[n][k]) \/ Renewed(k)
  <1>1. PICK j, new :
           /\ j \in Keys /\ NewWrite({j}, calls + 1) /\ net' = net \cup new
           /\ \A f \in new : Written(n, f) /\ f.type \in {"insert", "local"} /\ f.key = j /\ f.value = calls + 1
           /\ \/ \E f \in new : f.type = "insert" /\ f.replica = 0
              \/ (\E f \in new : f.type = "insert" /\ f.replica = 1) /\ (\E f \in new : f.type = "local")
    BY InsertWrites
  <1>2. CASE j # k
    <2>1. Clean(k) /\ latest'[k] = latest[k]
      BY <1>1, <1>2, NewClean
    <2>2. \A f \in new : ~Writes(f, k)
      BY <1>1, <1>2 DEF Writes
    <2>3. UNCHANGED db
      BY DEF insert
    <2> QED BY <1>1, <2>1, <2>2, <2>3 DEF Aside
  <1>3. CASE j = k
    <2>1. Recovering = {} /\ (~\E m \in net : Writes(m, k)) /\ latest'[k] = calls + 1
      BY <1>1, <1>3, NewClean
    <2>2. \A f \in net' : Writes(f, k) => Carries(f, k)'
      BY <1>1, <2>1 DEF Carries
    <2>3. ASSUME NEW x \in Replicas(k) PROVE \E f \in net' : Writes(f, k) /\ Reaches(f, k, x)
      <3>1. PICK r \in 0 .. 2 : x = Copy(k, r)
        <4>1. x = Copy(k, 0) \/ x = Copy(k, 1) \/ x = Copy(k, 2)
          BY DEF Replicas, Copy
        <4> QED BY <4>1
      <3>2. ASSUME NEW f \in new, f.type = "insert", f.replica <= r, f.replica \in {0, 1} PROVE Writes(f, k) /\ Reaches(f, k, x)
        BY <1>1, <1>3, <3>1, <3>2 DEF Reaches, Writes
      <3>3. ASSUME NEW f \in new, f.type = "local", r = 0 PROVE Writes(f, k) /\ Reaches(f, k, x)
        <4>1. f.by = getNode(k) /\ f.replica = 0 /\ f.key = k
          BY <1>1, <1>3, <3>3 DEF Written, MsgOK
        <4>2. x = getNode(k)
          BY <3>1, <3>3 DEF Copy
        <4> QED BY <3>3, <4>1, <4>2 DEF Reaches, Writes
      <3>4. r = 0 \/ 1 <= r
        OBVIOUS
      <3> QED BY <1>1, <3>1, <3>2, <3>3, <3>4
    <2> QED BY <2>1, <2>2, <2>3 DEF Renewed
  <1> QED BY <1>2, <1>3

LEMMA DeleteRenews ==
  ASSUME Basic, NEW k \in Keys, NEW n \in Nodes, delete_Star(n) \/ delete_Key(n), Clean(k)'
  PROVE  (Aside(n, k) /\ db'[n][k] = db[n][k]) \/ Renewed(k)
  <1>1. PICK f :
           /\ net' = net \cup {f} /\ Written(n, f)
           /\ \/ delete_Star(n) /\ f.type = "del-*" /\ f.sendto = successor(n)
              \/ f.type = "del-k" /\ f.replica = 3 /\ NewWrite({f.key}, None) /\ UNCHANGED <<db, status>>
    BY DeleteWrites
  <1>2. CASE f.type = "del-k" /\ f.key # k
    <2>1. Clean(k) /\ latest'[k] = latest[k]
      BY <1>1, <1>2, NewClean
    <2>2. ~Writes(f, k)
      BY <1>2 DEF Writes
    <2>3. UNCHANGED db
      BY <1>1, <1>2
    <2> QED BY <1>1, <2>1, <2>2, <2>3 DEF Aside
  <1>3. CASE f.type = "del-k" /\ f.key = k
    <2>1. Recovering = {} /\ (~\E m \in net : Writes(m, k)) /\ latest'[k] = None
      BY <1>1, <1>3, NewClean
    <2>2. \A g \in net' : Writes(g, k) => Carries(g, k)'
      BY <1>1, <1>3, <2>1 DEF Carries
    <2>3. ASSUME NEW x \in Replicas(k) PROVE Writes(f, k) /\ Reaches(f, k, x)
      <3>1. PICK r \in 0 .. 2 : x = Copy(k, r)
        <4>1. x = Copy(k, 0) \/ x = Copy(k, 1) \/ x = Copy(k, 2)
          BY DEF Replicas, Copy
        <4> QED BY <4>1
      <3> QED BY <1>1, <1>3, <3>1 DEF Reaches, Writes
    <2> QED BY <1>1, <2>1, <2>2, <2>3 DEF Renewed
  <1>4. CASE delete_Star(n) /\ f.type = "del-*" /\ f.sendto = successor(n)
    <2>1. Recovering = {} /\ (~\E m \in net : Writes(m, k)) /\ latest'[k] = None
      BY <1>4, NewClean DEF delete_Star
    <2>2. \A g \in net' : Writes(g, k) => Carries(g, k)'
      BY <1>1, <1>4, <2>1 DEF Carries
    <2>3. ASSUME NEW x \in Replicas(k) PROVE Shows(db[x][k], k)' \/ (Writes(f, k) /\ Reaches(f, k, x))
      <3>1. x \in Nodes
        BY Coordinator, Ring DEF Replicas
      <3>2. CASE x = n
        <4>1. db' = [db EXCEPT ![n] = Empty] /\ db \in [Nodes -> [Keys -> Seq(Values)]]
          BY <1>4 DEF delete_Star, Basic, TypeOK
        <4>2. db'[n][k] = <<>>
          BY <4>1, EmptyTable
        <4> QED BY <2>1, <3>2, <4>2 DEF Shows
      <3>3. CASE x # n
        <4>1. f.sender = n
          BY <1>1 DEF Written
        <4>2. Dist(n, x) \in 1 .. N /\ Dist(n, successor(n)) = 1 /\ N \in Nat
          BY <3>1, Distance, DynamoAssumption
        <4>3. Dist(n, x) >= Dist(n, successor(n))
          BY <4>2
        <4> QED BY <1>4, <3>3, <4>1, <4>3 DEF Reaches, Writes
      <3> QED BY <3>2, <3>3
    <2> QED BY <1>1, <2>1, <2>2, <2>3 DEF Renewed
  <1> QED BY <1>1, <1>2, <1>3, <1>4

LEMMA CallEffect ==
  ASSUME Basic, NEW k \in Keys, NEW n \in Nodes, Call(n), Clean(k)'
  PROVE  (Aside(n, k) /\ db'[n][k] = db[n][k]) \/ Renewed(k)
  <1>1. CASE delete_At(n)
    <2>1. clean' = [j \in Keys |-> FALSE]
      BY <1>1 DEF delete_At
    <2> QED BY <2>1 DEF Clean
  <1>2. CASE query_Local(n)
    BY <1>2 DEF query_Local, NoHistory, Aside, Clean
  <1>3. CASE query_Key(n) \/ query_Star(n)
    <2>1. PICK f, what : Asked(n, what, f) /\ Ask(n, what, f)
      BY <1>3, QuerySends
    <2>2. ~Writes(f, k) /\ net' = net \cup {f} /\ UNCHANGED <<db, latest, clean>>
      BY <2>1 DEF Asked, Ask, NoHistory, Writes
    <2> QED BY <2>2 DEF Aside, Clean
  <1> QED BY <1>1, <1>2, <1>3, InsertRenews, DeleteRenews DEF Call

LEMMA NodeEffect ==
  ASSUME Basic, NEW k \in Keys, NEW n \in Nodes, Clean(k)',
         query_Return(n) \/ Receiver_Eof(n) \/ Crash(n) \/ onCreate(n) \/ join(n) \/ recover(n) \/ recover_Next(n)
  PROVE  Aside(n, k) /\ (recover(n) \/ recover_Next(n) \/ UNCHANGED db)
  <1>1. CASE query_Return(n) \/ join(n)
    BY <1>1 DEF query_Return, join, NoHistory, Aside, Clean
  <1>2. CASE Receiver_Eof(n)
    <2>1. PICK ms : net' = net \ ms /\ Gone(ms)
      BY <1>2 DEF Receiver_Eof
    <2>2. UNCHANGED <<db, latest>>
      BY <1>2 DEF Receiver_Eof
    <2> QED BY <2>1, <2>2, GoneClean DEF Aside
  <1>3. CASE Crash(n)
    <2>1. PICK ms : net' = net \ ms /\ ms \subseteq net /\ Gone({m \in ms : ~Spent(m)})
      BY <1>3 DEF Crash
    <2>2. UNCHANGED <<db, latest>>
      BY <1>3 DEF Crash
    <2>3. \A m \in ms : Spent(m) => ~Writes(m, k)
      BY DEF Spent, Writes
    <2>4. Clean(k) /\ \A m \in ms : ~Writes(m, k)
      BY <2>1, <2>3, GoneClean
    <2> QED BY <2>1, <2>2, <2>4 DEF Aside
  <1>4. CASE onCreate(n)
    <2>1. Clean(k)' = (Clean(k) /\ (\A o \in Nodes \ {n} : status[o] = "up") /\ ~\E m \in net : Writes(m, k))
      BY <1>4, Zenon DEF onCreate, Clean
    <2>2. Clean(k)
      BY <2>1, Zenon
    <2> QED BY <1>4, <2>2 DEF onCreate, Aside
  <1>5. CASE recover(n) \/ recover_Next(n)
    <2>1. PICK new : net' = net \cup new /\ \A f \in new : Requested(n, f)
      BY <1>5, RecoverSends
    <2>2. \A f \in new : ~Writes(f, k)
      BY <2>1 DEF Requested, Writes
    <2>3. UNCHANGED <<latest, clean>>
      BY <1>5 DEF recover, recover_Next, NoHistory
    <2>4. \A x \in Nodes : x # n => db'[x] = db[x]
      BY <1>5 DEF recover, recover_Next, Basic, TypeOK
    <2> QED BY <1>5, <2>1, <2>2, <2>3, <2>4 DEF Aside, Clean
  <1> QED BY <1>1, <1>2, <1>3, <1>4, <1>5

-----------------------------------------------------------------------------
(* The questions of a recovery, one after the other *)

Waiting == {"rec1", "rec2", "rec3"}

Answered(n) == recovery[n]

\* The request of the present start of node n, or its answer.
Pending(m, n) == m.type \in RecoveryTypes /\ m.sender = n /\ m.inc = inc[n]

\* A request is the one the node waits for, by the stage it is in.
Fits(m, n) ==
  \/ m.type = "recovery-result"
  \/ m.type = "recovery" /\ status[n] = "rec1" /\ m.sendto = predessor(n)
  \/ m.type = "recovery" /\ status[n] = "rec2" /\ m.sendto = predessor(predessor(n))
  \/ m.type = "@-recovery" /\ status[n] = "rec3" /\ m.sendto = successor(n)

\* One question at a time, and nothing in the cursor before its answer.
StageOK(n) ==
  /\ status[n] # "down" =>
        /\ \A m \in net : Pending(m, n) => status[n] \in Waiting /\ ~Answered(n) /\ Fits(m, n)
        /\ \A m1, m2 \in net : Pending(m1, n) /\ Pending(m2, n) => m1 = m2
  /\ status[n] \in {"down", "boot", "joined"} => ~Answered(n)
  /\ status[n] \in Waiting /\ ~Answered(n) => recoveryCursor[n] = Empty

StageInv == mixed = {} => \A n \in Nodes : StageOK(n)

\* Nothing happens to the recovery of node p.
Still(p) ==
  /\ status'[p] = status[p] /\ inc'[p] = inc[p] /\ recoveryCursor'[p] = recoveryCursor[p]
  /\ Answered(p)' <=> Answered(p)
  /\ \A f \in net' : f.type \in RecoveryTypes /\ f.sender = p => f \in net

LEMMA StillStage ==
  ASSUME NEW p \in Nodes, StageOK(p), Still(p)
  PROVE  StageOK(p)'
  <1>1. \A f \in net' : Pending(f, p)' => f \in net /\ Pending(f, p)
    BY DEF Still, Pending
  <1>2. \A f \in net' : Fits(f, p) => Fits(f, p)'
    BY DEF Still, Fits
  <1> QED BY <1>1, <1>2 DEF StageOK, Still

LEMMA CallsStill ==
  ASSUME Basic, NEW n \in Nodes, Call(n) \/ query_Return(n) \/ Receiver_Eof(n), NEW p \in Nodes
  PROVE  Still(p)
  <1>1. UNCHANGED <<status, inc, recoveryCursor, recovery>>
    BY CallsLeave
  <1>2. ASSUME NEW new, net' \subseteq net \cup new, \A f \in new : f.type \notin RecoveryTypes PROVE Still(p)
    BY <1>1, <1>2 DEF Still, Answered
  <1>3. CASE net' \subseteq net
    BY <1>1, <1>3 DEF Still, Answered
  <1>4. CASE insert(n) \/ delete_Star(n) \/ delete_Key(n)
    <2>1. PICK new : net' = net \cup new /\ \A f \in new : Written(n, f)
      BY <1>4, InsertSends, DeleteSends
    <2>2. \A f \in new : f.type \notin RecoveryTypes
      BY <2>1 DEF Written, RecoveryTypes
    <2> QED BY <1>2, <2>1, <2>2
  <1>5. CASE query_Key(n) \/ query_Star(n)
    <2>1. PICK f, what : Asked(n, what, f) /\ Ask(n, what, f)
      BY <1>5, QuerySends
    <2>2. net' = net \cup {f} /\ f.type \notin RecoveryTypes
      BY <2>1 DEF Ask, Asked, RecoveryTypes
    <2>3. PICK new : new = {f}
      OBVIOUS
    <2> QED BY <1>2, <2>2, <2>3
  <1>6. CASE Quiet(n)
    BY <1>3, <1>6, QuietSends
  <1> QED BY <1>4, <1>5, <1>6 DEF Call, Quiet

LEMMA StartsStill ==
  ASSUME Basic, NEW n \in Nodes, Crash(n) \/ onCreate(n) \/ join(n) \/ recover(n) \/ recover_Next(n),
         NEW p \in Nodes, p # n
  PROVE  Still(p)
  <1>0. /\ status \in [Nodes -> Status] /\ DOMAIN inc = Nodes /\ DOMAIN recoveryCursor = Nodes
    BY DEF Basic, TypeOK
  <1>1. status'[p] = status[p] /\ inc'[p] = inc[p] /\ recoveryCursor'[p] = recoveryCursor[p]
    BY <1>0 DEF Crash, onCreate, join, recover, recover_Next, Recovery, Same
  <1>2. recovery' = recovery \/ recovery' = [recovery EXCEPT ![n] = FALSE]
    BY DEF Crash, onCreate, join, recover, recover_Next, Recovery
  <1>3. recovery \in [Nodes -> BOOLEAN]
    BY DEF Basic, TypeOK
  <1>4. Answered(p)' <=> Answered(p)
    BY <1>2, <1>3 DEF Answered
  <1>5. CASE net' \subseteq net
    BY <1>1, <1>4, <1>5 DEF Still
  <1>6. CASE recover(n) \/ recover_Next(n)
    <2>1. PICK new : net' = net \cup new /\ \A f \in new : Requested(n, f)
      BY <1>6, RecoverSends
    <2>2. \A f \in new : f.sender = n
      BY <2>1 DEF Requested
    <2> QED BY <1>1, <1>4, <2>1, <2>2 DEF Still
  <1> QED BY <1>5, <1>6 DEF Crash, onCreate, join

\* A message is about the recovery of its sender, if it is a request that is
\* answered or an answer that is taken.
LEMMA MessagesStill ==
  ASSUME Basic, NEW m \in net, Progress(m) \/ Sender_Timeout(m), NEW p \in Nodes
  PROVE  \/ Still(p)
         \/ p = m.sender /\ (processRecovery(m.sendto, m) \/ processRecovery_Result(m.sendto, m))
  <1>1. UNCHANGED <<status, inc>>
    BY MessagesLeave
  <1>2. CASE processRecovery_Result(m.sendto, m)
    <2>1. PICK n \in Nodes : n = m.sendto
      BY Fields DEF Basic, TypeOK
    <2>2. n = m.sender /\ net' = net \ {m}
      BY <1>2, <2>1 DEF processRecovery_Result, Handles, Basic, NetInv, MsgOK
    <2>3. CASE p # n
      <3>1. recovery' = [recovery EXCEPT ![n] = TRUE] /\ recovery \in [Nodes -> BOOLEAN]
        BY <1>2, <2>1 DEF processRecovery_Result, Basic, TypeOK
      <3>2. Answered(p)' <=> Answered(p)
        BY <2>3, <3>1 DEF Answered
      <3>3. recoveryCursor'[p] = recoveryCursor[p]
        BY <1>2, <2>1, <2>3 DEF processRecovery_Result, Basic, TypeOK
      <3> QED BY <1>1, <2>2, <3>2, <3>3 DEF Still
    <2> QED BY <1>2, <2>1, <2>2, <2>3
  <1>3. CASE ~processRecovery_Result(m.sendto, m)
    <2>1. UNCHANGED <<recovery, recoveryCursor>>
      BY <1>3 DEF Progress, Sender_Timeout, Sender_Down, insert_Local, processMessage, processInsert, StopsAtBoot,
           processQuery_Star, processQuery_Key, processQuery_Result, TakeAnswer, processDelete, processRecovery, Recovery
    <2>2. ASSUME \A f \in net' : f.type \in RecoveryTypes /\ f.sender = p => f \in net PROVE Still(p)
      BY <1>1, <2>1, <2>2 DEF Still, Answered
    <2>3. CASE insert_Local(m)
      BY <2>2, <2>3 DEF insert_Local
    <2>4. ASSUME NEW new, Becomes(m, new), m.type \notin {"recovery", "@-recovery"} \/ m.sender # p \/ new = {} PROVE Still(p)
      <3>1. ASSUME NEW f \in new PROVE f.type \notin RecoveryTypes \/ f.sender # p
        BY <2>4 DEF Becomes, Follows, RecoveryTypes
      <3> QED BY <2>2, <2>4, <3>1 DEF Becomes
    <2>5. CASE SendFails(m)
      <3>1. Becomes(m, Retries(m)) /\ (m.type \in {"recovery", "@-recovery"} => Retries(m) = {})
        BY <2>5, SenderFailed DEF Retries
      <3> QED BY <2>4, <3>1
    <2>6. CASE StopsAtBoot(m.sendto, m)
      BY <2>2, <2>6 DEF StopsAtBoot, Handles
    <2>7. CASE processMessage(m.sendto, m) /\ ~StopsAtBoot(m.sendto, m) /\ m.type \in {"recovery", "@-recovery"}
      <3>1. processRecovery(m.sendto, m)
        BY <1>3, <2>7 DEF processMessage, processInsert, processQuery_Star, processQuery_Key, processQuery_Result, processDelete
      <3>2. \E new : Becomes(m, new)
        BY <2>7, Handled DEF HandledBy
      <3> QED BY <2>4, <3>1, <3>2
    <2>8. CASE processMessage(m.sendto, m) /\ m.type \notin {"recovery", "@-recovery"}
      BY <2>4, <2>8, Handled DEF HandledBy
    <2> QED BY <2>3, <2>5, <2>6, <2>7, <2>8 DEF Progress, Sender_Down, Sender_Timeout
  <1> QED BY <1>2, <1>3

\* What recover asks, stage by stage.
LEMMA RecoverAsks ==
  ASSUME Basic, NEW n \in Nodes, recover(n) \/ recover_Next(n)
  PROVE  /\ inc' = inc /\ status'[n] \in Waiting \cup {"up"} /\ recoveryCursor'[n] = Empty
         /\ \E new : /\ net' = net \cup new
                     /\ \A f \in new : f.type # "recovery-result" /\ f.sender = n /\ f.inc = inc[n] /\ Fits(f, n)' /\ status'[n] \in Waiting
                     /\ \A f, g \in new : f = g
  <1>0. status \in [Nodes -> Status] /\ DOMAIN recoveryCursor = Nodes /\ TypeOK
    BY DEF Basic, TypeOK
  <1>1. /\ inc' = inc /\ recoveryCursor'[n] = Empty
        /\ \/ status' = [status EXCEPT ![n] = "rec1"] /\ net' = net \cup {Request(n, "recovery", predessor(n))}
           \/ status' = [status EXCEPT ![n] = "rec2"] /\ net' = net \cup {Request(n, "recovery", predessor(predessor(n)))}
           \/ status' = [status EXCEPT ![n] = "rec3"] /\ net' = net \cup {Request(n, "@-recovery", successor(n))}
           \/ status' = [status EXCEPT ![n] = "up"] /\ net' = net
    BY <1>0 DEF recover, recover_Next, Same
  <1>2. ASSUME NEW st \in Waiting, status' = [status EXCEPT ![n] = st], NEW type \in {"recovery", "@-recovery"}, NEW to \in Nodes,
               net' = net \cup {Request(n, type, to)},
               \/ type = "recovery" /\ st = "rec1" /\ to = predessor(n)
               \/ type = "recovery" /\ st = "rec2" /\ to = predessor(predessor(n))
               \/ type = "@-recovery" /\ st = "rec3" /\ to = successor(n)
        PROVE  \E new : /\ net' = net \cup new
                        /\ \A f \in new : f.type # "recovery-result" /\ f.sender = n /\ f.inc = inc[n] /\ Fits(f, n)' /\ status'[n] \in Waiting
                        /\ \A f, g \in new : f = g
    <2>0. PICK q : q = Request(n, type, to)
      OBVIOUS
    <2>1. type \in Types
      BY <1>2 DEF Types
    <2>2. q.type = type /\ q.sender = n /\ q.sendto = to /\ q.inc = inc[n]
      BY <1>0, <2>0, <2>1, RequestFields
    <2>3. net' = net \cup {q}
      BY <1>2, <2>0
    <2>4. status'[n] = st
      BY <1>0, <1>2
    <2>5. Fits(q, n)'
      BY <1>2, <2>2, <2>4 DEF Fits
    <2>6. PICK new : new = {q}
      OBVIOUS
    <2>7. q.type # "recovery-result"
      BY <1>2, <2>2
    <2> QED BY <1>2, <2>2, <2>3, <2>4, <2>5, <2>6, <2>7
  <1>3. predessor(n) \in Nodes /\ predessor(predessor(n)) \in Nodes /\ successor(n) \in Nodes
    BY Ring
  <1>4. CASE status' = [status EXCEPT ![n] = "up"] /\ net' = net
    <2>1. PICK new : new = {}
      OBVIOUS
    <2> QED BY <1>0, <1>1, <1>4, <2>1
  <1>5. CASE ~(status' = [status EXCEPT ![n] = "up"] /\ net' = net)
    <2>1. "rec1" \in Waiting /\ "rec2" \in Waiting /\ "rec3" \in Waiting
      BY DEF Waiting
    <2>2. status'[n] \in Waiting
      BY <1>0, <1>1, <1>5 DEF Waiting
    <2> QED BY <1>1, <1>2, <1>3, <1>5, <2>1, <2>2
  <1> QED BY <1>4, <1>5

LEMMA StageStep ==
  ASSUME Basic, StageInv, Next
  PROVE  StageInv'
  <1>0. /\ status \in [Nodes -> Status] /\ recovery \in [Nodes -> BOOLEAN] /\ inc \in [Nodes -> 0 .. MaxCrashes] /\ MaxCrashes \in Nat
        /\ DOMAIN recoveryCursor = Nodes
    BY DynamoAssumption DEF Basic, TypeOK
  <1>1. SUFFICES ASSUME mixed' = {}, NEW p \in Nodes PROVE StageOK(p)'
    BY DEF StageInv
  <1>2. StageOK(p)
    BY <1>1, MixedGrows DEF StageInv
  <1>3. CASE Still(p)
    BY <1>2, <1>3, StillStage
  <1>4. ASSUME NEW n \in Nodes, Call(n) \/ query_Return(n) \/ Receiver_Eof(n) PROVE StageOK(p)'
    BY <1>3, <1>4, CallsStill
  <1>5. ASSUME NEW n \in Nodes, Crash(n) \/ onCreate(n) \/ join(n) \/ recover(n) \/ recover_Next(n), p # n PROVE StageOK(p)'
    BY <1>3, <1>5, StartsStill
  <1>6. ASSUME Crash(p) PROVE StageOK(p)'
    <2>1. status'[p] = "down" /\ recovery' = [recovery EXCEPT ![p] = FALSE]
      BY <1>0, <1>6 DEF Crash
    <2>2. ~Answered(p)'
      BY <1>0, <2>1 DEF Answered
    <2> QED BY <2>1, <2>2 DEF StageOK, Waiting
  <1>7. ASSUME onCreate(p) PROVE StageOK(p)'
    <2>1. status'[p] = "boot" /\ status[p] = "down" /\ inc'[p] = inc[p] + 1 /\ net' = net /\ recovery' = recovery
      BY <1>0, <1>7 DEF onCreate, Recovery
    <2>2. ~Answered(p)'
      BY <1>2, <2>1 DEF Answered, StageOK
    <2>3. ASSUME NEW m \in net' PROVE ~Pending(m, p)'
      <3>1. CASE m.sender = p
        <4>1. m.inc \in Nat /\ m.inc <= inc[p] /\ inc[p] \in Nat
          BY <1>0, <2>1, <2>3, <3>1, Fields DEF Basic, TypeOK, NetInv, Past
        <4>2. m.inc # inc'[p]
          BY <2>1, <4>1
        <4> QED BY <4>2 DEF Pending
      <3> QED BY <3>1 DEF Pending
    <2> QED BY <2>1, <2>2, <2>3 DEF StageOK, Waiting
  <1>8. ASSUME join(p) PROVE StageOK(p)'
    <2>1. status'[p] = "joined" /\ status[p] = "boot" /\ inc' = inc /\ net' = net /\ recovery' = recovery
      BY <1>0, <1>8 DEF join, Recovery, Same
    <2>2. ~Answered(p)'
      BY <1>2, <2>1 DEF Answered, StageOK
    <2>3. \A m \in net' : ~Pending(m, p)'
      BY <1>2, <2>1 DEF StageOK, Pending, Waiting
    <2> QED BY <2>1, <2>2, <2>3 DEF StageOK, Waiting
  <1>9. ASSUME recover(p) \/ recover_Next(p) PROVE StageOK(p)'
    <2>1. /\ inc' = inc /\ status'[p] \in Waiting \cup {"up"} /\ recoveryCursor'[p] = Empty
      BY <1>9, RecoverAsks
    <2>2. PICK new : /\ net' = net \cup new
                     /\ \A f \in new : f.type # "recovery-result" /\ f.sender = p /\ f.inc = inc[p] /\ Fits(f, p)' /\ status'[p] \in Waiting
                     /\ \A f, g \in new : f = g
      BY <1>9, RecoverAsks
    <2>3. \A m \in net : ~Pending(m, p)
      <3>1. CASE recover(p)
        BY <1>2, <3>1 DEF StageOK, Waiting, recover
      <3>2. CASE recover_Next(p)
        <4>1. status[p] # "down" /\ Answered(p)
          BY <3>2 DEF recover_Next, Answered
        <4> QED BY <1>2, <4>1 DEF StageOK
      <3> QED BY <1>9, <3>1, <3>2
    <2>4. ~Answered(p)'
      <3>1. CASE recover(p)
        <4>1. status[p] = "joined" /\ recovery' = recovery
          BY <3>1 DEF recover
        <4> QED BY <1>2, <4>1 DEF StageOK, Answered
      <3>2. CASE recover_Next(p)
        <4>1. recovery' = [recovery EXCEPT ![p] = FALSE]
          BY <3>2 DEF recover_Next
        <4> QED BY <1>0, <4>1 DEF Answered
      <3> QED BY <1>9, <3>1, <3>2
    <2>5. \A m \in net' : Pending(m, p)' => m \in new
      BY <2>1, <2>2, <2>3 DEF Pending
    <2> QED BY <2>1, <2>2, <2>4, <2>5 DEF StageOK
  <1>10. ASSUME NEW m \in net, p = m.sender, processRecovery(m.sendto, m), UNCHANGED <<status, inc>> PROVE StageOK(p)'
    <2>1. m.type \in {"recovery", "@-recovery"} /\ UNCHANGED <<recovery, recoveryCursor>> /\ processMessage(m.sendto, m)
      BY <1>10 DEF processRecovery, Recovery, processMessage
    <2>2. PICK new : Becomes(m, new)
      BY <2>1, Handled DEF HandledBy
    <2>3. ASSUME NEW f \in new PROVE f.type = "recovery-result" /\ f.sender = m.sender /\ f.inc = m.inc /\ new = {f}
      BY <2>1, <2>2, <2>3 DEF Becomes, Follows
    <2>4. CASE Pending(m, p)
      <3>1. \A f \in net' : Pending(f, p)' => f \in new \/ (f \in net /\ f # m /\ Pending(f, p))
        BY <1>10, <2>2 DEF Becomes, Pending
      <3>2. status[p] # "down" => \A f \in net' : Pending(f, p)' => f \in new
        BY <1>2, <2>4, <3>1 DEF StageOK
      <3>3. \A f \in new : Fits(f, p)'
        BY <2>3 DEF Fits
      <3>4. \A f, g \in new : f = g
        BY <2>3
      <3>5. Answered(p)' <=> Answered(p)
        BY <2>1 DEF Answered
      <3>6. status[p] # "down" => status[p] \in Waiting /\ ~Answered(p)
        BY <1>2, <2>4 DEF StageOK
      <3> QED BY <1>2, <1>10, <2>1, <3>2, <3>3, <3>4, <3>5, <3>6 DEF StageOK
    <2>5. CASE ~Pending(m, p)
      <3>1. \A f \in net' : Pending(f, p)' => f \in net /\ Pending(f, p)
        <4>1. m.inc # inc[p]
          BY <1>10, <2>1, <2>5 DEF Pending, RecoveryTypes
        <4> QED BY <1>10, <2>2, <2>3, <4>1 DEF Becomes, Pending
      <3>2. \A f \in net' : Fits(f, p) => Fits(f, p)'
        BY <1>10 DEF Fits
      <3>3. Answered(p)' <=> Answered(p)
        BY <2>1 DEF Answered
      <3> QED BY <1>2, <1>10, <2>1, <3>1, <3>2, <3>3 DEF StageOK
    <2> QED BY <2>4, <2>5
  <1>11. ASSUME NEW m \in net, p = m.sender, processRecovery_Result(m.sendto, m), UNCHANGED <<status, inc>> PROVE StageOK(p)'
    <2>1. m.type = "recovery-result" /\ m.sendto = p
      BY <1>11 DEF processRecovery_Result, Basic, NetInv, MsgOK
    <2>2. /\ net' = net \ {m} /\ recovery' = [recovery EXCEPT ![p] = TRUE] /\ status[p] # "down"
          /\ mixed' = IF m.inc = inc[p] THEN mixed ELSE mixed \cup {p}
      BY <1>11, <2>1 DEF processRecovery_Result, Handles
    <2>3. Pending(m, p)
      BY <1>1, <1>11, <2>1, <2>2 DEF Pending, RecoveryTypes
    <2>4. \A f \in net' : ~Pending(f, p)'
      BY <1>2, <1>11, <2>2, <2>3 DEF StageOK, Pending
    <2>5. Answered(p)'
      BY <1>0, <2>2 DEF Answered
    <2>6. status'[p] \in Waiting
      BY <1>2, <1>11, <2>2, <2>3 DEF StageOK
    <2> QED BY <2>4, <2>5, <2>6 DEF StageOK, Waiting
  <1>12. ASSUME NEW m \in net, Progress(m) \/ Sender_Timeout(m) PROVE StageOK(p)'
    BY <1>3, <1>10, <1>11, <1>12, MessagesStill, MessagesLeave
  <1> QED BY <1>4, <1>5, <1>6, <1>7, <1>8, <1>9, <1>12 DEF Next

-----------------------------------------------------------------------------
(* The copies of a key whose last write nothing disturbed *)

\* The question whose answer brings node n the rows of key k.
Source(n, k) == IF getNode(k) = predessor(n) THEN 1
                ELSE IF getNode(k) = predessor(predessor(n)) THEN 2 ELSE 3

Stage(n) == IF status[n] = "rec1" THEN 1 ELSE IF status[n] = "rec2" THEN 2 ELSE 3

\* The rows of an answer hold what was last written to key k.
RightAnswer(rows, k) ==
  /\ \A r \in rows : r[1] = k => latest[k] # None /\ r[2] = latest[k]
  /\ latest[k] # None => \E r \in rows : r[1] = k

NoAnswer(rows, k) == \A r \in rows : r[1] # k

\* What a recovery that is under way has brought, and is about to bring.
RecoveryOK(n, k) == status[n] \in Waiting =>
  /\ IF Stage(n) <= Source(n, k) THEN db[n][k] = <<>> ELSE Shows(db[n][k], k)
  /\ Answered(n) => IF Stage(n) = Source(n, k) THEN Shows(Kept(n)[k], k) ELSE Kept(n)[k] = <<>>
  /\ \A m \in net : m.type = "recovery-result" /\ Pending(m, n) =>
        /\ Stage(n) = Source(n, k) => RightAnswer(m.result, k)
        /\ Stage(n) # Source(n, k) /\ Stage(n) # 3 => NoAnswer(m.result, k)

\* The messages that write key k write what was last written, and none of
\* them meets a node that starts.
WritersOK(k) == \A m \in net : Writes(m, k) => Carries(m, k) /\ Recovering = {}

OneStarts == \A p, q \in Recovering : p = q

\* A copy on a node that is up is right, or a message has still to come to it.
CopiesOK(k) == \A x \in Replicas(k) : status[x] = "up" =>
  Shows(db[x][k], k) \/ \E m \in net : Writes(m, k) /\ Reaches(m, k, x)

KeyOK(k) == WritersOK(k) /\ OneStarts /\ CopiesOK(k) /\ \A n \in Replicas(k) : RecoveryOK(n, k)

CopyInv == mixed = {} => \A k \in Keys : Clean(k) /\ Placed(k) => KeyOK(k)

LEMMA Sources ==
  ASSUME NEW k \in Keys, Placed(k), NEW n \in Replicas(k)
  PROVE  /\ n \in Nodes /\ Source(n, k) \in 1 .. 3
         /\ Source(n, k) = 1 <=> getNode(k) = predessor(n)
         /\ Source(n, k) = 2 <=> getNode(k) = predessor(predessor(n))
         /\ Source(n, k) = 3 <=> getNode(k) = n
         /\ \A x \in Nodes : isMyPartiton(x, KeyHash[k]) <=> x = getNode(k)
         /\ predessor(n) # n /\ predessor(predessor(n)) # n /\ successor(n) # n
  <1>1. PICK c : c = getNode(k)
    OBVIOUS
  <1>2. c \in Nodes /\ \A x \in Nodes : isMyPartiton(x, KeyHash[k]) => x = c
    BY <1>1, Coordinator
  <1>3. isMyPartiton(c, KeyHash[k])
    BY <1>1, <1>2 DEF Placed
  <1>4. n \in {c, successor(c), successor(successor(c))}
    BY <1>1 DEF Replicas
  <1>5. N \in Nat /\ N > 2 /\ c \in 0 .. N - 1
    BY <1>2, DynamoAssumption DEF Nodes
  <1>6. \A x \in Nodes : /\ x \in 0 .. N - 1
                         /\ successor(x) = (IF x = N - 1 THEN 0 ELSE x + 1) /\ successor(x) \in Nodes
                         /\ predessor(x) = (IF x = 0 THEN N - 1 ELSE x - 1) /\ predessor(x) \in Nodes
    BY Ring DEF Nodes
  <1>7. n \in Nodes
    BY <1>2, <1>4, <1>6
  <1>8. predessor(n) # n /\ predessor(predessor(n)) # n /\ predessor(predessor(n)) # predessor(n) /\ successor(n) # n
    <2>1. /\ predessor(n) = (IF n = 0 THEN N - 1 ELSE n - 1) /\ predessor(n) \in 0 .. N - 1 /\ n \in 0 .. N - 1
          /\ predessor(predessor(n)) = (IF predessor(n) = 0 THEN N - 1 ELSE predessor(n) - 1)
          /\ successor(n) = (IF n = N - 1 THEN 0 ELSE n + 1)
      BY <1>6, <1>7
    <2> QED BY <1>5, <2>1
  <1>9. c = n \/ c = predessor(n) \/ c = predessor(predessor(n))
    <2>1. \A x \in Nodes : predessor(successor(x)) = x
      <3>1. ASSUME NEW x \in Nodes PROVE predessor(successor(x)) = x
        <4>1. /\ successor(x) = (IF x = N - 1 THEN 0 ELSE x + 1) /\ x \in 0 .. N - 1
              /\ predessor(successor(x)) = (IF successor(x) = 0 THEN N - 1 ELSE successor(x) - 1)
          BY <1>6
        <4> QED BY <1>5, <4>1
      <3> QED BY <3>1
    <2> QED BY <1>2, <1>4, <1>6, <2>1
  <1> QED BY <1>1, <1>2, <1>3, <1>7, <1>8, <1>9 DEF Source

LEMMA PutShows ==
  ASSUME NEW k \in Keys, NEW m, m.type \in {"insert", "local"} => m.value \in Values,
         Carries(m, k), NEW s \in Seq(Values), NEW t, Put(m, s, t)
  PROVE  Shows(t, k)
  <1>1. CASE m.type \in {"insert", "local"}
    <2>1. m.value \in Values /\ m.value = latest[k] /\ t = Append(s, m.value) /\ latest[k] # None
      BY <1>1, DynamoAssumption DEF Carries, Put
    <2>2. Append(s, m.value) # <<>> /\ Append(s, m.value)[Len(Append(s, m.value))] = m.value
      BY <2>1
    <2> QED BY <2>1, <2>2 DEF Shows
  <1>2. CASE m.type \notin {"insert", "local"}
    BY <1>2 DEF Carries, Put, Shows
  <1> QED BY <1>1, <1>2

\* A right table gives a right answer, and a right answer a right cursor.
LEMMA RightRows ==
  ASSUME NEW k \in Keys, NEW t \in Table, Shows(t[k], k)
  PROVE  RightAnswer(AllRows({}, t), k)
  <1>1. AllRows({}, t) = {<<j, Newest(t, j)>> : j \in Held(t)}
    BY DEF AllRows
  <1>2. k \in Held(t) <=> latest[k] # None
    BY DEF Held, Shows
  <1>3. k \in Held(t) => Newest(t, k) = latest[k]
    BY <1>2 DEF Newest, Shows
  <1>4. \A r \in AllRows({}, t) : r[1] = k => k \in Held(t) /\ r[2] = Newest(t, k)
    BY <1>1
  <1>5. ASSUME k \in Held(t) PROVE \E r \in AllRows({}, t) : r[1] = k
    <2>1. PICK r : r = <<k, Newest(t, k)>>
      OBVIOUS
    <2> QED BY <1>1, <1>5, <2>1
  <1> QED BY <1>2, <1>3, <1>4, <1>5 DEF RightAnswer

LEMMA RightCursor ==
  ASSUME NEW k \in Keys, NEW rows
  PROVE  /\ RightAnswer(rows, k) => Shows(CursorRows(Empty, rows)[k], k)
         /\ NoAnswer(rows, k) => CursorRows(Empty, rows)[k] = <<>>
  <1>1. CursorRows(Empty, rows)[k] = IF \E r \in rows : r[1] = k
                    THEN Append(<<>>, (CHOOSE r \in rows : r[1] = k)[2]) ELSE <<>>
    BY EmptyTable DEF CursorRows
  <1>2. NoAnswer(rows, k) => CursorRows(Empty, rows)[k] = <<>>
    BY <1>1 DEF NoAnswer
  <1>3. ASSUME RightAnswer(rows, k), latest[k] = None PROVE Shows(CursorRows(Empty, rows)[k], k)
    BY <1>1, <1>3 DEF RightAnswer, Shows
  <1>4. ASSUME RightAnswer(rows, k), latest[k] # None PROVE Shows(CursorRows(Empty, rows)[k], k)
    <2>1. PICK q : q = CHOOSE r \in rows : r[1] = k
      OBVIOUS
    <2>2. \E r \in rows : r[1] = k
      BY <1>4 DEF RightAnswer
    <2>3. q \in rows /\ q[1] = k
      BY <2>1, <2>2
    <2>4. q[2] = latest[k]
      BY <1>4, <2>3 DEF RightAnswer
    <2>5. CursorRows(Empty, rows)[k] = <<latest[k]>>
      BY <1>1, <2>1, <2>2, <2>4
    <2> QED BY <1>4, <2>5 DEF Shows
  <1> QED BY <1>2, <1>3, <1>4

\* A node starts in onCreate only.
LEMMA StartStep ==
  ASSUME Basic, Next
  PROVE  \/ Recovering' \subseteq Recovering /\ \A x \in Nodes : status'[x] = "up" => status[x] = "up" \/ recover_Next(x)
         \/ \E n \in Nodes : onCreate(n)
  <1>0. status \in [Nodes -> Status]
    BY DEF Basic, TypeOK
  <1>1. CASE UNCHANGED status
    BY <1>1 DEF Recovering
  <1>2. ASSUME NEW n \in Nodes, Call(n) \/ query_Return(n) \/ Receiver_Eof(n) PROVE UNCHANGED status
    BY <1>2, CallsLeave
  <1>3. ASSUME NEW m \in net, Progress(m) \/ Sender_Timeout(m) PROVE UNCHANGED status
    BY <1>3, MessagesLeave
  <1>4. ASSUME NEW n \in Nodes, Crash(n) \/ join(n) \/ recover(n) \/ recover_Next(n)
        PROVE  Recovering' \subseteq Recovering /\ \A x \in Nodes : status'[x] = "up" => status[x] = "up" \/ recover_Next(x)
    <2>1. \/ status' = [status EXCEPT ![n] = "down"]
          \/ status[n] = "boot" /\ status' = [status EXCEPT ![n] = "joined"]
          \/ status[n] = "joined" /\ status' = [status EXCEPT ![n] = "rec1"]
          \/ status[n] = "rec1" /\ status' = [status EXCEPT ![n] = "rec2"]
          \/ status[n] = "rec2" /\ status' = [status EXCEPT ![n] = "rec3"]
          \/ recover_Next(n) /\ status' = [status EXCEPT ![n] = "up"]
      BY <1>4 DEF Crash, join, recover, recover_Next
    <2>2. Recovering' \subseteq Recovering
      <3>1. ASSUME NEW x \in Nodes, status'[x] \notin {"up", "down"} PROVE status[x] \notin {"up", "down"}
        BY <1>0, <2>1, <3>1
      <3> QED BY <3>1 DEF Recovering
    <2>3. \A x \in Nodes : status'[x] = "up" => status[x] = "up" \/ recover_Next(x)
      BY <1>0, <2>1
    <2> QED BY <2>2, <2>3
  <1> QED BY <1>1, <1>2, <1>3, <1>4 DEF Next

LEMMA CreateClean ==
  ASSUME Basic, NEW n \in Nodes, onCreate(n), NEW k \in Keys, Clean(k)'
  PROVE  /\ (\A o \in Nodes \ {n} : status[o] = "up") /\ ~\E m \in net : Writes(m, k)
         /\ net' = net /\ status' = [status EXCEPT ![n] = "boot"]
  <1>1. Clean(k)' = (Clean(k) /\ (\A o \in Nodes \ {n} : status[o] = "up") /\ ~\E m \in net : Writes(m, k))
    BY Zenon DEF onCreate, Clean
  <1>2. (\A o \in Nodes \ {n} : status[o] = "up") /\ ~\E m \in net : Writes(m, k)
    BY <1>1, Zenon
  <1>3. net' = net /\ status' = [status EXCEPT ![n] = "boot"]
    BY DEF onCreate
  <1> QED BY <1>2, <1>3

\* The cases of a step, for a key that is clean after it.
LEMMA KeyCases ==
  ASSUME Basic, Next, NEW k \in Keys, Clean(k)'
  PROVE  \/ Renewed(k) /\ UNCHANGED status
         \/ \E n \in Nodes : Aside(n, k) /\ (db'[n][k] = db[n][k] \/ recover(n) \/ recover_Next(n))
         \/ \E m \in net : Effect(m, k) /\ (Progress(m) \/ Sender_Timeout(m))
  <1>1. ASSUME NEW n \in Nodes, Call(n) PROVE UNCHANGED status
    BY <1>1, CallsLeave
  <1> QED BY <1>1, CallEffect, NodeEffect, MessageEffect DEF Next

LEMMA WritersStep ==
  ASSUME Basic, Next, NEW k \in Keys, Clean(k)', Clean(k) => WritersOK(k) /\ OneStarts
  PROVE  WritersOK(k)' /\ OneStarts'
  <1>0. status \in [Nodes -> Status]
    BY DEF Basic, TypeOK
  <1>1. CASE Renewed(k) /\ UNCHANGED status
    <2>1. Recovering' = {}
      BY <1>1 DEF Renewed, Recovering
    <2> QED BY <1>1, <2>1 DEF Renewed, WritersOK, OneStarts
  <1>2. CASE Clean(k) /\ Recovering' \subseteq Recovering /\
             \A f \in net' : Writes(f, k) => Carries(f, k)' /\ \E m \in net : Writes(m, k)
    BY <1>2 DEF WritersOK, OneStarts
  <1>3. ASSUME Clean(k), latest'[k] = latest[k],
               \A f \in net' : Writes(f, k) => \E m \in net : Writes(m, k) /\ f.type = m.type /\ f.value = m.value
        PROVE  WritersOK(k)' /\ OneStarts'
    <2>1. \A f \in net' : Writes(f, k) => Carries(f, k)' /\ \E m \in net : Writes(m, k)
      BY <1>3 DEF WritersOK, Carries
    <2>2. ASSUME NEW n \in Nodes, onCreate(n) PROVE WritersOK(k)' /\ OneStarts'
      <3>1. (\A o \in Nodes \ {n} : status[o] = "up") /\ (~\E m \in net : Writes(m, k)) /\ status' = [status EXCEPT ![n] = "boot"]
        BY <2>2, CreateClean
      <3>2. \A o \in Recovering' : o = n
        BY <1>0, <3>1 DEF Recovering
      <3> QED BY <2>1, <3>1, <3>2 DEF WritersOK, OneStarts
    <2> QED BY <1>2, <1>3, <2>1, <2>2, StartStep
  <1>4. ASSUME NEW n \in Nodes, Aside(n, k) PROVE WritersOK(k)' /\ OneStarts'
    BY <1>3, <1>4 DEF Aside
  <1>5. ASSUME NEW m \in net, Effect(m, k) PROVE WritersOK(k)' /\ OneStarts'
    BY <1>3, <1>5 DEF Effect
  <1> QED BY <1>1, <1>4, <1>5, KeyCases

\* While a node starts, no message writes the key: no table changes by one.
LEMMA NoWrites ==
  ASSUME Basic, NEW k \in Keys, WritersOK(k), NEW p \in Nodes, status[p] \in Waiting
  PROVE  p \in Recovering /\ \A m \in net : ~Writes(m, k)
  <1>1. p \in Recovering
    BY DEF Recovering, Waiting
  <1> QED BY <1>1 DEF WritersOK

\* The next rows of a recovery.
LEMMA NextShows ==
  ASSUME Basic, NEW k \in Keys, Placed(k), NEW n \in Replicas(k), RecoveryOK(n, k), recover_Next(n), latest'[k] = latest[k]
  PROVE  IF Stage(n) < Source(n, k) THEN db'[n][k] = <<>> ELSE Shows(db[n][k], k)'
  <1>0. n \in Nodes /\ Source(n, k) \in 1 .. 3 /\ Stage(n) \in 1 .. 3 /\ status[n] \in Waiting /\ Answered(n)
    BY Sources DEF recover_Next, Waiting, Stage, Answered
  <1>1. db'[n][k] = db[n][k] \o Kept(n)[k] /\ db[n][k] \in Seq(Values) /\ Kept(n)[k] \in Seq(Values)
    <2>1. db' = [db EXCEPT ![n] = AddRows(db[n], Kept(n))] /\ db \in [Nodes -> Table]
      BY DEF recover_Next, Basic, TypeOK, Table
    <2>2. Kept(n) \in Table
      BY <1>0, KeptTable DEF Basic
    <2>3. db'[n] = AddRows(db[n], Kept(n))
      BY <1>0, <2>1
    <2>4. AddRows(db[n], Kept(n))[k] = db[n][k] \o Kept(n)[k]
      BY DEF AddRows
    <2> QED BY <1>0, <2>1, <2>2, <2>3, <2>4 DEF Table
  <1>2. /\ IF Stage(n) <= Source(n, k) THEN db[n][k] = <<>> ELSE Shows(db[n][k], k)
        /\ IF Stage(n) = Source(n, k) THEN Shows(Kept(n)[k], k) ELSE Kept(n)[k] = <<>>
    BY <1>0 DEF RecoveryOK
  <1>3. CASE Stage(n) < Source(n, k)
    <2>1. db[n][k] = <<>> /\ Kept(n)[k] = <<>>
      BY <1>0, <1>2, <1>3
    <2> QED BY <1>1, <1>3, <2>1
  <1>4. CASE Stage(n) = Source(n, k)
    <2>1. db[n][k] = <<>> /\ Shows(Kept(n)[k], k)
      BY <1>0, <1>2, <1>4
    <2>2. db'[n][k] = Kept(n)[k]
      BY <1>1, <2>1
    <2> QED BY <1>0, <1>4, <2>1, <2>2 DEF Shows
  <1>5. CASE Stage(n) > Source(n, k)
    <2>1. Shows(db[n][k], k) /\ Kept(n)[k] = <<>>
      BY <1>0, <1>2, <1>5
    <2>2. db'[n][k] = db[n][k]
      BY <1>1, <2>1
    <2> QED BY <1>0, <1>5, <2>1, <2>2 DEF Shows
  <1> QED BY <1>0, <1>3, <1>4, <1>5

LEMMA CopiesStep ==
  ASSUME Basic, Next, NEW k \in Keys, Placed(k), Clean(k)', Clean(k) => KeyOK(k)
  PROVE  CopiesOK(k)'
  <1>0. /\ status \in [Nodes -> Status] /\ db \in [Nodes -> Table]
        /\ \A x \in Replicas(k) : x \in Nodes
    BY Sources DEF Basic, TypeOK, Table
  <1>1. CASE Renewed(k) /\ UNCHANGED status
    BY <1>1 DEF Renewed, CopiesOK
  <1>2. ASSUME NEW n \in Nodes, onCreate(n), NEW x \in Nodes, status'[x] = "up" PROVE status[x] = "up"
    <2>1. status' = [status EXCEPT ![n] = "boot"]
      BY <1>2 DEF onCreate
    <2> QED BY <1>0, <1>2, <2>1
  <1>3. ASSUME NEW x \in Nodes, status'[x] = "up" PROVE status[x] = "up" \/ recover_Next(x)
    BY <1>2, <1>3, StartStep
  <1>4. ASSUME NEW n \in Nodes, Aside(n, k), db'[n][k] = db[n][k] \/ recover(n) \/ recover_Next(n),
               NEW x \in Replicas(k), status'[x] = "up"
        PROVE  Shows(db[x][k], k)' \/ \E m \in net' : Writes(m, k) /\ Reaches(m, k, x)
    <2>1. Clean(k) /\ KeyOK(k) /\ latest'[k] = latest[k] /\ \A f \in net : Writes(f, k) => f \in net'
      BY <1>4 DEF Aside
    <2>2. CASE recover_Next(x)
      <3>1. RecoveryOK(x, k) /\ Stage(x) \in 1 .. 3 /\ Source(x, k) \in 1 .. 3
        BY <2>1, Sources DEF KeyOK, Stage
      <3>2. Stage(x) = 3
        BY <1>0, <1>4, <2>2 DEF recover_Next, Stage
      <3>3. Shows(db[x][k], k)'
        BY <2>1, <2>2, <3>1, <3>2, NextShows
      <3> QED BY <3>3
    <2>3. CASE ~recover_Next(x)
      <3>1. status[x] = "up"
        BY <1>0, <1>3, <1>4, <2>3
      <3>2. ~recover(x)
        BY <3>1 DEF recover
      <3>3. db'[x][k] = db[x][k]
        BY <1>0, <1>4, <2>3, <3>2 DEF Aside
      <3>4. Shows(db[x][k], k) \/ \E m \in net : Writes(m, k) /\ Reaches(m, k, x)
        BY <2>1, <3>1 DEF KeyOK, CopiesOK
      <3>5. Shows(db[x][k], k) => Shows(db[x][k], k)'
        BY <2>1, <3>3 DEF Shows
      <3> QED BY <2>1, <3>4, <3>5
    <2> QED BY <2>2, <2>3
  <1>5. ASSUME NEW m \in net, Effect(m, k), Progress(m) \/ Sender_Timeout(m), NEW x \in Replicas(k), status'[x] = "up"
        PROVE  Shows(db[x][k], k)' \/ \E f \in net' : Writes(f, k) /\ Reaches(f, k, x)
    <2>1. Clean(k) /\ KeyOK(k) /\ latest'[k] = latest[k] /\ x \in Nodes
      BY <1>0, <1>5 DEF Effect
    <2>2. status[x] = "up"
      BY <1>5, MessagesLeave
    <2>3. ASSUME Writes(m, k), Put(m, db[x][k], db'[x][k]) PROVE Shows(db[x][k], k)'
      <3>1. Carries(m, k) /\ (m.type \in {"insert", "local"} => m.value \in Values)
        BY <2>1, <2>3 DEF KeyOK, WritersOK, Basic, NetInv, MsgOK
      <3>2. db[x][k] \in Seq(Values)
        BY <1>0, <2>1 DEF Table
      <3>3. PICK t : t = db'[x][k]
        OBVIOUS
      <3>4. Shows(t, k)
        BY <2>3, <3>1, <3>2, <3>3, PutShows
      <3> QED BY <2>1, <3>3, <3>4 DEF Shows
    <2>4. Shows(db[x][k], k) \/ \E f \in net : Writes(f, k) /\ Reaches(f, k, x)
      BY <2>1, <2>2 DEF KeyOK, CopiesOK
    <2>5. CASE Shows(db[x][k], k)
      <3>1. db'[x][k] = db[x][k] => Shows(db[x][k], k)'
        BY <2>1, <2>5 DEF Shows
      <3> QED BY <1>5, <2>1, <2>3, <3>1 DEF Effect
    <2>6. ASSUME NEW f \in net, Writes(f, k), Reaches(f, k, x)
          PROVE  Shows(db[x][k], k)' \/ \E g \in net' : Writes(g, k) /\ Reaches(g, k, x)
      <3>1. CASE f # m
        BY <1>5, <2>6, <3>1 DEF Effect
      <3>2. CASE f = m
        BY <1>5, <2>1, <2>2, <2>3, <2>6, <3>2 DEF Effect
      <3> QED BY <3>1, <3>2
    <2> QED BY <2>4, <2>5, <2>6
  <1> QED BY <1>1, <1>4, <1>5, KeyCases DEF CopiesOK

LEMMA StillRecovery ==
  ASSUME NEW k \in Keys, NEW p \in Nodes, Still(p), RecoveryOK(p, k), latest'[k] = latest[k],
         status[p] \in Waiting => db'[p][k] = db[p][k]
  PROVE  RecoveryOK(p, k)'
  <1>1. SUFFICES ASSUME status'[p] \in Waiting
                 PROVE  /\ IF Stage(p)' <= Source(p, k) THEN db'[p][k] = <<>> ELSE Shows(db[p][k], k)'
                        /\ Answered(p)' => IF Stage(p)' = Source(p, k) THEN Shows(Kept(p)[k], k)' ELSE Kept(p)'[k] = <<>>
                        /\ \A m \in net' : m.type = "recovery-result" /\ Pending(m, p)' =>
                             /\ Stage(p)' = Source(p, k) => RightAnswer(m.result, k)'
                             /\ Stage(p)' # Source(p, k) /\ Stage(p)' # 3 => NoAnswer(m.result, k)
    BY DEF RecoveryOK, Source, NoAnswer
  <1>2. status'[p] = status[p] /\ status[p] \in Waiting /\ Stage(p)' = Stage(p) /\ db'[p][k] = db[p][k]
    BY <1>1 DEF Still, Stage
  <1>3. Shows(db[p][k], k) => Shows(db[p][k], k)'
    BY <1>2 DEF Shows
  <1>4. Kept(p)'[k] = Kept(p)[k]
    BY <1>2 DEF Kept, Still
  <1>5. Shows(Kept(p)[k], k) => Shows(Kept(p)[k], k)'
    BY <1>4 DEF Shows
  <1>6. \A m : RightAnswer(m.result, k) => RightAnswer(m.result, k)'
    BY DEF RightAnswer
  <1>7. \A m \in net' : m.type = "recovery-result" /\ Pending(m, p)' => m \in net /\ Pending(m, p)
    BY DEF Still, Pending
  <1> QED BY <1>2, <1>3, <1>4, <1>5, <1>6, <1>7 DEF RecoveryOK, Still

\* The node that is asked is up, and its copies are right.
LEMMA AskedIsRight ==
  ASSUME Basic, NEW k \in Keys, Placed(k), KeyOK(k), NEW p \in Replicas(k), status[p] \in Waiting,
         NEW y \in Replicas(k), y # p, status[y] # "down"
  PROVE  Shows(db[y][k], k)
  <1>1. p \in Nodes /\ y \in Nodes
    BY Sources
  <1>2. p \in Recovering /\ \A m \in net : ~Writes(m, k)
    BY <1>1, NoWrites DEF KeyOK
  <1>3. status[y] = "up"
    BY <1>1, <1>2 DEF KeyOK, OneStarts, Recovering
  <1> QED BY <1>2, <1>3 DEF KeyOK, CopiesOK

\* The answer to a request of the present start.
LEMMA AnswerIsRight ==
  ASSUME Basic, NEW k \in Keys, Placed(k), KeyOK(k), NEW p \in Replicas(k), status[p] \in Waiting,
         NEW m \in net, Pending(m, p), Fits(m, p), processRecovery(m.sendto, m)
  PROVE  \E f : /\ net' = (net \ {m}) \cup {f}
                /\ Stage(p) = Source(p, k) => RightAnswer(f.result, k)
                /\ Stage(p) # Source(p, k) /\ Stage(p) # 3 => NoAnswer(f.result, k)
  <1>1. PICK y \in Nodes : y = m.sendto
    BY Fields DEF Basic, TypeOK
  <1>2. m \in Msg /\ m.result = {} /\ m.type \in {"recovery", "@-recovery"} /\ db[y] \in Table /\ status[y] # "down"
    BY <1>1 DEF Basic, TypeOK, NetInv, MsgOK, processRecovery, Table, Ready
  <1> DEFINE all == AllRows({}, db[y])
             own == {r \in all : isMyPartiton(y, KeyHash[r[1]])}
  <1>3. all \subseteq Keys \X Values
    BY <1>2, TableRows DEF Held
  <1>4. all \in Rows /\ own \in Rows
    BY <1>3 DEF Rows, Row
  <1>5. /\ p \in Nodes /\ Source(p, k) \in 1 .. 3
        /\ Source(p, k) = 1 <=> getNode(k) = predessor(p)
        /\ Source(p, k) = 2 <=> getNode(k) = predessor(predessor(p))
        /\ Source(p, k) = 3 <=> getNode(k) = p
        /\ \A x \in Nodes : isMyPartiton(x, KeyHash[k]) <=> x = getNode(k)
        /\ predessor(p) # p /\ predessor(predessor(p)) # p /\ successor(p) # p
    BY Sources
  <1>6. ASSUME Stage(p) = Source(p, k) PROVE RightAnswer(all, k) /\ (m.type = "recovery" => y = getNode(k))
    <2>1. m.type = "recovery" => y = getNode(k)
      BY <1>1, <1>5, <1>6 DEF Fits, Stage
    <2>2. m.type = "@-recovery" => y = successor(getNode(k))
      BY <1>1, <1>2, <1>5, <1>6 DEF Fits, Stage
    <2>3. y \in Replicas(k)
      BY <1>2, <2>1, <2>2 DEF Replicas
    <2>4. y # p
      BY <1>1, <1>2, <1>5 DEF Fits
    <2>5. Shows(db[y][k], k)
      BY <1>2, <2>3, <2>4, AskedIsRight
    <2> QED BY <1>2, <2>1, <2>5, RightRows
  <1>7. CASE m.type = "@-recovery"
    <2> DEFINE f == Reply(y, m, "recovery-result", all)
    <2>1. net' = (net \ {m}) \cup {f}
      BY <1>1, <1>2, <1>7 DEF processRecovery, Handles
    <2>2. f.result = all
      <3> HIDE DEF all
      <3>1. "recovery-result" \in Types
        BY DEF Types
      <3> QED BY <1>2, <1>4, <3>1, ReplyFields
    <2>3. Stage(p) = 3
      BY <1>2, <1>7 DEF Fits, Stage
    <2> QED BY <1>6, <2>1, <2>2, <2>3
  <1>8. CASE m.type = "recovery"
    <2> DEFINE f == Reply(y, m, "recovery-result", own)
    <2>1. net' = (net \ {m}) \cup {f}
      BY <1>1, <1>2, <1>8 DEF processRecovery, Handles
    <2>2. f.result = own
      <3> HIDE DEF own
      <3>1. "recovery-result" \in Types
        BY DEF Types
      <3> QED BY <1>2, <1>4, <3>1, ReplyFields
    <2>3. ASSUME Stage(p) = Source(p, k) PROVE RightAnswer(own, k)
      <3>1. \A r \in all : r[1] = k => r \in own
        BY <1>5, <1>6, <1>8, <2>3
      <3> QED BY <1>6, <2>3, <3>1 DEF RightAnswer
    <2>4. ASSUME Stage(p) # Source(p, k), Stage(p) # 3 PROVE NoAnswer(own, k)
      <3>1. y # getNode(k)
        BY <1>1, <1>5, <1>8, <2>4 DEF Fits, Stage
      <3> QED BY <1>5, <3>1 DEF NoAnswer
    <2> QED BY <2>1, <2>2, <2>3, <2>4
  <1> QED BY <1>2, <1>7, <1>8

LEMMA RecoveryStep ==
  ASSUME Basic, Next, mixed' = {}, NEW k \in Keys, Placed(k), Clean(k)', Clean(k) => KeyOK(k),
         NEW p \in Replicas(k), StageOK(p), StageOK(p)'
  PROVE  RecoveryOK(p, k)'
  <1>0. status \in [Nodes -> Status] /\ db \in [Nodes -> Table] /\ p \in Nodes /\ Source(p, k) \in 1 .. 3
    BY Sources DEF Basic, TypeOK, Table
  <1>1. CASE Renewed(k) /\ UNCHANGED status
    <2>1. status'[p] \notin Waiting
      BY <1>0, <1>1 DEF Renewed, Recovering, Waiting
    <2> QED BY <2>1 DEF RecoveryOK
  <1>2. ASSUME \A m \in net' : m.type = "recovery-result" => ~Pending(m, p)', ~Answered(p)',
               status'[p] \in Waiting => IF Stage(p)' <= Source(p, k) THEN db'[p][k] = <<>> ELSE Shows(db[p][k], k)'
        PROVE  RecoveryOK(p, k)'
    BY <1>2 DEF RecoveryOK, Source
  <1>3. ASSUME NEW n \in Nodes, Call(n) \/ query_Return(n) \/ Receiver_Eof(n) \/ Crash(n) \/ onCreate(n) \/ join(n) \/ recover(n) \/ recover_Next(n), ~(Renewed(k) /\ UNCHANGED status)
        PROVE  RecoveryOK(p, k)'
    <2>1. Aside(n, k) /\ (db'[n][k] = db[n][k] \/ recover(n) \/ recover_Next(n))
      <3>1. CASE Call(n)
        BY <1>3, <3>1, CallEffect, CallsLeave
      <3>2. CASE ~Call(n)
        <4>1. db'[n][k] = db[n][k] \/ ~UNCHANGED db
          OBVIOUS
        <4> QED BY <1>3, <3>2, <4>1, NodeEffect
      <3> QED BY <3>1, <3>2
    <2>2. Clean(k) /\ KeyOK(k) /\ RecoveryOK(p, k) /\ latest'[k] = latest[k]
      BY <2>1 DEF Aside, KeyOK
    <2>3. CASE Still(p) /\ db'[p][k] = db[p][k]
      BY <1>0, <2>2, <2>3, StillRecovery
    <2>4. CASE p # n \/ Call(n) \/ query_Return(n) \/ Receiver_Eof(n)
      <3>1. Still(p)
        BY <1>0, <1>3, <2>4, CallsStill, StartsStill
      <3>2. db'[p][k] = db[p][k] \/ (p = n /\ (recover(n) \/ recover_Next(n)))
        BY <1>0, <2>1 DEF Aside
      <3>3. recover(n) => status'[n] # status[n]
        BY <1>0 DEF recover
      <3>4. recover_Next(n) => status'[n] # status[n]
        BY <1>0 DEF recover_Next
      <3>5. db'[p][k] = db[p][k]
        BY <3>1, <3>2, <3>3, <3>4 DEF Still
      <3> QED BY <2>3, <3>1, <3>5
    <2>5. CASE p = n /\ (Crash(n) \/ onCreate(n) \/ join(n))
      <3>1. status'[p] \in {"down", "boot", "joined"}
        BY <1>0, <2>5 DEF Crash, onCreate, join
      <3> QED BY <3>1 DEF RecoveryOK, Waiting
    <2>6. CASE p = n /\ (recover(n) \/ recover_Next(n))
      <3>1. PICK new : /\ net' = net \cup new
                       /\ \A f \in new : f.type # "recovery-result" /\ f.sender = p /\ f.inc = inc[p]
        BY <2>6, RecoverAsks
      <3>2. inc' = inc /\ recoveryCursor'[p] = Empty
        BY <2>6, RecoverAsks
      <3>3. \A m \in net : ~Pending(m, p)
        <4>1. status[p] = "joined" \/ (status[p] # "down" /\ Answered(p))
          BY <2>6 DEF recover, recover_Next, Answered
        <4> QED BY <4>1 DEF StageOK, Waiting
      <3>4. \A m \in net' : m.type = "recovery-result" => ~Pending(m, p)'
        BY <3>1, <3>2, <3>3 DEF Pending
      <3>5. CASE recover(p)
        <4>1. status'[p] = "rec1" /\ status[p] = "joined" /\ recovery' = recovery
          BY <1>0, <3>5 DEF recover
        <4>2. ~Answered(p)'
          BY <4>1 DEF Answered, StageOK
        <4>3. Stage(p)' = 1
          BY <4>1 DEF Stage
        <4>4. db'[p][k] = <<>>
          BY <1>0, <3>5, EmptyTable DEF recover
        <4>5. Stage(p)' <= Source(p, k)
          BY <1>0, <4>3
        <4> QED BY <1>2, <3>4, <4>2, <4>4, <4>5
      <3>6. CASE recover_Next(p)
        <4>1. recovery' = [recovery EXCEPT ![p] = FALSE] /\ recovery \in [Nodes -> BOOLEAN]
          BY <3>6 DEF recover_Next, Basic, TypeOK
        <4>2. ~Answered(p)'
          BY <1>0, <4>1 DEF Answered
        <4>3. IF Stage(p) < Source(p, k) THEN db'[p][k] = <<>> ELSE Shows(db[p][k], k)'
          BY <2>2, <3>6, NextShows
        <4>4. status'[p] \in Waiting => Stage(p)' = Stage(p) + 1
          BY <1>0, <3>6 DEF recover_Next, Stage, Waiting
        <4>5. Stage(p) \in 1 .. 3
          BY DEF Stage
        <4>6. status'[p] \in Waiting => (Stage(p)' <= Source(p, k) <=> Stage(p) < Source(p, k))
          BY <1>0, <4>4, <4>5
        <4> QED BY <1>2, <3>4, <4>2, <4>3, <4>6
      <3> QED BY <2>6, <3>5, <3>6
    <2> QED BY <1>3, <2>4, <2>5, <2>6
  <1>4. ASSUME NEW m \in net, Progress(m) \/ Sender_Timeout(m)
        PROVE  RecoveryOK(p, k)'
    <2>1. Effect(m, k) /\ UNCHANGED <<status, inc>>
      BY <1>4, MessageEffect, MessagesLeave
    <2>2. Clean(k) /\ KeyOK(k) /\ RecoveryOK(p, k) /\ latest'[k] = latest[k]
      BY <2>1 DEF Effect, KeyOK
    <2>3. status[p] \in Waiting => db'[p][k] = db[p][k]
      <3>1. status[p] \in Waiting => ~Writes(m, k)
        BY <1>0, <2>2, NoWrites DEF KeyOK
      <3> QED BY <1>0, <2>1, <3>1 DEF Effect
    <2>4. CASE Still(p)
      BY <1>0, <2>2, <2>3, <2>4, StillRecovery
    <2>5. CASE status[p] \notin Waiting
      BY <2>1, <2>5 DEF RecoveryOK
    <2>6. CASE p = m.sender /\ processRecovery(m.sendto, m) /\ status[p] \in Waiting
      <3>1. UNCHANGED <<recovery, recoveryCursor>> /\ m.type \in {"recovery", "@-recovery"} /\ processMessage(m.sendto, m)
        BY <2>6 DEF processRecovery, Recovery, processMessage
      <3>2. /\ Answered(p)' <=> Answered(p)
            /\ Stage(p)' = Stage(p) /\ Kept(p)'[k] = Kept(p)[k]
        BY <2>1, <3>1 DEF Answered, Stage, Kept
      <3>3. /\ Shows(db[p][k], k) => Shows(db[p][k], k)'
            /\ Shows(Kept(p)[k], k) => Shows(Kept(p)[k], k)'
            /\ \A f : RightAnswer(f.result, k) => RightAnswer(f.result, k)'
        BY <2>2, <2>3, <2>6, <3>2 DEF Shows, RightAnswer
      <3>4. ASSUME NEW g \in net', g.type = "recovery-result", Pending(g, p)'
            PROVE  /\ Stage(p) = Source(p, k) => RightAnswer(g.result, k)
                   /\ Stage(p) # Source(p, k) /\ Stage(p) # 3 => NoAnswer(g.result, k)
        <4>1. Pending(g, p)
          BY <2>1, <3>4 DEF Pending
        <4>2. CASE g \in net
          BY <2>2, <2>6, <3>4, <4>1, <4>2 DEF RecoveryOK
        <4>3. CASE g \notin net
          <5>1. PICK new : Becomes(m, new)
            BY <3>1, Handled DEF HandledBy
          <5>2. Follows(g, m)
            BY <4>3, <5>1 DEF Becomes
          <5>3. Pending(m, p)
            BY <2>6, <3>1, <4>1, <5>2 DEF Follows, Pending, RecoveryTypes
          <5>4. Fits(m, p) /\ status[p] # "down"
            BY <2>6, <5>3 DEF StageOK, Waiting
          <5>5. PICK f : /\ net' = (net \ {m}) \cup {f}
                         /\ Stage(p) = Source(p, k) => RightAnswer(f.result, k)
                         /\ Stage(p) # Source(p, k) /\ Stage(p) # 3 => NoAnswer(f.result, k)
            BY <2>2, <2>6, <5>3, <5>4, AnswerIsRight
          <5>6. g = f
            BY <4>3, <5>5
          <5> QED BY <5>5, <5>6
        <4> QED BY <4>2, <4>3
      <3>5. \A g \in net' : g.type = "recovery-result" /\ Pending(g, p)' =>
              /\ Stage(p)' = Source(p, k) => RightAnswer(g.result, k)'
              /\ Stage(p)' # Source(p, k) /\ Stage(p)' # 3 => NoAnswer(g.result, k)
        BY <3>2, <3>3, <3>4
      <3>6. /\ IF Stage(p)' <= Source(p, k) THEN db'[p][k] = <<>> ELSE Shows(db[p][k], k)'
            /\ Answered(p)' => IF Stage(p)' = Source(p, k) THEN Shows(Kept(p)[k], k)' ELSE Kept(p)'[k] = <<>>
        BY <2>2, <2>3, <2>6, <3>2, <3>3 DEF RecoveryOK
      <3> QED BY <3>5, <3>6 DEF RecoveryOK, Source, NoAnswer
    <2>7. CASE p = m.sender /\ processRecovery_Result(m.sendto, m) /\ status[p] \in Waiting
      <3>1. m.type = "recovery-result" /\ m.sendto = p
        BY <2>7 DEF processRecovery_Result, Basic, NetInv, MsgOK
      <3>2. /\ net' = net \ {m} /\ recoveryCursor' = [recoveryCursor EXCEPT ![p] = CursorRows(recoveryCursor[p], m.result)]
            /\ mixed' = IF m.inc = inc[p] THEN mixed ELSE mixed \cup {p}
        BY <2>7, <3>1 DEF processRecovery_Result, Handles
      <3>3. Pending(m, p)
        BY <2>7, <3>1, <3>2 DEF Pending, RecoveryTypes
      <3>4. status[p] # "down" /\ recoveryCursor[p] = Empty /\ DOMAIN recoveryCursor = Nodes
        BY <2>7, <3>3 DEF StageOK, Waiting, Basic, TypeOK
      <3>5. recoveryCursor'[p] = CursorRows(Empty, m.result)
        BY <1>0, <3>2, <3>4
      <3>6. \A g \in net' : ~Pending(g, p)'
        BY <2>1, <3>2, <3>3, <3>4 DEF StageOK, Pending
      <3>7. /\ Stage(p) = Source(p, k) => RightAnswer(m.result, k)
            /\ Stage(p) # Source(p, k) /\ Stage(p) # 3 => NoAnswer(m.result, k)
        BY <2>2, <2>7, <3>1, <3>3 DEF RecoveryOK
      <3>8. Stage(p)' = Stage(p) /\ (status[p] = "rec3" <=> Stage(p) = 3) /\ Stage(p) \in 1 .. 3
        BY <2>1, <2>7 DEF Stage, Waiting
      <3>9. Kept(p)'[k] = IF Stage(p) = 3 /\ ~isMyPartiton(p, KeyHash[k]) THEN <<>> ELSE CursorRows(Empty, m.result)[k]
        BY <2>1, <3>5, <3>8 DEF Kept
      <3>10. isMyPartiton(p, KeyHash[k]) <=> Source(p, k) = 3
        BY <1>0, Sources
      <3>11. IF Stage(p) = Source(p, k) THEN Shows(Kept(p)[k], k)' ELSE Kept(p)'[k] = <<>>
        <4>1. CASE Stage(p) = Source(p, k)
          <5>1. Shows(CursorRows(Empty, m.result)[k], k)
            BY <3>7, <4>1, RightCursor
          <5>2. Kept(p)'[k] = CursorRows(Empty, m.result)[k]
            BY <3>9, <3>10, <4>1
          <5> QED BY <2>2, <4>1, <5>1, <5>2 DEF Shows
        <4>2. CASE Stage(p) # Source(p, k)
          <5>1. CASE Stage(p) = 3
            BY <3>9, <3>10, <4>2, <5>1
          <5>2. CASE Stage(p) # 3
            BY <3>7, <3>9, <4>2, <5>2, RightCursor
          <5> QED BY <4>2, <5>1, <5>2
        <4> QED BY <4>1, <4>2
      <3>12. IF Stage(p)' <= Source(p, k) THEN db'[p][k] = <<>> ELSE Shows(db[p][k], k)'
        <4>1. Shows(db[p][k], k) => Shows(db[p][k], k)'
          BY <2>2, <2>3, <2>7 DEF Shows
        <4> QED BY <2>2, <2>3, <2>7, <3>8, <4>1 DEF RecoveryOK
      <3> QED BY <3>6, <3>8, <3>11, <3>12 DEF RecoveryOK, Source
    <2> QED BY <1>0, <1>4, <2>4, <2>5, <2>6, <2>7, MessagesStill
  <1> QED BY <1>1, <1>3, <1>4 DEF Next

LEMMA CopyStep ==
  ASSUME Basic, StageInv, CopyInv, Next
  PROVE  CopyInv'
  <1> SUFFICES ASSUME mixed' = {}, NEW k \in Keys, Clean(k)', Placed(k)
               PROVE  KeyOK(k)'
    BY DEF CopyInv, Placed, isMyPartiton
  <1>1. mixed = {}
    BY MixedGrows
  <1>2. Clean(k) => KeyOK(k)
    BY <1>1 DEF CopyInv
  <1>3. \A p \in Nodes : StageOK(p) /\ StageOK(p)'
    BY <1>1, StageStep DEF StageInv
  <1>4. WritersOK(k)' /\ OneStarts'
    BY <1>2, WritersStep DEF KeyOK
  <1>5. CopiesOK(k)'
    BY <1>2, CopiesStep
  <1>6. ASSUME NEW p \in Replicas(k) PROVE RecoveryOK(p, k)'
    <2>1. p \in Nodes
      BY Sources
    <2> QED BY <1>2, <1>3, <2>1, RecoveryStep
  <1> QED BY <1>4, <1>5, <1>6 DEF KeyOK, Replicas

LEMMA CopyInit ==
  ASSUME Init
  PROVE  StageInv /\ CopyInv
  <1>1. /\ net = {} /\ \A n \in Nodes : status[n] = "up"
        /\ \A k \in Keys : latest[k] = None /\ \A n \in Nodes : db[n][k] = <<>>
    BY EmptyTable DEF Init
  <1>2. StageInv
    BY <1>1 DEF StageInv, StageOK, Waiting
  <1>3. ASSUME NEW k \in Keys, Placed(k) PROVE KeyOK(k)
    <2>1. \A n \in Replicas(k) : n \in Nodes
      BY <1>3, Sources
    <2> QED BY <1>1, <2>1 DEF KeyOK, WritersOK, OneStarts, Recovering, CopiesOK, Shows, RecoveryOK, Waiting
  <1> QED BY <1>2, <1>3 DEF CopyInv

\* When nothing is on its way, the copies of a key on all nodes that are up
\* end with the value last written: for any ring and any crash, through
\* processInsert and processDelete passing a write on, Sender.run skipping a
\* copy that is down, and recover asking both predecessors and the successor.
THEOREM QuietCopiesRight == Spec => []QuietCopiesAreRight
  <1>1. Init => Basic /\ StageInv /\ CopyInv
    BY BasicInit, CopyInit
  <1>2. Basic /\ StageInv /\ CopyInv /\ [Next]_vars => (Basic /\ StageInv /\ CopyInv)'
    <2>1. CASE UNCHANGED vars
      <3>1. ASSUME Basic PROVE Basic'
        BY <2>1, <3>1, BasicStep
      <3>2. UNCHANGED <<db, net, status, recovery, recoveryCursor, inc, latest, clean, mixed>>
        BY <2>1 DEF vars
      <3>3. ASSUME StageInv PROVE StageInv'
        BY <3>2, <3>3 DEF StageInv, StageOK, Pending, Fits, Answered
      <3>4. ASSUME NEW k \in Keys, KeyOK(k) PROVE KeyOK(k)'
        BY <3>2, <3>4 DEF KeyOK, WritersOK, Carries, Recovering, OneStarts, CopiesOK, Shows, RecoveryOK, Stage, Answered, Kept, Pending, RightAnswer
      <3>5. ASSUME CopyInv PROVE CopyInv'
        BY <3>2, <3>4, <3>5 DEF CopyInv, Clean
      <3> QED BY <3>1, <3>3, <3>5
    <2> QED BY <2>1, BasicStep, StageStep, CopyStep
  <1>3. CopyInv => QuietCopiesAreRight
    BY DEF CopyInv, QuietCopiesAreRight, Clean, KeyOK, CopiesOK, Shows, Newest
  <1> QED BY <1>1, <1>2, <1>3, PTL DEF Spec
=============================================================================
