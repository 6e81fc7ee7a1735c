------------------------------- MODULE Dynamo -------------------------------
(***************************************************************************)
(* SimpleDynamo: a key-value store on a fixed ring of nodes.  A key        *)
(* belongs to the node whose partition holds its hash (the coordinator)    *)
(* and is copied to the next two.  A message is carried by a Sender thread *)
(* of its own, so messages overtake each other; a Sender that cannot       *)
(* connect tries the next node or gives up, by the type of the message.    *)
(* A node handles one message at a time (Receiver, MessageProcessor) while *)
(* the provider's calls run beside it.  A node that starts again empties   *)
(* its table and asks its neighbours for the rows it should have.          *)
(*                                                                         *)
(* The table has no primary key: CONFLICT_REPLACE never replaces, and a    *)
(* table keeps, for each key, every value ever inserted, oldest first.     *)
(***************************************************************************)
EXTENDS Integers, Sequences, FiniteSets

CONSTANTS N,           \* number of nodes, in the order of their hashes
          NodeHash,    \* genHash of each node's name
          KeyHash,     \* genHash of each key
          LastNode,    \* the last node in the order of nodeMap's keys
          Clients,     \* bound: nodes whose provider is called
          Fallible,    \* bound: nodes that may crash
          MaxCalls,    \* bound: calls of the provider
          MaxCrashes,  \* bound: crashes of one node
          MaxTimeouts, \* bound: connects that exceed 500 ms, or broken off
          None         \* no value, no question

Nodes  == 0 .. N - 1
Keys   == DOMAIN KeyHash
Values == 1 .. MaxCalls

ASSUME DynamoAssumption ==
    /\ N \in Nat \ {0, 1, 2} /\ Clients \subseteq Nodes /\ Fallible \subseteq Nodes
    /\ NodeHash \in [Nodes -> Int]
    /\ \A i, j \in Nodes : i < j => NodeHash[i] < NodeHash[j]
    /\ LastNode \in Nodes /\ \A k \in Keys : KeyHash[k] \in Int
    /\ MaxCalls \in Nat /\ MaxCrashes \in Nat /\ MaxTimeouts \in Nat
    /\ "*" \notin Keys /\ None \notin Keys \cup Values \cup ((Keys \cup {"*"}) \X Values)

VARIABLES db,             \* the table of each node: values of each key, oldest first
          net,            \* messages on their way
          status,         \* how far the process on a node is
          asked,          \* the query a node waits in (key or "*", call), or None
          isQueried,      \* the flag that query's loop waits for
          resultCursor,   \* rows of the answer
          recovery,       \* the flag that recover's loops wait for
          recoveryCursor, \* rows of the answer to recover
          calls,          \* calls of the providers so far
          inc,            \* starts of each node, less one
          timeouts,       \* timeouts so far
          latest,         \* history: the value last written to a key
          clean,          \* history: nothing disturbed that write
          vanished,       \* history: requests whose message came to nothing
          mixed           \* history: nodes given an answer to an earlier start's request

vars == <<db, net, status, asked, isQueried, resultCursor, recovery,
          recoveryCursor, calls, inc, timeouts, latest, clean, vanished, mixed>>

\* boot: the receiver runs and join has not set myNode; joined: before the
\* table is emptied; rec1 .. rec3: waiting for the first to third answer.
Status == {"down", "boot", "joined", "rec1", "rec2", "rec3", "up"}

Msg == [type: {"insert", "local", "query-*", "query-k", "query-result", "del-*",
               "del-k", "@-recovery", "recovery", "recovery-result"},
        key: Keys \cup {None}, value: Values \cup {None}, replica: 0 .. 3,
        sender: Nodes, sendto: Nodes, by: Nodes,
        op: 0 .. MaxCalls, inc: 0 .. MaxCrashes,
        result: SUBSET ((Keys \cup Values) \X (Keys \cup Values))]

TypeOK ==
    /\ db \in [Nodes -> [Keys -> Seq(Values)]]
    /\ recoveryCursor \in [Nodes -> [Keys -> Seq(Values)]]
    /\ net \subseteq Msg
    /\ status \in [Nodes -> Status]
    /\ asked \in [Nodes -> {None} \cup ((Keys \cup {"*"}) \X Values)]
    /\ isQueried \in [Nodes -> BOOLEAN] /\ recovery \in [Nodes -> BOOLEAN]
    /\ resultCursor \in [Nodes -> SUBSET ((Keys \cup Values) \X (Keys \cup Values))]
    /\ calls \in 0 .. MaxCalls /\ timeouts \in 0 .. MaxTimeouts
    /\ inc \in [Nodes -> 0 .. MaxCrashes]
    /\ latest \in [Keys -> Values \cup {None}] /\ clean \in [Keys -> BOOLEAN]
    /\ vanished \subseteq (0 .. MaxCalls) \X Nodes \X (0 .. MaxCrashes)
    /\ mixed \subseteq Nodes

----------------------------------------------------------------------------
(* The ring.                                                               *)

successor(n) == (n + 1) % N
predessor(n) == (n + N - 1) % N

isMyPartiton(n, h) ==
    LET mine == NodeHash[n]
        pred == NodeHash[predessor(n)]
    IN  \/ h <= mine /\ h > pred
        \/ mine < pred /\ (h > pred \/ h < mine)

\* The hash of the first node's own name is in no partition: the loop then
\* ends with the last node it looked at.
Placed(k) == \E n \in Nodes : isMyPartiton(n, KeyHash[k])

getNode(k) == IF Placed(k) THEN CHOOSE n \in Nodes : isMyPartiton(n, KeyHash[k])
                           ELSE LastNode

----------------------------------------------------------------------------
(* Tables and answers.  A result is a HashMap: the last row put wins.      *)

Empty == [k \in Keys |-> <<>>]

Newest(t, k) == t[k][Len(t[k])]

Held(t) == {k \in Keys : t[k] # <<>>}

put(map, a, b) == {r \in map : r[1] # a} \cup {<<a, b>>}

\* All rows of a table into a result.
AllRows(map, t) == {r \in map : r[1] \notin Held(t)}
                      \cup {<<k, Newest(t, k)>> : k \in Held(t)}

\* The rows of an answer into a table.
AddRows(t, rows) == [k \in Keys |-> t[k] \o rows[k]]

\* The rows of a result into recoveryCursor.
CursorRows(cursor, result) ==
    [k \in Keys |-> IF \E r \in result : r[1] = k
                    THEN Append(cursor[k], (CHOOSE r \in result : r[1] = k)[2])
                    ELSE cursor[k]]

----------------------------------------------------------------------------
(* History.                                                                *)

Id(m) == <<m.op, m.sender, m.inc>>

Recovering == {n \in Nodes : status[n] \notin {"up", "down"}}

\* The message still has a table to change for key k.
Writes(m, k) == \/ m.type \in {"insert", "local"} /\ m.key = k /\ m.replica < 3
                \/ m.type = "del-k" /\ m.key = k /\ m.replica > 0
                \/ m.type = "del-*"

\* A write of v (or a delete) to the keys ks: it is undisturbed if no other
\* write of the key is on its way and no node is starting.
NewWrite(ks, v) ==
    /\ latest' = [k \in Keys |-> IF k \in ks THEN v ELSE latest[k]]
    /\ clean' = [k \in Keys |->
          IF k \in ks THEN Recovering = {} /\ ~\E m \in net : Writes(m, k)
                      ELSE clean[k]]
    /\ calls' = calls + 1
    /\ UNCHANGED <<vanished, mixed>>

\* The messages ms come to nothing.
Gone(ms) ==
    /\ vanished' = vanished \cup {Id(m) : m \in ms}
    /\ clean' = [k \in Keys |-> clean[k] /\ ~\E m \in ms : Writes(m, k)]

NoHistory == UNCHANGED <<latest, clean, vanished, mixed>>

----------------------------------------------------------------------------
(* Calls of the provider.                                                  *)

Message(n, type, to) ==
    [type |-> type, key |-> None, value |-> None, replica |-> 0,
     sender |-> n, sendto |-> to, by |-> n, op |-> calls + 1, inc |-> inc[n],
     result |-> {}]

CanCall(n) == n \in Clients /\ status[n] = "up" /\ calls < MaxCalls

Query == <<asked, isQueried, resultCursor>>
Recovery == <<recovery, recoveryCursor>>

\* The coordinator sends the copy on before it stores the row itself, in a
\* thread of its own beside the receiver ("local" is the store to come).
insert(n) ==
    /\ CanCall(n)
    /\ \E k \in Keys :
          LET c == getNode(k)
              m == [Message(n, "insert", c) EXCEPT !.key = k, !.value = calls + 1]
          IN  /\ net' = net \cup
                   (IF c = n THEN {[m EXCEPT !.sendto = successor(n), !.replica = 1],
                                   [m EXCEPT !.type = "local"]}
                             ELSE {m})
              /\ NewWrite({k}, calls + 1)
    /\ UNCHANGED <<db, status, Query, Recovery, inc, timeouts>>

insert_Local(m) ==
    /\ m.type = "local"
    /\ db' = [db EXCEPT ![m.by][m.key] = Append(@, m.value)]
    /\ net' = net \ {m}
    /\ NoHistory
    /\ UNCHANGED <<status, Query, Recovery, calls, inc, timeouts>>

\* "@" empties this table alone, which leaves the copies different.
delete_At(n) ==
    /\ CanCall(n)
    /\ db' = [db EXCEPT ![n] = Empty]
    /\ clean' = [k \in Keys |-> FALSE]
    /\ calls' = calls + 1
    /\ UNCHANGED <<net, status, Query, Recovery, inc, timeouts, latest,
                   vanished, mixed>>

delete_Star(n) ==
    /\ CanCall(n)
    /\ db' = [db EXCEPT ![n] = Empty]
    /\ net' = net \cup {Message(n, "del-*", successor(n))}
    /\ NewWrite(Keys, None)
    /\ UNCHANGED <<status, Query, Recovery, inc, timeouts>>

delete_Key(n) ==
    /\ CanCall(n)
    /\ \E k \in Keys :
          /\ net' = net \cup {[Message(n, "del-k", getNode(k)) EXCEPT
                                  !.key = k, !.replica = 3]}
          /\ NewWrite({k}, None)
    /\ UNCHANGED <<db, status, Query, Recovery, inc, timeouts>>

----------------------------------------------------------------------------
\* query is synchronized: one at a time on a node.  "@" and a key of the
\* node's own partition are read from its table at once.
query_Local(n) ==
    /\ CanCall(n) /\ asked[n] = None
    /\ resultCursor' = [resultCursor EXCEPT ![n] = {}]
    /\ calls' = calls + 1
    /\ NoHistory
    /\ UNCHANGED <<db, net, status, asked, isQueried, Recovery, inc, timeouts>>

Ask(n, what, m) ==
    /\ CanCall(n) /\ asked[n] = None
    /\ resultCursor' = [resultCursor EXCEPT ![n] = {}]
    /\ asked' = [asked EXCEPT ![n] = <<what, calls + 1>>]
    /\ net' = net \cup {m}
    /\ calls' = calls + 1
    /\ NoHistory
    /\ UNCHANGED <<db, status, isQueried, Recovery, inc, timeouts>>

query_Key(n) ==
    \E k \in Keys :
        /\ getNode(k) # n
        /\ Ask(n, k, [Message(n, "query-k", getNode(k)) EXCEPT !.key = k])

\* "*": the asking node's own rows go in with key and value exchanged.
query_Star(n) ==
    Ask(n, "*", [Message(n, "query-*", successor(n)) EXCEPT
            !.result = UNION {{<<db[n][k][i], k>> : i \in 1 .. Len(db[n][k])} : k \in Keys}])

query_Return(n) ==
    /\ asked[n] # None /\ isQueried[n]
    /\ asked' = [asked EXCEPT ![n] = None]
    /\ isQueried' = [isQueried EXCEPT ![n] = FALSE]
    /\ NoHistory
    /\ UNCHANGED <<db, net, status, resultCursor, Recovery, calls, inc, timeouts>>

----------------------------------------------------------------------------
(* MessageProcessor.  In "boot" myNode has no fields yet, and a handler    *)
(* that needs the successor or the hash ends in a caught                   *)
(* NullPointerException, with what it did before that done.                *)

Ready(n) == status[n] \notin {"down", "boot"}

\* The node n that handles m, which others is m's changed copy to send on.
Handles(n, m, others) ==
    /\ m.type # "local" /\ m.sendto = n
    /\ net' = (net \ {m}) \cup others

Forward(n, m) == [m EXCEPT !.sendto = successor(n), !.by = n]

Reply(n, m, type, rows) ==
    [m EXCEPT !.type = type, !.sendto = m.sender, !.by = n, !.result = rows]

Same == <<calls, inc, timeouts>>

processInsert(n, m) ==
    /\ m.type = "insert" /\ Ready(n)
    /\ IF m.replica < 3
       THEN /\ Handles(n, m, {Forward(n, [m EXCEPT !.replica = @ + 1])})
            /\ db' = [db EXCEPT ![n][m.key] = Append(@, m.value)]
       ELSE Handles(n, m, {}) /\ UNCHANGED db
    /\ NoHistory
    /\ UNCHANGED <<status, Query, Recovery, Same>>

\* The message stops at a node that has no successor yet: insert and
\* query-* have done nothing by then, the deletes have deleted, and
\* recovery stops at the first row it tests.
StopsAtBoot(n, m) ==
    /\ status[n] = "boot" /\ Handles(n, m, {})
    /\ \/ m.type \in {"insert", "query-*"} /\ UNCHANGED db
       \/ m.type = "recovery" /\ db[n] # Empty /\ UNCHANGED db
       \/ m.type = "del-*" /\ db' = [db EXCEPT ![n] = Empty]
       \/ m.type = "del-k" /\ db' = [db EXCEPT ![n][m.key] =
                                        IF m.replica > 0 THEN <<>> ELSE @]
    /\ Gone({m})
    /\ UNCHANGED <<status, Query, Recovery, Same, latest, mixed>>

\* Mutant: the flag the query waits for is not set.
TakeAnswerNoFlag(n, m) ==
    /\ Handles(n, m, {})
    /\ resultCursor' = [resultCursor EXCEPT ![n] = @ \cup m.result]
    /\ mixed' = IF m.inc = inc[n] THEN mixed ELSE mixed \cup {n}
    /\ UNCHANGED <<db, status, asked, isQueried, Recovery, Same, latest, clean, vanished>>

\* The rows of an answer go to resultCursor, whichever query it answers.
TakeAnswer(n, m) ==
    /\ Handles(n, m, {})
    /\ resultCursor' = [resultCursor EXCEPT ![n] = @ \cup m.result]
    /\ isQueried' = [isQueried EXCEPT ![n] = TRUE]
    /\ mixed' = IF m.inc = inc[n] THEN mixed ELSE mixed \cup {n}
    /\ UNCHANGED <<db, status, asked, Recovery, Same, latest, clean, vanished>>

\* query-* goes round until it is back at the node that asked.
processQuery_Star(n, m) ==
    /\ m.type = "query-*" /\ Ready(n)
    /\ \/ m.sender = n /\ TakeAnswer(n, m)
       \/ /\ m.sender # n
          /\ Handles(n, m, {Forward(n, [m EXCEPT !.result = AllRows(@, db[n])])})
          /\ NoHistory
          /\ UNCHANGED <<db, status, Query, Recovery, Same>>

\* Mutant: an answer without a row.
processQuery_KeyAlways(n, m) ==
    /\ m.type = "query-k" /\ status[n] # "down"
    /\ Handles(n, m, {Reply(n, m, "query-result", {r \in AllRows({}, db[n]) : r[1] = m.key})})
    /\ NoHistory
    /\ UNCHANGED <<db, status, Query, Recovery, Same>>

\* No answer is sent for a key the node has no row of.
processQuery_Key(n, m) ==
    /\ m.type = "query-k" /\ status[n] # "down"
    /\ \/ /\ db[n][m.key] # <<>>
          /\ Handles(n, m, {Reply(n, m, "query-result",
                                  put(m.result, m.key, Newest(db[n], m.key)))})
          /\ NoHistory
       \/ /\ db[n][m.key] = <<>>
          /\ Handles(n, m, {})
          /\ Gone({m})
          /\ UNCHANGED <<latest, mixed>>
    /\ UNCHANGED <<db, status, Query, Recovery, Same>>

processQuery_Result(n, m) ==
    /\ m.type = "query-result" /\ status[n] # "down"
    /\ TakeAnswer(n, m)

processDelete(n, m) ==
    /\ Ready(n)
    /\ \/ /\ m.type = "del-*" /\ m.sender # n
          /\ Handles(n, m, {Forward(n, m)})
          /\ db' = [db EXCEPT ![n] = Empty]
       \/ /\ m.type = "del-k" /\ m.replica > 0
          /\ Handles(n, m, {Forward(n, [m EXCEPT !.replica = @ - 1])})
          /\ db' = [db EXCEPT ![n][m.key] = <<>>]
       \/ /\ \/ m.type = "del-*" /\ m.sender = n
             \/ m.type = "del-k" /\ m.replica = 0
          /\ Handles(n, m, {})
          /\ UNCHANGED db
    /\ NoHistory
    /\ UNCHANGED <<status, Query, Recovery, Same>>

\* "@-recovery" is answered with the whole table, "recovery" with the rows
\* of the node's own partition.
processRecovery(n, m) ==
    /\ \/ /\ m.type = "@-recovery" /\ status[n] # "down"
          /\ Handles(n, m, {Reply(n, m, "recovery-result", AllRows(m.result, db[n]))})
       \/ /\ m.type = "recovery" 
          /\ Ready(n) \/ (status[n] = "boot" /\ db[n] = Empty)
          /\ Handles(n, m, {Reply(n, m, "recovery-result",
                {r \in AllRows(m.result, db[n]) : isMyPartiton(n, KeyHash[r[1]])})})
    /\ NoHistory
    /\ UNCHANGED <<db, status, Query, Recovery, Same>>

processRecovery_Result(n, m) ==
    /\ m.type = "recovery-result" /\ status[n] # "down"
    /\ Handles(n, m, {})
    /\ recoveryCursor' = [recoveryCursor EXCEPT ![n] = CursorRows(@, m.result)]
    /\ recovery' = [recovery EXCEPT ![n] = TRUE]
    /\ mixed' = IF m.inc = inc[n] THEN mixed ELSE mixed \cup {n}
    /\ UNCHANGED <<db, status, Query, Same, latest, clean, vanished>>

processMessage(n, m) ==
    \/ processInsert(n, m) \/ StopsAtBoot(n, m)
    \/ processQuery_Star(n, m) \/ processQuery_Key(n, m) \/ processQuery_Result(n, m)
    \/ processDelete(n, m)
    \/ processRecovery(n, m) \/ processRecovery_Result(n, m)

----------------------------------------------------------------------------
(* Sender.run after an exception.  Only insert and the two queries are     *)
(* tried again, at the next node; the types the code names for recovery    *)
(* ("query-recovery", "query-@-recovery") are never sent.                  *)

\* Mutant: a retry does not count the copy it skips.
RetriesUncounted(m) ==
    IF m.type \in {"insert", "query-k", "query-*"}
    THEN {[m EXCEPT !.sendto = successor(m.sendto)]} ELSE {}

Retries(m) ==
    IF \/ m.type = "insert" /\ m.replica < 3
       \/ m.type \in {"query-k", "query-*"}
    THEN {[m EXCEPT !.sendto = successor(m.sendto),
                    !.replica = IF m.type = "insert" THEN @ + 1 ELSE @]}
    ELSE {}

Spent(m) == \/ m.type = "insert" /\ m.replica = 3
            \/ m.type = "del-k" /\ m.replica = 0

SendFails(m) ==
    /\ m.type # "local"
    /\ net' = (net \ {m}) \cup Retries(m)

\* The node is down: the connect is refused or times out.
Sender_Down(m) ==
    /\ status[m.sendto] = "down"
    /\ SendFails(m)
    /\ IF Retries(m) = {} /\ ~Spent(m) THEN Gone({m}) ELSE UNCHANGED <<vanished, clean>>
    /\ UNCHANGED <<db, status, Query, Recovery, Same, latest, mixed>>

\* The node is up and does not answer within 500 ms.
Sender_Timeout(m) ==
    /\ status[m.sendto] # "down" /\ timeouts < MaxTimeouts
    /\ SendFails(m)
    /\ timeouts' = timeouts + 1
    /\ IF Retries(m) = {} THEN Gone({m})
       ELSE /\ clean' = [k \in Keys |-> clean[k] /\ ~Writes(m, k)]
            /\ UNCHANGED vanished
    /\ UNCHANGED <<db, status, Query, Recovery, calls, inc, latest, mixed>>

\* A connection given up by a Sender ends in an EOFException, after which
\* the receiver closes its socket with what waits there and opens another.
Receiver_Eof(n) ==
    /\ status[n] # "down" /\ timeouts < MaxTimeouts
    /\ timeouts' = timeouts + 1
    /\ \E ms \in SUBSET {m \in net : m.sendto = n /\ m.type # "local"} :
          /\ ms # {}
          /\ net' = net \ ms
          /\ Gone(ms)
    /\ UNCHANGED <<db, status, Query, Recovery, calls, inc, latest, mixed>>

----------------------------------------------------------------------------
(* Crash, start, recovery.                                                 *)

\* With the process go its Senders that had not connected, and what had
\* been written to it and not read.
Crash(n) ==
    /\ n \in Fallible /\ status[n] # "down" /\ inc[n] < MaxCrashes
    /\ status' = [status EXCEPT ![n] = "down"]
    /\ LET here == {m \in net : m.by = n \/ (m.sendto = n /\ m.type # "local")}
       IN  \E ms \in SUBSET here :
              /\ {m \in here : m.type = "local"} \subseteq ms
              /\ net' = net \ ms
              /\ Gone({m \in ms : ~Spent(m)})
    /\ asked' = [asked EXCEPT ![n] = None]
    /\ isQueried' = [isQueried EXCEPT ![n] = FALSE]
    /\ resultCursor' = [resultCursor EXCEPT ![n] = {}]
    /\ recovery' = [recovery EXCEPT ![n] = FALSE]
    /\ recoveryCursor' = [recoveryCursor EXCEPT ![n] = Empty]
    /\ UNCHANGED <<db, Same, latest, mixed>>

\* onCreate up to the start of the receiver.
onCreate(n) ==
    /\ status[n] = "down"
    /\ status' = [status EXCEPT ![n] = "boot"]
    /\ inc' = [inc EXCEPT ![n] = @ + 1]
    /\ clean' = [k \in Keys |-> /\ clean[k]
                                /\ \A o \in Nodes \ {n} : status[o] = "up"
                                /\ ~\E m \in net : Writes(m, k)]
    /\ UNCHANGED <<db, net, Query, Recovery, calls, timeouts, latest,
                   vanished, mixed>>

\* onCreate clears isQueried beside the receiver, then join sets myNode.
join(n) ==
    /\ status[n] = "boot"
    /\ status' = [status EXCEPT ![n] = "joined"]
    /\ isQueried' \in {isQueried, [isQueried EXCEPT ![n] = FALSE]}
    /\ NoHistory
    /\ UNCHANGED <<db, net, asked, resultCursor, Recovery, Same>>

Request(n, type, to) == [Message(n, type, to) EXCEPT !.op = 0]

recover(n) ==
    /\ status[n] = "joined"
    /\ db' = [db EXCEPT ![n] = Empty]
    /\ recoveryCursor' = [recoveryCursor EXCEPT ![n] = Empty]
    /\ net' = net \cup {Request(n, "recovery", predessor(n))}
    /\ status' = [status EXCEPT ![n] = "rec1"]
    /\ NoHistory
    /\ UNCHANGED <<recovery, Query, Same>>

\* insertReplications keeps every row, insertMissedKeys those of the node's
\* own partition.
\* Mutant: the test of insertMissedKeys the wrong way round.
KeptOthers(n) == [k \in Keys |->
              IF status[n] = "rec3" /\ isMyPartiton(n, KeyHash[k])
              THEN <<>> ELSE recoveryCursor[n][k]]

Kept(n) == [k \in Keys |->
              IF status[n] = "rec3" /\ ~isMyPartiton(n, KeyHash[k])
              THEN <<>> ELSE recoveryCursor[n][k]]

\* An answer is there: its rows go into the table and the next request out.
recover_Next(n) ==
    /\ status[n] \in {"rec1", "rec2", "rec3"} /\ recovery[n]
    /\ recovery' = [recovery EXCEPT ![n] = FALSE]
    /\ db' = [db EXCEPT ![n] = AddRows(@, Kept(n))]
    /\ recoveryCursor' = [recoveryCursor EXCEPT ![n] = Empty]
    /\ \/ /\ status[n] = "rec1"
          /\ status' = [status EXCEPT ![n] = "rec2"]
          /\ net' = net \cup {Request(n, "recovery", predessor(predessor(n)))}
       \/ /\ status[n] = "rec2"
          /\ status' = [status EXCEPT ![n] = "rec3"]
          /\ net' = net \cup {Request(n, "@-recovery", successor(n))}
       \/ /\ status[n] = "rec3"
          /\ status' = [status EXCEPT ![n] = "up"]
          /\ UNCHANGED net
    /\ NoHistory
    /\ UNCHANGED <<Query, Same>>

----------------------------------------------------------------------------
\* All nodes started for the first time, with empty tables.
Init ==
    /\ db = [n \in Nodes |-> Empty]
    /\ net = {}
    /\ status = [n \in Nodes |-> "up"]
    /\ asked = [n \in Nodes |-> None]
    /\ isQueried = [n \in Nodes |-> FALSE]
    /\ resultCursor = [n \in Nodes |-> {}]
    /\ recovery = [n \in Nodes |-> FALSE]
    /\ recoveryCursor = [n \in Nodes |-> Empty]
    /\ calls = 0 /\ timeouts = 0
    /\ inc = [n \in Nodes |-> 0]
    /\ latest = [k \in Keys |-> None]
    /\ clean = [k \in Keys |-> TRUE]
    /\ vanished = {} /\ mixed = {}

Call(n) == \/ insert(n) \/ delete_At(n) \/ delete_Star(n) \/ delete_Key(n)
           \/ query_Local(n) \/ query_Key(n) \/ query_Star(n)

\* A message gets on: it is handled, or its Sender finds the node down.
Progress(m) == insert_Local(m) \/ processMessage(m.sendto, m) \/ Sender_Down(m)

Next ==
    \/ \E n \in Nodes : \/ Call(n) \/ query_Return(n)
                        \/ Receiver_Eof(n) \/ Crash(n)
                        \/ onCreate(n) \/ join(n) \/ recover(n) \/ recover_Next(n)
    \/ \E m \in net : Progress(m) \/ Sender_Timeout(m)

Spec == Init /\ [][Next]_vars

----------------------------------------------------------------------------
(* Properties.                                                             *)

Replicas(k) == LET c == getNode(k) IN {c, successor(c), successor(successor(c))}

\* A row is only ever on its coordinator and the two nodes after it, through
\* forwarding, retries that skip a node, and recovery, which copies whole
\* tables: so long as no node took an answer meant for an earlier start.
StoredOnlyOnReplicas ==
    mixed = {} => \A n \in Nodes, k \in Keys : db[n][k] # <<>> => n \in Replicas(k)

\* A query that returns has rows of the key it asked for, and at least one,
\* unless the node took an answer meant for an earlier start: answers carry
\* nothing that ties them to a query.
AnswersTheQuestion ==
    \A n \in Nodes : n \notin mixed /\ isQueried[n] /\ asked[n] # None /\ asked[n][1] \in Keys =>
        /\ resultCursor[n] # {}
        /\ \A r \in resultCursor[n] : r[1] = asked[n][1]

\* When nothing is on its way, all copies on nodes that are up end with the
\* value last written (or with none, after a delete), if that write met no
\* other of its key, no start of a node and no lost message: whether a
\* replica was down and skipped, or has recovered since (and not been given
\* an answer meant for an earlier start).  A key in no partition is left
\* out: no answer to recover holds its rows.
QuietCopiesAreRight ==
    net = {} /\ mixed = {} => \A k \in Keys : clean[k] /\ Placed(k) =>
        \A n \in Replicas(k) : status[n] = "up" =>
            IF latest[k] = None THEN db[n][k] = <<>>
            ELSE db[n][k] # <<>> /\ Newest(db[n], k) = latest[k]

\* A thread that waits in query or recover has its answer, or its request or
\* the answer is still on its way: through retries, forwarding and the crash
\* of any other node.  Otherwise its message came to nothing (nobody had the
\* row, a Sender gave up, a socket was closed) and it waits for ever.
NoWaiterForgotten ==
    \A n \in Nodes :
        /\ asked[n] # None =>
              \/ isQueried[n]
              \/ \E m \in net : m.op = asked[n][2]
              \/ \E v \in vanished : v[1] = asked[n][2]
        /\ status[n] \in {"rec1", "rec2", "rec3"} =>
              \/ recovery[n]
              \/ \E m \in net : m.op = 0 /\ m.sender = n /\ m.inc = inc[n]
              \/ <<0, n, inc[n]>> \in vanished
=============================================================================
