--------------------------- MODULE SchedulerProofs ---------------------------
(***************************************************************************)
(* Proofs about module Scheduler, for any number of CPUs and any set of    *)
(* thread structures.                                                      *)
(***************************************************************************)
EXTENDS Scheduler, TLAPS, SequenceTheorems, FiniteSetTheorems

-----------------------------------------------------------------------------
(* Lists without duplicates *)

\* The list s holds the members of S, each once.
Lists(s, S) == s \in Seq(Threads) /\ IsInjective(s) /\ Range(s) = S

LEMMA InjectiveIs ==
  ASSUME NEW s \in Seq(Threads)
  PROVE  IsInjective(s) <=> \A i, j \in 1 .. Len(s) : s[i] = s[j] => i = j
  BY LenProperties DEF IsInjective

LEMMA RangeIs ==
  ASSUME NEW s \in Seq(Threads)
  PROVE  /\ \A t : t \in Range(s) <=> \E i \in 1 .. Len(s) : s[i] = t
         /\ Range(s) \subseteq Threads
  BY LenProperties, RangeEquality, RangeOfSeq

LEMMA EmptyLists == Lists(<<>>, {})
  <1>1. <<>> \in Seq(Threads) /\ Len(<<>>) = 0
    BY EmptySeq
  <1>2. IsInjective(<<>>)
    BY DEF IsInjective
  <1>3. Range(<<>>) = {}
    BY DEF Range
  <1> QED BY <1>1, <1>2, <1>3 DEF Lists

LEMMA AppendLists ==
  ASSUME NEW s, NEW S, Lists(s, S), NEW t \in Threads, t \notin S
  PROVE  Lists(Append(s, t), S \cup {t})
  <1> DEFINE a == Append(s, t)
  <1>1. s \in Seq(Threads) /\ a \in Seq(Threads) /\ Len(a) = Len(s) + 1 /\ Len(s) \in Nat
    BY AppendProperties, LenProperties DEF Lists
  <1>2. a[Len(s) + 1] = t /\ \A i \in 1 .. Len(s) : a[i] = s[i]
    BY AppendProperties DEF Lists
  <1> HIDE DEF a
  <1>3. \A i \in 1 .. Len(s) : s[i] # t
    BY <1>1, RangeIs DEF Lists
  <1>4. IsInjective(a)
    <2> SUFFICES ASSUME NEW i \in 1 .. Len(s) + 1, NEW j \in 1 .. Len(s) + 1, a[i] = a[j] PROVE i = j
      BY <1>1, InjectiveIs
    <2>1. \A k, l \in 1 .. Len(s) : s[k] = s[l] => k = l
      BY <1>1, InjectiveIs DEF Lists
    <2>2. i \in 1 .. Len(s) \/ i = Len(s) + 1
      BY <1>1
    <2>3. j \in 1 .. Len(s) \/ j = Len(s) + 1
      BY <1>1
    <2> QED BY <2>1, <2>2, <2>3, <1>2, <1>3
  <1>5. ASSUME NEW u PROVE u \in Range(a) <=> u \in S \/ u = t
    <2>1. u \in S <=> \E i \in 1 .. Len(s) : s[i] = u
      BY <1>1, RangeIs DEF Lists
    <2>2. u \in Range(a) <=> \E i \in 1 .. Len(s) + 1 : a[i] = u
      BY <1>1, RangeIs
    <2>3. \A i \in 1 .. Len(s) + 1 : i \in 1 .. Len(s) \/ i = Len(s) + 1
      BY <1>1
    <2>4. \A i \in 1 .. Len(s) : i \in 1 .. Len(s) + 1
      BY <1>1
    <2>5. Len(s) + 1 \in 1 .. Len(s) + 1
      BY <1>1
    <2> QED BY <2>1, <2>2, <2>3, <2>4, <2>5, <1>2
  <1>6. Range(a) = S \cup {t}
    BY <1>5
  <1> QED BY <1>1, <1>4, <1>6 DEF Lists, a

First(s, n) == {s[i] : i \in 1 .. n}

\* A list cut in two.
LEMMA CutLists ==
  ASSUME NEW s, NEW S, Lists(s, S), NEW n \in 0 .. Len(s)
  PROVE  /\ Lists(SubSeq(s, 1, n), First(s, n))
         /\ Lists(SubSeq(s, n + 1, Len(s)), S \ First(s, n))
         /\ First(s, n) \subseteq S
  <1> DEFINE a == SubSeq(s, 1, n)
             b == SubSeq(s, n + 1, Len(s))
  <1>1. s \in Seq(Threads) /\ Len(s) \in Nat /\ \A i \in 1 .. Len(s) : s[i] \in Threads
    BY LenProperties, ElementOfSeq DEF Lists
  <1>2. a \in Seq(Threads) /\ Len(a) = n /\ \A i \in 1 .. n : a[i] = s[i]
    BY <1>1, SubSeqProperties
  <1>3. b \in Seq(Threads) /\ Len(b) = Len(s) - n /\ \A i \in 1 .. Len(s) - n : b[i] = s[n + i]
    <2>1. \A i \in n + 1 .. Len(s) : s[i] \in Threads
      BY <1>1
    <2> QED BY <1>1, <2>1, SubSeqProperties
  <1> HIDE DEF a, b
  <1>4. \A i, j \in 1 .. Len(s) : s[i] = s[j] => i = j
    BY <1>1, InjectiveIs DEF Lists
  <1>5. IsInjective(a)
    <2>1. \A i, j \in 1 .. n : s[i] = s[j] => i = j
      BY <1>1, <1>4
    <2> QED BY <1>2, <2>1, InjectiveIs
  <1>6. IsInjective(b)
    <2>1. \A i, j \in 1 .. Len(s) - n : s[n + i] = s[n + j] => i = j
      BY <1>1, <1>4
    <2> QED BY <1>3, <2>1, InjectiveIs
  <1>7. Range(a) = {s[i] : i \in 1 .. n}
    BY <1>2, RangeEquality
  <1>8. Range(b) = {s[n + i] : i \in 1 .. Len(s) - n}
    BY <1>3, RangeEquality
  <1>9. S = {s[i] : i \in 1 .. Len(s)}
    BY <1>1, RangeEquality DEF Lists
  <1>10. Range(a) \cup Range(b) = S
    <2>1. ASSUME NEW i \in 1 .. Len(s) PROVE s[i] \in Range(a) \cup Range(b)
      <3>1. CASE i =< n
        BY <1>1, <3>1, <1>7
      <3>2. CASE i > n
        <4>1. i - n \in 1 .. Len(s) - n /\ n + (i - n) = i
          BY <1>1, <3>2
        <4> QED BY <4>1, <1>8
      <3> QED BY <1>1, <3>1, <3>2
    <2>2. Range(a) \subseteq S
      BY <1>1, <1>7, <1>9
    <2>3. Range(b) \subseteq S
      BY <1>1, <1>8, <1>9
    <2> QED BY <2>1, <2>2, <2>3, <1>9
  <1>11. Range(a) \cap Range(b) = {}
    BY <1>1, <1>4, <1>7, <1>8
  <1>12. Range(b) = S \ Range(a) /\ Range(a) \subseteq S
    BY <1>10, <1>11
  <1> QED BY <1>2, <1>3, <1>5, <1>6, <1>7, <1>12 DEF Lists, a, b, First

LEMMA JoinLists ==
  ASSUME NEW s, NEW S, Lists(s, S), NEW r, NEW R, Lists(r, R), S \cap R = {}
  PROVE  Lists(s \o r, S \cup R)
  <1> DEFINE a == s \o r
  <1>1. s \in Seq(Threads) /\ r \in Seq(Threads) /\ Len(s) \in Nat /\ Len(r) \in Nat
    BY LenProperties DEF Lists
  <1>2. /\ a \in Seq(Threads) /\ Len(a) = Len(s) + Len(r)
        /\ \A i \in 1 .. Len(s) + Len(r) : a[i] = IF i =< Len(s) THEN s[i] ELSE r[i - Len(s)]
    BY <1>1, ConcatProperties
  <1>3. Range(a) = S \cup R
    BY <1>1, RangeConcatenation DEF Lists
  <1> HIDE DEF a
  <1>4. \A i \in 1 .. Len(s), j \in 1 .. Len(r) : s[i] # r[j]
    BY <1>1, RangeIs DEF Lists
  <1>5. IsInjective(a)
    <2> SUFFICES ASSUME NEW i \in 1 .. Len(s) + Len(r), NEW j \in 1 .. Len(s) + Len(r), a[i] = a[j] PROVE i = j
      BY <1>2, InjectiveIs
    <2>1. \A k, l \in 1 .. Len(s) : s[k] = s[l] => k = l
      BY <1>1, InjectiveIs DEF Lists
    <2>2. \A k, l \in 1 .. Len(r) : r[k] = r[l] => k = l
      BY <1>1, InjectiveIs DEF Lists
    <2>3. \A k \in 1 .. Len(s) + Len(r) : (k =< Len(s) => k \in 1 .. Len(s)) /\ (~(k =< Len(s)) => k - Len(s) \in 1 .. Len(r))
      BY <1>1
    <2>4. CASE i =< Len(s) /\ j =< Len(s)
      BY <1>2, <2>1, <2>3, <2>4
    <2>5. CASE ~(i =< Len(s)) /\ ~(j =< Len(s))
      <3>1. i - Len(s) = j - Len(s)
        BY <1>2, <2>2, <2>3, <2>5
      <3> QED BY <1>1, <3>1
    <2> QED BY <1>2, <1>4, <2>3, <2>4, <2>5
  <1> QED BY <1>2, <1>3, <1>5 DEF Lists, a

LEMMA TailLists ==
  ASSUME NEW s, NEW S, Lists(s, S), s # <<>>
  PROVE  Lists(Tail(s), S \ {Head(s)}) /\ Head(s) \in S
  <1>1. s \in Seq(Threads) /\ Len(s) \in Nat \ {0}
    BY EmptySeq DEF Lists
  <1>2. Tail(s) = SubSeq(s, 2, Len(s)) /\ Head(s) = s[1]
    BY <1>1, TailIsSubSeq
  <1>3. 1 \in 0 .. Len(s) /\ 1 + 1 = 2 /\ \A i \in 1 .. 1 : i = 1
    BY <1>1
  <1>4. Lists(SubSeq(s, 1 + 1, Len(s)), S \ First(s, 1)) /\ First(s, 1) \subseteq S
    BY <1>3, CutLists
  <1>5. First(s, 1) = {Head(s)}
    BY <1>2, <1>3 DEF First
  <1> QED BY <1>2, <1>3, <1>4, <1>5

LEMMA RemoveLists ==
  ASSUME NEW s, NEW S, Lists(s, S), NEW i \in 1 .. Len(s)
  PROVE  Lists(RemoveAt(s, i), S \ {s[i]}) /\ s[i] \in S
  <1>1. s \in Seq(Threads) /\ Len(s) \in Nat
    BY LenProperties DEF Lists
  <1>2. i - 1 \in 0 .. Len(s) /\ i \in 0 .. Len(s) /\ (i - 1) + 1 = i
    BY <1>1
  <1>3. Lists(SubSeq(s, i + 1, Len(s)), S \ First(s, i)) /\ First(s, i) \subseteq S
    BY <1>2, CutLists
  <1>4. Lists(SubSeq(s, 1, i - 1), First(s, i - 1))
    BY <1>2, CutLists
  <1>5. \A k, l \in 1 .. Len(s) : s[k] = s[l] => k = l
    BY <1>1, InjectiveIs DEF Lists
  <1>6. s[i] \notin First(s, i - 1)
    BY <1>1, <1>5 DEF First
  <1>7. First(s, i) = First(s, i - 1) \cup {s[i]}
    <2>1. \A k \in 1 .. i : k \in 1 .. i - 1 \/ k = i
      BY <1>1
    <2>2. (\A k \in 1 .. i - 1 : k \in 1 .. i) /\ i \in 1 .. i
      BY <1>1
    <2> QED BY <2>1, <2>2 DEF First
  <1>8. First(s, i - 1) \cup (S \ First(s, i)) = S \ {s[i]} /\ First(s, i - 1) \cap (S \ First(s, i)) = {}
    BY <1>3, <1>6, <1>7
  <1>9. Lists(SubSeq(s, 1, i - 1) \o SubSeq(s, i + 1, Len(s)), S \ {s[i]})
    BY <1>3, <1>4, <1>8, JoinLists
  <1> QED BY <1>3, <1>7, <1>9 DEF RemoveAt

-----------------------------------------------------------------------------
(* The inductive invariant *)

\* A CPU in a thread is not idle, one in the idle loop is.
ModeInv ==
  \A c \in Cpus :
    /\ mode[c] \in {"run", "exorcise"} => ~c_isidle[c]
    /\ mode[c] \in {"pick", "idle", "irq"} => c_isidle[c]

\* A thread a CPU is on, has queued, is migrating or has to bury belongs to
\* that CPU.
Home ==
  \A c \in Cpus :
    /\ t_cpu[Cur(c)] = c
    /\ \A t \in Threads :
         t \in Range(c_runqueue[c]) \/ t \in Range(mig[c].victims) \/ t \in c_zombies[c] => t_cpu[t] = c

\* The stack a CPU is on has not been freed.
CurAlive == \A c \in Cpus : t_state[Cur(c)] # "none"

\* thread_consider_migration sends no more than it has taken, and takes no
\* more than the queue holds: it was counted before, and only grows.
MigInv ==
  \A c \in Cpus :
    /\ mode[c] \notin {"count", "give"} => mig[c] = NoMig
    /\ mode[c] = "count" => mig[c].victims = <<>> /\ mig[c].my_count =< Len(c_runqueue[c])
    /\ mode[c] = "give" => mig[c].to_send =< Len(mig[c].victims)

\* No thread is in two places; the structures in use are those in a place.
Distinct == \A t \in Threads : \A p, q \in Places : t \in At(p) /\ t \in At(q) => p = q

Accounted == \A t \in Threads : t_state[t] # "none" <=> \E p \in Places : t \in At(p)

PlaceInv == NoneQueuedTwice /\ Distinct /\ Accounted

IInv == TypeOK /\ ModeInv /\ Home /\ CurAlive /\ MigInv /\ PlaceInv

-----------------------------------------------------------------------------
(* Facts about the operators *)

SentSet(c, j) == First(mig[c].victims, j) \ {Cur(c)}

\* What the inner loop of a migration does with the list of victims.
LEMMA SentLeft ==
  ASSUME NEW c \in Cpus, NEW V, Lists(mig[c].victims, V), NEW j \in 0 .. Len(mig[c].victims)
  PROVE  /\ Lists(Sent(c, j), SentSet(c, j)) /\ SentSet(c, j) \subseteq V
         /\ Lists(Left(c, j), V \ SentSet(c, j))
         /\ Len(Left(c, j)) >= Len(mig[c].victims) - j
  <1> DEFINE v == mig[c].victims
             first == SubSeq(v, 1, j)
             rest == SubSeq(v, j + 1, Len(v))
  <1>1. v \in Seq(Threads) /\ Len(v) \in Nat /\ \A i \in 1 .. Len(v) : v[i] \in Threads
    BY LenProperties, ElementOfSeq DEF Lists
  <1>2. Lists(first, First(v, j)) /\ Lists(rest, V \ First(v, j)) /\ First(v, j) \subseteq V
    BY CutLists
  <1>3. Len(first) = j /\ \A i \in 1 .. j : first[i] = v[i]
    BY <1>1, SubSeqProperties
  <1>4. Len(rest) = Len(v) - j
    <2>1. \A i \in j + 1 .. Len(v) : v[i] \in Threads
      BY <1>1
    <2> QED BY <1>1, <2>1, SubSeqProperties
  <1> HIDE DEF v, first, rest
  <1>5. CASE ~MeetsCur(c, j)
    <2>1. Cur(c) \notin First(v, j)
      BY <1>5 DEF MeetsCur, First, v
    <2>2. SentSet(c, j) = First(v, j)
      BY <2>1 DEF SentSet, v
    <2>3. Sent(c, j) = first /\ Left(c, j) = rest
      BY <1>5 DEF Sent, Left, first, rest, v
    <2> QED BY <1>1, <1>2, <1>4, <2>2, <2>3 DEF v
  <1>6. CASE MeetsCur(c, j)
    <2> DEFINE k == CHOOSE i \in 1 .. j : first[i] = Cur(c)
    <2>1. k \in 1 .. j /\ first[k] = Cur(c)
      <3>1. \E i \in 1 .. j : first[i] = Cur(c)
        BY <1>3, <1>6 DEF MeetsCur, v
      <3> QED BY <3>1
    <2>2. Sent(c, j) = RemoveAt(first, k) /\ Left(c, j) = Append(rest, Cur(c))
      BY <1>6 DEF Sent, Left, first, rest, v
    <2> HIDE DEF k
    <2>3. Lists(RemoveAt(first, k), First(v, j) \ {Cur(c)}) /\ Cur(c) \in First(v, j)
      BY <1>2, <1>3, <2>1, RemoveLists
    <2>4. Cur(c) \in Threads
      BY <1>2, <2>3, RangeIs DEF Lists
    <2>5. Lists(Append(rest, Cur(c)), (V \ First(v, j)) \cup {Cur(c)})
      BY <1>2, <2>3, <2>4, AppendLists
    <2>6. (V \ First(v, j)) \cup {Cur(c)} = V \ SentSet(c, j)
      BY <1>2, <2>3 DEF SentSet, v
    <2>7. Len(Append(rest, Cur(c))) = Len(rest) + 1
      BY <1>2, <2>4, AppendProperties DEF Lists
    <2>8. SentSet(c, j) = First(v, j) \ {Cur(c)}
      BY DEF SentSet, v
    <2>9. Len(Append(rest, Cur(c))) >= Len(v) - j
      BY <1>1, <1>4, <2>7
    <2> QED BY <1>2, <2>2, <2>3, <2>5, <2>6, <2>8, <2>9 DEF v
  <1> QED BY <1>5, <1>6

-----------------------------------------------------------------------------
(* Places *)

LEMMA PlaceIs ==
  ASSUME NEW p \in Places
  PROVE  \/ \E c \in Cpus : p \in {<<"cpu", c>>, <<"queue", c>>, <<"victims", c>>, <<"zombies", c>>}
         \/ \E t \in Threads : p = <<"held", t>>
         \/ p = <<"channel", "all">>
  BY DEF Places

LEMMA ArePlaces ==
  /\ \A c \in Cpus : {<<"cpu", c>>, <<"queue", c>>, <<"victims", c>>, <<"zombies", c>>} \subseteq Places
  /\ \A t \in Threads : <<"held", t>> \in Places
  /\ <<"channel", "all">> \in Places
  BY DEF Places

LEMMA AtCpu ==
  ASSUME NEW c \in Cpus
  PROVE  /\ (c_isidle[c] => At(<<"cpu", c>>) = {}) /\ (~c_isidle[c] => At(<<"cpu", c>>) = {Cur(c)})
         /\ (c_isidle'[c] => At(<<"cpu", c>>)' = {}) /\ (~c_isidle'[c] => At(<<"cpu", c>>)' = {c_curthread'[c]})
  BY DEF At, Cur

LEMMA AtQueue ==
  ASSUME NEW c \in Cpus
  PROVE  At(<<"queue", c>>) = Range(c_runqueue[c]) /\ At(<<"queue", c>>)' = Range(c_runqueue'[c])
  BY DEF At

LEMMA AtVictims ==
  ASSUME NEW c \in Cpus
  PROVE  At(<<"victims", c>>) = Range(mig[c].victims) /\ At(<<"victims", c>>)' = Range(mig'[c].victims)
  BY DEF At

LEMMA AtZombies ==
  ASSUME NEW c \in Cpus
  PROVE  At(<<"zombies", c>>) = c_zombies[c] /\ At(<<"zombies", c>>)' = c_zombies'[c]
  BY DEF At

LEMMA AtHeld ==
  ASSUME NEW t \in Threads
  PROVE  At(<<"held", t>>) = Range(held[t]) /\ At(<<"held", t>>)' = Range(held'[t])
  BY DEF At

LEMMA AtChannel ==
  At(<<"channel", "all">>) = Range(wc_threads) /\ At(<<"channel", "all">>)' = Range(wc_threads')
  BY DEF At

SameInUse == \A t \in Threads : t_state'[t] = "none" <=> t_state[t] = "none"

\* The threads in M go from place p to place q.
Moves(M, p, q) ==
  /\ p \in Places /\ q \in Places /\ p # q /\ M \subseteq At(p)
  /\ At(p)' = At(p) \ M /\ At(q)' = At(q) \cup M
  /\ \A r \in Places : r # p /\ r # q => At(r)' = At(r)

LEMMA MoveKept ==
  ASSUME Distinct, Accounted, SameInUse, NEW M, NEW p, NEW q, Moves(M, p, q)
  PROVE  Distinct' /\ Accounted'
  <1>1. ASSUME NEW t \in Threads, t \in M, NEW r \in Places PROVE t \in At(r)' <=> r = q
    BY <1>1 DEF Moves, Distinct
  <1>2. ASSUME NEW t \in Threads, t \notin M, NEW r \in Places PROVE t \in At(r)' <=> t \in At(r)
    BY <1>2 DEF Moves
  <1>3. Distinct'
    <2> SUFFICES ASSUME NEW t \in Threads, NEW r \in Places, NEW u \in Places, t \in At(r)', t \in At(u)' PROVE r = u
      BY DEF Distinct, Places, Cpus
    <2> QED BY <1>1, <1>2 DEF Distinct
  <1>4. Accounted'
    <2> SUFFICES ASSUME NEW t \in Threads PROVE t_state'[t] # "none" <=> \E r \in Places : t \in At(r)'
      BY DEF Accounted, Places, Cpus
    <2>1. CASE t \in M
      BY <2>1, <1>1 DEF Accounted, SameInUse, Moves
    <2>2. CASE t \notin M
      BY <2>2, <1>2 DEF Accounted, SameInUse
    <2> QED BY <2>1, <2>2
  <1> QED BY <1>3, <1>4

LEMMA StayKept ==
  ASSUME Distinct, Accounted, SameInUse, \A r \in Places : At(r)' = At(r)
  PROVE  Distinct' /\ Accounted'
  <1>1. Distinct'
    <2> SUFFICES ASSUME NEW t \in Threads, NEW r \in Places, NEW u \in Places, t \in At(r)', t \in At(u)' PROVE r = u
      BY DEF Distinct, Places, Cpus
    <2> QED BY DEF Distinct
  <1>2. Accounted'
    <2> SUFFICES ASSUME NEW t \in Threads PROVE t_state'[t] # "none" <=> \E r \in Places : t \in At(r)'
      BY DEF Accounted, Places, Cpus
    <2> QED BY DEF Accounted, SameInUse
  <1> QED BY <1>1, <1>2

\* A place changes only with the variable that holds it.
Elsewhere(p, q) ==
  /\ \A c \in Cpus : <<"cpu", c>> \notin {p, q} => c_isidle'[c] = c_isidle[c] /\ c_curthread'[c] = c_curthread[c]
  /\ \A c \in Cpus : <<"queue", c>> \notin {p, q} => c_runqueue'[c] = c_runqueue[c]
  /\ \A c \in Cpus : <<"victims", c>> \notin {p, q} => mig'[c].victims = mig[c].victims
  /\ \A c \in Cpus : <<"zombies", c>> \notin {p, q} => c_zombies'[c] = c_zombies[c]
  /\ \A t \in Threads : <<"held", t>> \notin {p, q} => held'[t] = held[t]
  /\ <<"channel", "all">> \notin {p, q} => wc_threads' = wc_threads

LEMMA Untouched ==
  ASSUME NEW p, NEW q, Elsewhere(p, q), NEW r \in Places, r \notin {p, q}
  PROVE  At(r)' = At(r)
  <1>1. ASSUME NEW c \in Cpus, r = <<"cpu", c>> PROVE At(r)' = At(r)
    <2>1. c_isidle'[c] = c_isidle[c] /\ c_curthread'[c] = c_curthread[c]
      BY <1>1 DEF Elsewhere
    <2> QED BY <1>1, <2>1, AtCpu DEF Cur
  <1>2. ASSUME NEW c \in Cpus, r = <<"queue", c>> PROVE At(r)' = At(r)
    <2>1. c_runqueue'[c] = c_runqueue[c]
      BY <1>2 DEF Elsewhere
    <2> QED BY <1>2, <2>1, AtQueue
  <1>3. ASSUME NEW c \in Cpus, r = <<"victims", c>> PROVE At(r)' = At(r)
    <2>1. mig'[c].victims = mig[c].victims
      BY <1>3 DEF Elsewhere
    <2> QED BY <1>3, <2>1, AtVictims
  <1>4. ASSUME NEW c \in Cpus, r = <<"zombies", c>> PROVE At(r)' = At(r)
    <2>1. c_zombies'[c] = c_zombies[c]
      BY <1>4 DEF Elsewhere
    <2> QED BY <1>4, <2>1, AtZombies
  <1>5. ASSUME NEW t \in Threads, r = <<"held", t>> PROVE At(r)' = At(r)
    <2>1. held'[t] = held[t]
      BY <1>5 DEF Elsewhere
    <2> QED BY <1>5, <2>1, AtHeld
  <1>6. CASE r = <<"channel", "all">>
    <2>1. wc_threads' = wc_threads
      BY <1>6 DEF Elsewhere
    <2> QED BY <1>6, <2>1, AtChannel
  <1>7. \/ \E c \in Cpus : r = <<"cpu", c>> \/ r = <<"queue", c>> \/ r = <<"victims", c>> \/ r = <<"zombies", c>>
        \/ \E t \in Threads : r = <<"held", t>>
        \/ r = <<"channel", "all">>
    BY PlaceIs
  <1> QED BY <1>1, <1>2, <1>3, <1>4, <1>5, <1>6, <1>7, Zenon

LEMMA MovesIs ==
  ASSUME NEW M, NEW p \in Places, NEW q \in Places, p # q, M \subseteq At(p),
         At(p)' = At(p) \ M, At(q)' = At(q) \cup M, Elsewhere(p, q)
  PROVE  Moves(M, p, q)
  BY Untouched DEF Moves

LEMMA AllLists ==
  ASSUME TypeOK, NoneQueuedTwice
  PROVE  /\ \A c \in Cpus : Lists(c_runqueue[c], Range(c_runqueue[c])) /\ Lists(mig[c].victims, Range(mig[c].victims))
         /\ \A t \in Threads : Lists(held[t], Range(held[t]))
         /\ Lists(wc_threads, Range(wc_threads))
  <1>1. \A c \in Cpus : c_runqueue[c] \in Seq(Threads) /\ mig[c].victims \in Seq(Threads)
    BY DEF TypeOK
  <1>2. \A t \in Threads : held[t] \in Seq(Threads)
    BY DEF TypeOK
  <1> QED BY <1>1, <1>2 DEF NoneQueuedTwice, TypeOK, Lists

\* thread_make_runnable, with the thread on no list of the CPU before.
LEMMA Enqueue ==
  ASSUME TypeOK, NoneQueuedTwice, NEW tc \in Cpus, NEW t \in Threads, t \notin Range(c_runqueue[tc]),
         MakeRunnable(tc, t)
  PROVE  /\ c_runqueue' \in [Cpus -> Seq(Threads)] /\ c_ipi' \in [Cpus -> BOOLEAN]
         /\ \A c \in Cpus : IsInjective(c_runqueue'[c])
         /\ At(<<"queue", tc>>)' = At(<<"queue", tc>>) \cup {t}
         /\ \A c \in Cpus : c # tc => c_runqueue'[c] = c_runqueue[c]
  <1>1. c_runqueue \in [Cpus -> Seq(Threads)]
    BY DEF TypeOK
  <1>2. Lists(Append(c_runqueue[tc], t), Range(c_runqueue[tc]) \cup {t})
    BY AllLists, AppendLists
  <1>3. c_runqueue' = [c_runqueue EXCEPT ![tc] = Append(c_runqueue[tc], t)]
    BY DEF MakeRunnable
  <1>4. c_runqueue'[tc] = Append(c_runqueue[tc], t)
    BY <1>1, <1>3
  <1>5. \A c \in Cpus : c # tc => c_runqueue'[c] = c_runqueue[c]
    BY <1>1, <1>3
  <1>6. c_runqueue' \in [Cpus -> Seq(Threads)]
    BY <1>1, <1>2, <1>3 DEF Lists
  <1>7. \A c \in Cpus : IsInjective(c_runqueue'[c])
    BY <1>2, <1>4, <1>5 DEF NoneQueuedTwice, Lists
  <1>8. c_ipi' \in [Cpus -> BOOLEAN]
    BY DEF MakeRunnable, TypeOK
  <1>9. At(<<"queue", tc>>)' = At(<<"queue", tc>>) \cup {t}
    BY <1>2, <1>4, AtQueue DEF Lists
  <1> QED BY <1>5, <1>6, <1>7, <1>8, <1>9

-----------------------------------------------------------------------------
(* What each step does to the places *)

LEMMA MakeRunnableMoves ==
  ASSUME IInv, NEW c \in Cpus, thread_make_runnable(c),
         NEW me, me = Cur(c), NEW t, t = Head(held[me]), NEW tc, tc = t_cpu[t]
  PROVE  /\ TypeOK' /\ NoneQueuedTwice' /\ SameInUse
         /\ Moves({t}, <<"held", me>>, <<"queue", tc>>)
  <1> DEFINE p == <<"held", me>>
             q == <<"queue", tc>>
  <1>0. TypeOK /\ NoneQueuedTwice /\ Distinct
    BY DEF IInv, PlaceInv
  <1>1. me \in Threads /\ held[me] # <<>> /\ MakeRunnable(tc, t)
        /\ held' = [held EXCEPT ![me] = Tail(held[me])]
        /\ UNCHANGED <<c_curthread, c_isidle, c_zombies, mode, wc_threads, t_state, t_cpu, mig>>
    BY <1>0 DEF thread_make_runnable, TypeOK, Cur
  <1>2. Lists(Tail(held[me]), Range(held[me]) \ {t}) /\ t \in Range(held[me])
    BY <1>0, <1>1, AllLists, TailLists
  <1>3. t \in Threads /\ tc \in Cpus
    BY <1>0, <1>1, <1>2, RangeIs DEF TypeOK
  <1>4. p \in Places /\ q \in Places /\ p # q
    BY <1>1, <1>3, ArePlaces
  <1>5. At(p) = Range(held[me]) /\ At(q) = Range(c_runqueue[tc])
    BY <1>1, <1>3, AtHeld, AtQueue
  <1>6. t \notin Range(c_runqueue[tc])
    BY <1>0, <1>2, <1>3, <1>4, <1>5 DEF Distinct
  <1>7. /\ c_runqueue' \in [Cpus -> Seq(Threads)] /\ c_ipi' \in [Cpus -> BOOLEAN]
        /\ \A d \in Cpus : IsInjective(c_runqueue'[d])
        /\ At(q)' = At(q) \cup {t}
        /\ \A d \in Cpus : d # tc => c_runqueue'[d] = c_runqueue[d]
    BY <1>0, <1>1, <1>3, <1>6, Enqueue
  <1>8. held' \in [Threads -> Seq(Threads)] /\ held'[me] = Tail(held[me])
        /\ \A u \in Threads : u # me => held'[u] = held[u]
    BY <1>0, <1>1, <1>2 DEF TypeOK, Lists
  <1>9. TypeOK'
    BY <1>0, <1>1, <1>7, <1>8 DEF TypeOK
  <1>10. NoneQueuedTwice'
    BY <1>0, <1>1, <1>2, <1>7, <1>8 DEF NoneQueuedTwice, Lists
  <1>11. At(p)' = At(p) \ {t}
    BY <1>1, <1>2, <1>5, <1>8, AtHeld DEF Lists
  <1>12. Elsewhere(p, q)
    BY <1>1, <1>7, <1>8 DEF Elsewhere
  <1>13. Moves({t}, p, q)
    BY <1>2, <1>4, <1>5, <1>7, <1>11, <1>12, MovesIs
  <1> QED BY <1>1, <1>9, <1>10, <1>13 DEF SameInUse

\* The fields of thread_consider_migration's locals.
MigRec == [i: 0 .. NumCpus, my_count: Nat, total: Nat, share: Nat, to_send: Nat, victims: Seq(Threads)]

LEMMA MigTyped ==
  ASSUME TypeOK, NEW c \in Cpus
  PROVE  /\ mig \in [Cpus -> MigRec] /\ mig[c] \in MigRec
         /\ mig[c].i \in 0 .. NumCpus /\ mig[c].my_count \in Nat /\ mig[c].total \in Nat /\ mig[c].share \in Nat
         /\ mig[c].to_send \in Nat /\ mig[c].victims \in Seq(Threads)
  BY DEF TypeOK, MigRec

LEMMA NoMigTyped == NoMig \in MigRec
  <1>1. 0 \in 0 .. NumCpus /\ <<>> \in Seq(Threads)
    BY SchedulerAssumption, EmptySeq
  <1> QED BY <1>1 DEF NoMig, MigRec

\* A thread that is running leaves the CPU for a list or the zombies.
LEMMA CpuLeft ==
  ASSUME TypeOK, NEW c \in Cpus, ~c_isidle[c], NEW me, me = Cur(c), NEW state, state # "none",
         state \in {"S_READY", "S_SLEEP", "S_ZOMBIE"}, t_state[me] # "none", Leave(c, state)
  PROVE  /\ me \in Threads /\ At(<<"cpu", c>>) = {me} /\ At(<<"cpu", c>>)' = {} /\ SameInUse
         /\ \A d \in Cpus : d # c => c_isidle'[d] = c_isidle[d]
         /\ c_isidle' \in [Cpus -> BOOLEAN] /\ mode' \in [Cpus -> Modes]
         /\ t_state' \in [Threads -> {"none", "S_READY", "S_RUN", "S_SLEEP", "S_ZOMBIE"}]
  <1>1. me \in Threads /\ c_isidle'[c]
    BY DEF TypeOK, Cur, Leave
  <1>2. At(<<"cpu", c>>) = {me} /\ At(<<"cpu", c>>)' = {}
    BY <1>1, AtCpu
  <1>3. SameInUse
    BY <1>1 DEF SameInUse, Leave, TypeOK
  <1>4. (\A d \in Cpus : d # c => c_isidle'[d] = c_isidle[d]) /\ c_isidle' \in [Cpus -> BOOLEAN]
    BY DEF TypeOK, Leave
  <1>5. mode' \in [Cpus -> Modes] /\ t_state' \in [Threads -> {"none", "S_READY", "S_RUN", "S_SLEEP", "S_ZOMBIE"}]
    BY <1>1 DEF TypeOK, Leave, Go, Modes
  <1> QED BY <1>1, <1>2, <1>3, <1>4, <1>5

\* It is in no other place.
LEMMA RunningOnly ==
  ASSUME TypeOK, Distinct, NEW c \in Cpus, ~c_isidle[c], NEW q \in Places, q # <<"cpu", c>>
  PROVE  Cur(c) \notin At(q)
  <1>1. Cur(c) \in Threads /\ Cur(c) \in At(<<"cpu", c>>) /\ <<"cpu", c>> \in Places
    BY AtCpu, ArePlaces DEF TypeOK, Cur
  <1> QED BY <1>1 DEF Distinct

LEMMA SleepMoves ==
  ASSUME IInv, NEW c \in Cpus, wchan_sleep(c), NEW me, me = Cur(c)
  PROVE  TypeOK' /\ NoneQueuedTwice' /\ SameInUse /\ Moves({me}, <<"cpu", c>>, <<"channel", "all">>)
  <1> DEFINE p == <<"cpu", c>>
             q == <<"channel", "all">>
  <1>0. TypeOK /\ NoneQueuedTwice /\ Distinct /\ ~c_isidle[c] /\ t_state[me] # "none"
    BY DEF IInv, PlaceInv, ModeInv, CurAlive, wchan_sleep
  <1>1. wc_threads' = Append(wc_threads, me) /\ Leave(c, "S_SLEEP")
        /\ UNCHANGED <<c_runqueue, c_curthread, c_zombies, c_ipi, t_cpu, held, mig>>
    BY DEF wchan_sleep
  <1>2. /\ me \in Threads /\ At(p) = {me} /\ At(p)' = {} /\ SameInUse
        /\ \A d \in Cpus : d # c => c_isidle'[d] = c_isidle[d]
        /\ c_isidle' \in [Cpus -> BOOLEAN] /\ mode' \in [Cpus -> Modes]
        /\ t_state' \in [Threads -> {"none", "S_READY", "S_RUN", "S_SLEEP", "S_ZOMBIE"}]
    BY <1>0, <1>1, CpuLeft
  <1>3. p \in Places /\ q \in Places /\ p # q
    BY ArePlaces
  <1>4. me \notin Range(wc_threads)
    BY <1>0, <1>3, RunningOnly, AtChannel
  <1>5. Lists(wc_threads', Range(wc_threads) \cup {me})
    BY <1>0, <1>1, <1>2, <1>4, AllLists, AppendLists
  <1>6. TypeOK'
    BY <1>0, <1>1, <1>2, <1>5 DEF TypeOK, Lists
  <1>7. NoneQueuedTwice'
    BY <1>0, <1>1, <1>5 DEF NoneQueuedTwice, Lists
  <1>8. At(q)' = At(q) \cup {me}
    BY <1>5, AtChannel DEF Lists
  <1>9. Elsewhere(p, q)
    BY <1>1, <1>2 DEF Elsewhere
  <1>10. Moves({me}, p, q)
    BY <1>2, <1>3, <1>8, <1>9, MovesIs
  <1> QED BY <1>2, <1>6, <1>7, <1>10

LEMMA ExitMoves ==
  ASSUME IInv, NEW c \in Cpus, thread_exit(c), NEW me, me = Cur(c)
  PROVE  TypeOK' /\ NoneQueuedTwice' /\ SameInUse /\ Moves({me}, <<"cpu", c>>, <<"zombies", c>>)
  <1> DEFINE p == <<"cpu", c>>
             q == <<"zombies", c>>
  <1>0. TypeOK /\ NoneQueuedTwice /\ ~c_isidle[c] /\ t_state[me] # "none"
    BY DEF IInv, PlaceInv, ModeInv, CurAlive, thread_exit
  <1>1. c_zombies' = [c_zombies EXCEPT ![c] = c_zombies[c] \cup {me}] /\ Leave(c, "S_ZOMBIE")
        /\ UNCHANGED <<c_runqueue, c_curthread, c_ipi, wc_threads, t_cpu, held, mig>>
    BY DEF thread_exit
  <1>2. /\ me \in Threads /\ At(p) = {me} /\ At(p)' = {} /\ SameInUse
        /\ \A d \in Cpus : d # c => c_isidle'[d] = c_isidle[d]
        /\ c_isidle' \in [Cpus -> BOOLEAN] /\ mode' \in [Cpus -> Modes]
        /\ t_state' \in [Threads -> {"none", "S_READY", "S_RUN", "S_SLEEP", "S_ZOMBIE"}]
    BY <1>0, <1>1, CpuLeft
  <1>3. p \in Places /\ q \in Places /\ p # q
    BY ArePlaces
  <1>4. c_zombies' \in [Cpus -> SUBSET Threads] /\ c_zombies'[c] = c_zombies[c] \cup {me}
        /\ \A d \in Cpus : d # c => c_zombies'[d] = c_zombies[d]
    BY <1>0, <1>1, <1>2 DEF TypeOK
  <1>6. TypeOK'
    BY <1>0, <1>1, <1>2, <1>4 DEF TypeOK
  <1>7. NoneQueuedTwice'
    BY <1>0, <1>1 DEF NoneQueuedTwice
  <1>8. At(q)' = At(q) \cup {me}
    BY <1>4, AtZombies
  <1>9. Elsewhere(p, q)
    BY <1>1, <1>2, <1>4 DEF Elsewhere
  <1>10. Moves({me}, p, q)
    BY <1>2, <1>3, <1>8, <1>9, MovesIs
  <1> QED BY <1>2, <1>6, <1>7, <1>10

LEMMA YieldMoves ==
  ASSUME IInv, NEW c \in Cpus, thread_yield(c), ~c_isidle[c], c_runqueue[c] # <<>>, NEW me, me = Cur(c)
  PROVE  TypeOK' /\ NoneQueuedTwice' /\ SameInUse /\ Moves({me}, <<"cpu", c>>, <<"queue", c>>)
  <1> DEFINE p == <<"cpu", c>>
             q == <<"queue", c>>
  <1>0. TypeOK /\ NoneQueuedTwice /\ Distinct /\ t_state[me] # "none"
    BY DEF IInv, PlaceInv, CurAlive
  <1>1. MakeRunnable(c, me) /\ Leave(c, "S_READY")
        /\ UNCHANGED <<c_curthread, c_zombies, wc_threads, t_cpu, held, mig>>
    BY DEF thread_yield
  <1>2. /\ me \in Threads /\ At(p) = {me} /\ At(p)' = {} /\ SameInUse
        /\ \A d \in Cpus : d # c => c_isidle'[d] = c_isidle[d]
        /\ c_isidle' \in [Cpus -> BOOLEAN] /\ mode' \in [Cpus -> Modes]
        /\ t_state' \in [Threads -> {"none", "S_READY", "S_RUN", "S_SLEEP", "S_ZOMBIE"}]
    BY <1>0, <1>1, CpuLeft
  <1>3. p \in Places /\ q \in Places /\ p # q
    BY ArePlaces
  <1>4. me \notin Range(c_runqueue[c])
    BY <1>0, <1>3, RunningOnly, AtQueue
  <1>5. /\ c_runqueue' \in [Cpus -> Seq(Threads)] /\ c_ipi' \in [Cpus -> BOOLEAN]
        /\ \A d \in Cpus : IsInjective(c_runqueue'[d])
        /\ At(q)' = At(q) \cup {me}
        /\ \A d \in Cpus : d # c => c_runqueue'[d] = c_runqueue[d]
    BY <1>0, <1>1, <1>2, <1>4, Enqueue
  <1>6. TypeOK'
    BY <1>0, <1>1, <1>2, <1>5 DEF TypeOK
  <1>7. NoneQueuedTwice'
    BY <1>0, <1>1, <1>5 DEF NoneQueuedTwice
  <1>9. Elsewhere(p, q)
    BY <1>1, <1>2, <1>5 DEF Elsewhere
  <1>10. Moves({me}, p, q)
    BY <1>2, <1>3, <1>5, <1>9, MovesIs
  <1> QED BY <1>2, <1>6, <1>7, <1>10

LEMMA PickMoves ==
  ASSUME IInv, NEW c \in Cpus, PickNext(c), c_runqueue[c] # <<>>, NEW next, next = Head(c_runqueue[c])
  PROVE  /\ TypeOK' /\ NoneQueuedTwice' /\ SameInUse
         /\ Moves({next}, <<"queue", c>>, <<"cpu", c>>)
         /\ next \in Threads /\ next \in Range(c_runqueue[c])
  <1> DEFINE p == <<"queue", c>>
             q == <<"cpu", c>>
  <1>0. TypeOK /\ NoneQueuedTwice /\ Accounted /\ c_isidle[c]
    BY DEF IInv, PlaceInv, ModeInv, PickNext
  <1>1. /\ c_curthread' = [c_curthread EXCEPT ![c] = next] /\ t_state' = [t_state EXCEPT ![next] = "S_RUN"]
        /\ c_runqueue' = [c_runqueue EXCEPT ![c] = Tail(c_runqueue[c])] /\ c_isidle' = [c_isidle EXCEPT ![c] = FALSE]
        /\ Go(c, "exorcise") /\ UNCHANGED <<c_zombies, c_ipi, wc_threads, t_cpu, held, mig>>
    BY DEF PickNext
  <1>2. Lists(Tail(c_runqueue[c]), Range(c_runqueue[c]) \ {next}) /\ next \in Range(c_runqueue[c])
    BY <1>0, AllLists, TailLists
  <1>3. next \in Threads
    BY <1>0, <1>2, RangeIs DEF TypeOK
  <1>4. p \in Places /\ q \in Places /\ p # q
    BY ArePlaces
  <1>5. /\ c_runqueue' \in [Cpus -> Seq(Threads)] /\ c_runqueue'[c] = Tail(c_runqueue[c])
        /\ \A d \in Cpus : d # c => c_runqueue'[d] = c_runqueue[d]
    BY <1>0, <1>1, <1>2 DEF TypeOK, Lists
  <1>6. /\ c_curthread' \in [Cpus -> Threads] /\ c_curthread'[c] = next /\ c_isidle' \in [Cpus -> BOOLEAN] /\ ~c_isidle'[c]
        /\ \A d \in Cpus : d # c => c_curthread'[d] = c_curthread[d] /\ c_isidle'[d] = c_isidle[d]
    BY <1>0, <1>1, <1>3 DEF TypeOK
  <1>7. TypeOK'
    BY <1>0, <1>1, <1>3, <1>5, <1>6 DEF TypeOK, Go, Modes
  <1>8. NoneQueuedTwice'
    BY <1>0, <1>1, <1>2, <1>5 DEF NoneQueuedTwice, Lists
  <1>9. At(p) = Range(c_runqueue[c]) /\ At(p)' = At(p) \ {next}
    BY <1>2, <1>5, AtQueue DEF Lists
  <1>10. At(q) = {} /\ At(q)' = {next}
    BY <1>0, <1>6, AtCpu
  <1>11. Elsewhere(p, q)
    BY <1>1, <1>5, <1>6 DEF Elsewhere
  <1>12. Moves({next}, p, q)
    BY <1>2, <1>4, <1>9, <1>10, <1>11, MovesIs
  <1>13. SameInUse
    <2>1. t_state[next] # "none"
      BY <1>0, <1>2, <1>3, <1>4, <1>9 DEF Accounted
    <2> QED BY <1>0, <1>1, <1>3, <2>1 DEF SameInUse, TypeOK
  <1> QED BY <1>2, <1>3, <1>7, <1>8, <1>12, <1>13

LEMMA AwakenMoves ==
  ASSUME IInv, NEW c \in Cpus, NEW n \in 0 .. Len(wc_threads), Awaken(c, n), NEW me, me = Cur(c),
         NEW M, M = First(wc_threads, n)
  PROVE  /\ TypeOK' /\ NoneQueuedTwice' /\ SameInUse
         /\ Moves(M, <<"channel", "all">>, <<"held", me>>)
  <1> DEFINE p == <<"channel", "all">>
             q == <<"held", me>>
  <1>0. TypeOK /\ NoneQueuedTwice
    BY DEF IInv, PlaceInv
  <1>1. /\ me \in Threads /\ held[me] = <<>> /\ mode' \in [Cpus -> Modes]
        /\ held' = [held EXCEPT ![me] = SubSeq(wc_threads, 1, n)]
        /\ wc_threads' = SubSeq(wc_threads, n + 1, Len(wc_threads))
        /\ UNCHANGED <<c_runqueue, c_curthread, c_isidle, c_zombies, c_ipi, t_state, t_cpu, mig>>
    BY <1>0 DEF Awaken, TypeOK, Cur, Go, Modes
  <1>2. /\ Lists(SubSeq(wc_threads, 1, n), M) /\ Lists(wc_threads', Range(wc_threads) \ M)
        /\ M \subseteq Range(wc_threads)
    BY <1>0, <1>1, AllLists, CutLists
  <1>3. p \in Places /\ q \in Places /\ p # q
    BY <1>1, ArePlaces
  <1>4. /\ held' \in [Threads -> Seq(Threads)] /\ held'[me] = SubSeq(wc_threads, 1, n)
        /\ \A u \in Threads : u # me => held'[u] = held[u]
    BY <1>0, <1>1, <1>2 DEF TypeOK, Lists
  <1>5. TypeOK'
    BY <1>0, <1>1, <1>2, <1>4 DEF TypeOK, Lists
  <1>6. NoneQueuedTwice'
    BY <1>0, <1>1, <1>2, <1>4 DEF NoneQueuedTwice, Lists
  <1>7. At(p) = Range(wc_threads) /\ At(p)' = At(p) \ M
    BY <1>2, AtChannel DEF Lists
  <1>8. At(q) = {} /\ At(q)' = M
    BY <1>1, <1>2, <1>4, AtHeld, EmptyLists DEF Lists
  <1>9. Elsewhere(p, q)
    BY <1>1, <1>4 DEF Elsewhere
  <1>10. Moves(M, p, q)
    BY <1>2, <1>3, <1>7, <1>8, <1>9, MovesIs
  <1> QED BY <1>1, <1>5, <1>6, <1>10 DEF SameInUse

LEMMA DivNat ==
  ASSUME NEW a \in Nat, NEW b \in Nat \ {0}
  PROVE  a \div b \in Nat
  <1>1. a \div b >= 0
    OBVIOUS
  <1>2. a \div b \in Int
    OBVIOUS
  <1> QED BY <1>1, <1>2

LEMMA ShareNat ==
  ASSUME TypeOK, NEW c \in Cpus
  PROVE  MigrateShare(mig[c]) \in Nat
  <1>1. NumCpus \in Nat \ {0} /\ mig[c].total \in Nat
    BY MigTyped, SchedulerAssumption
  <1>2. mig[c].total + NumCpus - 1 \in Nat
    BY <1>1
  <1> QED BY <1>1, <1>2, DivNat DEF MigrateShare, DIVROUNDUP

LEMMA TakeMoves ==
  ASSUME IInv, NEW c \in Cpus, MigrateTake(c), ~(mig[c].my_count < MigrateShare(mig[c])),
         NEW n, n = Len(c_runqueue[c]) - (mig[c].my_count - MigrateShare(mig[c])),
         NEW M, M = Range(c_runqueue[c]) \ First(c_runqueue[c], n)
  PROVE  /\ TypeOK' /\ NoneQueuedTwice' /\ SameInUse
         /\ Moves(M, <<"queue", c>>, <<"victims", c>>)
         /\ mig'[c].to_send =< Len(mig'[c].victims)
         /\ \A d \in Cpus : d # c => mig'[d] = mig[d] /\ c_runqueue'[d] = c_runqueue[d]
  <1> DEFINE p == <<"queue", c>>
             q == <<"victims", c>>
             s == c_runqueue[c]
             share == MigrateShare(mig[c])
             to_send == mig[c].my_count - share
             taken == SubSeq(s, n + 1, Len(s))
  <1>0. TypeOK /\ NoneQueuedTwice /\ mig[c].victims = <<>> /\ mig[c].my_count =< Len(s) /\ mode[c] = "count"
    BY DEF IInv, PlaceInv, MigInv, MigrateTake
  <1>1. share \in Nat
    BY <1>0, ShareNat
  <1>2. s \in Seq(Threads) /\ Len(s) \in Nat /\ mig[c].my_count \in Nat
    BY <1>0, MigTyped, LenProperties DEF TypeOK
  <1> HIDE DEF share
  <1>3. to_send \in Nat /\ n \in 0 .. Len(s) /\ n = Len(s) - to_send
    BY <1>0, <1>1, <1>2 DEF share
  <1>4. /\ mig' = [mig EXCEPT ![c] = [NoMig EXCEPT !.share = share, !.to_send = to_send, !.victims = taken]]
        /\ c_runqueue' = [c_runqueue EXCEPT ![c] = SubSeq(s, 1, n)]
        /\ Go(c, "give")
        /\ UNCHANGED <<c_curthread, c_isidle, c_zombies, c_ipi, wc_threads, t_state, t_cpu, held>>
    BY <1>1, <1>2, <1>3 DEF MigrateTake, share
  <1> HIDE DEF to_send
  <1>5. Lists(SubSeq(s, 1, n), Range(s) \ M) /\ Lists(taken, M) /\ M \subseteq Range(s)
    <2>1. Lists(SubSeq(s, 1, n), First(s, n)) /\ Lists(taken, M) /\ First(s, n) \subseteq Range(s)
      BY <1>0, <1>3, AllLists, CutLists
    <2>2. Range(s) \ M = First(s, n) /\ M \subseteq Range(s)
      BY <2>1
    <2> QED BY <2>1, <2>2
  <1>6. Len(taken) = to_send
    <2>1. \A i \in n + 1 .. Len(s) : s[i] \in Threads
      BY <1>2, <1>3, ElementOfSeq
    <2> QED BY <1>2, <1>3, <2>1, SubSeqProperties
  <1> HIDE DEF taken
  <1>7. /\ mig'[c].to_send = to_send /\ mig'[c].victims = taken /\ mig' \in [Cpus -> MigRec]
        /\ \A d \in Cpus : d # c => mig'[d] = mig[d]
    <2>1. NumCpus \in Nat
      BY SchedulerAssumption
    <2>2. [NoMig EXCEPT !.share = share, !.to_send = to_send, !.victims = taken] \in MigRec
      <3>1. NoMig \in MigRec /\ taken \in Seq(Threads)
        BY <1>5, NoMigTyped DEF Lists
      <3> QED BY <1>1, <1>3, <3>1 DEF MigRec
    <2>3. mig \in [Cpus -> MigRec]
      BY <1>0, MigTyped
    <2> QED BY <1>4, <2>2, <2>3 DEF NoMig
  <1>8. /\ c_runqueue' \in [Cpus -> Seq(Threads)] /\ c_runqueue'[c] = SubSeq(s, 1, n)
        /\ \A d \in Cpus : d # c => c_runqueue'[d] = c_runqueue[d]
    BY <1>0, <1>4, <1>5 DEF TypeOK, Lists
  <1>9. TypeOK'
    BY <1>0, <1>4, <1>7, <1>8 DEF TypeOK, Go, Modes, MigRec
  <1>10. NoneQueuedTwice'
    BY <1>0, <1>4, <1>5, <1>7, <1>8 DEF NoneQueuedTwice, Lists
  <1>11. At(p) = Range(s) /\ At(p)' = At(p) \ M
    BY <1>5, <1>8, AtQueue DEF Lists
  <1>12. At(q) = {} /\ At(q)' = M
    BY <1>0, <1>5, <1>7, AtVictims, EmptyLists DEF Lists
  <1>13. p \in Places /\ q \in Places /\ p # q
    BY ArePlaces
  <1>14. Elsewhere(p, q)
    BY <1>4, <1>7, <1>8 DEF Elsewhere
  <1>15. Moves(M, p, q)
    BY <1>5, <1>11, <1>12, <1>13, <1>14, MovesIs
  <1>16. SameInUse
    BY <1>4 DEF SameInUse
  <1>17. mig'[c].to_send =< Len(mig'[c].victims)
    BY <1>3, <1>6, <1>7
  <1> QED BY <1>7, <1>8, <1>9, <1>10, <1>15, <1>16, <1>17

LEMMA GiveMoves ==
  ASSUME IInv, NEW c \in Cpus, MigrateGive(c), mig[c].i # c, NEW d, d = mig[c].i
  PROVE  /\ TypeOK' /\ NoneQueuedTwice' /\ SameInUse /\ d \in Cpus
         /\ mig'[c].to_send =< Len(mig'[c].victims)
         /\ \A e \in Cpus : e # c => mig'[e] = mig[e]
         /\ \A e \in Cpus : Len(c_runqueue'[e]) >= Len(c_runqueue[e])
         /\ \E M : /\ Moves(M, <<"victims", c>>, <<"queue", d>>) /\ Cur(c) \notin M
                   /\ t_cpu' = [t \in Threads |-> IF t \in M THEN d ELSE t_cpu[t]]
                   /\ M = {} \/ c_ipi' = [c_ipi EXCEPT ![d] = c_ipi[d] \/ c_isidle[d]]
                   /\ M = {} => c_runqueue' = c_runqueue /\ \A e \in Cpus : c_ipi'[e] = c_ipi[e]
  <1> DEFINE p == <<"victims", c>>
             q == <<"queue", d>>
             v == mig[c].victims
             m == mig[c]
  <1>0. TypeOK /\ NoneQueuedTwice /\ Distinct /\ mode[c] = "give" /\ m.to_send =< Len(v)
    BY DEF IInv, PlaceInv, MigInv, MigrateGive
  <1>1. /\ m.i \in 0 .. NumCpus /\ m.to_send \in Nat /\ v \in Seq(Threads) /\ Len(v) \in Nat /\ m \in MigRec
        /\ mig \in [Cpus -> MigRec] /\ NumCpus \in Nat
    BY <1>0, MigTyped, LenProperties, SchedulerAssumption
  <1>2. d \in Cpus /\ d # c /\ d + 1 \in 0 .. NumCpus
    <2>1. d < NumCpus
      BY DEF MigrateGive
    <2> QED BY <1>1, <2>1 DEF Cpus
  <1>3. PICK j \in 0 .. m.to_send :
          /\ c_runqueue' = [c_runqueue EXCEPT ![d] = c_runqueue[d] \o Sent(c, j)]
          /\ t_cpu' = [t \in Threads |-> IF t \in Range(Sent(c, j)) THEN d ELSE t_cpu[t]]
          /\ c_ipi' = [c_ipi EXCEPT ![d] = c_ipi[d] \/ (c_isidle[d] /\ Sent(c, j) # <<>>)]
          /\ mig' = [mig EXCEPT ![c] = [m EXCEPT !.i = m.i + 1, !.to_send = m.to_send - j, !.victims = Left(c, j)]]
    BY DEF MigrateGive
  <1>4. UNCHANGED <<c_curthread, c_isidle, c_zombies, mode, wc_threads, t_state, held>>
    BY DEF MigrateGive
  <1>5. PICK M : M = SentSet(c, j)
    OBVIOUS
  <1>6. /\ Lists(Sent(c, j), M) /\ M \subseteq Range(v) /\ Lists(Left(c, j), Range(v) \ M)
        /\ Len(Left(c, j)) >= Len(v) - j
    <2>1. j \in 0 .. Len(v) /\ Lists(v, Range(v))
      BY <1>0, <1>1, AllLists
    <2> QED BY <1>5, <2>1, SentLeft
  <1>7. Cur(c) \notin M /\ Range(Sent(c, j)) = M
    BY <1>5, <1>6 DEF SentSet, Lists
  <1>8. p \in Places /\ q \in Places /\ p # q
    BY <1>2, ArePlaces
  <1>9. At(p) = Range(v) /\ At(q) = Range(c_runqueue[d])
    BY <1>2, AtVictims, AtQueue
  <1>10. Range(c_runqueue[d]) \cap M = {}
    <2>1. Range(v) \subseteq Threads
      BY <1>1, RangeIs
    <2> QED BY <1>0, <1>6, <1>8, <1>9, <2>1 DEF Distinct
  <1>11. Lists(c_runqueue[d] \o Sent(c, j), Range(c_runqueue[d]) \cup M)
    BY <1>0, <1>2, <1>6, <1>10, AllLists, JoinLists
  <1>12. /\ c_runqueue' \in [Cpus -> Seq(Threads)] /\ c_runqueue'[d] = c_runqueue[d] \o Sent(c, j)
         /\ \A e \in Cpus : e # d => c_runqueue'[e] = c_runqueue[e]
    BY <1>0, <1>2, <1>3, <1>11 DEF TypeOK, Lists
  <1>13. /\ mig' \in [Cpus -> MigRec] /\ mig'[c].victims = Left(c, j) /\ mig'[c].to_send = m.to_send - j
         /\ \A e \in Cpus : e # c => mig'[e] = mig[e]
    <2>1. m.to_send - j \in Nat /\ m.i + 1 \in 0 .. NumCpus
      BY <1>1, <1>2
    <2>2. [m EXCEPT !.i = m.i + 1, !.to_send = m.to_send - j, !.victims = Left(c, j)] \in MigRec
      BY <1>1, <1>6, <2>1 DEF MigRec, Lists
    <2> QED BY <1>1, <1>3, <2>2 DEF MigRec
  <1>14. t_cpu' \in [Threads -> Cpus] /\ c_ipi' \in [Cpus -> BOOLEAN]
    BY <1>0, <1>2, <1>3 DEF TypeOK
  <1>15. TypeOK'
    BY <1>0, <1>4, <1>12, <1>13, <1>14 DEF TypeOK, MigRec
  <1>16. NoneQueuedTwice'
    BY <1>0, <1>4, <1>6, <1>11, <1>12, <1>13 DEF NoneQueuedTwice, Lists
  <1>17. At(p)' = At(p) \ M
    BY <1>6, <1>9, <1>13, AtVictims DEF Lists
  <1>18. At(q)' = At(q) \cup M
    BY <1>2, <1>9, <1>11, <1>12, AtQueue DEF Lists
  <1>19. Elsewhere(p, q)
    BY <1>4, <1>12, <1>13 DEF Elsewhere
  <1>20. Moves(M, p, q)
    BY <1>6, <1>8, <1>9, <1>17, <1>18, <1>19, MovesIs
  <1>21. mig'[c].to_send =< Len(mig'[c].victims)
    <2>1. Len(Left(c, j)) \in Nat
      BY <1>6, LenProperties DEF Lists
    <2> QED BY <1>0, <1>1, <1>6, <1>13, <2>1
  <1>22. ASSUME NEW e \in Cpus PROVE Len(c_runqueue'[e]) >= Len(c_runqueue[e])
    <2>1. Sent(c, j) \in Seq(Threads) /\ c_runqueue[d] \in Seq(Threads) /\ c_runqueue[e] \in Seq(Threads)
      BY <1>0, <1>2, <1>6 DEF TypeOK, Lists
    <2>2. Len(c_runqueue[d] \o Sent(c, j)) = Len(c_runqueue[d]) + Len(Sent(c, j))
      BY <2>1, ConcatProperties
    <2>3. Len(c_runqueue[d]) \in Nat /\ Len(Sent(c, j)) \in Nat /\ Len(c_runqueue[e]) \in Nat
      BY <2>1, LenProperties
    <2> QED BY <1>12, <2>2, <2>3
  <1>23. ASSUME M # {} PROVE c_ipi' = [c_ipi EXCEPT ![d] = c_ipi[d] \/ c_isidle[d]]
    <2>1. Sent(c, j) # <<>>
      BY <1>6, <1>23, EmptyLists DEF Lists
    <2> QED BY <1>3, <2>1
  <1>24. ASSUME M = {} PROVE c_runqueue' = c_runqueue /\ \A e \in Cpus : c_ipi'[e] = c_ipi[e]
    <2>1. Sent(c, j) = <<>>
      <3>1. Sent(c, j) \in Seq(Threads) /\ Range(Sent(c, j)) = {}
        BY <1>6, <1>24 DEF Lists
      <3>2. Sent(c, j) # <<>> => Len(Sent(c, j)) \in Nat \ {0}
        BY <3>1, EmptySeq
      <3>3. \A i \in 1 .. Len(Sent(c, j)) : FALSE
        BY <3>1, RangeIs
      <3> QED BY <3>2, <3>3
    <2>2. c_runqueue[d] \o <<>> = c_runqueue[d]
      BY <1>0, <1>2, ConcatEmptySeq DEF TypeOK
    <2>3. c_runqueue' = c_runqueue
      BY <1>0, <1>3, <2>1, <2>2 DEF TypeOK
    <2>4. \A e \in Cpus : c_ipi'[e] = c_ipi[e]
      BY <1>0, <1>3, <2>1 DEF TypeOK
    <2> QED BY <2>3, <2>4
  <1>25. SameInUse
    BY <1>4 DEF SameInUse
  <1>26. t_cpu' = [t \in Threads |-> IF t \in M THEN d ELSE t_cpu[t]]
    BY <1>3, <1>7
  <1> QED BY <1>2, <1>7, <1>13, <1>15, <1>16, <1>20, <1>21, <1>22, <1>23, <1>24, <1>25, <1>26

LEMMA BackMoves ==
  ASSUME IInv, NEW c \in Cpus, MigrateBack(c), NEW M, M = Range(mig[c].victims)
  PROVE  /\ TypeOK' /\ NoneQueuedTwice' /\ SameInUse
         /\ Moves(M, <<"victims", c>>, <<"queue", c>>)
         /\ mig'[c] = NoMig
         /\ \A d \in Cpus : d # c => mig'[d] = mig[d] /\ c_runqueue'[d] = c_runqueue[d]
  <1> DEFINE p == <<"victims", c>>
             q == <<"queue", c>>
             v == mig[c].victims
  <1>0. TypeOK /\ NoneQueuedTwice /\ Distinct
    BY DEF IInv, PlaceInv
  <1>1. /\ c_runqueue' = [c_runqueue EXCEPT ![c] = c_runqueue[c] \o v] /\ mig' = [mig EXCEPT ![c] = NoMig] /\ Go(c, "yield")
        /\ UNCHANGED <<c_curthread, c_isidle, c_zombies, c_ipi, wc_threads, t_state, t_cpu, held>>
    BY DEF MigrateBack
  <1>2. p \in Places /\ q \in Places /\ p # q
    BY ArePlaces
  <1>3. At(p) = M /\ At(q) = Range(c_runqueue[c])
    BY AtVictims, AtQueue
  <1>4. Range(c_runqueue[c]) \cap M = {}
    <2>1. M \subseteq Threads
      BY <1>0, MigTyped, RangeIs
    <2> QED BY <1>0, <1>2, <1>3, <2>1 DEF Distinct
  <1>5. Lists(c_runqueue[c] \o v, Range(c_runqueue[c]) \cup M)
    BY <1>0, <1>4, AllLists, JoinLists
  <1>6. /\ c_runqueue' \in [Cpus -> Seq(Threads)] /\ c_runqueue'[c] = c_runqueue[c] \o v
        /\ \A d \in Cpus : d # c => c_runqueue'[d] = c_runqueue[d]
    BY <1>0, <1>1, <1>5 DEF TypeOK, Lists
  <1>7. mig' \in [Cpus -> MigRec] /\ mig'[c] = NoMig /\ \A d \in Cpus : d # c => mig'[d] = mig[d]
    BY <1>0, <1>1, MigTyped, NoMigTyped
  <1>8. mig'[c].victims = <<>>
    BY <1>7 DEF NoMig
  <1>9. TypeOK'
    BY <1>0, <1>1, <1>6, <1>7 DEF TypeOK, MigRec, Go, Modes
  <1>10. NoneQueuedTwice'
    BY <1>0, <1>1, <1>5, <1>6, <1>7, <1>8, EmptyLists DEF NoneQueuedTwice, Lists
  <1>11. At(p)' = {}
    BY <1>8, AtVictims, EmptyLists DEF Lists
  <1>12. At(q)' = At(q) \cup M
    BY <1>3, <1>5, <1>6, AtQueue DEF Lists
  <1>13. Elsewhere(p, q)
    BY <1>1, <1>6, <1>7 DEF Elsewhere
  <1>14. Moves(M, p, q)
    BY <1>2, <1>3, <1>11, <1>12, <1>13, MovesIs
  <1>15. SameInUse
    BY <1>1 DEF SameInUse
  <1> QED BY <1>6, <1>7, <1>9, <1>10, <1>14, <1>15

\* A structure is taken into use, or dead ones are given up.
LEMMA ForkPlaces ==
  ASSUME IInv, NEW c \in Cpus, thread_fork(c)
  PROVE  \E t \in Threads :
           /\ TypeOK' /\ PlaceInv'
           /\ t_state[t] = "none" /\ t_state'[t] # "none" /\ \A u \in Threads : u # t => t_state'[u] = t_state[u]
           /\ t_cpu' = [t_cpu EXCEPT ![t] = c] /\ MakeRunnable(c, t)
           /\ Range(c_runqueue'[c]) = Range(c_runqueue[c]) \cup {t}
           /\ \A d \in Cpus : d # c => c_runqueue'[d] = c_runqueue[d]
  <1> DEFINE q == <<"queue", c>>
  <1>0. TypeOK /\ NoneQueuedTwice /\ Distinct /\ Accounted
    BY DEF IInv, PlaceInv
  <1>1. PICK t \in Threads : /\ t_state[t] = "none" /\ t_state' = [t_state EXCEPT ![t] = "S_READY"]
                             /\ t_cpu' = [t_cpu EXCEPT ![t] = c] /\ MakeRunnable(c, t)
    BY DEF thread_fork
  <1>2. UNCHANGED <<c_curthread, c_isidle, c_zombies, mode, wc_threads, held, mig>>
    BY DEF thread_fork
  <1>3. \A r \in Places : t \notin At(r)
    BY <1>0, <1>1 DEF Accounted
  <1>4. q \in Places /\ At(q) = Range(c_runqueue[c]) /\ At(q)' = Range(c_runqueue'[c])
    BY ArePlaces, AtQueue
  <1>5. /\ c_runqueue' \in [Cpus -> Seq(Threads)] /\ c_ipi' \in [Cpus -> BOOLEAN]
        /\ \A d \in Cpus : IsInjective(c_runqueue'[d])
        /\ At(q)' = At(q) \cup {t}
        /\ \A d \in Cpus : d # c => c_runqueue'[d] = c_runqueue[d]
    BY <1>0, <1>1, <1>3, <1>4, Enqueue
  <1>6. t_state'[t] # "none" /\ \A u \in Threads : u # t => t_state'[u] = t_state[u]
    BY <1>0, <1>1 DEF TypeOK
  <1>7. TypeOK'
    BY <1>0, <1>1, <1>2, <1>5 DEF TypeOK
  <1>8. NoneQueuedTwice'
    BY <1>0, <1>2, <1>5 DEF NoneQueuedTwice
  <1>9. Elsewhere(q, q)
    BY <1>2, <1>5 DEF Elsewhere
  <1>10. ASSUME NEW r \in Places, r # q PROVE At(r)' = At(r)
    BY <1>9, <1>10, Untouched
  <1>11. Distinct'
    <2> SUFFICES ASSUME NEW u \in Threads, NEW r \in Places, NEW s \in Places, u \in At(r)', u \in At(s)' PROVE r = s
      BY DEF Distinct, Places, Cpus
    <2>1. CASE u = t
      BY <1>3, <1>10, <2>1
    <2>2. CASE u # t
      <3>1. \A x \in Places : u \in At(x)' <=> u \in At(x)
        BY <1>5, <1>10, <2>2
      <3> QED BY <1>0, <3>1 DEF Distinct
    <2> QED BY <2>1, <2>2
  <1>12. Accounted'
    <2> SUFFICES ASSUME NEW u \in Threads PROVE t_state'[u] # "none" <=> \E r \in Places : u \in At(r)'
      BY DEF Accounted, Places, Cpus
    <2>1. CASE u = t
      BY <1>4, <1>5, <1>6, <2>1
    <2>2. CASE u # t
      <3>1. \A r \in Places : u \in At(r)' <=> u \in At(r)
        BY <1>5, <1>10, <2>2
      <3> QED BY <1>0, <1>6, <2>2, <3>1 DEF Accounted
    <2> QED BY <2>1, <2>2
  <1> QED BY <1>1, <1>4, <1>5, <1>6, <1>7, <1>8, <1>11, <1>12 DEF PlaceInv

LEMMA ExorcisePlaces ==
  ASSUME IInv, NEW c \in Cpus, exorcise(c)
  PROVE  TypeOK' /\ PlaceInv'
  <1> DEFINE q == <<"zombies", c>>
  <1>0. TypeOK /\ NoneQueuedTwice /\ Distinct /\ Accounted
    BY DEF IInv, PlaceInv
  <1>1. /\ t_state' = [t \in Threads |-> IF t \in c_zombies[c] THEN "none" ELSE t_state[t]]
        /\ c_zombies' = [c_zombies EXCEPT ![c] = {}] /\ Go(c, "run")
        /\ UNCHANGED <<c_runqueue, c_curthread, c_isidle, c_ipi, wc_threads, t_cpu, held, mig>>
    BY DEF exorcise
  <1>2. c_zombies' \in [Cpus -> SUBSET Threads] /\ c_zombies'[c] = {} /\ \A d \in Cpus : d # c => c_zombies'[d] = c_zombies[d]
    BY <1>0, <1>1 DEF TypeOK
  <1>3. TypeOK'
    BY <1>0, <1>1, <1>2 DEF TypeOK, Go, Modes
  <1>4. NoneQueuedTwice'
    BY <1>0, <1>1 DEF NoneQueuedTwice
  <1>5. q \in Places /\ At(q) = c_zombies[c] /\ At(q)' = {}
    BY <1>2, ArePlaces, AtZombies
  <1>6. Elsewhere(q, q)
    BY <1>1, <1>2 DEF Elsewhere
  <1>7. ASSUME NEW r \in Places, r # q PROVE At(r)' = At(r)
    BY <1>6, <1>7, Untouched
  <1>8. Distinct'
    <2> SUFFICES ASSUME NEW u \in Threads, NEW r \in Places, NEW s \in Places, u \in At(r)', u \in At(s)' PROVE r = s
      BY DEF Distinct, Places, Cpus
    <2> QED BY <1>0, <1>5, <1>7 DEF Distinct
  <1>9. Accounted'
    <2> SUFFICES ASSUME NEW u \in Threads PROVE t_state'[u] # "none" <=> \E r \in Places : u \in At(r)'
      BY DEF Accounted, Places, Cpus
    <2>1. CASE u \in c_zombies[c]
      <3>1. \A r \in Places : u \notin At(r)'
        BY <1>0, <1>5, <1>7, <2>1 DEF Distinct
      <3> QED BY <1>1, <2>1, <3>1
    <2>2. CASE u \notin c_zombies[c]
      <3>1. \A r \in Places : u \in At(r)' <=> u \in At(r)
        BY <1>5, <1>7, <2>2
      <3> QED BY <1>0, <1>1, <2>2, <3>1 DEF Accounted
    <2> QED BY <2>1, <2>2
  <1> QED BY <1>3, <1>4, <1>8, <1>9 DEF PlaceInv

\* The steps that leave every thread where it is.
NoMove ==
  /\ UNCHANGED <<c_runqueue, c_curthread, c_isidle, c_zombies, wc_threads, t_state, t_cpu, held>>
  /\ \A c \in Cpus : mig'[c].victims = mig[c].victims

LEMMA NoMovePlaces ==
  ASSUME IInv, NoMove, mode' \in [Cpus -> Modes], c_ipi' \in [Cpus -> BOOLEAN], mig' \in [Cpus -> MigRec]
  PROVE  TypeOK' /\ PlaceInv'
  <1>0. TypeOK /\ NoneQueuedTwice /\ Distinct /\ Accounted
    BY DEF IInv, PlaceInv
  <1>1. TypeOK'
    BY <1>0 DEF TypeOK, NoMove, MigRec
  <1>2. NoneQueuedTwice'
    BY <1>0 DEF NoneQueuedTwice, NoMove
  <1>3. Elsewhere(<<"none", "none">>, <<"none", "none">>)
    BY DEF Elsewhere, NoMove
  <1>4. ASSUME NEW r \in Places PROVE At(r)' = At(r)
    <2>1. r \notin {<<"none", "none">>, <<"none", "none">>}
      BY DEF Places
    <2> QED BY <1>3, <2>1, Untouched
  <1>5. SameInUse
    BY DEF SameInUse, NoMove
  <1> QED BY <1>0, <1>1, <1>2, <1>4, <1>5, StayKept DEF PlaceInv

-----------------------------------------------------------------------------
(* Types and places *)

Quiet(c) == IrqReturn(c) \/ interprocessor_interrupt(c) \/ hardclock(c) \/ MigrateCount(c)
              \/ (thread_yield(c) /\ (c_isidle[c] \/ c_runqueue[c] = <<>>))
              \/ (PickNext(c) /\ c_runqueue[c] = <<>>)
              \/ (MigrateTake(c) /\ mig[c].my_count < MigrateShare(mig[c]))
              \/ (MigrateGive(c) /\ mig[c].i = c)

\* Such a step changes at most the mode, the interrupt and the locals of its
\* CPU, and not the victims among these.
LEMMA QuietIs ==
  ASSUME IInv, NEW c \in Cpus, NEW m \in Modes, NEW b \in BOOLEAN, NEW r \in MigRec,
         UNCHANGED <<c_runqueue, c_curthread, c_isidle, c_zombies, wc_threads, t_state, t_cpu, held>>,
         mode' = [mode EXCEPT ![c] = m] \/ mode' = mode,
         c_ipi' = [c_ipi EXCEPT ![c] = b] \/ c_ipi' = c_ipi,
         mig' = [mig EXCEPT ![c] = r] \/ mig' = mig, r.victims = mig[c].victims
  PROVE  /\ NoMove /\ TypeOK' /\ PlaceInv'
         /\ \A d \in Cpus : d # c => mode'[d] = mode[d] /\ mig'[d] = mig[d] /\ c_ipi'[d] = c_ipi[d]
  <1>0. TypeOK /\ mig \in [Cpus -> MigRec]
    BY MigTyped DEF IInv
  <1>1. mode' \in [Cpus -> Modes] /\ c_ipi' \in [Cpus -> BOOLEAN] /\ mig' \in [Cpus -> MigRec]
    <2>1. mode' \in [Cpus -> Modes]
      BY <1>0 DEF TypeOK
    <2>2. c_ipi' \in [Cpus -> BOOLEAN]
      BY <1>0 DEF TypeOK
    <2>3. mig' \in [Cpus -> MigRec]
      BY <1>0
    <2> QED BY <2>1, <2>2, <2>3
  <1>2. NoMove
    BY <1>0 DEF NoMove
  <1>3. \A d \in Cpus : d # c => mode'[d] = mode[d] /\ mig'[d] = mig[d] /\ c_ipi'[d] = c_ipi[d]
    BY <1>0 DEF TypeOK
  <1> QED BY <1>1, <1>2, <1>3, NoMovePlaces

LEMMA QuietStays ==
  ASSUME IInv, NEW c \in Cpus, Quiet(c)
  PROVE  /\ NoMove /\ TypeOK' /\ PlaceInv'
         /\ \A d \in Cpus : d # c => mode'[d] = mode[d] /\ mig'[d] = mig[d] /\ c_ipi'[d] = c_ipi[d]
  <1>0. TypeOK /\ mig[c] \in MigRec /\ NoMig \in MigRec /\ MigInv
    BY MigTyped, NoMigTyped DEF IInv
  <1> DEFINE Same == UNCHANGED <<c_runqueue, c_curthread, c_isidle, c_zombies, wc_threads, t_state, t_cpu, held>>
  <1>1. CASE IrqReturn(c) \/ interprocessor_interrupt(c) \/ hardclock(c)
             \/ (thread_yield(c) /\ (c_isidle[c] \/ c_runqueue[c] = <<>>)) \/ (PickNext(c) /\ c_runqueue[c] = <<>>)
    <2>1. Same /\ mig' = mig
      BY <1>1 DEF IrqReturn, interprocessor_interrupt, hardclock, thread_yield, PickNext
    <2>2. c_ipi' = [c_ipi EXCEPT ![c] = FALSE] \/ c_ipi' = c_ipi
      BY <1>1 DEF IrqReturn, interprocessor_interrupt, hardclock, thread_yield, PickNext
    <2>3. \E m \in Modes : mode' = [mode EXCEPT ![c] = m] \/ mode' = mode
      BY <1>1 DEF IrqReturn, interprocessor_interrupt, hardclock, thread_yield, PickNext, Go, Modes
    <2> QED BY <1>0, <2>1, <2>2, <2>3, QuietIs
  <1>2. CASE MigrateCount(c)
    <2> DEFINE m == mig[c]
               n == Len(c_runqueue[m.i])
               counted == [m EXCEPT !.i = m.i + 1, !.total = m.total + n, !.my_count = IF m.i = c THEN n ELSE m.my_count]
    <2>1. Same /\ UNCHANGED <<mode, c_ipi>> /\ mig' = [mig EXCEPT ![c] = counted] /\ m.i < NumCpus
      BY <1>2 DEF MigrateCount
    <2>2. m.i \in 0 .. NumCpus /\ m.my_count \in Nat /\ m.total \in Nat /\ NumCpus \in Nat
      BY <1>0, MigTyped, SchedulerAssumption
    <2>3. m.i \in Cpus /\ m.i + 1 \in 0 .. NumCpus
      BY <2>1, <2>2 DEF Cpus
    <2>4. n \in Nat
      BY <1>0, <2>3, LenProperties DEF TypeOK
    <2>5. counted \in MigRec /\ counted.victims = m.victims
      <3>1. m.total + n \in Nat /\ (IF m.i = c THEN n ELSE m.my_count) \in Nat
        BY <2>2, <2>4
      <3> HIDE DEF n
      <3> QED BY <1>0, <2>3, <3>1 DEF MigRec
    <2> HIDE DEF counted
    <2> QED BY <2>1, <2>5, QuietIs DEF Modes
  <1>3. CASE MigrateTake(c) /\ mig[c].my_count < MigrateShare(mig[c])
    <2>1. Same /\ c_ipi' = c_ipi /\ mig' = [mig EXCEPT ![c] = NoMig] /\ mode' = [mode EXCEPT ![c] = "yield"]
      <3>1. mig[c].my_count \in Nat /\ MigrateShare(mig[c]) \in Int
        BY <1>0, MigTyped, ShareNat
      <3> QED BY <1>3, <3>1 DEF MigrateTake, Go
    <2>2. NoMig.victims = mig[c].victims
      BY <1>0, <1>3 DEF MigInv, MigrateTake, NoMig
    <2> QED BY <1>0, <2>1, <2>2, QuietIs DEF Modes
  <1>4. CASE MigrateGive(c) /\ mig[c].i = c
    <2> DEFINE m == mig[c]
               next == [m EXCEPT !.i = m.i + 1]
    <2>1. Same /\ UNCHANGED <<mode, c_ipi>> /\ mig' = [mig EXCEPT ![c] = next] /\ m.i < NumCpus
      <3>1. Same /\ UNCHANGED <<mode, c_ipi>> /\ mig' = [mig EXCEPT ![c].i = mig[c].i + 1] /\ m.i < NumCpus
        BY <1>4 DEF MigrateGive
      <3> QED BY <3>1
    <2>2. m.i \in 0 .. NumCpus /\ NumCpus \in Nat
      BY <1>0, MigTyped, SchedulerAssumption
    <2>3. m.i + 1 \in 0 .. NumCpus
      BY <2>1, <2>2
    <2>4. next \in MigRec /\ next.victims = m.victims
      BY <1>0, <2>3 DEF MigRec
    <2> HIDE DEF next
    <2> QED BY <2>1, <2>4, QuietIs DEF Modes
  <1> QED BY <1>1, <1>2, <1>3, <1>4 DEF Quiet

LEMMA Cases ==
  ASSUME Next
  PROVE  \E d \in Cpus :
           \/ Quiet(d) \/ thread_make_runnable(d) \/ thread_fork(d) \/ wchan_sleep(d) \/ thread_exit(d) \/ exorcise(d)
           \/ (thread_yield(d) /\ ~c_isidle[d] /\ c_runqueue[d] # <<>>)
           \/ (PickNext(d) /\ c_runqueue[d] # <<>>)
           \/ Awaken(d, 1) \/ Awaken(d, Len(wc_threads))
           \/ (MigrateTake(d) /\ ~(mig[d].my_count < MigrateShare(mig[d])))
           \/ (MigrateGive(d) /\ mig[d].i # d)
           \/ MigrateBack(d)
  BY DEF Next, Quiet, wchan_wakeone, wchan_wakeall

LEMMA MoveInv ==
  ASSUME IInv, TypeOK', NoneQueuedTwice', SameInUse, NEW M, NEW p, NEW q, Moves(M, p, q)
  PROVE  TypeOK' /\ PlaceInv'
  BY MoveKept DEF IInv, PlaceInv

LEMMA AwakenRange ==
  ASSUME TypeOK, wc_threads # <<>>
  PROVE  1 \in 0 .. Len(wc_threads) /\ Len(wc_threads) \in 0 .. Len(wc_threads)
  <1>1. Len(wc_threads) \in Nat \ {0}
    BY EmptySeq DEF TypeOK
  <1> QED BY <1>1

LEMMA PlaceStep ==
  ASSUME IInv, [Next]_vars
  PROVE  TypeOK' /\ PlaceInv'
  <1>1. CASE UNCHANGED vars
    <2>1. NoMove /\ mode' = mode /\ c_ipi' = c_ipi /\ mig' = mig
      BY <1>1 DEF NoMove, vars
    <2>2. mode' \in [Cpus -> Modes] /\ c_ipi' \in [Cpus -> BOOLEAN] /\ mig' \in [Cpus -> MigRec]
      BY <2>1 DEF IInv, TypeOK, MigRec
    <2> QED BY <2>1, <2>2, NoMovePlaces
  <1>2. ASSUME NEW c \in Cpus, Quiet(c) PROVE TypeOK' /\ PlaceInv'
    BY <1>2, QuietStays
  <1>3. ASSUME NEW c \in Cpus, thread_make_runnable(c) PROVE TypeOK' /\ PlaceInv'
    <2>1. PICK me, t, tc : me = Cur(c) /\ t = Head(held[me]) /\ tc = t_cpu[t]
      OBVIOUS
    <2> QED BY <1>3, <2>1, MakeRunnableMoves, MoveInv
  <1>4. ASSUME NEW c \in Cpus, thread_fork(c) PROVE TypeOK' /\ PlaceInv'
    BY <1>4, ForkPlaces
  <1>5. ASSUME NEW c \in Cpus, wchan_sleep(c) PROVE TypeOK' /\ PlaceInv'
    <2>1. PICK me : me = Cur(c)
      OBVIOUS
    <2> QED BY <1>5, <2>1, SleepMoves, MoveInv
  <1>6. ASSUME NEW c \in Cpus, thread_exit(c) PROVE TypeOK' /\ PlaceInv'
    <2>1. PICK me : me = Cur(c)
      OBVIOUS
    <2> QED BY <1>6, <2>1, ExitMoves, MoveInv
  <1>7. ASSUME NEW c \in Cpus, exorcise(c) PROVE TypeOK' /\ PlaceInv'
    BY <1>7, ExorcisePlaces
  <1>8. ASSUME NEW c \in Cpus, thread_yield(c), ~c_isidle[c], c_runqueue[c] # <<>> PROVE TypeOK' /\ PlaceInv'
    <2>1. PICK me : me = Cur(c)
      OBVIOUS
    <2> QED BY <1>8, <2>1, YieldMoves, MoveInv
  <1>9. ASSUME NEW c \in Cpus, PickNext(c), c_runqueue[c] # <<>> PROVE TypeOK' /\ PlaceInv'
    <2>1. PICK next : next = Head(c_runqueue[c])
      OBVIOUS
    <2> QED BY <1>9, <2>1, PickMoves, MoveInv
  <1>10. ASSUME NEW c \in Cpus, Awaken(c, 1) \/ Awaken(c, Len(wc_threads)) PROVE TypeOK' /\ PlaceInv'
    <2>1. PICK n \in 0 .. Len(wc_threads) : Awaken(c, n)
      BY <1>10, AwakenRange DEF Awaken, IInv
    <2>2. PICK me, M : me = Cur(c) /\ M = First(wc_threads, n)
      OBVIOUS
    <2> QED BY <2>1, <2>2, AwakenMoves, MoveInv
  <1>11. ASSUME NEW c \in Cpus, MigrateTake(c), ~(mig[c].my_count < MigrateShare(mig[c])) PROVE TypeOK' /\ PlaceInv'
    <2>1. PICK n : n = Len(c_runqueue[c]) - (mig[c].my_count - MigrateShare(mig[c]))
      OBVIOUS
    <2>2. PICK M : M = Range(c_runqueue[c]) \ First(c_runqueue[c], n)
      OBVIOUS
    <2> QED BY <1>11, <2>1, <2>2, TakeMoves, MoveInv
  <1>12. ASSUME NEW c \in Cpus, MigrateGive(c), mig[c].i # c PROVE TypeOK' /\ PlaceInv'
    <2>1. PICK d : d = mig[c].i
      OBVIOUS
    <2> QED BY <1>12, <2>1, GiveMoves, MoveInv
  <1>13. ASSUME NEW c \in Cpus, MigrateBack(c) PROVE TypeOK' /\ PlaceInv'
    <2>1. PICK M : M = Range(mig[c].victims)
      OBVIOUS
    <2> QED BY <1>13, <2>1, BackMoves, MoveInv
  <1> QED BY <1>1, <1>2, <1>3, <1>4, <1>5, <1>6, <1>7, <1>8, <1>9, <1>10, <1>11, <1>12, <1>13, Cases DEF Next

-----------------------------------------------------------------------------
(* The other parts of the invariant *)

LEMMA ModeStep ==
  ASSUME TypeOK, ModeInv, [Next]_vars
  PROVE  ModeInv'
  <1> USE DEF TypeOK, ModeInv, Modes, Go
  <1>1. CASE UNCHANGED vars
    BY <1>1 DEF vars
  <1>2. ASSUME NEW c \in Cpus, thread_make_runnable(c) \/ thread_fork(c) \/ MigrateCount(c) \/ MigrateGive(c) PROVE ModeInv'
    BY <1>2 DEF thread_make_runnable, thread_fork, MigrateCount, MigrateGive
  <1>3. ASSUME NEW c \in Cpus, wchan_sleep(c) \/ thread_exit(c) PROVE ModeInv'
    BY <1>3, ZenonT(30) DEF wchan_sleep, thread_exit, Leave
  <1>4. ASSUME NEW c \in Cpus, thread_yield(c) PROVE ModeInv'
    <2>1. \/ c_isidle[c] /\ mode' = [mode EXCEPT ![c] = "pick"] /\ c_isidle' = c_isidle
          \/ ~c_isidle[c] /\ mode' = [mode EXCEPT ![c] = "run"] /\ c_isidle' = c_isidle
          \/ mode' = [mode EXCEPT ![c] = "pick"] /\ c_isidle' = [c_isidle EXCEPT ![c] = TRUE]
      BY <1>4, Zenon DEF thread_yield, Leave
    <2> QED BY <2>1
  <1>5. ASSUME NEW c \in Cpus, PickNext(c) PROVE ModeInv'
    <2>1. mode[c] = "pick"
      BY <1>5, Zenon DEF PickNext
    <2>2. \/ mode' = [mode EXCEPT ![c] = "idle"] /\ c_isidle' = c_isidle
          \/ mode' = [mode EXCEPT ![c] = "exorcise"] /\ c_isidle' = [c_isidle EXCEPT ![c] = FALSE]
      BY <1>5, Zenon DEF PickNext
    <2>3. \A d \in Cpus : d # c => mode'[d] = mode[d] /\ c_isidle'[d] = c_isidle[d]
      BY <2>2
    <2>4. \/ mode'[c] = "idle" /\ c_isidle'[c]
          \/ mode'[c] = "exorcise" /\ ~c_isidle'[c]
      BY <2>1, <2>2
    <2> HIDE DEF TypeOK
    <2> QED BY <2>3, <2>4
  <1>6. ASSUME NEW c \in Cpus, exorcise(c) \/ IrqReturn(c) PROVE ModeInv'
    BY <1>6 DEF exorcise, IrqReturn
  <1>7. ASSUME NEW c \in Cpus, wchan_wakeone(c) \/ wchan_wakeall(c) PROVE ModeInv'
    BY <1>7 DEF wchan_wakeone, wchan_wakeall, Awaken
  <1>8. ASSUME NEW c \in Cpus, interprocessor_interrupt(c) \/ hardclock(c) PROVE ModeInv'
    BY <1>8 DEF interprocessor_interrupt, hardclock
  <1>9. ASSUME NEW c \in Cpus, MigrateTake(c) PROVE ModeInv'
    <2>1. UNCHANGED c_isidle /\ (mode' = [mode EXCEPT ![c] = "yield"] \/ mode' = [mode EXCEPT ![c] = "give"])
      BY <1>9 DEF MigrateTake
    <2> QED BY <2>1
  <1>10. ASSUME NEW c \in Cpus, MigrateBack(c) PROVE ModeInv'
    <2>1. UNCHANGED c_isidle /\ mode' = [mode EXCEPT ![c] = "yield"]
      BY <1>10 DEF MigrateBack
    <2> QED BY <2>1
  <1> QED BY <1>1, <1>2, <1>3, <1>4, <1>5, <1>6, <1>7, <1>8, <1>9, <1>10 DEF Next

\* A thread that moves to a list of a CPU belongs to that CPU.
LEMMA HomeMove ==
  ASSUME Home, Distinct, TypeOK', NEW M, NEW p, NEW q, Moves(M, p, q),
         \A c \in Cpus : q \in {<<"queue", c>>, <<"victims", c>>, <<"zombies", c>>} => \A t \in M : t_cpu'[t] = c,
         \A t \in Threads : t \notin M => t_cpu'[t] = t_cpu[t],
         \A c \in Cpus : t_cpu'[c_curthread'[c]] = c
  PROVE  Home'
  <1> SUFFICES ASSUME NEW c \in Cpus, NEW t \in Threads, NEW x \in {<<"queue", c>>, <<"victims", c>>, <<"zombies", c>>}, t \in At(x)'
               PROVE  t_cpu'[t] = c
    <2>1. ASSUME NEW c \in Cpus, NEW t \in Threads,
                 t \in Range(c_runqueue'[c]) \/ t \in Range(mig'[c].victims) \/ t \in c_zombies'[c]
          PROVE  t_cpu'[t] = c
      BY <2>1, AtQueue, AtVictims, AtZombies
    <2> QED BY <2>1 DEF Home, Cur, Cpus
  <1>1. x \in Places
    BY ArePlaces
  <1>2. CASE t \in M
    <2>1. x = q
      BY <1>1, <1>2 DEF Moves, Distinct
    <2> QED BY <1>2, <2>1
  <1>3. CASE t \notin M
    <2>1. t \in At(x)
      BY <1>1, <1>3 DEF Moves
    <2>2. t_cpu[t] = c
      BY <2>1, AtQueue, AtVictims, AtZombies DEF Home
    <2> QED BY <1>3, <2>2
  <1> QED BY <1>2, <1>3

\* The same where no thread changes its CPU and none its current thread.
LEMMA HomeKept ==
  ASSUME Home, Distinct, TypeOK', UNCHANGED <<t_cpu, c_curthread>>, NEW M, NEW p, NEW q, Moves(M, p, q),
         \A c \in Cpus : q \in {<<"queue", c>>, <<"victims", c>>, <<"zombies", c>>} => \A t \in M : t_cpu[t] = c
  PROVE  Home'
  <1>1. \A c \in Cpus : t_cpu'[c_curthread'[c]] = c
    BY DEF Home, Cur
  <1> QED BY <1>1, HomeMove

LEMMA AliveKept ==
  ASSUME CurAlive, SameInUse, TypeOK, UNCHANGED c_curthread
  PROVE  CurAlive'
  BY DEF CurAlive, SameInUse, Cur, TypeOK

LEMMA HomeStep ==
  ASSUME IInv, [Next]_vars
  PROVE  Home' /\ CurAlive'
  <1>0. Home /\ CurAlive /\ Distinct /\ Accounted /\ TypeOK /\ TypeOK' /\ PlaceInv'
    BY PlaceStep DEF IInv, PlaceInv
  <1>1. ASSUME NoMove PROVE Home' /\ CurAlive'
    BY <1>0, <1>1 DEF Home, CurAlive, NoMove, Cur
  <1>2. CASE UNCHANGED vars
    BY <1>1, <1>2 DEF vars, NoMove
  <1>3. ASSUME NEW c \in Cpus, Quiet(c) PROVE Home' /\ CurAlive'
    BY <1>1, <1>3, QuietStays
  <1>4. ASSUME NEW c \in Cpus, thread_make_runnable(c) PROVE Home' /\ CurAlive'
    <2>1. PICK me, t, tc : me = Cur(c) /\ t = Head(held[me]) /\ tc = t_cpu[t]
      OBVIOUS
    <2>2. SameInUse /\ Moves({t}, <<"held", me>>, <<"queue", tc>>)
      BY <1>4, <2>1, MakeRunnableMoves
    <2>3. UNCHANGED <<t_cpu, c_curthread>>
      BY <1>4 DEF thread_make_runnable
    <2>4. \A d \in Cpus : <<"queue", tc>> \in {<<"queue", d>>, <<"victims", d>>, <<"zombies", d>>} => t_cpu[t] = d
      BY <2>1
    <2> QED BY <1>0, <2>2, <2>3, <2>4, HomeKept, AliveKept
  <1>5. ASSUME NEW c \in Cpus, wchan_sleep(c) PROVE Home' /\ CurAlive'
    <2>1. PICK me : me = Cur(c)
      OBVIOUS
    <2>2. SameInUse /\ Moves({me}, <<"cpu", c>>, <<"channel", "all">>)
      BY <1>5, <2>1, SleepMoves
    <2>3. UNCHANGED <<t_cpu, c_curthread>>
      BY <1>5 DEF wchan_sleep
    <2>4. \A d \in Cpus : <<"channel", "all">> \notin {<<"queue", d>>, <<"victims", d>>, <<"zombies", d>>}
      OBVIOUS
    <2> QED BY <1>0, <2>2, <2>3, <2>4, HomeKept, AliveKept
  <1>6. ASSUME NEW c \in Cpus, thread_exit(c) PROVE Home' /\ CurAlive'
    <2>1. PICK me : me = Cur(c)
      OBVIOUS
    <2>2. SameInUse /\ Moves({me}, <<"cpu", c>>, <<"zombies", c>>)
      BY <1>6, <2>1, ExitMoves
    <2>3. UNCHANGED <<t_cpu, c_curthread>>
      BY <1>6 DEF thread_exit
    <2>4. \A d \in Cpus : <<"zombies", c>> \in {<<"queue", d>>, <<"victims", d>>, <<"zombies", d>>} => t_cpu[me] = d
      BY <1>0, <2>1 DEF Home
    <2> QED BY <1>0, <2>2, <2>3, <2>4, HomeKept, AliveKept
  <1>7. ASSUME NEW c \in Cpus, thread_yield(c), ~c_isidle[c], c_runqueue[c] # <<>> PROVE Home' /\ CurAlive'
    <2>1. PICK me : me = Cur(c)
      OBVIOUS
    <2>2. SameInUse /\ Moves({me}, <<"cpu", c>>, <<"queue", c>>)
      BY <1>7, <2>1, YieldMoves
    <2>3. UNCHANGED <<t_cpu, c_curthread>>
      BY <1>7 DEF thread_yield
    <2>4. \A d \in Cpus : <<"queue", c>> \in {<<"queue", d>>, <<"victims", d>>, <<"zombies", d>>} => t_cpu[me] = d
      BY <1>0, <2>1 DEF Home
    <2> QED BY <1>0, <2>2, <2>3, <2>4, HomeKept, AliveKept
  <1>8. ASSUME NEW c \in Cpus, Awaken(c, 1) \/ Awaken(c, Len(wc_threads)) PROVE Home' /\ CurAlive'
    <2>1. PICK n \in 0 .. Len(wc_threads) : Awaken(c, n)
      BY <1>0, <1>8, AwakenRange DEF Awaken
    <2>2. PICK me, M : me = Cur(c) /\ M = First(wc_threads, n)
      OBVIOUS
    <2>3. SameInUse /\ Moves(M, <<"channel", "all">>, <<"held", me>>)
      BY <2>1, <2>2, AwakenMoves
    <2>4. UNCHANGED <<t_cpu, c_curthread>>
      BY <2>1 DEF Awaken
    <2>5. \A d \in Cpus : <<"held", me>> \notin {<<"queue", d>>, <<"victims", d>>, <<"zombies", d>>}
      OBVIOUS
    <2> QED BY <1>0, <2>3, <2>4, <2>5, HomeKept, AliveKept
  <1>9. ASSUME NEW c \in Cpus, MigrateTake(c), ~(mig[c].my_count < MigrateShare(mig[c])) PROVE Home' /\ CurAlive'
    <2>1. PICK n : n = Len(c_runqueue[c]) - (mig[c].my_count - MigrateShare(mig[c]))
      OBVIOUS
    <2>2. PICK M : M = Range(c_runqueue[c]) \ First(c_runqueue[c], n)
      OBVIOUS
    <2>3. SameInUse /\ Moves(M, <<"queue", c>>, <<"victims", c>>)
      BY <1>9, <2>1, <2>2, TakeMoves
    <2>4. UNCHANGED <<t_cpu, c_curthread>>
      BY <1>9 DEF MigrateTake
    <2>5. \A t \in M : t_cpu[t] = c
      <3>1. Range(c_runqueue[c]) \subseteq Threads
        BY <1>0, RangeIs DEF TypeOK
      <3> QED BY <1>0, <2>2, <3>1 DEF Home
    <2>6. \A d \in Cpus : <<"victims", c>> \in {<<"queue", d>>, <<"victims", d>>, <<"zombies", d>>} => d = c
      OBVIOUS
    <2> QED BY <1>0, <2>3, <2>4, <2>5, <2>6, HomeKept, AliveKept
  <1>10. ASSUME NEW c \in Cpus, MigrateBack(c) PROVE Home' /\ CurAlive'
    <2>1. PICK M : M = Range(mig[c].victims)
      OBVIOUS
    <2>2. SameInUse /\ Moves(M, <<"victims", c>>, <<"queue", c>>)
      BY <1>10, <2>1, BackMoves
    <2>3. UNCHANGED <<t_cpu, c_curthread>>
      BY <1>10 DEF MigrateBack
    <2>4. \A t \in M : t_cpu[t] = c
      <3>1. Range(mig[c].victims) \subseteq Threads
        BY <1>0, MigTyped, RangeIs
      <3> QED BY <1>0, <2>1, <3>1 DEF Home
    <2>5. \A d \in Cpus : <<"queue", c>> \in {<<"queue", d>>, <<"victims", d>>, <<"zombies", d>>} => d = c
      OBVIOUS
    <2> QED BY <1>0, <2>2, <2>3, <2>4, <2>5, HomeKept, AliveKept
  <1>11. ASSUME NEW c \in Cpus, PickNext(c), c_runqueue[c] # <<>> PROVE Home' /\ CurAlive'
    <2>1. PICK next : next = Head(c_runqueue[c])
      OBVIOUS
    <2>2. /\ SameInUse /\ Moves({next}, <<"queue", c>>, <<"cpu", c>>)
          /\ next \in Threads /\ next \in Range(c_runqueue[c])
      BY <1>11, <2>1, PickMoves
    <2>3. c_curthread' = [c_curthread EXCEPT ![c] = next] /\ t_cpu' = t_cpu
      BY <1>11, <2>1, Zenon DEF PickNext
    <2>4. t_cpu[next] = c /\ t_state[next] # "none"
      <3>1. next \in At(<<"queue", c>>) /\ <<"queue", c>> \in Places
        BY <2>2, AtQueue, ArePlaces
      <3> QED BY <1>0, <2>2, <3>1 DEF Home, Accounted
    <2>5. c_curthread'[c] = next /\ \A d \in Cpus : d # c => c_curthread'[d] = c_curthread[d]
      BY <1>0, <2>3 DEF TypeOK
    <2>6. \A d \in Cpus : t_cpu'[c_curthread'[d]] = d
      BY <1>0, <2>3, <2>4, <2>5 DEF Home, Cur
    <2>7. \A d \in Cpus : <<"cpu", c>> \notin {<<"queue", d>>, <<"victims", d>>, <<"zombies", d>>}
      OBVIOUS
    <2>8. Home'
      BY <1>0, <2>2, <2>3, <2>6, <2>7, HomeMove
    <2>9. CurAlive'
      BY <1>0, <2>2, <2>4, <2>5 DEF CurAlive, Cur, SameInUse, TypeOK
    <2> QED BY <2>8, <2>9
  <1>12. ASSUME NEW c \in Cpus, MigrateGive(c), mig[c].i # c PROVE Home' /\ CurAlive'
    <2>1. PICK d : d = mig[c].i
      OBVIOUS
    <2>2. /\ SameInUse /\ d \in Cpus
          /\ \E M : /\ Moves(M, <<"victims", c>>, <<"queue", d>>) /\ Cur(c) \notin M
                    /\ t_cpu' = [t \in Threads |-> IF t \in M THEN d ELSE t_cpu[t]]
      BY <1>12, <2>1, GiveMoves
    <2>3. PICK M : /\ Moves(M, <<"victims", c>>, <<"queue", d>>) /\ Cur(c) \notin M
                   /\ t_cpu' = [t \in Threads |-> IF t \in M THEN d ELSE t_cpu[t]]
      BY <2>2
    <2>4. c_curthread' = c_curthread
      BY <1>12 DEF MigrateGive
    <2>5. M \subseteq Threads /\ \A t \in M : t_cpu[t] = c
      <3>1. Range(mig[c].victims) \subseteq Threads
        BY <1>0, MigTyped, RangeIs
      <3>2. M \subseteq Range(mig[c].victims)
        BY <2>3, AtVictims DEF Moves
      <3> QED BY <1>0, <3>1, <3>2 DEF Home
    <2>6. \A e \in Cpus : Cur(e) \in Threads /\ t_cpu[Cur(e)] = e
      BY <1>0 DEF Home, TypeOK, Cur
    <2>7. \A e \in Cpus : Cur(e) \notin M
      BY <2>3, <2>5, <2>6
    <2>8. \A e \in Cpus : t_cpu'[c_curthread'[e]] = e
      BY <2>3, <2>4, <2>6, <2>7 DEF Cur
    <2>9. (\A t \in M : t_cpu'[t] = d) /\ \A t \in Threads : t \notin M => t_cpu'[t] = t_cpu[t]
      BY <2>3, <2>5
    <2>10. \A e \in Cpus : <<"queue", d>> \in {<<"queue", e>>, <<"victims", e>>, <<"zombies", e>>} => e = d
      OBVIOUS
    <2>11. Home'
      BY <1>0, <2>3, <2>8, <2>9, <2>10, HomeMove
    <2> QED BY <1>0, <2>2, <2>4, <2>11, AliveKept
  <1>13. ASSUME NEW c \in Cpus, thread_fork(c) PROVE Home' /\ CurAlive'
    <2>1. PICK t \in Threads :
           /\ t_state[t] = "none" /\ t_state'[t] # "none" /\ \A u \in Threads : u # t => t_state'[u] = t_state[u]
           /\ t_cpu' = [t_cpu EXCEPT ![t] = c]
           /\ Range(c_runqueue'[c]) = Range(c_runqueue[c]) \cup {t}
           /\ \A d \in Cpus : d # c => c_runqueue'[d] = c_runqueue[d]
      BY <1>13, ForkPlaces
    <2>2. UNCHANGED <<c_curthread, c_zombies, mig>>
      BY <1>13 DEF thread_fork
    <2>3. \A d \in Cpus : Cur(d) \in Threads /\ Cur(d) # t
      BY <1>0, <2>1 DEF CurAlive, TypeOK, Cur
    <2>4. ASSUME NEW d \in Cpus
          PROVE  t \notin Range(c_runqueue[d]) /\ t \notin Range(mig[d].victims) /\ t \notin c_zombies[d]
      BY <1>0, <2>1, AtQueue, AtVictims, AtZombies, ArePlaces DEF Accounted
    <2>5. t_cpu'[t] = c /\ \A u \in Threads : u # t => t_cpu'[u] = t_cpu[u]
      BY <1>0, <2>1 DEF TypeOK
    <2>6. CurAlive'
      BY <1>0, <2>1, <2>2, <2>3 DEF CurAlive, Cur
    <2>7. \A d \in Cpus : t_cpu'[c_curthread'[d]] = d
      BY <1>0, <2>2, <2>3, <2>5 DEF Home, Cur
    <2>8. ASSUME NEW d \in Cpus, NEW u \in Threads,
                 u \in Range(c_runqueue'[d]) \/ u \in Range(mig'[d].victims) \/ u \in c_zombies'[d]
          PROVE  t_cpu'[u] = d
      <3>1. CASE u = t
        BY <2>1, <2>2, <2>4, <2>5, <2>8, <3>1
      <3>2. CASE u # t
        <4>1. u \in Range(c_runqueue[d]) \/ u \in Range(mig[d].victims) \/ u \in c_zombies[d]
          BY <2>1, <2>2, <2>8, <3>2
        <4> QED BY <1>0, <2>5, <3>2, <4>1 DEF Home
      <3> QED BY <3>1, <3>2
    <2> QED BY <2>6, <2>7, <2>8 DEF Home, Cur, Cpus
  <1>14. ASSUME NEW c \in Cpus, exorcise(c) PROVE Home' /\ CurAlive'
    <2>1. /\ t_state' = [t \in Threads |-> IF t \in c_zombies[c] THEN "none" ELSE t_state[t]]
          /\ c_zombies' = [c_zombies EXCEPT ![c] = {}] /\ mode[c] = "exorcise"
          /\ UNCHANGED <<c_runqueue, c_curthread, t_cpu, mig>>
      BY <1>14 DEF exorcise
    <2>2. \A d \in Cpus : c_zombies'[d] \subseteq c_zombies[d]
      BY <1>0, <2>1 DEF TypeOK
    <2>3. Home'
      BY <1>0, <2>1, <2>2 DEF Home, Cur
    <2>4. Cur(c) \notin c_zombies[c]
      <3>1. ~c_isidle[c]
        BY <2>1 DEF IInv, ModeInv
      <3>2. <<"zombies", c>> \in Places /\ <<"zombies", c>> # <<"cpu", c>>
        BY ArePlaces
      <3> QED BY <1>0, <3>1, <3>2, RunningOnly, AtZombies
    <2>5. \A d \in Cpus : Cur(d) \in Threads /\ Cur(d) \notin c_zombies[c]
      BY <1>0, <2>4 DEF Home, TypeOK, Cur
    <2>6. CurAlive'
      BY <1>0, <2>1, <2>5 DEF CurAlive, Cur
    <2> QED BY <2>3, <2>6
  <1> QED BY <1>2, <1>3, <1>4, <1>5, <1>6, <1>7, <1>8, <1>9, <1>10, <1>11, <1>12, <1>13, <1>14, Cases

-----------------------------------------------------------------------------
(* The locals of thread_consider_migration *)

\* What a step of c may change of the other CPUs: it can only add to a queue.
OthersKept(c) ==
  \A d \in Cpus : d # c => mode'[d] = mode[d] /\ mig'[d] = mig[d] /\ Len(c_runqueue'[d]) >= Len(c_runqueue[d])

\* The part of the invariant about one CPU.
MigAt(c) ==
  /\ mode[c] \notin {"count", "give"} => mig[c] = NoMig
  /\ mode[c] = "count" => mig[c].victims = <<>> /\ mig[c].my_count =< Len(c_runqueue[c])
  /\ mode[c] = "give" => mig[c].to_send =< Len(mig[c].victims)

LEMMA MigKept ==
  ASSUME TypeOK, MigInv, TypeOK', NEW c \in Cpus, OthersKept(c), MigAt(c)'
  PROVE  MigInv'
  <1> SUFFICES ASSUME NEW d \in Cpus PROVE MigAt(d)'
    BY DEF MigInv, MigAt, Cpus
  <1>1. CASE d = c
    BY <1>1
  <1>2. CASE d # c
    <2>1. Len(c_runqueue[d]) \in Nat /\ Len(c_runqueue'[d]) \in Nat /\ mig[d].my_count \in Nat
      BY MigTyped, LenProperties DEF TypeOK
    <2> QED BY <1>2, <2>1 DEF OthersKept, MigInv, MigAt
  <1> QED BY <1>1, <1>2

\* thread_make_runnable makes one queue longer.
LEMMA LongerQueue ==
  ASSUME TypeOK, NEW tc \in Cpus, NEW t \in Threads, MakeRunnable(tc, t)
  PROVE  \A d \in Cpus : Len(c_runqueue'[d]) >= Len(c_runqueue[d])
  <1> SUFFICES ASSUME NEW d \in Cpus PROVE Len(c_runqueue'[d]) >= Len(c_runqueue[d])
    OBVIOUS
  <1>1. c_runqueue \in [Cpus -> Seq(Threads)]
    BY DEF TypeOK
  <1>2. Len(Append(c_runqueue[tc], t)) = Len(c_runqueue[tc]) + 1 /\ Len(c_runqueue[d]) \in Nat
    BY <1>1, AppendProperties, LenProperties
  <1>3. c_runqueue' = [c_runqueue EXCEPT ![tc] = Append(c_runqueue[tc], t)]
    BY DEF MakeRunnable
  <1>4. c_runqueue'[d] = IF d = tc THEN Append(c_runqueue[tc], t) ELSE c_runqueue[d]
    BY <1>1, <1>3
  <1> QED BY <1>2, <1>4

LEMMA QueueLengths ==
  ASSUME TypeOK
  PROVE  \A c \in Cpus : Len(c_runqueue[c]) \in Nat
  BY LenProperties DEF TypeOK

\* A step of a CPU that is not considering a migration and does not begin one.
LEMMA MigIdle ==
  ASSUME TypeOK, MigInv, NEW c \in Cpus, NEW m, m \notin {"count", "give"}, mode[c] \notin {"count", "give"},
         mode' = [mode EXCEPT ![c] = m] \/ mode' = mode, mig' = mig,
         \A d \in Cpus : d # c => Len(c_runqueue'[d]) >= Len(c_runqueue[d])
  PROVE  OthersKept(c) /\ MigAt(c)'
  <1>1. mode'[c] \notin {"count", "give"} /\ \A d \in Cpus : d # c => mode'[d] = mode[d]
    BY DEF TypeOK
  <1> QED BY <1>1 DEF OthersKept, MigAt, MigInv

LEMMA MigStep ==
  ASSUME IInv, [Next]_vars
  PROVE  MigInv'
  <1>0. TypeOK /\ TypeOK' /\ MigInv /\ NoneQueuedTwice
    BY PlaceStep DEF IInv, PlaceInv
  <1>1. CASE UNCHANGED vars
    BY <1>0, <1>1 DEF vars, MigInv
  <1> SUFFICES ASSUME Next PROVE \E c \in Cpus : OthersKept(c) /\ MigAt(c)'
    BY <1>0, <1>1, MigKept
  <1>2. \A d \in Cpus : Len(c_runqueue[d]) \in Nat /\ Len(c_runqueue[d]) >= Len(c_runqueue[d])
    BY <1>0, QueueLengths
  <1>3. ASSUME NEW c \in Cpus, Quiet(c) PROVE OthersKept(c) /\ MigAt(c)'
    <2>1. NoMove /\ \A d \in Cpus : d # c => mode'[d] = mode[d] /\ mig'[d] = mig[d]
      BY <1>3, QuietStays
    <2>2. c_runqueue' = c_runqueue
      BY <2>1 DEF NoMove
    <2>3. OthersKept(c)
      BY <1>2, <2>1, <2>2 DEF OthersKept
    <2>4. CASE IrqReturn(c) \/ interprocessor_interrupt(c)
      <3>1. /\ mode[c] \notin {"count", "give"} /\ mig' = mig
            /\ mode' = [mode EXCEPT ![c] = "pick"] \/ mode' = mode
        BY <2>4 DEF IrqReturn, interprocessor_interrupt, Go
      <3> QED BY <1>0, <1>2, <2>2, <3>1, MigIdle
    <2>5. CASE thread_yield(c) /\ (c_isidle[c] \/ c_runqueue[c] = <<>>)
      <3>1. /\ mode[c] \notin {"count", "give"} /\ mig' = mig
            /\ \E m \in {"run", "pick"} : mode' = [mode EXCEPT ![c] = m]
        BY <2>5 DEF thread_yield, Go
      <3> QED BY <1>0, <1>2, <2>2, <3>1, MigIdle
    <2>6. CASE PickNext(c) /\ c_runqueue[c] = <<>>
      <3>1. mode[c] \notin {"count", "give"} /\ mig' = mig /\ \E m \in {"idle"} : mode' = [mode EXCEPT ![c] = m]
        BY <2>6 DEF PickNext, Go
      <3> QED BY <1>0, <1>2, <2>2, <3>1, MigIdle
    <2>7. CASE hardclock(c)
      <3>1. mode[c] \notin {"count", "give"} /\ mig' = mig /\ \E m \in {"count", "yield"} : mode' = [mode EXCEPT ![c] = m]
        BY <2>7 DEF hardclock, Go
      <3>2. mode'[c] \in {"count", "yield"} /\ mig'[c] = NoMig
        BY <1>0, <3>1 DEF TypeOK, MigInv
      <3>3. NoMig.victims = <<>> /\ NoMig.my_count =< Len(c_runqueue'[c])
        BY <1>2, <2>2 DEF NoMig
      <3> QED BY <2>3, <3>2, <3>3 DEF MigAt
    <2>8. CASE MigrateCount(c)
      <3> DEFINE m == mig[c]
                 n == Len(c_runqueue[m.i])
      <3>1. mode[c] = "count" /\ mode' = mode
            /\ mig' = [mig EXCEPT ![c] = [m EXCEPT !.i = m.i + 1, !.total = m.total + n,
                                                  !.my_count = IF m.i = c THEN n ELSE m.my_count]]
        BY <2>8 DEF MigrateCount
      <3>2. m.victims = <<>> /\ m.my_count =< Len(c_runqueue[c]) /\ mig \in [Cpus -> MigRec] /\ m \in MigRec
        BY <1>0, <3>1, MigTyped DEF MigInv
      <3> HIDE DEF n
      <3>3. mig'[c].victims = <<>> /\ mig'[c].my_count = IF m.i = c THEN n ELSE m.my_count
        BY <3>1, <3>2 DEF MigRec
      <3>4. mig'[c].my_count =< Len(c_runqueue[c])
        BY <1>2, <3>2, <3>3 DEF n
      <3> QED BY <2>2, <2>3, <3>1, <3>3, <3>4 DEF MigAt
    <2>9. CASE MigrateTake(c) /\ mig[c].my_count < MigrateShare(mig[c])
      <3>1. mig[c].my_count \in Nat /\ MigrateShare(mig[c]) \in Int
        BY <1>0, MigTyped, ShareNat
      <3>2. mig' = [mig EXCEPT ![c] = NoMig] /\ mode' = [mode EXCEPT ![c] = "yield"]
        BY <2>9, <3>1 DEF MigrateTake, Go
      <3>3. mig'[c] = NoMig /\ mode'[c] = "yield"
        BY <1>0, <3>2 DEF TypeOK
      <3> QED BY <2>3, <3>3 DEF MigAt
    <2>10. CASE MigrateGive(c) /\ mig[c].i = c
      <3>1. mode[c] = "give" /\ mode' = mode /\ mig' = [mig EXCEPT ![c].i = mig[c].i + 1]
        BY <2>10 DEF MigrateGive
      <3>2. mig \in [Cpus -> MigRec] /\ mig[c] \in MigRec
        BY <1>0, MigTyped
      <3>3. mig'[c].victims = mig[c].victims /\ mig'[c].to_send = mig[c].to_send
        BY <3>1, <3>2 DEF MigRec
      <3> QED BY <1>0, <2>3, <3>1, <3>3 DEF MigAt, MigInv
    <2> QED BY <1>3, <2>4, <2>5, <2>6, <2>7, <2>8, <2>9, <2>10 DEF Quiet
  <1>4. ASSUME NEW c \in Cpus, NEW tc \in Cpus, NEW t \in Threads, MakeRunnable(tc, t), UNCHANGED <<mode, mig>>
        PROVE  OthersKept(c) /\ MigAt(c)'
    <2>1. \A d \in Cpus : Len(c_runqueue'[d]) >= Len(c_runqueue[d]) /\ Len(c_runqueue'[d]) \in Nat
      BY <1>0, <1>4, LongerQueue, LenProperties DEF TypeOK
    <2>2. mig[c].my_count \in Nat
      BY <1>0, MigTyped
    <2> QED BY <1>0, <1>2, <1>4, <2>1, <2>2 DEF OthersKept, MigAt, MigInv
  <1>5. ASSUME NEW c \in Cpus, thread_make_runnable(c) PROVE OthersKept(c) /\ MigAt(c)'
    <2>1. PICK me, t, tc : me = Cur(c) /\ t = Head(held[me]) /\ tc = t_cpu[t]
      OBVIOUS
    <2>2. MakeRunnable(tc, t) /\ UNCHANGED <<mode, mig>> /\ held[me] # <<>>
      BY <1>5, <2>1 DEF thread_make_runnable
    <2>3. me \in Threads
      BY <1>0, <2>1 DEF TypeOK, Cur
    <2>4. t \in Range(held[me])
      BY <1>0, <2>1, <2>2, <2>3, AllLists, TailLists
    <2>5. t \in Threads /\ tc \in Cpus
      BY <1>0, <2>1, <2>3, <2>4, RangeIs DEF TypeOK
    <2> QED BY <1>4, <2>2, <2>5
  <1>6. ASSUME NEW c \in Cpus, thread_fork(c) PROVE OthersKept(c) /\ MigAt(c)'
    BY <1>4, <1>6 DEF thread_fork
  <1>7. ASSUME NEW c \in Cpus, wchan_sleep(c) \/ thread_exit(c) \/ exorcise(c) PROVE OthersKept(c) /\ MigAt(c)'
    <2>1. /\ mode[c] \notin {"count", "give"} /\ mig' = mig /\ c_runqueue' = c_runqueue
          /\ \E m \in {"run", "pick"} : mode' = [mode EXCEPT ![c] = m]
      BY <1>7 DEF wchan_sleep, thread_exit, exorcise, Leave, Go
    <2> QED BY <1>0, <1>2, <2>1, MigIdle
  <1>8. ASSUME NEW c \in Cpus, thread_yield(c), ~c_isidle[c], c_runqueue[c] # <<>> PROVE OthersKept(c) /\ MigAt(c)'
    <2>1. mode[c] \notin {"count", "give"} /\ mig' = mig /\ MakeRunnable(c, Cur(c))
          /\ \E m \in {"pick"} : mode' = [mode EXCEPT ![c] = m]
      BY <1>8 DEF thread_yield, Leave, Go
    <2>2. Cur(c) \in Threads
      BY <1>0 DEF TypeOK, Cur
    <2>3. \A d \in Cpus : Len(c_runqueue'[d]) >= Len(c_runqueue[d])
      BY <1>0, <2>1, <2>2, LongerQueue
    <2> QED BY <1>0, <2>1, <2>3, MigIdle
  <1>9. ASSUME NEW c \in Cpus, PickNext(c), c_runqueue[c] # <<>> PROVE OthersKept(c) /\ MigAt(c)'
    <2>1. /\ mode[c] \notin {"count", "give"} /\ mig' = mig /\ mode' = [mode EXCEPT ![c] = "exorcise"]
          /\ c_runqueue' = [c_runqueue EXCEPT ![c] = Tail(c_runqueue[c])]
      BY <1>9 DEF PickNext, Go
    <2>2. \A d \in Cpus : d # c => c_runqueue'[d] = c_runqueue[d]
      BY <1>0, <2>1 DEF TypeOK
    <2> QED BY <1>0, <1>2, <2>1, <2>2, MigIdle
  <1>10. ASSUME NEW c \in Cpus, Awaken(c, 1) \/ Awaken(c, Len(wc_threads)) PROVE OthersKept(c) /\ MigAt(c)'
    <2>1. /\ mode[c] \notin {"count", "give"} /\ mig' = mig /\ c_runqueue' = c_runqueue
          /\ mode' = [mode EXCEPT ![c] = "irq"] \/ mode' = mode
      BY <1>10 DEF Awaken, Go
    <2> QED BY <1>0, <1>2, <2>1, MigIdle
  <1>11. ASSUME NEW c \in Cpus, MigrateTake(c), ~(mig[c].my_count < MigrateShare(mig[c])) PROVE OthersKept(c) /\ MigAt(c)'
    <2>1. PICK n : n = Len(c_runqueue[c]) - (mig[c].my_count - MigrateShare(mig[c]))
      OBVIOUS
    <2>2. PICK M : M = Range(c_runqueue[c]) \ First(c_runqueue[c], n)
      OBVIOUS
    <2>3. /\ mig'[c].to_send =< Len(mig'[c].victims)
          /\ \A d \in Cpus : d # c => mig'[d] = mig[d] /\ c_runqueue'[d] = c_runqueue[d]
      BY <1>11, <2>1, <2>2, TakeMoves
    <2>4. mode' = [mode EXCEPT ![c] = "give"]
      <3>1. mig[c].my_count \in Nat /\ MigrateShare(mig[c]) \in Int
        BY <1>0, MigTyped, ShareNat
      <3> QED BY <1>11, <3>1 DEF MigrateTake, Go
    <2>5. mode'[c] = "give" /\ \A d \in Cpus : d # c => mode'[d] = mode[d]
      BY <1>0, <2>4 DEF TypeOK
    <2> QED BY <1>2, <2>3, <2>5 DEF OthersKept, MigAt
  <1>12. ASSUME NEW c \in Cpus, MigrateGive(c), mig[c].i # c PROVE OthersKept(c) /\ MigAt(c)'
    <2>1. PICK d : d = mig[c].i
      OBVIOUS
    <2>2. /\ mig'[c].to_send =< Len(mig'[c].victims)
          /\ \A e \in Cpus : e # c => mig'[e] = mig[e]
          /\ \A e \in Cpus : Len(c_runqueue'[e]) >= Len(c_runqueue[e])
      BY <1>12, <2>1, GiveMoves
    <2>3. mode[c] = "give" /\ mode' = mode
      BY <1>12 DEF MigrateGive
    <2> QED BY <2>2, <2>3 DEF OthersKept, MigAt
  <1>13. ASSUME NEW c \in Cpus, MigrateBack(c) PROVE OthersKept(c) /\ MigAt(c)'
    <2>1. PICK M : M = Range(mig[c].victims)
      OBVIOUS
    <2>2. mig'[c] = NoMig /\ \A d \in Cpus : d # c => mig'[d] = mig[d] /\ c_runqueue'[d] = c_runqueue[d]
      BY <1>13, <2>1, BackMoves
    <2>3. mode' = [mode EXCEPT ![c] = "yield"]
      BY <1>13 DEF MigrateBack, Go
    <2>4. mode'[c] = "yield" /\ \A d \in Cpus : d # c => mode'[d] = mode[d]
      BY <1>0, <2>3 DEF TypeOK
    <2> QED BY <1>2, <2>2, <2>4 DEF OthersKept, MigAt
  <1> QED BY <1>3, <1>5, <1>6, <1>7, <1>8, <1>9, <1>10, <1>11, <1>12, <1>13, Cases

-----------------------------------------------------------------------------
(* Wakeups of idle CPUs *)

\* A CPU that idles after a step idled before, keeps its interrupt, and is
\* sent one if its queue has changed; or it has nothing to run.
Attended(d) ==
  mode'[d] = "idle" =>
    \/ mode[d] = "idle" /\ (c_ipi[d] => c_ipi'[d]) /\ (c_runqueue'[d] = c_runqueue[d] \/ c_ipi'[d])
    \/ c_runqueue'[d] = <<>>

LEMMA AttendedKept ==
  ASSUME NoThreadStranded, \A d \in Cpus : Attended(d)
  PROVE  NoThreadStranded'
  BY DEF NoThreadStranded, Attended, Cpus

\* Only the CPU c changes its mode, and it is not to idle.
LEMMA ModeOnly ==
  ASSUME TypeOK, NEW c \in Cpus, NEW m, m # "idle", mode' = [mode EXCEPT ![c] = m] \/ mode' = mode
  PROVE  \A d \in Cpus : mode'[d] = "idle" => mode[d] = "idle"
  BY DEF TypeOK

LEMMA EnqueueAttends ==
  ASSUME TypeOK, ModeInv, NEW tc \in Cpus, NEW t, MakeRunnable(tc, t),
         \A d \in Cpus : mode'[d] = "idle" => mode[d] = "idle"
  PROVE  \A d \in Cpus : Attended(d)
  <1> SUFFICES ASSUME NEW d \in Cpus, mode'[d] = "idle"
               PROVE  (c_ipi[d] => c_ipi'[d]) /\ (c_runqueue'[d] = c_runqueue[d] \/ c_ipi'[d])
    BY DEF Attended
  <1>1. /\ c_runqueue' = [c_runqueue EXCEPT ![tc] = Append(c_runqueue[tc], t)]
        /\ c_ipi' = [c_ipi EXCEPT ![tc] = c_ipi[tc] \/ c_isidle[tc]]
    BY DEF MakeRunnable
  <1>2. CASE d = tc
    <2>1. c_isidle[tc]
      BY <1>2 DEF ModeInv
    <2> QED BY <1>1, <1>2, <2>1 DEF TypeOK
  <1>3. CASE d # tc
    BY <1>1, <1>3 DEF TypeOK
  <1> QED BY <1>2, <1>3

LEMMA StrandedStep ==
  ASSUME IInv, NoThreadStranded, [Next]_vars
  PROVE  NoThreadStranded'
  <1>0. TypeOK /\ ModeInv /\ NoneQueuedTwice
    BY DEF IInv, PlaceInv
  <1>1. CASE UNCHANGED vars
    BY <1>1 DEF vars, NoThreadStranded
  <1> SUFFICES ASSUME Next PROVE \A d \in Cpus : Attended(d)
    BY <1>1, AttendedKept
  <1>2. ASSUME UNCHANGED <<c_runqueue, c_ipi>>, NEW c \in Cpus, NEW m, m # "idle", mode' = [mode EXCEPT ![c] = m] \/ mode' = mode
        PROVE  \A d \in Cpus : Attended(d)
    BY <1>0, <1>2, ModeOnly DEF Attended
  <1>3. ASSUME NEW c \in Cpus, thread_make_runnable(c) PROVE \A d \in Cpus : Attended(d)
    <2>1. PICK me, t, tc : me = Cur(c) /\ t = Head(held[me]) /\ tc = t_cpu[t]
      OBVIOUS
    <2>2. MakeRunnable(tc, t) /\ mode' = mode /\ held[me] # <<>>
      BY <1>3, <2>1 DEF thread_make_runnable
    <2>3. me \in Threads
      BY <1>0, <2>1 DEF TypeOK, Cur
    <2>4. t \in Range(held[me])
      BY <1>0, <2>1, <2>2, <2>3, AllLists, TailLists
    <2>5. tc \in Cpus
      BY <1>0, <2>1, <2>3, <2>4, RangeIs DEF TypeOK
    <2> QED BY <1>0, <2>2, <2>5, EnqueueAttends
  <1>4. ASSUME NEW c \in Cpus, thread_fork(c) PROVE \A d \in Cpus : Attended(d)
    BY <1>0, <1>4, EnqueueAttends DEF thread_fork
  <1>5. ASSUME NEW c \in Cpus, wchan_sleep(c) \/ thread_exit(c) \/ exorcise(c) PROVE \A d \in Cpus : Attended(d)
    <2>1. UNCHANGED <<c_runqueue, c_ipi>> /\ \E m \in {"run", "pick"} : mode' = [mode EXCEPT ![c] = m]
      BY <1>5 DEF wchan_sleep, thread_exit, exorcise, Leave, Go
    <2> QED BY <1>2, <2>1
  <1>6. ASSUME NEW c \in Cpus, thread_yield(c) PROVE \A d \in Cpus : Attended(d)
    <2>1. \E m \in {"run", "pick"} : mode' = [mode EXCEPT ![c] = m]
      BY <1>6 DEF thread_yield, Leave, Go
    <2>2. UNCHANGED <<c_runqueue, c_ipi>> \/ MakeRunnable(c, Cur(c))
      BY <1>6 DEF thread_yield
    <2>3. \A d \in Cpus : mode'[d] = "idle" => mode[d] = "idle"
      BY <1>0, <2>1, ModeOnly
    <2> QED BY <1>0, <1>2, <2>1, <2>2, <2>3, EnqueueAttends
  <1>7. ASSUME NEW c \in Cpus, PickNext(c) PROVE \A d \in Cpus : Attended(d)
    <2>1. CASE c_runqueue[c] = <<>>
      <3>1. UNCHANGED <<c_runqueue, c_ipi>> /\ mode' = [mode EXCEPT ![c] = "idle"]
        BY <1>7, <2>1 DEF PickNext, Go
      <3> QED BY <1>0, <2>1, <3>1 DEF TypeOK, Attended
    <2>2. CASE c_runqueue[c] # <<>>
      <3>1. c_runqueue' = [c_runqueue EXCEPT ![c] = Tail(c_runqueue[c])] /\ UNCHANGED c_ipi /\ mode' = [mode EXCEPT ![c] = "exorcise"]
        BY <1>7, <2>2 DEF PickNext, Go
      <3> QED BY <1>0, <3>1 DEF TypeOK, Attended
    <2> QED BY <2>1, <2>2
  <1>8. ASSUME NEW c \in Cpus, wchan_wakeone(c) \/ wchan_wakeall(c) \/ IrqReturn(c) PROVE \A d \in Cpus : Attended(d)
    <2>1. UNCHANGED <<c_runqueue, c_ipi>> /\ \E m \in {"irq", "pick"} : mode' = [mode EXCEPT ![c] = m] \/ mode' = mode
      BY <1>8 DEF wchan_wakeone, wchan_wakeall, Awaken, IrqReturn, Go
    <2> QED BY <1>2, <2>1
  <1>9. ASSUME NEW c \in Cpus, interprocessor_interrupt(c) PROVE \A d \in Cpus : Attended(d)
    <2>1. /\ c_runqueue' = c_runqueue /\ c_ipi' = [c_ipi EXCEPT ![c] = FALSE]
          /\ \/ mode[c] = "run" /\ mode' = mode
             \/ mode[c] = "idle" /\ mode' = [mode EXCEPT ![c] = "pick"]
      BY <1>9 DEF interprocessor_interrupt, Go
    <2>2. mode'[c] # "idle" /\ \A d \in Cpus : d # c => mode'[d] = mode[d] /\ c_ipi'[d] = c_ipi[d]
      BY <1>0, <2>1 DEF TypeOK
    <2> QED BY <2>1, <2>2 DEF Attended
  <1>10. ASSUME NEW c \in Cpus, hardclock(c) \/ MigrateCount(c) \/ (MigrateGive(c) /\ mig[c].i = c)
         PROVE \A d \in Cpus : Attended(d)
    <2>1. UNCHANGED <<c_runqueue, c_ipi>> /\ \E m \in {"count", "yield"} : mode' = [mode EXCEPT ![c] = m] \/ mode' = mode
      BY <1>10 DEF hardclock, MigrateCount, MigrateGive, Go
    <2> QED BY <1>2, <2>1
  <1>11. ASSUME NEW c \in Cpus, NEW q, NEW m, m # "idle", mode' = [mode EXCEPT ![c] = m], UNCHANGED c_ipi,
                c_runqueue' = [c_runqueue EXCEPT ![c] = q] \/ c_runqueue' = c_runqueue
         PROVE  \A d \in Cpus : Attended(d)
    <2>1. mode'[c] = m /\ \A d \in Cpus : d # c => mode'[d] = mode[d] /\ c_runqueue'[d] = c_runqueue[d]
      BY <1>0, <1>11 DEF TypeOK
    <2> QED BY <1>11, <2>1 DEF Attended
  <1>12. ASSUME NEW c \in Cpus, MigrateTake(c) PROVE \A d \in Cpus : Attended(d)
    <2>1. /\ UNCHANGED c_ipi /\ \E m \in {"yield", "give"} : mode' = [mode EXCEPT ![c] = m]
          /\ (\E q : c_runqueue' = [c_runqueue EXCEPT ![c] = q]) \/ c_runqueue' = c_runqueue
      BY <1>12 DEF MigrateTake, Go
    <2> QED BY <1>11, <2>1
  <1>13. ASSUME NEW c \in Cpus, MigrateGive(c), mig[c].i # c PROVE \A d \in Cpus : Attended(d)
    <2>1. PICK d : d = mig[c].i
      OBVIOUS
    <2>2. d \in Cpus /\ mode' = mode
      BY <1>13, <2>1, GiveMoves DEF MigrateGive
    <2>3. PICK M : /\ Moves(M, <<"victims", c>>, <<"queue", d>>)
                   /\ M = {} \/ c_ipi' = [c_ipi EXCEPT ![d] = c_ipi[d] \/ c_isidle[d]]
                   /\ M = {} => c_runqueue' = c_runqueue /\ \A e \in Cpus : c_ipi'[e] = c_ipi[e]
      BY <1>13, <2>1, GiveMoves
    <2>4. CASE M = {}
      BY <2>2, <2>3, <2>4 DEF Attended
    <2>5. CASE M # {}
      <3>1. c_ipi' = [c_ipi EXCEPT ![d] = c_ipi[d] \/ c_isidle[d]]
        BY <2>3, <2>5
      <3>2. \E q : c_runqueue' = [c_runqueue EXCEPT ![d] = q]
        BY <1>13, <2>1, Zenon DEF MigrateGive
      <3>3. \A e \in Cpus : e # d => c_runqueue'[e] = c_runqueue[e] /\ c_ipi'[e] = c_ipi[e]
        BY <1>0, <3>1, <3>2 DEF TypeOK
      <3>4. mode[d] = "idle" => c_ipi'[d]
        BY <1>0, <2>2, <3>1 DEF TypeOK, ModeInv
      <3> QED BY <2>2, <3>3, <3>4 DEF Attended
    <2> QED BY <2>4, <2>5
  <1>14. ASSUME NEW c \in Cpus, MigrateBack(c) PROVE \A d \in Cpus : Attended(d)
    <2>1. /\ UNCHANGED c_ipi /\ \E m \in {"yield"} : mode' = [mode EXCEPT ![c] = m]
          /\ \E q : c_runqueue' = [c_runqueue EXCEPT ![c] = q]
      BY <1>14 DEF MigrateBack, Go
    <2> QED BY <1>11, <2>1
  <1> QED BY <1>3, <1>4, <1>5, <1>6, <1>7, <1>8, <1>9, <1>10, <1>12, <1>13, <1>14 DEF Next

-----------------------------------------------------------------------------
(* The theorems *)

LEMMA InitInv == Init => IInv /\ NoThreadStranded
  <1> SUFFICES ASSUME Init PROVE IInv /\ NoThreadStranded
    OBVIOUS
  <1>1. 0 \in Cpus /\ NumCpus \in Nat /\ BootThread \in [Cpus -> Threads]
        /\ \A i, j \in Cpus : i # j => BootThread[i] # BootThread[j]
    BY SchedulerAssumption DEF Cpus
  <1>2. <<>> \in Seq(Threads) /\ Range(<<>>) = {} /\ IsInjective(<<>>) /\ Len(<<>>) = 0
    BY EmptyLists, EmptySeq DEF Lists
  <1>3. \A c \in Cpus : t_cpu[BootThread[c]] = c
    <2> SUFFICES ASSUME NEW c \in Cpus PROVE t_cpu[BootThread[c]] = c
      OBVIOUS
    <2>1. BootThread[c] \in Threads /\ \E d \in Cpus : BootThread[d] = BootThread[c]
      BY <1>1
    <2>2. t_cpu[BootThread[c]] = CHOOSE d \in Cpus : BootThread[d] = BootThread[c]
      BY <2>1 DEF Init
    <2>3. t_cpu[BootThread[c]] \in Cpus /\ BootThread[t_cpu[BootThread[c]]] = BootThread[c]
      BY <2>1, <2>2
    <2> QED BY <1>1, <2>3
  <1>4. t_cpu \in [Threads -> Cpus]
    <2>1. ASSUME NEW t \in Threads, \E c \in Cpus : BootThread[c] = t
          PROVE  (CHOOSE c \in Cpus : BootThread[c] = t) \in Cpus
      BY <2>1
    <2> QED BY <1>1, <2>1 DEF Init
  <1>5. TypeOK
    <2>1. mig \in [Cpus -> MigRec]
      BY NoMigTyped DEF Init
    <2> QED BY <1>1, <1>2, <1>4, <2>1 DEF Init, TypeOK, Modes, MigRec
  <1>6. \A c \in Cpus : /\ c_runqueue[c] = <<>> /\ mig[c] = NoMig /\ c_zombies[c] = {} /\ Cur(c) = BootThread[c]
                        /\ ~c_isidle[c] /\ mode[c] = "run"
    BY DEF Init, Cur
  <1>7. NoMig.victims = <<>>
    BY DEF NoMig
  <1>8. ModeInv /\ MigInv /\ NoThreadStranded
    BY <1>6 DEF ModeInv, MigInv, NoThreadStranded
  <1>9. Home
    BY <1>2, <1>3, <1>6, <1>7 DEF Home
  <1>10. CurAlive
    BY <1>1, <1>6 DEF CurAlive, Init
  <1>11. NoneQueuedTwice
    BY <1>2, <1>6, <1>7 DEF NoneQueuedTwice, Init
  <1>12. ASSUME NEW p \in Places, NEW t \in At(p) PROVE \E c \in Cpus : p = <<"cpu", c>> /\ t = BootThread[c]
    <2>1. ASSUME NEW c \in Cpus, p = <<"cpu", c>> PROVE t = BootThread[c]
      BY <1>6, <2>1, AtCpu
    <2>2. ASSUME NEW c \in Cpus, p \in {<<"queue", c>>, <<"victims", c>>, <<"zombies", c>>} PROVE FALSE
      BY <1>2, <1>6, <1>7, <2>2, AtQueue, AtVictims, AtZombies
    <2>3. ASSUME NEW u \in Threads, p = <<"held", u>> PROVE FALSE
      <3>1. held[u] = <<>>
        BY DEF Init
      <3> QED BY <1>2, <2>3, <3>1, AtHeld
    <2>4. p # <<"channel", "all">>
      BY <1>2, AtChannel DEF Init
    <2> QED BY <2>1, <2>2, <2>3, <2>4, PlaceIs
  <1>13. \A c \in Cpus : <<"cpu", c>> \in Places /\ BootThread[c] \in At(<<"cpu", c>>)
    BY <1>6, AtCpu, ArePlaces
  <1>14. Distinct
    BY <1>1, <1>12 DEF Distinct
  <1>15. Accounted
    <2> SUFFICES ASSUME NEW t \in Threads PROVE t_state[t] # "none" <=> \E p \in Places : t \in At(p)
      BY DEF Accounted
    <2>1. t_state[t] # "none" <=> \E c \in Cpus : BootThread[c] = t
      BY DEF Init
    <2> QED BY <1>12, <1>13, <2>1
  <1> QED BY <1>5, <1>8, <1>9, <1>10, <1>11, <1>14, <1>15 DEF IInv, PlaceInv

LEMMA StepInv == IInv /\ NoThreadStranded /\ [Next]_vars => IInv' /\ NoThreadStranded'
  BY PlaceStep, ModeStep, HomeStep, MigStep, StrandedStep DEF IInv

LEMMA Invariance == Spec => [](IInv /\ NoThreadStranded)
  BY InitInv, StepInv, PTL DEF Spec

\* The queues, the wait channel, the fields of struct cpu and struct thread
\* and the locals of thread_consider_migration keep their types: no count of
\* a migration goes below zero.
THEOREM TypeCorrect == Spec => []TypeOK
  BY Invariance, PTL DEF IInv

\* thread_switch and thread_consider_migration never put two CPUs on one
\* stack, and exorcise never frees the stack a CPU is on, idle or not.
THEOREM StacksNeverShared == Spec => []StacksApart
  <1>1. IInv => StacksApart
    BY DEF IInv, Home, CurAlive, StacksApart
  <1> QED BY <1>1, Invariance, PTL

\* thread_switch, the wakeups, thread_make_runnable and a migration hand a
\* thread from one place to the next and never lose or duplicate it; it is in
\* no place before thread_fork and after exorcise.
THEOREM OnePlace == Spec => []EveryThreadInOnePlace
  <1>1. ASSUME IInv PROVE EveryThreadInOnePlace
    <2>1. NoneQueuedTwice /\ Distinct /\ Accounted
      BY <1>1 DEF IInv, PlaceInv
    <2>2. ASSUME NEW t \in Threads, t_state[t] = "none" PROVE Cardinality(PlacesOf(t)) = 0
      <3>1. PlacesOf(t) = {}
        BY <2>1, <2>2 DEF PlacesOf, Accounted
      <3> QED BY <3>1, FS_EmptySet
    <2>3. ASSUME NEW t \in Threads, t_state[t] # "none" PROVE Cardinality(PlacesOf(t)) = 1
      <3>1. PICK p \in Places : t \in At(p)
        BY <2>1, <2>3 DEF Accounted
      <3>2. PlacesOf(t) = {p}
        BY <2>1, <3>1 DEF PlacesOf, Distinct
      <3> QED BY <3>2, FS_Singleton
    <2> QED BY <2>1, <2>2, <2>3 DEF EveryThreadInOnePlace
  <1> QED BY <1>1, Invariance, PTL

\* A thread that is made runnable, or migrated, to a CPU that idles is not
\* left there: IPI_UNIDLE is pending for as long as the CPU idles.
THEOREM NoneStranded == Spec => []NoThreadStranded
  BY Invariance, PTL
=============================================================================
