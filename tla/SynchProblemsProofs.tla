------------------------ MODULE SynchProblemsProofs ------------------------
(***************************************************************************)
(* Proofs about modules Stoplight and Whalemating and about the menu that  *)
(* starts them, for any set of cars and any number of whales.              *)
(*                                                                         *)
(* The invariant of the cars says which locks a car has at each point of its way       *)
(* (CarInv), that a lock is held only by a car at such a point (Own), that *)
(* the route ahead goes round counterclockwise (Chained), and that at most *)
(* three cars are inside (Permits).  The one of the whales says what the    *)
(* three counters count (WhaleCounts) and who is on the three condition    *)
(* variables (WhaleQueues).                                                *)
(***************************************************************************)
EXTENDS SynchProblems, FiniteSetTheorems, SequenceTheorems, TLAPS

Types == /\ quadlock \in [Quadrants -> Cars \union {Nobody}]
         /\ holds \in [Cars -> Quadrants \union {Nowhere}]
         /\ pos \in [Cars -> Quadrants \union {Nowhere}]
         /\ pc \in [Cars -> Labels]
         /\ route \in [Cars -> Seq(Quadrants)]

\* Each quadrant of a route is the one counterclockwise of the one before.
Chained(r) == \A i \in 1..(Len(r) - 1) : r[i + 1] = (r[i] + 3) % 4

Underway == {"lock", "inQuadrant", "unlock"}

CarInv(c) ==
  /\ pc[c] \in {"P", "V", "gone"} => holds[c] = Nowhere /\ pos[c] = Nowhere
  /\ pc[c] \in Underway => /\ route[c] # <<>>
                           /\ Chained(route[c])
                           /\ holds[c] # Nowhere => route[c][1] = (holds[c] + 3) % 4
  /\ pc[c] \in {"lock", "inQuadrant"} => pos[c] = holds[c]
  /\ pc[c] \in {"inQuadrant", "unlock"} => quadlock[route[c][1]] = c
  /\ pc[c] = "unlock" => pos[c] = route[c][1] /\ holds[c] # Nowhere
  /\ pc[c] = "leave" => pos[c] = holds[c] /\ holds[c] # Nowhere
  /\ pc[c] = "unlock_last" => pos[c] = Nowhere /\ holds[c] # Nowhere
  /\ holds[c] # Nowhere => quadlock[holds[c]] = c

Own == \A q \in Quadrants : \A c \in Cars :
         quadlock[q] = c => \/ holds[c] = q
                            \/ pc[c] \in {"inQuadrant", "unlock"} /\ route[c][1] = q

Locked == (\A c \in Cars : CarInv(c)) /\ Own

Permits == /\ allow3sem \in Nat
           /\ IsFiniteSet(Inside)
           /\ Cardinality(Inside) + allow3sem = 3

-----------------------------------------------------------------------------
(* Routes *)

LEMMA RoutesChained ==
  \A r \in Routes : r \in Seq(Quadrants) /\ r # <<>> /\ Chained(r)
<1> SUFFICES ASSUME NEW turn \in Turns, NEW direction \in Directions
             PROVE  LET r == Route(turn, direction)
                    IN  r \in Seq(Quadrants) /\ r # <<>> /\ Chained(r)
    BY DEF Routes
<1> direction \in 0..3 BY DEF Directions
<1>0. /\ (direction + 3) % 4 \in Quadrants
      /\ (direction + 2) % 4 \in Quadrants
      /\ direction \in Quadrants
      /\ (direction + 2) % 4 = (((direction + 3) % 4) + 3) % 4
    BY DEF Quadrants
<1>1. CASE turn = "gostraight"
    BY <1>0, <1>1 DEF Route, Chained
<1>2. CASE turn = "turnleft"
  <2> DEFINE a == direction
             b == (direction + 3) % 4
             d == (direction + 2) % 4
  <2>1. Route(turn, direction) = <<a, b, d>> BY <1>2 DEF Route
  <2>2. b = (a + 3) % 4 /\ d = (b + 3) % 4 BY <1>0
  <2>3. a \in Quadrants /\ b \in Quadrants /\ d \in Quadrants BY <1>0
  <2> HIDE DEF a, b, d
  <2>4. <<a, b, d>> \in Seq(Quadrants) /\ <<a, b, d>> # <<>> BY <2>3
  <2>5. Chained(<<a, b, d>>)
    <3> SUFFICES ASSUME NEW i \in 1..2
                 PROVE  <<a, b, d>>[i + 1] = (<<a, b, d>>[i] + 3) % 4
        BY DEF Chained
    <3>1. i = 1 \/ i = 2 OBVIOUS
    <3> QED BY <3>1, <2>2
  <2> QED BY <2>1, <2>4, <2>5
<1>3. CASE turn = "turnright"
    BY <1>0, <1>3 DEF Route, Chained
<1> QED BY <1>1, <1>2, <1>3 DEF Turns

LEMMA NextQuadrant ==
  ASSUME NEW q \in Quadrants
  PROVE  (q + 3) % 4 \in Quadrants /\ (q + 3) % 4 # q
BY DEF Quadrants

\* What is left of a route once its first quadrant is reached.
LEMMA RouteTail ==
  ASSUME NEW r \in Seq(Quadrants), r # <<>>, Chained(r)
  PROVE  /\ Head(r) = r[1] /\ r[1] \in Quadrants
         /\ Tail(r) \in Seq(Quadrants)
         /\ Len(r) # 1 => /\ Tail(r) # <<>>
                          /\ Chained(Tail(r))
                          /\ Tail(r)[1] = (r[1] + 3) % 4
<1>1. Len(r) \in Nat \ {0} OBVIOUS
<1>2. Head(r) = r[1] /\ r[1] \in Quadrants /\ Tail(r) \in Seq(Quadrants) BY <1>1
<1>3. ASSUME Len(r) # 1
      PROVE  Tail(r) # <<>> /\ Chained(Tail(r)) /\ Tail(r)[1] = (r[1] + 3) % 4
  <2>1. Len(r) >= 2
    <3>1. \A n \in Nat \ {0} : n # 1 => n >= 2 OBVIOUS
    <3> QED BY <3>1, <1>1, <1>3
  <2>2. Len(Tail(r)) = Len(r) - 1 /\ \A i \in 1..(Len(r) - 1) : Tail(r)[i] = r[i + 1] BY <1>1
  <2>3. Chained(Tail(r)) BY <2>1, <2>2 DEF Chained
  <2>4. Tail(r)[1] = r[2] /\ r[2] = (r[1] + 3) % 4 BY <2>1, <2>2 DEF Chained
  <2>5. Tail(r) # <<>>
    <3>1. \A n \in Nat \ {0} : n >= 2 => n - 1 # 0 OBVIOUS
    <3>2. Len(Tail(r)) # 0 BY <3>1, <1>1, <2>1, <2>2
    <3>3. Len(<<>>) = 0 OBVIOUS
    <3> QED BY <3>2, <3>3, Zenon
  <2> QED BY <2>3, <2>4, <2>5
<1> QED BY <1>2, <1>3

-----------------------------------------------------------------------------
(* Types and locks *)

LEMMA InitLocked == Init => Types /\ Locked
BY CarAssumption DEF Init, Types, Locked, CarInv, Own, Underway, Labels, Quadrants, Nowhere

LEMMA FirstOfRoute ==
  ASSUME Types, Locked, NEW c \in Cars, pc[c] \in Underway
  PROVE  /\ route[c] \in Seq(Quadrants) /\ route[c] # <<>> /\ Chained(route[c])
         /\ Head(route[c]) = route[c][1] /\ route[c][1] \in Quadrants
BY RouteTail DEF Types, Locked, CarInv

LEMMA TypesStep == Types /\ Locked /\ [Next]_vars => Types'
<1> SUFFICES ASSUME Types, Locked, [Next]_vars PROVE Types'
    OBVIOUS
<1>1. CASE UNCHANGED vars BY <1>1 DEF vars, Types
<1>2. ASSUME NEW c \in Cars, Step(c) PROVE Types'
  <2>1. CASE Enter(c) BY <2>1, RoutesChained DEF Types, Enter, Goto, Labels
  <2>2. CASE LockQuadrant(c) BY <2>2, FirstOfRoute DEF Types, LockQuadrant, Goto, Labels, Underway
  <2>3. ASSUME pc[c] \in Underway, Advance(c)
        PROVE  /\ holds' \in [Cars -> Quadrants \union {Nowhere}]
               /\ route' \in [Cars -> Seq(Quadrants)]
               /\ pc' \in [Cars -> Labels]
      BY <2>3, FirstOfRoute, RouteTail DEF Types, Advance, Goto, Labels
  <2>4. CASE InQuadrant(c)
      BY <2>3, <2>4, FirstOfRoute DEF Types, InQuadrant, Goto, Labels, Underway
  <2>5. CASE UnlockBehind(c)
    <3>1. pc[c] \in Underway BY <2>5 DEF UnlockBehind, Underway
    <3> QED BY <2>3, <2>5, <3>1 DEF Types, UnlockBehind
  <2>6. CASE Leave(c) BY <2>6 DEF Types, Leave, Goto, Labels
  <2>7. CASE UnlockLast(c) BY <2>7 DEF Types, UnlockLast, Goto, Labels
  <2>8. CASE Exit(c) BY <2>8 DEF Types, Exit, Goto, Labels
  <2> QED BY <1>2, <2>1, <2>2, <2>4, <2>5, <2>6, <2>7, <2>8 DEF Step
<1> QED BY <1>1, <1>2 DEF Next

\* A step of car c: the other cars stay where they are, and the locks that
\* change hands do so between c and nobody.
OnlyMoves(c) ==
  /\ \A d \in Cars \ {c} : /\ pc'[d] = pc[d] /\ holds'[d] = holds[d]
                           /\ pos'[d] = pos[d] /\ route'[d] = route[d]
  /\ \A q \in Quadrants : quadlock'[q] = quadlock[q] \/ {quadlock[q], quadlock'[q]} \subseteq {c, Nobody}

\* Then it is enough to look at c.
LEMMA OthersKeep ==
  ASSUME Types, Types', Locked, NEW c \in Cars, OnlyMoves(c), CarInv(c)',
         \A q \in Quadrants : quadlock'[q] = c =>
            \/ holds'[c] = q
            \/ pc'[c] \in {"inQuadrant", "unlock"} /\ route'[c][1] = q
  PROVE  Locked'
<1>1. ASSUME NEW d \in Cars, d # c PROVE CarInv(d)'
  <2>1. pc'[d] = pc[d] /\ holds'[d] = holds[d] /\ pos'[d] = pos[d] /\ route'[d] = route[d]
      BY <1>1 DEF OnlyMoves
  <2>2. \A q \in Quadrants : quadlock[q] = d => quadlock'[q] = d
      BY <1>1, CarAssumption DEF OnlyMoves
  <2>3. CarInv(d) BY DEF Locked
  <2>4. pc[d] \in {"inQuadrant", "unlock"} => quadlock'[route[d][1]] = d
    <3>1. pc[d] \in {"inQuadrant", "unlock"} => pc[d] \in Underway BY DEF Underway
    <3> QED BY <2>2, <2>3, <3>1, FirstOfRoute DEF CarInv
  <2>5. holds[d] # Nowhere => quadlock'[holds[d]] = d
      BY <2>2, <2>3 DEF CarInv, Types
  <2> QED BY <2>1, <2>3, <2>4, <2>5 DEF CarInv
<1>2. Own'
  <2> SUFFICES ASSUME NEW q \in Quadrants, NEW d \in Cars, quadlock'[q] = d
               PROVE  \/ holds'[d] = q
                      \/ pc'[d] \in {"inQuadrant", "unlock"} /\ route'[d][1] = q
      BY DEF Own
  <2>1. CASE d = c BY <2>1
  <2>2. CASE d # c
    <3>1. quadlock[q] = d BY <2>2, CarAssumption DEF OnlyMoves
    <3> QED BY <2>2, <3>1 DEF OnlyMoves, Locked, Own
  <2> QED BY <2>1, <2>2
<1> QED BY <1>1, <1>2 DEF Locked

\* The car reached the quadrant it locked last and nothing is left to unlock
\* but that one.
LEMMA AdvanceLocked ==
  ASSUME Types, Locked, NEW c \in Cars, pc[c] \in Underway, Advance(c),
         quadlock'[route[c][1]] = c, pos'[c] = route[c][1]
  PROVE  CarInv(c)' /\ holds'[c] = route[c][1]
<1> DEFINE r == route[c]
<1>1. /\ r \in Seq(Quadrants) /\ r # <<>> /\ Chained(r)
      /\ Head(r) = r[1] /\ r[1] \in Quadrants
    BY FirstOfRoute
<1>2. holds'[c] = r[1] /\ route'[c] = Tail(r) /\ pc'[c] = IF Len(r) = 1 THEN "leave" ELSE "lock"
    BY <1>1 DEF Types, Advance, Goto
<1>3. Len(r) # 1 => Tail(r) # <<>> /\ Chained(Tail(r)) /\ Tail(r)[1] = (r[1] + 3) % 4
    BY <1>1, RouteTail
<1>4. r[1] # Nowhere BY <1>1 DEF Quadrants, Nowhere
<1> HIDE DEF r
<1>5. CASE Len(r) = 1 BY <1>2, <1>4, <1>5 DEF CarInv, Underway, r
<1>6. CASE Len(r) # 1 BY <1>2, <1>3, <1>4, <1>6 DEF CarInv, Underway, r
<1> QED BY <1>2, <1>5, <1>6 DEF r

LEMMA LockedStep == Types /\ Types' /\ Locked /\ [Next]_vars => Locked'
<1> SUFFICES ASSUME Types, Types', Locked, [Next]_vars PROVE Locked'
    OBVIOUS
<1>1. CASE UNCHANGED vars BY <1>1 DEF vars, Locked, CarInv, Own, Underway, Chained
<1>2. ASSUME NEW c \in Cars, Step(c) PROVE Locked'
  <2> DEFINE OwnC == \A q \in Quadrants : quadlock'[q] = c =>
                        \/ holds'[c] = q
                        \/ pc'[c] \in {"inQuadrant", "unlock"} /\ route'[c][1] = q
  <2>0. /\ CarInv(c)
        /\ \A q \in Quadrants : quadlock[q] = c =>
              holds[c] = q \/ (pc[c] \in {"inQuadrant", "unlock"} /\ route[c][1] = q)
      BY DEF Locked, Own
  <2> SUFFICES OnlyMoves(c) /\ CarInv(c)' /\ OwnC
      BY OthersKeep
  <2>1. CASE Enter(c)
    <3>1. OnlyMoves(c) BY <2>1 DEF OnlyMoves, Enter, Goto, Types
    <3>2. /\ pc[c] = "P" /\ pc'[c] = "lock" /\ holds'[c] = Nowhere /\ pos'[c] = Nowhere
          /\ quadlock' = quadlock /\ route'[c] \in Routes
        BY <2>0, <2>1 DEF Enter, Goto, Types, CarInv
    <3>3. CarInv(c)' BY <3>2, RoutesChained DEF CarInv, Underway
    <3>4. OwnC BY <2>0, <3>2 DEF CarInv, Quadrants, Nowhere
    <3> QED BY <3>1, <3>3, <3>4
  <2>2. CASE LockQuadrant(c)
    <3> DEFINE n == route[c][1]
    <3>0. pc[c] = "lock" /\ pc[c] \in Underway BY <2>2 DEF LockQuadrant, Underway
    <3>1. Head(route[c]) = n /\ n \in Quadrants BY <3>0, FirstOfRoute
    <3>2. /\ quadlock[n] = Nobody /\ quadlock' = [quadlock EXCEPT ![n] = c] /\ pc'[c] = "inQuadrant"
          /\ holds' = holds /\ pos' = pos /\ route' = route
        BY <2>2, <3>1 DEF LockQuadrant, Goto, Types
    <3>3. OnlyMoves(c) BY <2>2, <3>1, <3>2 DEF OnlyMoves, LockQuadrant, Goto, Types
    <3>4. \A q \in Quadrants : quadlock'[q] = IF q = n THEN c ELSE quadlock[q]
        BY <3>1, <3>2 DEF Types
    <3>5. CarInv(c)'
      <4>1. holds[c] # Nowhere => quadlock'[holds[c]] = c BY <2>0, <3>1, <3>4 DEF CarInv, Types
      <4>2. quadlock'[n] = c BY <3>1, <3>4
      <4>3. /\ route[c] # <<>> /\ Chained(route[c]) /\ pos[c] = holds[c]
            /\ holds[c] # Nowhere => n = (holds[c] + 3) % 4
          BY <2>0, <3>0 DEF CarInv
      <4> HIDE DEF n
      <4> QED BY <3>2, <4>1, <4>2, <4>3 DEF CarInv, n
    <3>6. OwnC BY <2>0, <3>0, <3>1, <3>2, <3>4
    <3> QED BY <3>3, <3>5, <3>6
  <2>3. CASE InQuadrant(c)
    <3> DEFINE n == route[c][1]
    <3>0. pc[c] = "inQuadrant" /\ pc[c] \in Underway BY <2>3 DEF InQuadrant, Underway
    <3>1. Head(route[c]) = n /\ n \in Quadrants BY <3>0, FirstOfRoute
    <3>2. pos'[c] = n /\ quadlock' = quadlock /\ quadlock[n] = c
        BY <2>0, <2>3, <3>0, <3>1 DEF InQuadrant, Types, CarInv
    <3>3. OnlyMoves(c) BY <2>3 DEF OnlyMoves, InQuadrant, Advance, Goto, Types
    <3>4. CASE holds[c] = Nowhere /\ Advance(c)
      <4>1. CarInv(c)' /\ holds'[c] = n BY <3>0, <3>2, <3>4, AdvanceLocked
      <4>2. OwnC BY <2>0, <3>2, <3>4, <4>1 DEF Quadrants, Nowhere
      <4> QED BY <3>3, <4>1, <4>2
    <3>5. CASE holds[c] # Nowhere /\ Goto(c, "unlock") /\ UNCHANGED <<holds, route>>
      <4>1. pc'[c] = "unlock" /\ holds' = holds /\ route' = route BY <3>5 DEF Goto, Types
      <4>2. CarInv(c)'
        <5> HIDE DEF n
        <5> QED BY <2>0, <3>0, <3>2, <3>5, <4>1 DEF CarInv, Underway, n
      <4>3. OwnC BY <2>0, <3>0, <3>2, <4>1
      <4> QED BY <3>3, <4>2, <4>3
    <3> QED BY <2>3, <3>4, <3>5 DEF InQuadrant
  <2>4. CASE UnlockBehind(c)
    <3> DEFINE n == route[c][1]
               h == holds[c]
    <3>0. pc[c] = "unlock" /\ pc[c] \in Underway BY <2>4 DEF UnlockBehind, Underway
    <3>1. Head(route[c]) = n /\ n \in Quadrants BY <3>0, FirstOfRoute
    <3>2. /\ h \in Quadrants /\ quadlock[h] = c /\ quadlock[n] = c /\ pos[c] = n
          /\ n = (h + 3) % 4
        BY <2>0, <3>0 DEF CarInv, Types
    <3>3. n # h BY <3>2, NextQuadrant
    <3>4. \A q \in Quadrants : quadlock'[q] = IF q = h THEN Nobody ELSE quadlock[q]
        BY <2>4, <3>2 DEF UnlockBehind, Types
    <3>5. OnlyMoves(c) BY <2>4, <3>2, <3>4 DEF OnlyMoves, UnlockBehind, Advance, Goto, Types
    <3>6. quadlock'[n] = c BY <3>1, <3>2, <3>3, <3>4
    <3>7. pos'[c] = n /\ Advance(c) BY <2>4, <3>2 DEF UnlockBehind
    <3>8. CarInv(c)' /\ holds'[c] = n BY <3>0, <3>6, <3>7, AdvanceLocked
    <3>9. OwnC BY <2>0, <3>4, <3>8, CarAssumption
    <3> QED BY <3>5, <3>8, <3>9
  <2>5. CASE Leave(c)
    <3>1. OnlyMoves(c) BY <2>5 DEF OnlyMoves, Leave, Goto, Types
    <3>2. /\ pc[c] = "leave" /\ pc'[c] = "unlock_last" /\ pos'[c] = Nowhere
          /\ quadlock' = quadlock /\ holds' = holds /\ route' = route
        BY <2>5 DEF Leave, Goto, Types
    <3>3. CarInv(c)' BY <2>0, <3>2 DEF CarInv, Underway
    <3>4. OwnC BY <2>0, <3>2
    <3> QED BY <3>1, <3>3, <3>4
  <2>6. CASE UnlockLast(c)
    <3> DEFINE h == holds[c]
    <3>1. /\ pc[c] = "unlock_last" /\ pc'[c] = "V" /\ pos'[c] = Nowhere /\ holds'[c] = Nowhere
          /\ h \in Quadrants /\ quadlock[h] = c
        BY <2>0, <2>6 DEF UnlockLast, Goto, Types, CarInv
    <3>2. \A q \in Quadrants : quadlock'[q] = IF q = h THEN Nobody ELSE quadlock[q]
        BY <2>6, <3>1 DEF UnlockLast, Types
    <3>3. OnlyMoves(c) BY <2>6, <3>1, <3>2 DEF OnlyMoves, UnlockLast, Goto, Types
    <3>4. CarInv(c)' BY <3>1 DEF CarInv, Underway
    <3>5. OwnC BY <2>0, <3>1, <3>2, CarAssumption
    <3> QED BY <3>3, <3>4, <3>5
  <2>7. CASE Exit(c)
    <3>1. OnlyMoves(c) BY <2>7 DEF OnlyMoves, Exit, Goto, Types
    <3>2. /\ pc[c] = "V" /\ pc'[c] = "gone"
          /\ quadlock' = quadlock /\ holds' = holds /\ route' = route /\ pos' = pos
        BY <2>7 DEF Exit, Goto, Types
    <3>3. CarInv(c)' BY <2>0, <3>2 DEF CarInv, Underway
    <3>4. OwnC BY <2>0, <3>2
    <3> QED BY <3>1, <3>3, <3>4
  <2> QED BY <1>2, <2>1, <2>2, <2>3, <2>4, <2>5, <2>6, <2>7 DEF Step
<1> QED BY <1>1, <1>2 DEF Next

-----------------------------------------------------------------------------
(* Permits *)

LEMMA InitPermits == Init => Permits
<1> SUFFICES ASSUME Init PROVE Permits
    OBVIOUS
<1>1. Inside = {} BY DEF Init, Inside
<1> QED BY <1>1, FS_EmptySet DEF Init, Permits

LEMMA PermitsStep == Types /\ Permits /\ [Next]_vars => Permits'
<1> SUFFICES ASSUME Types, Permits, [Next]_vars PROVE Permits'
    OBVIOUS
<1>1. CASE UNCHANGED vars BY <1>1 DEF vars, Permits, Inside
<1>2. ASSUME NEW c \in Cars, Step(c) PROVE Permits'
  <2>1. CASE Enter(c)
    <3>1. c \notin Inside /\ Inside' = Inside \union {c}
        BY <2>1 DEF Inside, Enter, Goto, Types
    <3>2. IsFiniteSet(Inside') /\ Cardinality(Inside') = Cardinality(Inside) + 1
        BY <3>1, FS_AddElement DEF Permits
    <3>3. Cardinality(Inside) \in Nat BY FS_CardinalityType DEF Permits
    <3> QED BY <2>1, <3>2, <3>3 DEF Permits, Enter
  <2>2. CASE Exit(c)
    <3>1. c \in Inside /\ Inside' = Inside \ {c}
        BY <2>2 DEF Inside, Exit, Goto, Types
    <3>2. IsFiniteSet(Inside') /\ Cardinality(Inside') = Cardinality(Inside) - 1
        BY <3>1, FS_RemoveElement DEF Permits
    <3>3. Cardinality(Inside) \in Nat BY FS_CardinalityType DEF Permits
    <3> QED BY <2>2, <3>2, <3>3 DEF Permits, Exit
  <2>3. ASSUME LockQuadrant(c) \/ InQuadrant(c) \/ UnlockBehind(c) \/ Leave(c) \/ UnlockLast(c)
        PROVE  Permits'
    <3>1. allow3sem' = allow3sem
        BY <2>3 DEF LockQuadrant, InQuadrant, UnlockBehind, Leave, UnlockLast
    <3>2. /\ pc[c] \notin {"P", "gone"}
          /\ \E l \in Labels \ {"P", "gone"} : pc' = [pc EXCEPT ![c] = l]
        BY <2>3 DEF LockQuadrant, InQuadrant, UnlockBehind, Leave, UnlockLast, Advance, Goto, Labels
    <3>3. Inside' = Inside BY <3>2 DEF Inside, Types
    <3> QED BY <3>1, <3>3 DEF Permits
  <2> QED BY <1>2, <2>1, <2>2, <2>3 DEF Step
<1> QED BY <1>1, <1>2 DEF Next

-----------------------------------------------------------------------------
(* The theorems *)

LEMMA Invariance == Spec => [](Types /\ Locked /\ Permits)
<1>1. Init => Types /\ Locked /\ Permits BY InitLocked, InitPermits
<1>2. (Types /\ Locked /\ Permits) /\ [Next]_vars => (Types /\ Locked /\ Permits)'
    BY TypesStep, LockedStep, PermitsStep
<1> QED BY <1>1, <1>2, PTL DEF Spec

\* The variables keep their types: in particular allow3sem never goes above
\* three, whatever the cars do.
THEOREM TypeCorrect == Spec => []TypeOK
<1>1. Types /\ Permits => TypeOK
  <2> SUFFICES ASSUME Types, Permits PROVE TypeOK
      OBVIOUS
  <2>1. Cardinality(Inside) \in Nat BY FS_CardinalityType DEF Permits
  <2>2. allow3sem \in 0..3 BY <2>1 DEF Permits
  <2> QED BY <2>2 DEF Types, TypeOK
<1> QED BY <1>1, Invariance, PTL

\* A car is only where it has the lock.
LEMMA WhereLocked == Types /\ Locked => OneCarPerQuadrant
<1> SUFFICES ASSUME Types, Locked, NEW c \in Cars, pos[c] # Nowhere
             PROVE  quadlock[pos[c]] = c
    BY DEF OneCarPerQuadrant
<1>1. CarInv(c) BY DEF Locked
<1> QED BY <1>1 DEF CarInv, Types, Labels, Underway

\* No two cars of problems.c are ever in the same quadrant, for any number of
\* cars.
THEOREM NoCollision == Spec => []OneCarPerQuadrant
BY WhereLocked, Invariance, PTL

\* A car that waits for the next quadrant and finds it taken waits for a car;
\* if every car inside waits, the four quadrants are held by four cars.
LEMMA FourWaiting ==
  ASSUME Types, Locked, Permits, Inside # {},
         \A c \in Inside : pc[c] = "lock" /\ quadlock[Head(route[c])] # Nobody
  PROVE  FALSE
<1>1. ASSUME NEW q \in Quadrants, quadlock[q] # Nobody
      PROVE  /\ quadlock[q] \in Inside
             /\ holds[quadlock[q]] = q
             /\ quadlock[(q + 3) % 4] # Nobody
  <2> DEFINE d == quadlock[q]
  <2>1. d \in Cars BY <1>1 DEF Types
  <2>2. holds[d] = q \/ (pc[d] \in {"inQuadrant", "unlock"} /\ route[d][1] = q)
      BY <2>1 DEF Locked, Own
  <2>3. q # Nowhere BY DEF Quadrants, Nowhere
  <2>4. CarInv(d) BY <2>1 DEF Locked
  <2> HIDE DEF d
  <2>5. pc[d] \notin {"P", "gone"} BY <2>2, <2>3, <2>4 DEF CarInv
  <2>6. d \in Inside BY <2>1, <2>5 DEF Inside
  <2>7. pc[d] = "lock" /\ pc[d] \in Underway /\ quadlock[Head(route[d])] # Nobody
      BY <2>6 DEF Underway
  <2>8. holds[d] = q BY <2>2, <2>7
  <2>9. Head(route[d]) = (q + 3) % 4
      BY <2>1, <2>3, <2>4, <2>7, <2>8, FirstOfRoute DEF CarInv
  <2> QED BY <2>6, <2>7, <2>8, <2>9 DEF d
<1>2. PICK c \in Inside : TRUE OBVIOUS
<1>3. \E q \in Quadrants : quadlock[q] # Nobody
  <2>1. c \in Cars /\ pc[c] \in Underway /\ quadlock[Head(route[c])] # Nobody
      BY <1>2 DEF Inside, Underway
  <2> QED BY <2>1, FirstOfRoute
<1>4. \A q \in Quadrants : quadlock[q] # Nobody
  <2>1. \A q \in Quadrants : quadlock[q] # Nobody => quadlock[(q + 3) % 4] # Nobody BY <1>1
  <2>2. 0 \in Quadrants /\ 1 \in Quadrants /\ 2 \in Quadrants /\ 3 \in Quadrants BY DEF Quadrants
  <2>3. (0 + 3) % 4 = 3 /\ (3 + 3) % 4 = 2 /\ (2 + 3) % 4 = 1 /\ (1 + 3) % 4 = 0 OBVIOUS
  <2>4. /\ quadlock[0] # Nobody => quadlock[3] # Nobody
        /\ quadlock[3] # Nobody => quadlock[2] # Nobody
        /\ quadlock[2] # Nobody => quadlock[1] # Nobody
        /\ quadlock[1] # Nobody => quadlock[0] # Nobody
      BY <2>1, <2>2, <2>3
  <2>5. \A q \in Quadrants : q = 0 \/ q = 1 \/ q = 2 \/ q = 3 BY DEF Quadrants
  <2> QED BY <1>3, <2>4, <2>5
<1> DEFINE Four == {quadlock[0], quadlock[1], quadlock[2], quadlock[3]}
<1>5. Four \subseteq Inside /\ Cardinality(Four) = 4
  <2>1. 0 \in Quadrants /\ 1 \in Quadrants /\ 2 \in Quadrants /\ 3 \in Quadrants BY DEF Quadrants
  <2>2. /\ holds[quadlock[0]] = 0 /\ holds[quadlock[1]] = 1
        /\ holds[quadlock[2]] = 2 /\ holds[quadlock[3]] = 3
      BY <1>1, <1>4, <2>1
  <2> DEFINE A == {quadlock[0]}
             B == A \union {quadlock[1]}
             C == B \union {quadlock[2]}
             D == C \union {quadlock[3]}
  <2>3. /\ quadlock[1] \notin A
        /\ quadlock[2] \notin B
        /\ quadlock[3] \notin C
      BY <2>2
  <2>4. IsFiniteSet(A) /\ Cardinality(A) = 1 BY FS_Singleton
  <2>5. IsFiniteSet(B) /\ Cardinality(B) = 2
    <3>1. quadlock[1] \notin A BY <2>3
    <3> HIDE DEF A
    <3>2. /\ IsFiniteSet(A \union {quadlock[1]})
          /\ Cardinality(A \union {quadlock[1]}) = Cardinality(A) + 1
        BY <3>1, <2>4, FS_AddElement
    <3> QED BY <3>2, <2>4
  <2>6. IsFiniteSet(C) /\ Cardinality(C) = 3
    <3> HIDE DEF B
    <3> QED BY <2>3, <2>5, FS_AddElement
  <2>7. IsFiniteSet(D) /\ Cardinality(D) = 4
    <3> HIDE DEF C
    <3> QED BY <2>3, <2>6, FS_AddElement
  <2>8. Four = D OBVIOUS
  <2>9. Four \subseteq Inside BY <1>1, <1>4, <2>1
  <2> QED BY <2>7, <2>8, <2>9
<1>6. Cardinality(Four) =< Cardinality(Inside) BY <1>5, FS_Subset DEF Permits
<1>7. Cardinality(Inside) \in Nat BY FS_CardinalityType DEF Permits
<1> HIDE DEF Four
<1> QED BY <1>5, <1>6, <1>7 DEF Permits

\* The intersection of problems.c never locks up, for any number of cars: as
\* long as cars are inside, one of them has its way free.  allow3sem is what
\* makes the difference (FourWaiting needs a fourth car).
THEOREM GridlockFree == Spec => []NoGridlock
<1>1. Types /\ Locked /\ Permits => NoGridlock
    BY FourWaiting DEF NoGridlock
<1> QED BY <1>1, Invariance, PTL

-----------------------------------------------------------------------------
(* The whales *)

WhaleLabels == {"start", "wait", "woken", "returned"}

WhaleTypes == /\ noOf \in [Whale!Kinds -> Nat]
              /\ cv \in [Whale!Kinds -> Seq(Whale!Whales)]
              /\ whalepc \in [Whale!Whales -> WhaleLabels]

\* The whales of kind k that cv_wait has not returned to yet, or just has.
Counted(k) == {w \in Whale!Whales : w[1] = k /\ whalepc[w] \in {"wait", "woken"}}

\* noOfMales, noOfFemales and noOfMatchmakers count the whales inside cv_wait,
\* the signalled ones that have not run since included.
WhaleCounts == \A k \in Whale!Kinds : noOf[k] = Cardinality(Counted(k))

\* On the condition variable of a kind are waiting whales of that kind, once each.
WhaleQueues ==
  \A k \in Whale!Kinds :
    /\ \A i \in 1..Len(cv[k]) : cv[k][i][1] = k /\ whalepc[cv[k][i]] = "wait"
    /\ \A i, j \in 1..Len(cv[k]) : cv[k][i] = cv[k][j] => i = j

WhaleInv == WhaleTypes /\ WhaleCounts /\ WhaleQueues /\ NoFullMatchWaits

LEMMA CountedFinite == \A k : IsFiniteSet(Counted(k))
<1>1. IsFiniteSet(1..NMATING) BY MatingAssumption, FS_Interval
<1>2. IsFiniteSet(Whale!Kinds)
  <2>1. IsFiniteSet({"male"} \union {"female"} \union {"matchmaker"})
      BY FS_Singleton, FS_AddElement
  <2> QED BY <2>1 DEF Whale!Kinds
<1>3. IsFiniteSet(Whale!Whales) BY <1>1, <1>2, FS_Product DEF Whale!Whales
<1> QED BY <1>3, FS_Subset DEF Counted

LEMMA InitWhales == Whale!Init => WhaleInv
<1> SUFFICES ASSUME Whale!Init PROVE WhaleInv
    OBVIOUS
<1>1. \A k : Counted(k) = {} BY DEF Whale!Init, Counted
<1>2. WhaleCounts BY <1>1, FS_EmptySet DEF Whale!Init, WhaleCounts
<1>3. NoFullMatchWaits
  <2>1. "male" \in Whale!Kinds BY DEF Whale!Kinds
  <2> QED BY <2>1 DEF NoFullMatchWaits, Whale!SomeKindMissing, Whale!Init
<1> QED BY <1>2, <1>3 DEF Whale!Init, WhaleInv, WhaleTypes, WhaleQueues, WhaleLabels

LEMMA WhalesStep ==
  ASSUME WhaleInv, NEW w \in Whale!Whales, Whale!Match(w) \/ Whale!Wait(w) \/ Whale!Resume(w)
  PROVE  WhaleInv'
<1> DEFINE k == w[1]
<1>0. k \in Whale!Kinds /\ Whale!KindOf(w) = k BY DEF Whale!Whales, Whale!KindOf
<1>1. CASE Whale!Match(w)
  <2>1. /\ whalepc[w] = "start"
        /\ cv' = [j \in Whale!Kinds |-> IF j = k \/ cv[j] = <<>> THEN cv[j] ELSE Tail(cv[j])]
        /\ whalepc' = [v \in Whale!Whales |-> IF v = w THEN "returned"
                                              ELSE IF v \in Whale!Signalled(k) THEN "woken" ELSE whalepc[v]]
        /\ noOf' = noOf
      BY <1>0, <1>1 DEF Whale!Match
  <2> HIDE DEF k
  <2>2. \A v \in Whale!Signalled(k) : v \in Whale!Whales /\ whalepc[v] = "wait"
    <3> SUFFICES ASSUME NEW j \in Whale!Kinds, cv[j] # <<>>
                 PROVE  Head(cv[j]) \in Whale!Whales /\ whalepc[Head(cv[j])] = "wait"
        BY DEF Whale!Signalled, Whale!Others
    <3>1. cv[j] \in Seq(Whale!Whales) BY DEF WhaleInv, WhaleTypes
    <3>2. Head(cv[j]) = cv[j][1] /\ 1 \in 1..Len(cv[j]) /\ cv[j][1] \in Whale!Whales BY <3>1
    <3> QED BY <3>2 DEF WhaleInv, WhaleQueues
  <2>3. WhaleTypes'
    <3>1. \A j \in Whale!Kinds : cv'[j] \in Seq(Whale!Whales)
      <4> SUFFICES ASSUME NEW j \in Whale!Kinds PROVE cv'[j] \in Seq(Whale!Whales)
          OBVIOUS
      <4>1. cv[j] \in Seq(Whale!Whales) BY DEF WhaleInv, WhaleTypes
      <4> QED BY <2>1, <4>1
    <3> QED BY <2>1, <3>1 DEF WhaleInv, WhaleTypes, WhaleLabels
  <2>4. WhaleCounts'
    <3>1. \A j : Counted(j)' = Counted(j) BY <2>1, <2>2 DEF Counted
    <3> QED BY <2>1, <3>1 DEF WhaleInv, WhaleCounts
  <2>5. WhaleQueues'
    <3> SUFFICES ASSUME NEW j \in Whale!Kinds
                 PROVE  /\ \A i \in 1..Len(cv'[j]) : cv'[j][i][1] = j /\ whalepc'[cv'[j][i]] = "wait"
                        /\ \A i, l \in 1..Len(cv'[j]) : cv'[j][i] = cv'[j][l] => i = l
        BY DEF WhaleQueues
    <3> DEFINE s == cv[j]
    <3>1. s \in Seq(Whale!Whales) BY DEF WhaleInv, WhaleTypes
    <3>2. /\ \A i \in 1..Len(s) : s[i] \in Whale!Whales /\ s[i][1] = j /\ whalepc[s[i]] = "wait"
          /\ \A i, l \in 1..Len(s) : s[i] = s[l] => i = l
        BY <3>1 DEF WhaleInv, WhaleQueues
    <3>2a. ASSUME NEW v \in Whale!Signalled(k), v[1] = j
           PROVE  j # k /\ s # <<>> /\ v = s[1]
      <4>1. PICK h \in Whale!Others(k) : cv[h] # <<>> /\ v = Head(cv[h])
          BY DEF Whale!Signalled
      <4>2. cv[h] \in Seq(Whale!Whales) /\ h \in Whale!Kinds BY DEF WhaleInv, WhaleTypes, Whale!Others
      <4>3. v = cv[h][1] /\ 1 \in 1..Len(cv[h]) BY <4>1, <4>2
      <4>4. h = j BY <3>2a, <4>2, <4>3 DEF WhaleInv, WhaleQueues
      <4> QED BY <4>1, <4>3, <4>4 DEF Whale!Others
    <3> HIDE DEF s
    <3>3. CASE j = k \/ s = <<>>
      <4>1. cv'[j] = s BY <2>1, <3>3 DEF s
      <4>2. \A i \in 1..Len(s) : whalepc'[s[i]] = "wait"
          BY <2>1, <3>2, <3>2a, <3>3
      <4> QED BY <3>2, <4>1, <4>2
    <3>4. CASE j # k /\ s # <<>>
      <4>1. cv'[j] = Tail(s) BY <2>1, <3>4 DEF s
      <4>2. Len(s) \in Nat \ {0} /\ Len(Tail(s)) = Len(s) - 1 /\ \A i \in 1..(Len(s) - 1) : Tail(s)[i] = s[i + 1]
          BY <3>1, <3>4
      <4>3. \A i \in 1..(Len(s) - 1) : i + 1 \in 1..Len(s) /\ 1 \in 1..Len(s) /\ i + 1 # 1 BY <4>2
      <4>4. \A i \in 1..(Len(s) - 1) : s[i + 1] # s[1] BY <3>2, <4>3
      <4>5. \A i \in 1..(Len(s) - 1) : whalepc'[s[i + 1]] = "wait"
          BY <2>1, <3>2, <3>2a, <4>3, <4>4
      <4>6. \A i, l \in 1..(Len(s) - 1) : s[i + 1] = s[l + 1] => i = l BY <3>2, <4>3
      <4> QED BY <3>2, <4>1, <4>2, <4>3, <4>5, <4>6
    <3> QED BY <3>3, <3>4
  <2>6. NoFullMatchWaits'
      BY <2>1 DEF WhaleInv, NoFullMatchWaits, Whale!SomeKindMissing
  <2> QED BY <2>3, <2>4, <2>5, <2>6 DEF WhaleInv
<1>2. CASE Whale!Wait(w)
  <2>1. /\ whalepc[w] = "start"
        /\ \E j \in Whale!Kinds \ {k} : noOf[j] = 0
        /\ noOf' = [noOf EXCEPT ![k] = @ + 1]
        /\ cv' = [cv EXCEPT ![k] = Append(@, w)]
        /\ whalepc' = [whalepc EXCEPT ![w] = "wait"]
      BY <1>0, <1>2 DEF Whale!Wait, Whale!Others
  <2>2. WhaleTypes' BY <1>0, <2>1 DEF WhaleInv, WhaleTypes, WhaleLabels
  <2>3. WhaleCounts'
    <3>1. w \notin Counted(k) /\ Counted(k)' = Counted(k) \union {w}
        BY <2>1 DEF Counted, WhaleInv, WhaleTypes
    <3>2. \A j : j # k => Counted(j)' = Counted(j)
        BY <2>1 DEF Counted, WhaleInv, WhaleTypes
    <3> HIDE DEF k
    <3>3. Cardinality(Counted(k)') = Cardinality(Counted(k)) + 1
        BY <3>1, CountedFinite, FS_AddElement
    <3> QED BY <1>0, <2>1, <3>2, <3>3 DEF WhaleInv, WhaleCounts, WhaleTypes
  <2>4. WhaleQueues'
    <3> SUFFICES ASSUME NEW j \in Whale!Kinds
                 PROVE  /\ \A i \in 1..Len(cv'[j]) : cv'[j][i][1] = j /\ whalepc'[cv'[j][i]] = "wait"
                        /\ \A i, l \in 1..Len(cv'[j]) : cv'[j][i] = cv'[j][l] => i = l
        BY DEF WhaleQueues
    <3> DEFINE s == cv[j]
    <3>1. s \in Seq(Whale!Whales) BY DEF WhaleInv, WhaleTypes
    <3>2. /\ \A i \in 1..Len(s) : s[i] \in Whale!Whales /\ s[i][1] = j /\ whalepc[s[i]] = "wait"
          /\ \A i, l \in 1..Len(s) : s[i] = s[l] => i = l
        BY <3>1 DEF WhaleInv, WhaleQueues
    <3>3. \A i \in 1..Len(s) : s[i] # w BY <2>1, <3>2
    <3>4. whalepc'[w] = "wait" /\ \A i \in 1..Len(s) : whalepc'[s[i]] = "wait"
        BY <2>1, <3>2 DEF WhaleInv, WhaleTypes
    <3>5. cv'[j] = IF j = k THEN Append(s, w) ELSE s BY <2>1 DEF WhaleInv, WhaleTypes
    <3>6. w[1] = k OBVIOUS
    <3> HIDE DEF s, k
    <3>7. CASE j # k BY <3>2, <3>4, <3>5, <3>7
    <3>8. CASE j = k
      <4>1. /\ Len(Append(s, w)) = Len(s) + 1 /\ Len(s) \in Nat
            /\ \A i \in 1..(Len(s) + 1) : Append(s, w)[i] = IF i = Len(s) + 1 THEN w ELSE s[i]
          BY <3>1
      <4>2. \A i \in 1..(Len(s) + 1) : i = Len(s) + 1 \/ i \in 1..Len(s) BY <4>1
      <4> QED BY <3>2, <3>3, <3>4, <3>5, <3>6, <3>8, <4>1, <4>2
    <3> QED BY <3>7, <3>8
  <2>5. NoFullMatchWaits'
    <3>1. PICK j \in Whale!Kinds : j # k /\ noOf[j] = 0 BY <2>1
    <3>2. Counted(j) = {}
      <4>1. IsFiniteSet(Counted(j)) /\ Cardinality(Counted(j)) = 0
          BY <3>1, CountedFinite DEF WhaleInv, WhaleCounts
      <4> QED BY <4>1, FS_EmptySet
    <3>3. \A v \in Whale!Whales : v[1] = j => whalepc'[v] # "wait"
        BY <2>1, <3>1, <3>2 DEF Counted, WhaleInv, WhaleTypes
    <3> QED BY <3>3 DEF NoFullMatchWaits, Whale!SomeKindMissing, Whale!KindOf
  <2> QED BY <2>2, <2>3, <2>4, <2>5 DEF WhaleInv
<1>3. CASE Whale!Resume(w)
  <2>1. /\ whalepc[w] = "woken"
        /\ noOf' = [noOf EXCEPT ![k] = @ - 1]
        /\ whalepc' = [whalepc EXCEPT ![w] = "returned"]
        /\ cv' = cv
      BY <1>0, <1>3 DEF Whale!Resume
  <2>2. WhaleTypes' /\ WhaleCounts'
    <3>1. w \in Counted(k) /\ Counted(k)' = Counted(k) \ {w}
        BY <2>1 DEF Counted, WhaleInv, WhaleTypes
    <3>2. \A j : j # k => Counted(j)' = Counted(j)
        BY <2>1 DEF Counted, WhaleInv, WhaleTypes
    <3> HIDE DEF k
    <3>3. /\ Cardinality(Counted(k)') = Cardinality(Counted(k)) - 1
          /\ IsFiniteSet(Counted(k)') /\ Cardinality(Counted(k)') \in Nat
        BY <3>1, CountedFinite, FS_RemoveElement, FS_CardinalityType
    <3>4. noOf' \in [Whale!Kinds -> Nat] /\ WhaleCounts'
        BY <1>0, <2>1, <3>2, <3>3 DEF WhaleInv, WhaleCounts, WhaleTypes
    <3> QED BY <2>1, <3>4 DEF WhaleInv, WhaleTypes, WhaleLabels
  <2>3. WhaleQueues'
    <3> SUFFICES ASSUME NEW j \in Whale!Kinds, NEW i \in 1..Len(cv[j])
                 PROVE  whalepc'[cv[j][i]] = "wait"
        BY <2>1 DEF WhaleInv, WhaleQueues
    <3> QED BY <2>1 DEF WhaleInv, WhaleQueues, WhaleTypes
  <2>4. NoFullMatchWaits'
      BY <2>1 DEF WhaleInv, NoFullMatchWaits, Whale!SomeKindMissing, WhaleTypes
  <2> QED BY <2>2, <2>3, <2>4 DEF WhaleInv
<1> QED BY <1>1, <1>2, <1>3

-----------------------------------------------------------------------------
(* The menu's two commands *)

MenuInv == Types /\ Locked /\ Permits /\ WhaleInv

LEMMA MenuInvariance == MenuSpec => []MenuInv
<1>1. menu_init => MenuInv
    BY InitLocked, InitPermits, InitWhales DEF menu_init, MenuInv
<1>2. MenuInv /\ [MenuNext]_allVars => MenuInv'
  <2> SUFFICES ASSUME MenuInv, [MenuNext]_allVars PROVE MenuInv'
      OBVIOUS
  <2>1. CASE UNCHANGED whaleVars /\ [Next]_vars
    <3>1. WhaleInv'
        BY <2>1 DEF MenuInv, whaleVars, WhaleInv, WhaleTypes, WhaleCounts, Counted, WhaleQueues, NoFullMatchWaits,
                    Whale!SomeKindMissing
    <3> QED BY <2>1, <3>1, TypesStep, LockedStep, PermitsStep DEF MenuInv
  <2>2. ASSUME NEW w \in Whale!Whales, whalemating(w) PROVE MenuInv'
    <3>1. WhaleInv' BY <2>2, WhalesStep DEF whalemating, MenuInv
    <3>2. UNCHANGED vars BY <2>2 DEF whalemating
    <3> QED BY <3>1, <3>2, TypesStep, LockedStep, PermitsStep DEF MenuInv
  <2>3. ASSUME NEW c \in Cars, stoplight(c) PROVE MenuInv'
      BY <2>1, <2>3 DEF stoplight, Next
  <2>4. CASE UNCHANGED allVars BY <2>1, <2>4 DEF allVars
  <2> QED BY <2>2, <2>3, <2>4 DEF MenuNext
<1> QED BY <1>1, <1>2, PTL DEF MenuSpec

\* Cars and whales started from the menu: no collision, no gridlock, for any
\* number of cars.
THEOREM MenuCarsSafe == MenuSpec => [](OneCarPerQuadrant /\ NoGridlock)
<1>1. MenuInv => OneCarPerQuadrant /\ NoGridlock
    BY WhereLocked, FourWaiting DEF MenuInv, NoGridlock
<1> QED BY <1>1, MenuInvariance, PTL

\* male, female and matchmaker never leave one whale of each kind in cv_wait at
\* the same time, for any number of whales: the counters say who waits, although
\* a whale that was signalled is counted until it has run.
THEOREM SomeKindIsMissing == MenuSpec => []NoFullMatchWaits
<1>1. MenuInv => NoFullMatchWaits BY DEF MenuInv, WhaleInv
<1> QED BY <1>1, MenuInvariance, PTL
=============================================================================
