------------------------------ MODULE Stoplight ------------------------------
(***************************************************************************)
(* The stoplight problem of kern/synchprobs/problems.c: gostraight,        *)
(* turnleft and turnright, driven by stoplight() of drivers.c.  Four       *)
(* quadrants with a lock each; a car takes the lock of the next quadrant   *)
(* before it leaves the one it is in; allow3sem keeps the fourth car out.  *)
(* Locks and semaphore are those of AbstractLock and AbstractSemaphore.    *)
(***************************************************************************)
EXTENDS Naturals, Sequences

CONSTANTS Cars,    \* the car threads (NCARS of them)
          Nobody

ASSUME CarAssumption == Nobody \notin Cars

Quadrants == 0..3
Nowhere == 4                          \* not in the intersection
Directions == 0..3
Turns == {"gostraight", "turnleft", "turnright"}

\* The quadrants a car passes through, in order.
Route(turn, direction) ==
  CASE turn = "gostraight" -> <<direction, (direction + 3) % 4>>
    [] turn = "turnleft"   -> <<direction, (direction + 3) % 4, (direction + 2) % 4>>
    [] turn = "turnright"  -> <<direction>>

Routes == {Route(turn, direction) : turn \in Turns, direction \in Directions}

VARIABLES quadlock,    \* quadlock[q]: the car that holds the lock of quadrant q
          allow3sem,   \* count of the semaphore
          route,       \* route[c]: what c still has to lock, its next quadrant first
          holds,       \* holds[c]: the quadrant whose lock c will release next, or Nowhere
          pos,         \* pos[c]: the quadrant c is in by its inQuadrant calls
          pc

vars == <<quadlock, allow3sem, route, holds, pos, pc>>

Labels == {"P", "lock", "inQuadrant", "unlock", "leave", "unlock_last", "V", "gone"}

\* stoplight_init, and stoplight()'s thread_fork of every car.
Init == /\ quadlock = [q \in Quadrants |-> Nobody]
        /\ allow3sem = 3
        /\ route = [c \in Cars |-> <<>>]
        /\ holds = [c \in Cars |-> Nowhere]
        /\ pos = [c \in Cars |-> Nowhere]
        /\ pc = [c \in Cars |-> "P"]

Goto(c, l) == pc' = [pc EXCEPT ![c] = l]

\* P(allow3sem) of any of the three functions; the car's turn and direction are
\* random and not looked at before.
Enter(c) == /\ pc[c] = "P"
            /\ allow3sem > 0
            /\ allow3sem' = allow3sem - 1
            /\ \E r \in Routes : route' = [route EXCEPT ![c] = r]
            /\ Goto(c, "lock")
            /\ UNCHANGED <<quadlock, holds, pos>>

\* lock_acquire of the first or of the next quadrant.
LockQuadrant(c) == /\ pc[c] = "lock"
                   /\ quadlock[Head(route[c])] = Nobody
                   /\ quadlock' = [quadlock EXCEPT ![Head(route[c])] = c]
                   /\ Goto(c, "inQuadrant")
                   /\ UNCHANGED <<allow3sem, route, holds, pos>>

\* The car is in the quadrant it locked last: go for the next lock, or leave.
Advance(c) == /\ holds' = [holds EXCEPT ![c] = Head(route[c])]
              /\ route' = [route EXCEPT ![c] = Tail(@)]
              /\ Goto(c, IF Len(route[c]) = 1 THEN "leave" ELSE "lock")

\* Mutant: the quadrant behind is unlocked before the car reports the next one.
InQuadrant_unlock_first(c) ==
  /\ pc[c] = "inQuadrant"
  /\ \/ holds[c] = Nowhere /\ pos' = [pos EXCEPT ![c] = Head(route[c])] /\ Advance(c) /\ UNCHANGED quadlock
     \/ /\ holds[c] # Nowhere
        /\ quadlock' = [quadlock EXCEPT ![holds[c]] = Nobody]
        /\ Goto(c, "unlock") /\ UNCHANGED <<holds, route, pos>>
  /\ UNCHANGED allow3sem

\* inQuadrant(next): the car moves.  Only the first quadrant has none behind it
\* to unlock.
InQuadrant(c) == /\ pc[c] = "inQuadrant"
                 /\ pos' = [pos EXCEPT ![c] = Head(route[c])]
                 /\ \/ holds[c] = Nowhere /\ Advance(c)
                    \/ holds[c] # Nowhere /\ Goto(c, "unlock") /\ UNCHANGED <<holds, route>>
                 /\ UNCHANGED <<quadlock, allow3sem>>

\* lock_release of the quadrant left behind.
UnlockBehind(c) == /\ pc[c] = "unlock"
                   /\ quadlock' = [quadlock EXCEPT ![holds[c]] = Nobody]
                   /\ Advance(c)
                   /\ UNCHANGED <<allow3sem, pos>>

\* leaveIntersection().
Leave(c) == /\ pc[c] = "leave"
            /\ pos' = [pos EXCEPT ![c] = Nowhere]
            /\ Goto(c, "unlock_last")
            /\ UNCHANGED <<quadlock, allow3sem, route, holds>>

\* Mutant: the last quadrant's lock is not released.
UnlockLast_omitted(c) == /\ pc[c] = "unlock_last"
                         /\ holds' = [holds EXCEPT ![c] = Nowhere]
                         /\ Goto(c, "V")
                         /\ UNCHANGED <<quadlock, allow3sem, route, pos>>

\* lock_release of the last quadrant.
UnlockLast(c) == /\ pc[c] = "unlock_last"
                 /\ quadlock' = [quadlock EXCEPT ![holds[c]] = Nobody]
                 /\ holds' = [holds EXCEPT ![c] = Nowhere]
                 /\ Goto(c, "V")
                 /\ UNCHANGED <<allow3sem, route, pos>>

\* Mutant: a car leaves without V(allow3sem).
Exit_no_V(c) == /\ pc[c] = "V"
                /\ Goto(c, "gone")
                /\ UNCHANGED <<quadlock, allow3sem, route, holds, pos>>

\* V(allow3sem), and V(stoplightMenuSemaphore) for the driver.
Exit(c) == /\ pc[c] = "V"
           /\ allow3sem' = allow3sem + 1
           /\ Goto(c, "gone")
           /\ UNCHANGED <<quadlock, route, holds, pos>>

-----------------------------------------------------------------------------
Step(c) == \/ Enter(c) \/ LockQuadrant(c) \/ InQuadrant(c) \/ UnlockBehind(c)
           \/ Leave(c) \/ UnlockLast(c) \/ Exit(c)

Next == \E c \in Cars : Step(c)

\* Every car thread that can run gets to run.
Fairness == \A c \in Cars : WF_vars(Step(c))

Spec == Init /\ [][Next]_vars /\ Fairness

-----------------------------------------------------------------------------
(* Properties *)

\* Every variable has its type; a held lock is a car's.
TypeOK == /\ quadlock \in [Quadrants -> Cars \union {Nobody}]
          /\ allow3sem \in 0..3
          /\ holds \in [Cars -> Quadrants \union {Nowhere}]
          /\ pos \in [Cars -> Quadrants \union {Nowhere}]
          /\ pc \in [Cars -> Labels]
          /\ route \in [Cars -> Seq(Quadrants)]

\* No two cars are in one quadrant.  A car is in a quadrant from its inQuadrant
\* call for it to its next inQuadrant or leaveIntersection call (drivers.c).
OneCarPerQuadrant ==
  \A c, d \in Cars : pos[c] = pos[d] /\ pos[c] # Nowhere => c = d

\* No gridlock: while cars are inside, one of them can move on.  Each holds at
\* most the quadrant it is in while it waits for the next one, counterclockwise;
\* four cars could close the circle, which is what allow3sem is for.
Inside == {c \in Cars : pc[c] \notin {"P", "gone"}}
NoGridlock ==
  Inside # {} => \E c \in Inside : pc[c] = "lock" => quadlock[Head(route[c])] = Nobody
=============================================================================
