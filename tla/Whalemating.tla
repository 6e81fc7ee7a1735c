---------------------------- MODULE Whalemating ----------------------------
(***************************************************************************)
(* The whale mating problem of kern/synchprobs/problems.c: male, female    *)
(* and matchmaker, driven by whalemating() of drivers.c.                   *)
(*                                                                         *)
(* The three functions are one program with the kinds permuted.  All of it *)
(* runs with lk held, except inside cv_wait, so a step here is a section   *)
(* between lock_acquire (or the return of cv_wait) and lock_release (or    *)
(* the call of cv_wait).  cv_wait is taken to be atomic, as synch.h asks   *)
(* and as it is on one CPU (module CondVar): what goes wrong here is not   *)
(* the condition variable's doing.                                         *)
(***************************************************************************)
EXTENDS Naturals, Sequences, FiniteSets

CONSTANT NMATING   \* whales of each kind; 10 in drivers.c

Kinds == {"male", "female", "matchmaker"}
Whales == Kinds \X (1..NMATING)
KindOf(w) == w[1]
Others(k) == Kinds \ {k}

VARIABLES noOf,   \* noOf[k]: noOfMales, noOfFemales, noOfMatchmakers
          cv,     \* cv[k]: the whales asleep on malecv, femalecv, mmcv
          pc      \* "start", "wait", "woken" or "returned"

vars == <<noOf, cv, pc>>

Init == /\ noOf = [k \in Kinds |-> 0]
        /\ cv = [k \in Kinds |-> <<>>]
        /\ pc = [w \in Whales |-> "start"]

\* cv_signal on the condition variables of both other kinds.
Signalled(k) == {Head(cv[j]) : j \in {i \in Others(k) : cv[i] # <<>>}}

\* Mutant: the signals are forgotten.
Match_no_signal(w) ==
  /\ pc[w] = "start"
  /\ \A j \in Others(KindOf(w)) : noOf[j] > 0
  /\ pc' = [pc EXCEPT ![w] = "returned"]
  /\ UNCHANGED <<noOf, cv>>

\* lock_acquire; count oneself; both other kinds are there: signal one of each,
\* end, count oneself out; lock_release.
Match(w) ==
  LET k == KindOf(w) IN
  /\ pc[w] = "start"
  /\ \A j \in Others(k) : noOf[j] > 0
  /\ cv' = [j \in Kinds |-> IF j = k \/ cv[j] = <<>> THEN cv[j] ELSE Tail(cv[j])]
  /\ pc' = [v \in Whales |-> IF v = w THEN "returned" ELSE IF v \in Signalled(k) THEN "woken" ELSE pc[v]]
  /\ UNCHANGED noOf

\* Mutant: a whale waits whether or not the others are there.
Wait_always(w) ==
  /\ pc[w] = "start"
  /\ noOf' = [noOf EXCEPT ![KindOf(w)] = @ + 1]
  /\ cv' = [cv EXCEPT ![KindOf(w)] = Append(@, w)]
  /\ pc' = [pc EXCEPT ![w] = "wait"]

\* lock_acquire; count oneself; somebody is missing: cv_wait.
Wait(w) ==
  LET k == KindOf(w) IN
  /\ pc[w] = "start"
  /\ \E j \in Others(k) : noOf[j] = 0
  /\ noOf' = [noOf EXCEPT ![k] = @ + 1]
  /\ cv' = [cv EXCEPT ![k] = Append(@, w)]
  /\ pc' = [pc EXCEPT ![w] = "wait"]

\* Back from cv_wait with the lock: end, count oneself out; lock_release.
Resume(w) == /\ pc[w] = "woken"
             /\ noOf' = [noOf EXCEPT ![KindOf(w)] = @ - 1]
             /\ pc' = [pc EXCEPT ![w] = "returned"]
             /\ UNCHANGED cv

Next == \E w \in Whales : Match(w) \/ Wait(w) \/ Resume(w)

\* Every whale thread that can run gets to run.
Fairness == \A w \in Whales : WF_vars(Match(w) \/ Wait(w) \/ Resume(w))

Spec == Init /\ [][Next]_vars /\ Fairness

-----------------------------------------------------------------------------
(* Properties *)

Returned(k) == {w \in Whales : KindOf(w) = k /\ pc[w] = "returned"}

\* Some kind has nobody in cv_wait.
SomeKindMissing == \E k \in Kinds : \A w \in Whales : KindOf(w) = k => pc[w] # "wait"
=============================================================================
