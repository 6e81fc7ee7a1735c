--------------------------- MODULE SynchProblems ---------------------------
(***************************************************************************)
(* The two synchronization problems as the menu starts them: "sp1" runs    *)
(* whalemating() and "sp2" runs stoplight(), and each driver comes back to *)
(* the prompt when all its threads have ended, so the problems never run   *)
(* at the same time.                                                       *)
(***************************************************************************)
EXTENDS Stoplight

CONSTANT NMATING   \* whales of each kind; 10 in drivers.c

ASSUME MatingAssumption == NMATING \in Nat

VARIABLES command,           \* what was typed at the menu
          noOf, cv, whalepc  \* the whales

Whale == INSTANCE Whalemating WITH pc <- whalepc

whaleVars == <<noOf, cv, whalepc>>
allVars == <<command, vars, whaleVars>>

menu_init == /\ command \in {"sp1", "sp2"}
             /\ Init
             /\ Whale!Init

\* A car thread that stoplight() forked takes a step.
stoplight(c) == /\ command = "sp2"
                /\ Step(c)
                /\ UNCHANGED <<command, whaleVars>>

\* A whale thread that whalemating() forked takes a step.
whalemating(w) == /\ command = "sp1"
                  /\ Whale!Match(w) \/ Whale!Wait(w) \/ Whale!Resume(w)
                  /\ UNCHANGED <<command, vars>>

MenuNext == \/ \E c \in Cars : stoplight(c)
            \/ \E w \in Whale!Whales : whalemating(w)

\* Every thread that can run gets to run.
MenuFairness == /\ \A c \in Cars : WF_allVars(stoplight(c))
                /\ \A w \in Whale!Whales : WF_allVars(whalemating(w))

MenuSpec == menu_init /\ [][MenuNext]_allVars /\ MenuFairness

-----------------------------------------------------------------------------
(* Properties *)

\* Three whales of different kinds never wait at the same time, for all the
\* signals that go to nobody or to a whale on its way out: some kind is always
\* missing.  So whales that are left behind could not have made a match.
NoFullMatchWaits == Whale!SomeKindMissing

\* "sp1": the first match always comes about, and at least one whale of each
\* kind returns from male, female and matchmaker.  (It does not follow that all
\* whales do: a whale that was signalled is counted until it has run, and a
\* second match may be made with it.)
FirstMatchHappens == command = "sp1" => <>(\A k \in Whale!Kinds : Whale!Returned(k) # {})

\* "sp2": no permit and no lock is lost, so that every car gets through the
\* intersection and the driver returns.
EveryCarGetsThrough == command = "sp2" => <>(\A c \in Cars : pc[c] = "gone")
=============================================================================
