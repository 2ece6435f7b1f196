----------------------------- MODULE TaskTimers -----------------------------
(***************************************************************************)
(* What the GKI task timers promise: a timer started for n ticks fires at  *)
(* the n-th tick, and at every n-th tick after that if it is continuous,   *)
(* unless it is stopped or started again first.                            *)
(***************************************************************************)
EXTENDS Integers

CONSTANTS Slots, Durations

VARIABLES left,   \* ticks until each timer fires, 0 when it is not running
          again,  \* ticks it is restarted with, 0 for a one-shot timer
          fired   \* timers whose event is pending for their task

vars == <<left, again, fired>>

Init == /\ left = [s \in Slots |-> 0] /\ again = [s \in Slots |-> 0] /\ fired = {}

Start(s, n, r) ==
    /\ left' = [left EXCEPT ![s] = n] /\ again' = [again EXCEPT ![s] = r]
    /\ UNCHANGED fired

Stop(s) ==
    /\ left' = [left EXCEPT ![s] = 0] /\ again' = [again EXCEPT ![s] = 0]
    /\ UNCHANGED fired

Tick ==
    /\ left' = [s \in Slots |-> IF left[s] > 1 THEN left[s] - 1
                                ELSE IF left[s] = 1 THEN again[s] ELSE 0]
    /\ fired' = fired \cup {s \in Slots : left[s] = 1}
    /\ UNCHANGED again

Take(S) == fired' = fired \ S /\ UNCHANGED <<left, again>>

Next == \/ \E s \in Slots, n \in Durations : Start(s, n, 0) \/ Start(s, n, n)
        \/ \E s \in Slots : Stop(s)
        \/ \E S \in SUBSET fired : Take(S)
        \/ Tick

Spec == Init /\ [][Next]_vars
=============================================================================
