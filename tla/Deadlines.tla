----------------------------- MODULE Deadlines -----------------------------
(***************************************************************************)
(* What a timer list promises: each entry has its own time to go, its      *)
(* callback is called once, when that is over, and setting, cancelling or  *)
(* expiring one entry leaves the time of the others alone.                 *)
(***************************************************************************)
EXTENDS Integers

CONSTANTS Entries, Timeouts, MaxUnits, None

VARIABLES rem,  \* time to go of each entry, -1 when it is not in the list
          call  \* the entry whose callback is running, or None

vars == <<rem, call>>

Init == rem = [t \in Entries |-> -1] /\ call = None

Set(t, n) == rem' = [rem EXCEPT ![t] = n] /\ UNCHANGED call
Cancel(t) == rem' = [rem EXCEPT ![t] = -1] /\ UNCHANGED call

\* k units go by.
Advance(k) ==
    /\ rem' = [t \in Entries |-> IF rem[t] > k THEN rem[t] - k ELSE IF rem[t] >= 0 THEN 0 ELSE -1]
    /\ UNCHANGED call

Expire(t) == rem[t] = 0 /\ rem' = [rem EXCEPT ![t] = -1] /\ call' = t
Return    == call' = None /\ UNCHANGED rem

Next == \/ \E t \in Entries, n \in Timeouts : Set(t, n)
        \/ \E t \in Entries : Cancel(t) \/ Expire(t)
        \/ \E k \in 1 .. MaxUnits : Advance(k)
        \/ Return

Spec == Init /\ [][Next]_vars
=============================================================================
