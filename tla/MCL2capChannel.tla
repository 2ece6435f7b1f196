-------------------------- MODULE MCL2capChannel --------------------------
(***************************************************************************)
(* L2capChannel for TLC: two control blocks at each end and a few          *)
(* workloads, each with the hazards of one part of the code.               *)
(***************************************************************************)
EXTENDS L2capChannel

\* One channel of A in basic mode over a link that works.
One ==
  [room |-> [A |-> 2, B |-> 2], connects |-> [A |-> 1, B |-> 0], modes |-> [e \in End |-> {"basic"}],
   security |-> {"ok"}, losses |-> 0, pagefails |-> 0, rejects |-> 0,
   closes |-> 0, early |-> 0]

Both == {"basic", "ertm"}

\* The link is lost while the users open and close, or a timer is early.
Losses ==
  {[One EXCEPT !.losses = 1, !.closes = 1], [One EXCEPT !.losses = 1, !.early = 1]}

\* A prefers ERTM; a user refuses a configuration once.
Modes ==
  {[One EXCEPT !.modes["A"] = Both, !.rejects = 1, !.early = 1],
   [One EXCEPT !.modes["A"] = Both, !.rejects = 1, !.closes = 1],
   [One EXCEPT !.modes = [e \in End |-> Both], !.rejects = 1, !.closes = 1],
   [One EXCEPT !.modes = [e \in End |-> Both], !.early = 1],
   [One EXCEPT !.modes = [A |-> Both, B |-> {"ertm"}], !.early = 1],
   [One EXCEPT !.modes["A"] = {"ertm"}, !.early = 1]}

\* Security that is granted, refused, started or delayed.
Security ==
  {[One EXCEPT !.security = {"ok", "no", "started", "delay"}, !.early = 1, !.closes = 1]}

\* Two channels of A, B with room for one of them, and a channel of each end
\* at the same time.
Two ==
  {[One EXCEPT !.connects["A"] = 2, !.security = {"ok", "no", "started"}],
   [One EXCEPT !.connects["A"] = 2, !.room["B"] = 1],
   [One EXCEPT !.connects["B"] = 1, !.security = {"ok", "no"}, !.pagefails = 1]}

MCWorkloads == Losses \union Modes \union Security \union Two
=============================================================================
