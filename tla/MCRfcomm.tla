------------------------------ MODULE MCRfcomm ------------------------------
(***************************************************************************)
(* Two devices for TLC.  What the users do and what fails is bounded by    *)
(* the workloads below; every behaviour follows one of them, in any order  *)
(* of its steps.                                                           *)
(***************************************************************************)
EXTENDS Rfcomm

None == <<0, 0>>

\* Device 1 connects to a server of device 2.
Base ==
  [servers |-> <<0, 1>>, clients |-> <<1, 0>>, closes |-> None, writes |-> None, holds |-> None,
   purges |-> None, refusals |-> None, denials |-> 0, rejects |-> 0, losses |-> 0, jams |-> None,
   early |-> 0, late |-> FALSE, sock |-> FALSE, short |-> FALSE, abort |-> "no"]

\* Both connect to each other, at any time.
Mutual == [Base EXCEPT !.servers = <<1, 1>>, !.clients = <<1, 1>>]

\* Data against holds, purges, congestion and a socket that has no room.
DataFlow ==
  UNION {{[Base EXCEPT !.writes = <<5, 1>>, !.holds = <<1, 1>>, !.purges = <<1, 1>>, !.short = b],
          [Base EXCEPT !.writes = <<5, 2>>, !.sock = TRUE, !.refusals = <<0, 2>>, !.holds = <<0, 1>>, !.short = b]}
         : b \in BOOLEAN}
  \union {[Base EXCEPT !.writes = <<4, 0>>, !.jams = <<1, 1>>, !.holds = <<0, 1>>, !.purges = <<0, 1>>],
          [Base EXCEPT !.writes = <<3, 1>>, !.sock = TRUE, !.closes = <<1, 1>>, !.refusals = <<1, 1>>]}

\* Connections that are closed, refused or lost, and opened again; a quick close
\* under congestion.
Again ==
  UNION {{[Base EXCEPT !.clients = <<2, 0>>, !.closes = <<1, 1>>, !.writes = <<1, 1>>, !.short = b],
          [Base EXCEPT !.clients = <<2, 0>>, !.closes = <<2, 1>>, !.denials = 1,
                       !.abort = IF b THEN "authenticating" ELSE "no"]}
         : b \in BOOLEAN}
  \union {[Base EXCEPT !.clients = <<2, 0>>, !.closes = <<1, 1>>, !.rejects = 1, !.losses = 1],
          [Base EXCEPT !.clients = <<2, 0>>, !.closes = <<1, 1>>, !.servers = <<0, 2>>, !.writes = <<1, 1>>],
          [Base EXCEPT !.clients = <<2, 0>>, !.closes = <<1, 0>>, !.early = 1],
          [Base EXCEPT !.writes = <<1, 0>>, !.closes = <<1, 0>>, !.jams = <<1, 1>>]}

\* Both devices connect at once; what closing one connection does to the other,
\* with requests for access in both directions and with congestion.
Collisions ==
  {[Mutual EXCEPT !.closes = <<1, 1>>],
   [Mutual EXCEPT !.closes = <<1, 0>>, !.denials = 1, !.rejects = 1],
   [Mutual EXCEPT !.closes = <<1, 0>>, !.early = 1],
   [Mutual EXCEPT !.closes = <<1, 0>>, !.abort = "authorizing"],
   [Mutual EXCEPT !.closes = <<1, 0>>, !.abort = "authenticating"],
   [Mutual EXCEPT !.writes = <<1, 0>>, !.jams = <<1, 0>>],
   [Mutual EXCEPT !.writes = <<1, 0>>, !.jams = <<0, 1>>],
   [Mutual EXCEPT !.servers = <<1, 0>>, !.writes = <<1, 0>>, !.closes = <<1, 0>>, !.jams = <<1, 0>>]}

MCWorkloads == DataFlow \union Again \union Collisions
=============================================================================
