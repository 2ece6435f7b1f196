------------------------------- MODULE MCErtm -------------------------------
(* Workloads for Ertm: data both ways, so that each end can be left waiting *)
(* for the other; a user that stops the flow while data goes both ways; and *)
(* a stream long enough for the sequence numbers to wrap around, with SDUs  *)
(* of one piece and of several.                                            *)
EXTENDS Ertm

Load(sdus, times, frames) == [sdus |-> sdus, busy |-> times, wire |-> frames]

MCWorkloads ==
    {[A |-> Load(<<1, 1>>, 0, 0), B |-> Load(<<1, 1>>, 0, 0)],
     [A |-> Load(<<1>>, 0, 0), B |-> Load(<<1>>, 1, 0)],
     [A |-> Load(<<1, 3, 1>>, 0, 2), B |-> Load(<<>>, 0, 2)]}
=============================================================================
