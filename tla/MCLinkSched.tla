---------------------------- MODULE MCLinkSched ----------------------------
(* LinkSched under several workloads.                                      *)
EXTENDS LinkSched

Load(c, d, w, n, s, x, h) ==
    [connects |-> c, drops |-> d, writes |-> w, longs |-> n, signals |-> s, closes |-> x, highs |-> h]

\* Links come and go; priorities change; long packets and reconnections.
MCLoads == {Load(3, 1, 3, 0, 0, 1, 0), Load(3, 0, 2, 0, 1, 0, 2), Load(3, 0, 1, 1, 1, 0, 1),
            Load(3, 2, 1, 1, 0, 0, 0)}
=============================================================================
