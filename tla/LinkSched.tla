------------------------------ MODULE LinkSched ------------------------------
(***************************************************************************)
(* How L2CAP shares the controller's ACL buffers among the links: the      *)
(* quotas l2c_link_adjust_allocation gives them, the round-robin service   *)
(* of links that get none, l2c_link_check_send_pkts and the window         *)
(* controller_xmit_window, against the events that come back.              *)
(*                                                                         *)
(* Everything here runs on the BTU task, one event at a time, so an event  *)
(* is one step.  The handlers pass the control block and the link blocks   *)
(* along as one record s.  A packet is the number of ACL segments it       *)
(* needs; the channels of a link share one queue.                          *)
(***************************************************************************)
EXTENDS Integers, Sequences, FiniteSetsExt

CONSTANTS MaxLinks,   \* MAX_L2CAP_LINKS: size of lcb_pool
          NumBufs,    \* num_lm_acl_bufs: the controller's ACL buffers
          HighQuota,  \* L2CAP_HIGH_PRI_MIN_XMIT_QUOTA
          Loads       \* workloads: how often each thing from outside may happen

ASSUME SchedAssumption == {MaxLinks, NumBufs, HighQuota} \subseteq Nat \ {0}

Pool == 1 .. MaxLinks

VARIABLES l2cb,     \* [window, rrquota, rrunacked, check]: the fields of tL2C_CB used here
          lcb,      \* lcb_pool
          hci,      \* per link: segments of a packet the HCI library will hand back
          ctl,      \* per link: packets of its connection in the controller
          orphans,  \* packets in the controller of connections that have no block any more
          lost,     \* ghost: buffers missing from the window
          load      \* what the outside may still do

vars == <<l2cb, lcb, hci, ctl, orphans, lost, load>>

\* l2cu_allocate_lcb clears the block.  passed is a ghost: data wait and the
\* code has declined to arrange for the link to be looked at again.
NewLcb(state) ==
    [state |-> state, high |-> FALSE, quota |-> 0, sent |-> 0, linkq |-> <<>>, chanq |-> <<>>,
     partial |-> FALSE, timer |-> FALSE, passed |-> FALSE]

Init ==
    /\ l2cb = [window |-> NumBufs, rrquota |-> 0, rrunacked |-> 0, check |-> FALSE]
    /\ lcb = [l \in Pool |-> NewLcb("free")]
    /\ hci = [l \in Pool |-> 0] /\ ctl = [l \in Pool |-> 0] /\ orphans = 0
    /\ lost = 0 /\ load \in Loads

\* The record the handlers work on, and the step that stores it.
Now      == [b |-> l2cb, lcb |-> lcb, hci |-> hci, ctl |-> ctl]
Store(s) == l2cb' = s.b /\ lcb' = s.lcb /\ hci' = s.hci /\ ctl' = s.ctl

Spend(what) == load[what] > 0 /\ load' = [load EXCEPT ![what] = @ - 1]
InUse(s)    == {l \in Pool : s.lcb[l].state # "free"}

-----------------------------------------------------------------------------
(* Sending.                                                                *)

\* Where a link is left with room in its quota: the flow control timer looks
\* at it again if its own queue holds something.  It is passed over if only its
\* channels hold something, or if it comes to have no quota and the round robin
\* is not noted as due.
Rearm(s, l) ==
    LET b == s.lcb[l]
        room == b.sent < b.quota
        over == IF b.quota = 0 THEN ~s.b.check /\ b.linkq \o b.chanq # <<>>
                ELSE room /\ b.linkq = <<>> /\ b.chanq # <<>>
    IN  [s EXCEPT !.lcb[l].timer = @ \/ (room /\ b.linkq # <<>>), !.lcb[l].passed = @ \/ over]

\* l2c_link_send_to_lower: a packet of one segment goes as it is.  Of a longer
\* one a link in round robin sends one segment, another link what the window
\* and its quota allow; the HCI library hands the rest back.
Segments(s, l, p) ==
    IF p = 1 \/ s.lcb[l].quota = 0 THEN 1
    ELSE Min({p, s.b.window, s.lcb[l].quota - s.lcb[l].sent})

\* Variant: a packet of several segments takes one buffer of the window.
SendToLowerOneBuffer(s, l, p) ==
    LET n == Segments(s, l, p) IN
    [s EXCEPT !.b.window = @ - 1, !.b.rrunacked = IF s.lcb[l].quota = 0 THEN @ + n ELSE @,
              !.lcb[l].sent = @ + n, !.lcb[l].partial = @ \/ n < p,
              !.ctl[l] = @ + n, !.hci[l] = p - n]

SendToLower(s, l, p) ==
    LET n == Segments(s, l, p) IN
    [s EXCEPT !.b.window = @ - n, !.b.rrunacked = IF s.lcb[l].quota = 0 THEN @ + n ELSE @,
              !.lcb[l].sent = @ + n, !.lcb[l].partial = @ \/ n < p,
              !.ctl[l] = @ + n, !.hci[l] = p - n]

SendFrom(s, l, q) == SendToLower([s EXCEPT !.lcb[l][q] = Tail(@)], l, Head(s.lcb[l][q]))

Seen(s, l) == [s EXCEPT !.lcb[l].passed = FALSE]

\* A link with a quota: send until the window or the quota is used up, from
\* the link's queue, then (unless this is a single write) from its channels.
Open(s, l) == s.b.window # 0 /\ s.lcb[l].sent < s.lcb[l].quota
SendOpen(s, l, q) == IF Open(s, l) /\ s.lcb[l][q] # <<>> THEN SendFrom(s, l, q) ELSE s
Drain(s, l, q) ==
    LET sent[i \in 0 .. NumBufs] == IF i = 0 THEN s ELSE SendOpen(sent[i - 1], l, q)
    IN  sent[NumBufs]
Direct(s, l, single) ==
    LET linked == Drain(Seen(s, l), l, "linkq")
    IN  IF s.lcb[l].partial \/ s.lcb[l].state # "connected" THEN s
        ELSE Rearm(IF single THEN linked ELSE Drain(linked, l, "chanq"), l)

\* Links without a quota: one packet each, from block start on, while the
\* window and the round-robin quota last.  A single write stops at the first
\* such link whose own queue is empty.
RRFull(s) == s.b.window = 0 \/ s.b.rrunacked >= s.b.rrquota
Serve(t, l, single) ==
    LET s == t.s
        b == s.lcb[l]
    IN  IF t.stop \/ RRFull(s) THEN [s |-> s, stop |-> TRUE]
        ELSE IF b.state # "connected" \/ b.partial \/ b.quota # 0 THEN t
        ELSE IF b.linkq # <<>> THEN [s |-> SendFrom(Seen(s, l), l, "linkq"), stop |-> FALSE]
        ELSE IF single THEN [s |-> s, stop |-> TRUE]
        ELSE IF b.chanq # <<>> THEN [s |-> SendFrom(Seen(s, l), l, "chanq"), stop |-> FALSE]
        ELSE t
InTurn(start, i) == ((start + i - 2) % MaxLinks) + 1
ServeAll(s, start, single) ==
    LET served[i \in 0 .. MaxLinks] ==
            IF i = 0 THEN [s |-> s, stop |-> FALSE]
            ELSE Serve(served[i - 1], InTurn(start, i), single)
    IN  served[MaxLinks].s
RoundRobin(s, start, single) ==
    LET served == ServeAll(s, start, single)
    IN  [served EXCEPT !.b.check = @ /\ RRFull(served)]

\* l2c_link_check_send_pkts, for link l and for no link in particular.
CheckSendPkts(s, l, single) ==
    IF s.lcb[l].quota = 0 THEN RoundRobin(s, IF single THEN l ELSE l + 1, single)
    ELSE Direct(s, l, single)
CheckAll(s) == RoundRobin(s, 1, FALSE)

\* A packet joins a queue of the link; without a quota, round robin is due.
\* Variant: round robin is not noted as due.
EnqueueUnnoted(s, l, q, p) == [s EXCEPT !.lcb[l][q] = Append(@, p)]

Enqueue(s, l, q, p) ==
    [s EXCEPT !.lcb[l][q] = Append(@, p), !.b.check = @ \/ s.lcb[l].quota = 0]
Signal(s, l)          == CheckSendPkts(Enqueue(s, l, "linkq", 1), l, FALSE)
SingleWrite(s, l, p)  == CheckSendPkts(Enqueue(s, l, "linkq", p), l, TRUE)

-----------------------------------------------------------------------------
(* Quotas.                                                                 *)

Total(f, S) ==
    LET sum[l \in 0 .. MaxLinks] == IF l = 0 THEN 0 ELSE sum[l - 1] + (IF l \in S THEN f[l] ELSE 0)
    IN  sum[MaxLinks]

\* How many links of the pool are in S.
Count(S) == Total([l \in Pool |-> 1], S)

\* What each link may have in the controller.  The high priority links get up to
\* HighQuota each, but leave one buffer for the others; the others share the
\* rest, the first ones taking the remainder, or go round robin (no quota) if it
\* is not enough for one each.
Quotas(use, hi) ==
    LET low   == use \ hi
        n     == Count(low)
        hq    == Max({0} \cup {h \in 1 .. HighQuota : Count(hi) * h + Min({n, 1}) <= NumBufs})
        lq    == Max({1, NumBufs - Count(hi) * hq})
        Share(l) == IF n > lq THEN 0
                    ELSE (lq \div n) + (IF Count({m \in low : m < l}) < lq % n THEN 1 ELSE 0)
    IN  [quota |-> [l \in use |-> IF l \in hi THEN hq ELSE Share(l)], rr |-> IF n > lq THEN lq ELSE 0]

\* l2c_link_adjust_allocation.  What a link has outstanding when it loses its
\* quota to the round robin is counted there.
Assign(s, l, q) ==
    LET b == s.lcb[l]
        joins == b.quota > 0 /\ ~b.high /\ q.rr > 0
        r == [s EXCEPT !.lcb[l].quota = q.quota[l], !.b.rrunacked = IF joins THEN @ + b.sent ELSE @]
    IN  IF b.state = "free" THEN s ELSE IF b.state = "connected" THEN Rearm(r, l) ELSE r
AssignAll(s, q) ==
    LET assigned[l \in 0 .. MaxLinks] == IF l = 0 THEN s ELSE Assign(assigned[l - 1], l, q)
    IN  assigned[MaxLinks]
AdjustAllocation(s) ==
    LET use == InUse(s)
        q   == Quotas(use, {l \in use : s.lcb[l].high})
    IN  IF use = {} THEN [s EXCEPT !.b.window = NumBufs, !.b.rrquota = 0, !.b.rrunacked = 0]
        ELSE AssignAll([s EXCEPT !.b.rrquota = q.rr, !.b.rrunacked = IF q.rr > 0 THEN @ ELSE 0], q)

-----------------------------------------------------------------------------
(* Links come and go.                                                      *)

\* l2cu_allocate_lcb takes the first free block, for a connection made or
\* accepted; its share counts from here on.
AllocateLcb(l) ==
    /\ lcb[l].state = "free" /\ (\A m \in 1 .. l - 1 : lcb[m].state # "free") /\ Spend("connects")
    /\ Store(AdjustAllocation([Now EXCEPT !.lcb[l] = NewLcb("connecting")]))
    /\ UNCHANGED <<orphans, lost>>

\* l2c_link_hci_conn_comp: the information request is sent, and then the link's
\* timer is stopped, whoever started it.
ConnComp(l) ==
    /\ lcb[l].state = "connecting"
    /\ LET s == Signal([Now EXCEPT !.lcb[l].state = "connected"], l)
       IN  Store([s EXCEPT !.lcb[l].timer = FALSE, !.lcb[l].passed = @ \/ s.lcb[l].timer])
    /\ UNCHANGED <<orphans, lost, load>>

\* l2cu_release_lcb.  With no link left the window is set to all buffers.
ReleaseLcb(s, l) == AdjustAllocation([s EXCEPT !.lcb[l] = NewLcb("free"), !.hci[l] = 0])
LastLink(l)      == InUse(Now) = {l}

ConnFailed(l) ==
    /\ lcb[l].state = "connecting" /\ Spend("drops") /\ Store(ReleaseLcb(Now, l))
    /\ lost' = IF LastLink(l) THEN -orphans ELSE lost
    /\ UNCHANGED orphans

\* The link is idle and L2CAP disconnects it (l2c_link_timeout).
Disconnect(l) ==
    /\ lcb[l].state = "connected" /\ lcb[l].chanq = <<>> /\ Spend("drops")
    /\ lcb' = [lcb EXCEPT ![l].state = "disconnecting", ![l].timer = FALSE]
    /\ UNCHANGED <<l2cb, hci, ctl, orphans, lost>>

\* l2c_link_hci_disc_comp: the channels go, with their data; the controller
\* drops what it holds for the link and does not report it.  A channel asked
\* for while the link was going down makes the block connect again as it is.
DiscComp(l) ==
    /\ \/ lcb[l].state = "connected" /\ Spend("drops")
       \/ lcb[l].state = "disconnecting" /\ UNCHANGED load
    /\ Store(ReleaseLcb([Now EXCEPT !.ctl[l] = 0], l))
    /\ lost' = IF LastLink(l) THEN -orphans ELSE lost + ctl[l]
    /\ UNCHANGED orphans

Reconnect(l) ==
    /\ lcb[l].state = "disconnecting" /\ Spend("connects")
    /\ Store([Now EXCEPT !.ctl[l] = 0, !.hci[l] = 0, !.lcb[l].state = "connecting", !.lcb[l].chanq = <<>>])
    /\ lost' = lost + ctl[l]
    /\ UNCHANGED orphans

\* l2c_link_timeout while disconnecting: the block is released although the
\* controller still has the connection and its packets.
DiscTimeout(l) ==
    /\ lcb[l].state = "disconnecting"
    /\ Store(ReleaseLcb([Now EXCEPT !.ctl[l] = 0], l))
    /\ orphans' = orphans + ctl[l] /\ lost' = IF LastLink(l) THEN -orphans' ELSE lost
    /\ UNCHANGED load

\* L2CA_SetAclPriority.
SetAclPriority(l) ==
    /\ lcb[l].state = "connected" /\ Spend("highs")
    /\ ~lcb[l].high => \A m \in Pool : ~lcb[m].high
    /\ Store(AdjustAllocation([Now EXCEPT !.lcb[l].high = ~@]))
    /\ UNCHANGED <<orphans, lost>>

-----------------------------------------------------------------------------
(* Traffic.                                                                *)

\* L2CA_DataWrite on an open channel: l2c_enqueue_peer_data, then a look at
\* the link.
DataWrite(l, p) ==
    /\ lcb[l].state = "connected" /\ Spend(IF p = 1 THEN "writes" ELSE "longs")
    /\ Store(CheckSendPkts(Enqueue(Now, l, "chanq", p), l, FALSE))
    /\ UNCHANGED <<orphans, lost>>

\* Any signalling packet, sent through the link's own queue.
SendSignal(l) ==
    /\ lcb[l].state = "connected" /\ Spend("signals") /\ Store(Signal(Now, l))
    /\ UNCHANGED <<orphans, lost>>

\* l2cu_send_peer_disc_req: what a basic mode channel still holds goes to the
\* link's queue, packet by packet, and the request after it.
SendDiscReq(l) ==
    /\ lcb[l].state = "connected" /\ lcb[l].chanq # <<>> /\ Spend("closes")
    /\ LET moved[i \in 0 .. Len(lcb[l].chanq)] ==
               IF i = 0 THEN [Now EXCEPT !.lcb[l].chanq = <<>>]
               ELSE SingleWrite(moved[i - 1], l, lcb[l].chanq[i])
       IN  Store(Signal(moved[Len(lcb[l].chanq)], l))
    /\ UNCHANGED <<orphans, lost>>

\* l2c_link_process_num_completed_pkts, for one handle.
Less(a, n) == IF a > n THEN a - n ELSE 0
CompletedOne(s, l, n) ==
    LET b == s.lcb[l]
        u == IF b.quota = 0 THEN Less(s.b.rrunacked, n) ELSE s.b.rrunacked
        t == CheckSendPkts([s EXCEPT !.b.window = s.b.window + n, !.b.rrunacked = u,
                                     !.lcb[l].sent = Less(b.sent, n), !.ctl[l] = s.ctl[l] - n], l, FALSE)
    IN  IF b.high /\ t.b.check /\ t.b.rrunacked < t.b.rrquota THEN CheckAll(t) ELSE t
NumCompletedPkts(l) ==
    /\ \E n \in 1 .. ctl[l] : Store(CompletedOne(Now, l, n))
    /\ UNCHANGED <<orphans, lost, load>>

\* The same for a handle that has no block: only the window is told.
NumCompletedUnknown ==
    /\ orphans > 0 /\ orphans' = orphans - 1 /\ l2cb' = [l2cb EXCEPT !.window = @ + 1]
    /\ UNCHANGED <<lcb, hci, ctl, lost, load>>

\* l2c_link_segments_xmitted: the rest of the packet goes to the head of the
\* queue; on a link that is not connected it is freed.
SegmentsXmitted(l) ==
    /\ hci[l] > 0
    /\ Store(LET s == [Now EXCEPT !.hci[l] = 0]
             IN  IF lcb[l].state # "connected" THEN s
                 ELSE CheckSendPkts([s EXCEPT !.lcb[l].linkq = <<hci[l]>> \o @, !.lcb[l].partial = FALSE],
                                    l, FALSE))
    /\ UNCHANGED <<orphans, lost, load>>

\* l2c_link_timeout on a connected link: "Check in case we were flow controlled".
LinkTimeout(l) ==
    /\ lcb[l].timer /\ lcb[l].state = "connected"
    /\ Store(CheckSendPkts([Now EXCEPT !.lcb[l].timer = FALSE], l, FALSE))
    /\ UNCHANGED <<orphans, lost, load>>

Outside(l) == \/ AllocateLcb(l) \/ ConnComp(l) \/ ConnFailed(l) \/ Disconnect(l) \/ DiscComp(l)
              \/ Reconnect(l) \/ DiscTimeout(l) \/ SetAclPriority(l)
              \/ (\E p \in {1, 2} : DataWrite(l, p)) \/ SendSignal(l) \/ SendDiscReq(l)
Served(l)  == NumCompletedPkts(l) \/ SegmentsXmitted(l) \/ LinkTimeout(l)

Next == NumCompletedUnknown \/ \E l \in Pool : Outside(l) \/ Served(l)

\* The controller sends or drops what it holds, the HCI library hands back what
\* it has sent in part, and a timer that runs fires.
Fairness ==
    /\ []<>(orphans = 0) \/ []<><<NumCompletedUnknown>>_vars
    /\ \A l \in Pool :
        /\ []<>(ctl[l] = 0) \/ []<><<NumCompletedPkts(l)>>_vars
        /\ []<>(hci[l] = 0) \/ []<><<SegmentsXmitted(l)>>_vars
        /\ []<>(~lcb[l].timer \/ l2cb.window = 0) \/ []<><<LinkTimeout(l)>>_vars

Spec == Init /\ [][Next]_vars /\ Fairness

-----------------------------------------------------------------------------
(* Properties.                                                             *)

InController == Total(ctl, Pool) + orphans
RRLinks      == {l \in Pool : lcb[l].state # "free" /\ lcb[l].quota = 0}

\* The window is what the controller has free, less what went with connections
\* that ended with packets outstanding while other links stayed up
\* (l2cu_release_lcb does not give it back), more what a connection without a
\* block still holds when the last block is released (the window is then set to
\* all buffers).  A link counts at least its packets in the controller.
WindowExact ==
    /\ l2cb.window = NumBufs - InController - lost
    /\ InController <= NumBufs \/ lost < 0
    /\ \A l \in Pool : lcb[l].state # "free" => lcb[l].sent >= ctl[l]

\* Every buffer of the controller is accounted for (WindowExact), so without such
\* an end the controller is never sent more than it can hold and never less than
\* it could; and the communal count covers what the links in round robin have in
\* the controller, so that the code does not compare too small a count with the
\* round-robin quota.  The last needs two buffers or more: with one, a high
\* priority link loses its quota to the others and round_robin_unacked is cleared
\* with its packet outstanding.
WindowAccounted == WindowExact /\ l2cb.rrunacked >= Total(ctl, RRLinks)

Waiting(l) == lcb[l].state = "connected" /\ (lcb[l].linkq # <<>> \/ lcb[l].chanq # <<>>)

\* The ways a link is left with data and nobody to send them: the whole window
\* is lost; a segment came back while the link was down and the block was used
\* again; the link has room but was passed over (Rearm looks at the link's own
\* queue only, ConnComp stops the timer); the block counts packets of an earlier
\* connection; links that left the round robin are still in its count.
Stranded(l) ==
    \/ lost >= NumBufs
    \/ lcb[l].partial /\ hci[l] = 0
    \/ lcb[l].passed
    \/ lcb[l].quota > 0 /\ lcb[l].sent - ctl[l] >= lcb[l].quota
    \/ lcb[l].quota = 0 /\ l2cb.rrunacked > Total(ctl, RRLinks)

\* What is written to a link is sent: from some point on no link that stays up
\* has data waiting, whatever the quotas, the priorities and the order of the
\* events, except for the ways listed in Stranded.
DataIsSent == <>[](\A l \in Pool : Waiting(l) => Stranded(l))
=============================================================================
