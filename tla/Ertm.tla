-------------------------------- MODULE Ertm --------------------------------
(* Enhanced retransmission mode of L2CAP (l2c_fcr.c): the two ends of an   *)
(* open channel, each running this code, over a link that keeps the order  *)
(* of frames but corrupts some. A handler is an operator from the channel  *)
(* control block of one end to its next value; the frames it sends collect *)
(* in the field "out". The bytes of an SDU are pieces of one PDU each,     *)
(* numbered along the stream: the lengths <<1, 2>> are an SDU of one piece *)
(* followed by one of two.                                                 *)
EXTENDS Integers, FiniteSets, Sequences, SequencesExt

CONSTANTS
    Workloads,    \* for each end: the lengths of the SDUs its user writes, and two
                  \*   bounds: how often the user stops the flow of data, and how
                  \*   many frames are under way when it or a timer acts
    Modulo,       \* number of sequence numbers (64 in the code)
    TxWin,        \* tx_win_sz, the same at both ends
    MaxTransmit,  \* max_transmit, 0 for no limit
    HeldAcks      \* max_held_acks: tx_win_sz / 3

ASSUME ErtmConstants ==
    /\ Modulo \in Nat \ {0} /\ TxWin \in 1 .. Modulo \div 2
    /\ MaxTransmit \in Nat /\ HeldAcks \in Nat

VARIABLES
    ccb,     \* ccb[e]: the channel control block of end e
    wire,    \* wire[e]: the frames end e has sent and its peer has not seen
    written, \* written[e]: how many SDUs the user of e has written
    busy,    \* busy[e]: how often the user of e has stopped the flow
    load     \* the workload, chosen at the start

vars == <<ccb, wire, written, busy, load>>

End == {"A", "B"}
Peer(e) == IF e = "A" THEN "B" ELSE "A"

(* SDU n of end e as the sequence of its pieces. *)
Sdu(e, n) == LET lens == load[e].sdus
                 first == FoldLeft(LAMBDA a, b : a + b, 1, SubSeq(lens, 1, n - 1))
             IN [i \in 1 .. lens[n] |-> first + i - 1]

Inc(s) == IF s = Modulo - 1 THEN 0 ELSE s + 1
Dist(a, b) == IF a >= b THEN a - b ELSE a - b + Modulo

NoSdu == [len |-> 0, got |-> <<>>]

(* The control block after l2c_fcr_cleanup, in the given channel state. *)
Fresh(state, why) ==
    [state |-> state, why |-> why,
     next_tx_seq |-> 0, last_rx_ack |-> 0, next_seq_expected |-> 0, last_ack_sent |-> 0,
     xmit_hold_q |-> <<>>, waiting_for_ack_q |-> <<>>, retrans_q |-> <<>>,
     srej_rcv_hold_q |-> <<>>, p_rx_sdu |-> NoSdu,
     wait_ack |-> FALSE, send_f_rsp |-> FALSE, rej_sent |-> FALSE, srej_sent |-> FALSE,
     rej_after_srej |-> FALSE, local_busy |-> FALSE, remote_busy |-> FALSE,
     num_tries |-> 0, mon_timer |-> FALSE, ack_timer |-> FALSE,
     delivered |-> <<>>, credit |-> 0, out |-> <<>>]

IsOpen(c) == c.state = "open"

(* l2cu_disconnect_chnl: the request goes out and the block is released.  *)
Disconnect(c, why) ==
    [Fresh("closed", why) EXCEPT !.delivered = c.delivered,
                                 !.out = Append(c.out, [t |-> "DISC"])]

StartTimer(c) == [c EXCEPT !.mon_timer = TRUE]
StopTimer(c) == [c EXCEPT !.mon_timer = FALSE]

\* Variant: one frame more than the window.
FlowControlledLate(c) == c.remote_busy \/ Len(c.waiting_for_ack_q) > TxWin

(* l2c_fcr_is_flow_controlled *)
FlowControlled(c) == c.remote_busy \/ Len(c.waiting_for_ack_q) >= TxWin

\* Variant: a frame that is sent again gets a sequence number of its own.
TransmitRenumbered(c, i) ==
    [StartTimer(c) EXCEPT
        !.out = Append(@, [t |-> "I", req |-> c.next_seq_expected,
                           pf |-> IF c.send_f_rsp THEN "F" ELSE "-",
                           seq |-> c.next_tx_seq, sar |-> i.sar, len |-> i.len, pay |-> i.pay]),
        !.send_f_rsp = FALSE, !.last_ack_sent = c.next_seq_expected, !.ack_timer = FALSE]

(* prepare_I_frame: the acknowledgement and the F bit are those of the     *)
(* moment of sending, for a retransmission too.                            *)
Transmit(c, i) ==
    [StartTimer(c) EXCEPT
        !.out = Append(@, [t |-> "I", req |-> c.next_seq_expected,
                           pf |-> IF c.send_f_rsp THEN "F" ELSE "-",
                           seq |-> i.seq, sar |-> i.sar, len |-> i.len, pay |-> i.pay]),
        !.send_f_rsp = FALSE, !.last_ack_sent = c.next_seq_expected, !.ack_timer = FALSE]

(* The next segment of the SDU at the head of xmit_hold_q. *)
Segment(c) ==
    LET sdu == Head(c.xmit_hold_q)
        more == Len(sdu.left) > 1
        sar == CASE more /\ ~sdu.started -> "start" [] more /\ sdu.started -> "cont"
                 [] ~more /\ sdu.started -> "end" [] OTHER -> "unseg"
    IN [seq |-> c.next_tx_seq, sar |-> sar, pay |-> Head(sdu.left),
        len |-> IF sar = "start" THEN Len(sdu.left) ELSE 0]

\* Variant: what is left of an SDU goes behind the SDUs that wait.
SendITurns(c) ==
    IF c.retrans_q # <<>>
    THEN Transmit([c EXCEPT !.retrans_q = Tail(@)], Head(c.retrans_q))
    ELSE LET i == Segment(c)
             sdu == Head(c.xmit_hold_q)
             rest == IF Len(sdu.left) > 1
                     THEN <<[left |-> Tail(sdu.left), started |-> TRUE]>> ELSE <<>>
         IN [Transmit(c, i) EXCEPT !.xmit_hold_q = Tail(@) \o rest,
                                   !.next_tx_seq = Inc(@),
                                   !.waiting_for_ack_q = Append(@, i)]

(* l2c_fcr_get_next_xmit_sdu_seg: what is to be sent again goes first.     *)
SendI(c) ==
    IF c.retrans_q # <<>>
    THEN Transmit([c EXCEPT !.retrans_q = Tail(@)], Head(c.retrans_q))
    ELSE LET i == Segment(c)
             sdu == Head(c.xmit_hold_q)
             rest == IF Len(sdu.left) > 1
                     THEN <<[left |-> Tail(sdu.left), started |-> TRUE]>> ELSE <<>>
         IN [Transmit(c, i) EXCEPT !.xmit_hold_q = rest \o Tail(@),
                                   !.next_tx_seq = Inc(@),
                                   !.waiting_for_ack_q = Append(@, i)]

(* l2cu_get_next_channel_in_rr, for this channel. *)
CanSend(c) ==
    /\ IsOpen(c) /\ ~c.wait_ack /\ ~c.remote_busy
    /\ c.retrans_q # <<>> \/ (c.xmit_hold_q # <<>> /\ ~FlowControlled(c))

(* l2c_link_check_send_pkts, while the controller has buffers: "credit"   *)
(* counts the ones it has left while a handler runs.                       *)
SendPkts(c) ==
    FoldLeft(LAMBDA d, n : IF CanSend(d) /\ d.credit > 0
                           THEN SendI([d EXCEPT !.credit = @ - 1]) ELSE d,
             c, [n \in 1 .. c.credit |-> n])

(* l2c_fcr_send_S_frame: a poll also starts the monitor timer. The frame   *)
(* goes out through l2c_link_check_send_pkts, which sends data behind it.  *)
SendS(c, sup, pf) ==
    IF ~IsOpen(c) THEN c
    ELSE SendPkts([c EXCEPT
             !.wait_ack = @ \/ pf = "P", !.mon_timer = @ \/ pf = "P",
             !.out = Append(@, [t |-> sup, req |-> c.next_seq_expected, pf |-> pf]),
             !.last_ack_sent = c.next_seq_expected, !.ack_timer = FALSE])

ReadyOrNot(c) == IF c.local_busy THEN "RNR" ELSE "RR"

(* The answer to a poll. *)
SendFinal(c) == SendS(c, IF c.srej_sent THEN "SREJ" ELSE ReadyOrNot(c), "F")

\* Variant: the timer is not started again for the frames that remain.
ProcessReqSeqNoTimer(c, f) ==
    LET acked == Dist(f.req, c.last_rx_ack) IN
    IF f.t = "SREJ" /\ f.pf # "P" THEN c
    ELSE IF acked > Len(c.waiting_for_ack_q) THEN Disconnect(c, "reqseq")
    ELSE [c EXCEPT !.last_rx_ack = f.req,
                   !.waiting_for_ack_q = SubSeq(@, acked + 1, Len(@)),
                   !.num_tries = IF acked # 0 THEN 0 ELSE @,
                   !.mon_timer = @ /\ (acked = 0 \/ c.wait_ack)]

(* process_reqseq *)
ProcessReqSeq(c, f) ==
    LET acked == Dist(f.req, c.last_rx_ack)
        Wait(d) == IF d.waiting_for_ack_q # <<>> THEN StartTimer(d) ELSE d
    IN IF f.t = "SREJ" /\ f.pf # "P" THEN Wait(c)
       ELSE IF acked > Len(c.waiting_for_ack_q) THEN Disconnect(c, "reqseq")
       ELSE Wait([c EXCEPT !.last_rx_ack = f.req,
                           !.waiting_for_ack_q = SubSeq(@, acked + 1, Len(@)),
                           !.num_tries = IF acked # 0 THEN 0 ELSE @,
                           !.mon_timer = @ /\ (acked = 0 \/ c.wait_ack)])

(* retransmit_i_frames: the frames of waiting_for_ack_q with those numbers. *)
Retransmit(c, seqs, all) ==
    IF c.waiting_for_ack_q # <<>> /\ MaxTransmit # 0 /\ c.num_tries >= MaxTransmit
    THEN Disconnect(c, "tries")
    ELSE LET again == SelectSeq(c.waiting_for_ack_q, LAMBDA i : i.seq \in seqs)
             Count(d) == IF d.waiting_for_ack_q # <<>>
                         THEN StartTimer([d EXCEPT !.num_tries = @ + 1]) ELSE d
         IN IF again = <<>> /\ ~all THEN c
            ELSE Count(SendPkts([c EXCEPT !.retrans_q = IF all THEN again ELSE @ \o again]))

RetransmitAll(c) == Retransmit(c, 0 .. Modulo - 1, TRUE)

(* process_s_frame *)
ProcessS(c, f) ==
    LET d == IF f.pf = "P" THEN [c EXCEPT !.rej_sent = FALSE, !.send_f_rsp = TRUE] ELSE c
        free == [d EXCEPT !.remote_busy = FALSE]
        Answer(e) == IF e.send_f_rsp THEN [SendFinal(e) EXCEPT !.send_f_rsp = FALSE] ELSE e
    IN Answer(CASE f.t = "RR" -> IF f.pf = "F" \/ d.remote_busy THEN RetransmitAll(free) ELSE free
                [] f.t = "REJ"  -> RetransmitAll(free)
                [] f.t = "RNR"  -> StopTimer([d EXCEPT !.remote_busy = TRUE])
                [] f.t = "SREJ" -> Retransmit(free, {f.req}, FALSE))

(* do_sar_reassembly: a whole SDU goes up to the user; an error closes.    *)
Reassemble(c, i) ==
    LET begins == i.sar \in {"unseg", "start"}
        sdu == IF i.sar = "start" THEN [len |-> i.len, got |-> <<i.pay>>]
               ELSE [c.p_rx_sdu EXCEPT !.got = Append(@, i.pay)]
        fits == IF i.sar = "end" THEN Len(sdu.got) = sdu.len ELSE Len(sdu.got) <= sdu.len
    IN IF begins # (c.p_rx_sdu = NoSdu) \/ (i.sar # "unseg" /\ ~fits) THEN Disconnect(c, "sar")
       ELSE CASE i.sar = "unseg" -> [c EXCEPT !.delivered = Append(@, <<i.pay>>)]
              [] i.sar = "end"   -> [c EXCEPT !.delivered = Append(@, sdu.got), !.p_rx_sdu = NoSdu]
              [] OTHER           -> [c EXCEPT !.p_rx_sdu = sdu]

(* process_i_frame, the frame out of sequence: dropped as a duplicate,     *)
(* held behind the one frame that is missing, or answered with a reject.   *)
OutOfSequence(c, i) ==
    LET lost == Dist(i.seq, c.next_seq_expected)
        hold == [c EXCEPT !.srej_rcv_hold_q = Append(@, i)]
    IN CASE lost >= TxWin -> c
         [] lost < TxWin /\ c.srej_sent ->
              IF i.seq = Inc(Last(c.srej_rcv_hold_q).seq) /\ Len(c.srej_rcv_hold_q) < TxWin
              THEN hold ELSE [c EXCEPT !.rej_after_srej = TRUE]
         [] lost < TxWin /\ ~c.srej_sent /\ c.rej_sent -> c
         [] lost < TxWin /\ ~c.srej_sent /\ ~c.rej_sent /\ lost > 1 ->
              SendS([c EXCEPT !.rej_sent = TRUE, !.ack_timer = FALSE], "REJ", "-")
         [] OTHER -> SendS([hold EXCEPT !.srej_sent = TRUE, !.ack_timer = FALSE], "SREJ", "-")

(* process_i_frame, the end: what is reassembled is acknowledged now or,   *)
(* to save an S-frame, when the acknowledgement timer fires.               *)
Acknowledge(d, delay) ==
    LET unacked == Dist(d.next_seq_expected, d.last_ack_sent)
        wait == delay \/ (unacked < HeldAcks /\ ~d.local_busy)
    IN CASE ~IsOpen(d) \/ unacked = 0 -> d
         [] IsOpen(d) /\ unacked # 0 /\ wait -> [d EXCEPT !.ack_timer = TRUE]
         [] IsOpen(d) /\ unacked # 0 /\ ~wait ->
              IF (d.xmit_hold_q = <<>> \/ FlowControlled(d)) /\ d.srej_rcv_hold_q = <<>>
              THEN SendS(d, ReadyOrNot(d), "-") ELSE d

(* process_i_frame, the expected frame. *)
InSequence(c, i, delay) ==
    Acknowledge(Reassemble([c EXCEPT !.rej_sent = FALSE, !.srej_sent = FALSE,
                                     !.next_seq_expected = Inc(i.seq)], i), delay)

(* process_i_frame, the frame's sequence number; "room" when the user's    *)
(* receive pool has a buffer.                                              *)
Accept(d, i, delay, room) ==
    LET expected == i.seq = d.next_seq_expected IN
    CASE ~IsOpen(d) -> d
         [] IsOpen(d) /\ ~expected /\ d.local_busy -> SendS(d, "RNR", "-")
         [] IsOpen(d) /\ (expected \/ ~d.local_busy) /\ ~room -> d
         [] IsOpen(d) /\ ~expected /\ ~d.local_busy /\ room -> OutOfSequence(d, i)
         [] OTHER -> InSequence(d, i, delay)

(* process_i_frame; "final" when the F bit counts.                         *)
ProcessI(c, i, final, delay, room) ==
    Accept(IF final THEN RetransmitAll(c) ELSE c, i, delay, room)

(* The end of l2c_fcr_proc_pdu: the frames held behind a missing one are   *)
(* processed once it has come, each with its F bit as received.            *)
ProcessHeld(c, room) ==
    LET Reject(e) ==
            IF e.rej_after_srej
            THEN SendS([e EXCEPT !.rej_after_srej = FALSE, !.rej_sent = TRUE], "REJ", "-") ELSE e
        One(d, i) == Reject(IF IsOpen(d) THEN ProcessI(d, i, i.pf = "F", TRUE, room) ELSE d)
        Ready(d) ==
            IF /\ ~d.local_busy /\ ~d.rej_sent /\ ~d.srej_sent
               /\ d.next_seq_expected # d.last_ack_sent
            THEN SendS(d, "RR", "-") ELSE d
    IN IF c.local_busy \/ c.srej_sent \/ c.srej_rcv_hold_q = <<>> THEN c
       ELSE Ready(FoldLeft(One, [c EXCEPT !.srej_rcv_hold_q = <<>>], c.srej_rcv_hold_q))

(* l2c_fcr_proc_pdu: while a poll is unanswered only the answer, or the    *)
(* peer's own poll, is looked at.                                          *)
ProcPdu(c, f, room) ==
    LET final == c.wait_ack
        g == IF f.pf = "F" /\ ~final THEN [f EXCEPT !.pf = "-"] ELSE f
        polled == IF final
                  THEN [c EXCEPT !.wait_ack = FALSE, !.mon_timer = FALSE,
                                 !.num_tries = IF c.waiting_for_ack_q = <<>> THEN 0 ELSE @]
                  ELSE c
        Frame(d) == IF ~IsOpen(d) THEN d
                    ELSE IF f.t = "I" THEN ProcessI(d, f, g.pf = "F", FALSE, room)
                    ELSE ProcessS(d, g)
        Held(e) == IF IsOpen(e) THEN ProcessHeld(e, room) ELSE e
        Data(h) == IF ~IsOpen(h) \/ FlowControlled(h) THEN h ELSE SendPkts(h)
    IN CASE c.wait_ack /\ f.pf # "F" -> IF f.pf = "P" THEN StartTimer(SendFinal(c)) ELSE c
         [] OTHER -> Data(Held(Frame(ProcessReqSeq(polled, g))))

(* l2c_fcr_proc_tout: nothing is sent while a reject is unanswered.        *)
ProcTout(c) ==
    LET d == [c EXCEPT !.mon_timer = FALSE,
                       !.num_tries = IF MaxTransmit # 0 THEN @ + 1 ELSE @]
    IN IF MaxTransmit # 0 /\ d.num_tries > MaxTransmit THEN Disconnect(d, "tries")
       ELSE IF ~d.srej_sent /\ ~d.rej_sent THEN SendS(d, ReadyOrNot(d), "P") ELSE d

(* l2c_fcr_proc_ack_tout *)
ProcAckTout(c) ==
    LET d == [c EXCEPT !.ack_timer = FALSE]
    IN IF ~d.wait_ack /\ d.last_ack_sent # d.next_seq_expected
       THEN SendS(d, ReadyOrNot(d), "-") ELSE d
-----------------------------------------------------------------------------
(* The end e runs handler h while the controller has a number of buffers   *)
(* free; what it sends goes on the wire.                                   *)
Run(e, buffers, h(_)) ==
    \E n \in buffers :
        LET c == h([ccb[e] EXCEPT !.credit = n]) IN
        /\ ccb' = [ccb EXCEPT ![e] = [c EXCEPT !.out = <<>>, !.credit = 0]]
        /\ wire' = [wire EXCEPT ![e] = @ \o c.out]

AnyBuffers == 0 .. TxWin

Quiet(e) == IsOpen(ccb[e]) /\ Len(wire[e]) <= load[e].wire

(* L2CA_DataWrite *)
DataWrite(e) ==
    /\ Quiet(e) /\ written[e] < Len(load[e].sdus)
    /\ written' = [written EXCEPT ![e] = @ + 1]
    /\ Run(e, AnyBuffers, LAMBDA c : SendPkts([c EXCEPT !.xmit_hold_q =
                  Append(@, [left |-> Sdu(e, written[e] + 1), started |-> FALSE])]))
    /\ UNCHANGED <<busy, load>>

(* The controller has a buffer again (number of completed packets).       *)
CompletedPkts(e) ==
    /\ Quiet(e) /\ CanSend(ccb[e])
    /\ Run(e, {1}, SendPkts)
    /\ UNCHANGED <<written, busy, load>>

(* L2CA_FlowControl: the peer is told, unless a poll is unanswered.        *)
FlowControl(e, on) ==
    /\ Quiet(e) /\ ccb[e].local_busy # on /\ (on => busy[e] < load[e].busy)
    /\ busy' = [busy EXCEPT ![e] = IF on THEN @ + 1 ELSE @]
    /\ Run(e, AnyBuffers, LAMBDA c :
              LET d == [c EXCEPT !.local_busy = on] IN
              IF d.wait_ack THEN d
              ELSE IF on THEN SendS(d, "RNR", "-") ELSE SendS(d, "RR", "P"))
    /\ UNCHANGED <<written, load>>

(* The next frame of the peer arrives whole. *)
Receive(e) ==
    LET p == Peer(e)  f == Head(wire[p]) IN
    /\ wire[p] # <<>>
    /\ \E n \in AnyBuffers, room \in BOOLEAN :
          LET c == [ccb[e] EXCEPT !.credit = n]
              d == IF ~IsOpen(c) THEN c
                   ELSE IF f.t = "DISC"
                        THEN [Fresh("closed", "peer") EXCEPT !.delivered = c.delivered]
                        ELSE ProcPdu(c, f, room)
          IN /\ ccb' = [ccb EXCEPT ![e] = [d EXCEPT !.out = <<>>, !.credit = 0]]
             /\ wire' = [wire EXCEPT ![p] = Tail(@), ![e] = @ \o d.out]
    /\ UNCHANGED <<written, busy, load>>

(* l2c_fcr_proc_pdu, "BAD FCS": the frame is freed. Signals have no FCS.   *)
BadFcs(e) ==
    /\ wire[Peer(e)] # <<>> /\ Head(wire[Peer(e)]).t # "DISC"
    /\ wire' = [wire EXCEPT ![Peer(e)] = Tail(@)]
    /\ UNCHANGED <<ccb, written, busy, load>>

(* A poll holds back the data behind it, so buffers make no difference.    *)
MonTimeout(e) ==
    /\ Quiet(e) /\ ccb[e].mon_timer /\ Run(e, {0}, ProcTout)
    /\ UNCHANGED <<written, busy, load>>

AckTimeout(e) ==
    /\ Quiet(e) /\ ccb[e].ack_timer /\ Run(e, AnyBuffers, ProcAckTout)
    /\ UNCHANGED <<written, busy, load>>

Init ==
    /\ ccb = [e \in End |-> Fresh("open", "none")]
    /\ wire = [e \in End |-> <<>>]
    /\ written = [e \in End |-> 0] /\ busy = [e \in End |-> 0]
    /\ load \in Workloads

Next ==
    \E e \in End :
        \/ DataWrite(e) \/ CompletedPkts(e) \/ Receive(e) \/ BadFcs(e)
        \/ \E on \in BOOLEAN : FlowControl(e, on)
        \/ MonTimeout(e) \/ AckTimeout(e)

(* Frames arrive or are lost, timers fire, the controller frees buffers    *)
(* and a user that stopped the flow takes data again.                      *)
Fairness ==
    \A e \in End :
        /\ WF_vars(BadFcs(e) \/ Receive(e)) /\ WF_vars(CompletedPkts(e))
        /\ WF_vars(MonTimeout(e)) /\ WF_vars(AckTimeout(e))
        /\ WF_vars(FlowControl(e, FALSE))

Spec == Init /\ [][Next]_vars /\ Fairness
-----------------------------------------------------------------------------
Seqs == 0 .. Modulo - 1

(* Type correctness, with the window: an end never has more frames         *)
(* unacknowledged than the peer's window, and waiting_for_ack_q holds      *)
(* exactly the frames from last_rx_ack to next_tx_seq, in order.           *)
ErtmTypeOK ==
    \A e \in End :
        LET c == ccb[e] q == c.waiting_for_ack_q IN
        /\ c.next_tx_seq \in Seqs /\ c.last_rx_ack \in Seqs
        /\ c.next_seq_expected \in Seqs /\ c.last_ack_sent \in Seqs
        /\ Len(q) <= TxWin /\ Len(q) = Dist(c.next_tx_seq, c.last_rx_ack)
        /\ \A i \in 1 .. Len(q) : Dist(q[i].seq, c.last_rx_ack) = i - 1
        /\ Len(c.srej_rcv_hold_q) <= TxWin
        /\ c.srej_sent => c.srej_rcv_hold_q # <<>>

(* What the user gets is what the peer's user wrote: whole SDUs, in order, *)
(* none lost in between, none twice.                                       *)
DeliveredInOrder ==
    \A e \in End :
        LET d == ccb[e].delivered IN
        /\ Len(d) <= written[Peer(e)]
        /\ \A n \in 1 .. Len(d) : d[n] = Sdu(Peer(e), n)

(* Two ends running this code never see a bad acknowledgement number or a  *)
(* segment out of place: a channel closes only when the tries run out.     *)
ClosesOnlyOnTries == \A e \in End : ccb[e].why \in {"none", "tries", "peer"}

SomeClosed == \E e \in End : ~IsOpen(ccb[e])

(* Both ends wait for the peer to answer a reject. *)
MutualReject == \A e \in End : ccb[e].rej_sent \/ ccb[e].srej_sent

(* End e takes its peer for busy, and the peer is not. *)
BusyForgotten(e) == ccb[e].remote_busy /\ ~ccb[Peer(e)].local_busy

(* All that is written arrives, or the channel closes, except in the two   *)
(* ways this code comes to rest for good: each end has sent a reject that  *)
(* was lost, and the monitor timeout then neither sends nor restarts the   *)
(* timer; or a user took data again while a poll was unanswered, of which  *)
(* the peer is not told.                                                   *)
TransferResolves ==
    \A e \in End :
        \/ []<>(Len(ccb[Peer(e)].delivered) = written[e])
        \/ <>SomeClosed \/ <>[]MutualReject \/ <>[]BusyForgotten(e)

=============================================================================
