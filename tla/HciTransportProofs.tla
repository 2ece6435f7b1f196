------------------------- MODULE HciTransportProofs -------------------------
(***************************************************************************)
(* Proofs about the host/controller library (module HciTransport), for     *)
(* every build, ring size, batch size, number of firmware commands and     *)
(* number of commands the controller can hold.                             *)
(***************************************************************************)
EXTENDS HciTransportFacts
-----------------------------------------------------------------------------
(* The worker's pass.                                                      *)

\* The part of the types the pass is made of.
ControlOK == /\ ready \subseteq HandlerSet /\ events \subseteq HandlerSet
             /\ pc \in HandlerSet \cup {"SEND", "wait", "exited"}

\* A step to the next handler keeps the snapshot's order.
LEMMA GotoPass ==
  ASSUME NEW evs, evs \subseteq HandlerSet, NEW k \in Nat, Goto(evs, k)
  PROVE  /\ events' = {e \in evs : Rank(e) > k} /\ events' \subseteq HandlerSet
         /\ pc' \in HandlerSet \cup {"wait", "exited"}
         /\ pc' \in HandlerSet => pc' \in events' /\ \A e \in events' : Rank(e) >= Rank(pc')
         /\ pc' \notin HandlerSet => events' = {}
PROOF
  <1>1. events' = Later(evs, k) /\ pc' = NextHandler(evs, k)
    BY DEF Goto
  <1>2. "wait" \notin HandlerSet /\ "exited" \notin HandlerSet
    BY Ranks
  <1>3. CASE Later(evs, k) = {} /\ NextHandler(evs, k) = IF api = "up" THEN "wait" ELSE "exited"
    BY <1>1, <1>2, <1>3 DEF Later
  <1>4. CASE /\ NextHandler(evs, k) \in Later(evs, k)
             /\ \A e \in Later(evs, k) : Rank(e) >= Rank(NextHandler(evs, k))
    BY <1>1, <1>4, Zenon DEF Later
  <1> QED BY <1>3, <1>4, FirstLeft

\* Every step keeps the order of the worker's pass: the handler that runs, the events
\* still to be handled behind it and the bits not yet collected.
LEMMA PassStep ==
  ASSUME ControlOK, PassInv, [Next]_vars, Requests \in Seq(HandlerSet), asked \in Nat
  PROVE  ControlOK' /\ PassInv'
PROOF
  <1> USE DEF ControlOK, PassInv
  <1>r. Rank("wait") \in Nat /\ \A h \in HandlerSet : Rank(h) \in Nat
    BY Ranks
  <1>h. {"RX", "TX", "SLEEP", "EXIT", "IDLE"} \subseteq HandlerSet /\ "SEND" \notin HandlerSet
        /\ "wait" \notin HandlerSet /\ "exited" \notin HandlerSet
    BY Ranks
  <1>1. CASE \E m \in todo : TransmitBuf(m)
    BY <1>1, <1>h DEF TransmitBuf, workerVars
  <1>2. CASE Request
    <2>1. Requests[asked + 1] \in HandlerSet
      BY <1>2 DEF Request
    <2> QED BY <1>2, <2>1 DEF Request, workerVars
  <1>3. CASE AllowSleep \/ IdleTimerFires \/ IdleTimeout \/ Cleanup
    BY <1>3, <1>h DEF AllowSleep, IdleTimerFires, IdleTimeout, Cleanup, workerVars
  <1>4. CASE CtrlAnswers \/ CtrlNop
    BY <1>4, <1>h, Zenon DEF CtrlAnswers, CtrlNop, Report, workerVars
  <1>5. CASE WakeUp
    <2>1. Goto(ready, Rank("wait")) /\ ready' = {} /\ sending' = sending /\ pc # "SEND"
      BY <1>5 DEF WakeUp, Proceed
    <2> QED BY <1>h, <1>r, <2>1, GotoPass
  <1>6. CASE ReceiveInternal
    BY <1>6, <1>h, Zenon DEF ReceiveInternal, Emit
  <1>7. CASE ReceiveForStack
    BY <1>7 DEF ReceiveForStack
  <1>8. CASE ReceiveDone
    <2>1. PICK evs : evs \subseteq HandlerSet /\ Goto(evs, Rank(pc)) /\ pc = "RX"
                     /\ sending' = sending /\ ready' = ready
      BY <1>8, <1>h, Zenon DEF ReceiveDone, Proceed
    <2> QED BY <1>h, <1>r, <2>1, GotoPass, Zenon
  <1>9. CASE StartProcedure \/ SetLpm \/ LpmEvent
    <2>1. /\ Goto(events, Rank(pc)) /\ pc \in HandlerSet
          /\ sending' = sending /\ ready' \subseteq HandlerSet
      BY <1>9, <1>h, Ranks, Zenon DEF StartProcedure, SetLpm, LpmEvent, Proceed, Emit
    <2> QED BY <1>h, <1>r, <2>1, GotoPass
  <1>10. CASE CollectTx
    BY <1>10, <1>h DEF CollectTx
  <1>11. CASE SendMsg
    BY <1>11 DEF SendMsg
  <1>12. CASE SendDone
    <2>1. Goto(events, Rank("TX")) /\ sending' = <<>> /\ ready' = ready
      BY <1>12 DEF SendDone
    <2> QED BY <1>h, <1>r, <2>1, GotoPass
  <1>13. CASE Exit
    BY <1>13, <1>h DEF Exit
  <1>14. CASE UNCHANGED vars
    BY <1>14 DEF vars, workerVars
  <1> QED BY <1>1, <1>2, <1>3, <1>4, <1>5, <1>6, <1>7, <1>8, <1>9, <1>10, <1>11, <1>12, <1>13, <1>14, Zenon
          DEF Next, Worker, Stack
-----------------------------------------------------------------------------
(* What is in flight, step by step.                                        *)

\* The pipeline now.
Flowing(T) == Flow(rx_q, ctrl, sending, tx_q, T)

\* The pipeline of the model is the flow through its four queues.
LEMMA PipelineFlow ==
  ASSUME NEW T
  PROVE  Filter(Pipeline, T) = Flowing(T)
PROOF
  BY Zenon DEF Pipeline, Flowing, Flow, Pipe

\* The controller's answer to a command it holds.
LEMMA AnswerType ==
  ASSUME NEW op \in Commands \cup {NoOp}, NEW n \in 0 .. CtrlSlots, NEW ok \in BOOLEAN
  PROVE  [e |-> AnswerKind(op), op |-> op, n |-> n, ok |-> ok] \in CtrlEvents
PROOF
  <1>1. n \in Nat
    BY TransportAssumption
  <1>2. AnswerKind(op) \in {"complete", "status"} /\ (op \in IntOps => AnswerKind(op) = "complete")
    BY DEF AnswerKind, IntOps, Procedures
  <1> QED BY <1>1, <1>2 DEF Commands, CtrlEvents

\* A queue split in two.
LEMMA SplitAt ==
  ASSUME NEW X, NEW q \in Seq(X), NEW k \in 0 .. Len(q)
  PROVE  /\ SubSeq(q, 1, k) \in Seq({q[i] : i \in 1 .. Len(q)})
         /\ SubSeq(q, k + 1, Len(q)) \in Seq(X) /\ {q[i] : i \in 1 .. Len(q)} \subseteq X
         /\ q = SubSeq(q, 1, k) \o SubSeq(q, k + 1, Len(q))
PROOF
  <1>1. Len(q) \in Nat /\ \A i \in 1 .. Len(q) : q[i] \in X
    OBVIOUS
  <1> DEFINE Q == {q[i] : i \in 1 .. Len(q)}
  <1>2. Q \subseteq X /\ \A i \in 1 .. k : q[i] \in Q
    BY <1>1
  <1>3. SubSeq(q, 1, k) \in Seq(Q)
    <2> HIDE DEF Q
    <2> QED BY <1>1, <1>2
  <1>4. SubSeq(q, k + 1, Len(q)) \in Seq(X)
    BY <1>1
  <1>5. SubSeq(q, 1, k) \o SubSeq(q, k + 1, Len(q)) = q
    <2> DEFINE a == SubSeq(q, 1, k)
               b == SubSeq(q, k + 1, Len(q))
    <2>1. a \in Seq(X) /\ Len(a) = k /\ \A i \in 1 .. k : a[i] = q[i]
      BY <1>1
    <2>2. b \in Seq(X) /\ Len(b) = Len(q) - k /\ \A i \in 1 .. Len(q) - k : b[i] = q[k + i]
      BY <1>1
    <2> HIDE DEF a, b
    <2> DEFINE c == a \o b
    <2>3. c \in Seq(X) /\ Len(c) = Len(q) /\ \A i \in 1 .. Len(q) : c[i] = IF i <= k THEN a[i] ELSE b[i - k]
      BY <2>1, <2>2, Joined
    <2> HIDE DEF c
    <2>4. \A i \in 1 .. Len(q) : c[i] = q[i]
      BY <2>1, <2>2, <2>3
    <2>5. c = q
      BY <2>3, <2>4
    <2> QED BY <2>5, Zenon DEF a, b, c
  <1> QED BY <1>2, <1>3, <1>4, <1>5, Zenon

\* Where the collection loop stops.
LEMMA CollectStops ==
  ASSUME tx_q \in Seq(Packets), CollectTx
  PROVE  \E k \in 0 .. Len(tx_q) :
            /\ sending' = Filter(SubSeq(tx_q, 1, k), Collectable)
            /\ tx_q' = Filter(SubSeq(tx_q, 1, k), PassedOver) \o SubSeq(tx_q, k + 1, Len(tx_q))
            /\ pending' = (Filter(SubSeq(tx_q, 1, k), PassedOver) # <<>>)
            /\ k = Len(tx_q) \/ Len(Filter(SubSeq(tx_q, 1, k), Collectable)) = MaxBatch
PROOF
  <1> DEFINE full == {k \in 1 .. Len(tx_q) : Len(Filter(SubSeq(tx_q, 1, k), Collectable)) = MaxBatch}
             least == CHOOSE k \in full : \A j \in full : k <= j
             stop == IF full = {} THEN Len(tx_q) ELSE least
  <1>1. Len(tx_q) \in Nat
    OBVIOUS
  <1>2. /\ stop \in 0 .. Len(tx_q)
        /\ stop = Len(tx_q) \/ stop \in full
    <2>1. full \subseteq 1 .. Len(tx_q) /\ full \subseteq Nat
      BY <1>1
    <2> HIDE DEF full
    <2>2. full # {} => \E k \in full : \A j \in full : k <= j
      BY <2>1, LeastNatural, Zenon
    <2>3. full # {} => least \in full
      BY <2>2
    <2> HIDE DEF least
    <2>4. CASE full = {}
      BY <1>1, <2>4
    <2>5. CASE full # {}
      <3>1. stop = least /\ least \in full
        BY <2>3, <2>5
      <3> HIDE DEF stop
      <3> QED BY <1>1, <2>1, <3>1
    <2> QED BY <2>4, <2>5
  <1>3. /\ sending' = Filter(SubSeq(tx_q, 1, stop), Collectable)
        /\ tx_q' = Filter(SubSeq(tx_q, 1, stop), PassedOver) \o SubSeq(tx_q, stop + 1, Len(tx_q))
        /\ pending' = (Filter(SubSeq(tx_q, 1, stop), PassedOver) # <<>>)
    BY Zenon DEF CollectTx
  <1>4. stop = Len(tx_q) \/ Len(Filter(SubSeq(tx_q, 1, stop), Collectable)) = MaxBatch
    <2> HIDE DEF stop
    <2> QED BY <1>2
  <1> HIDE DEF stop
  <1> QED BY <1>2, <1>3, <1>4, Zenon
\* All actions but the ones that issue or release an internal command leave what
\* is in flight of the internal commands as it was.
LEMMA FlowKept ==
  ASSUME TransportTypeOK, PassInv, NEW T, T \subseteq IntOps,
         \/ \E m \in todo : TransmitBuf(m)
         \/ CtrlAnswers \/ CtrlNop \/ CollectTx \/ SendMsg
         \/ ReceiveForStack /\ Head(rx_q).op \notin IntOps
         \/ UNCHANGED <<rx_q, ctrl, sending, tx_q>>
  PROVE  QueueTypes(rx_q', ctrl', sending', tx_q') /\ Flow(rx_q', ctrl', sending', tx_q', T) = Flowing(T)
PROOF
  <1>q. QueueTypes(rx_q, ctrl, sending, tx_q)
    BY DEF TransportTypeOK, QueueTypes
  <1>1. CASE \E m \in todo : TransmitBuf(m)
    <2>1. PICK m \in todo : TransmitBuf(m)
      BY <1>1
    <2>2. m \in Packets /\ m.op \notin T
      <3>1. m \in [t : PacketKinds, op : StackOps]
        BY TransportAssumption DEF TransportTypeOK
      <3> QED BY <3>1 DEF Packets, StackOps, IntOps, Procedures
    <2>3. tx_q' = Append(tx_q, m) /\ rx_q' = rx_q /\ ctrl' = ctrl /\ sending' = sending
      BY <2>1 DEF TransmitBuf, workerVars, ctrlVars
    <2>4. /\ QueueTypes(rx_q, ctrl, sending, Append(tx_q, m))
          /\ Flow(rx_q, ctrl, sending, Append(tx_q, m), T) = Flow(rx_q, ctrl, sending, tx_q, T)
      BY <1>q, <2>2, FlowQueue
    <2> QED BY <2>3, <2>4, Zenon DEF Flowing
  <1>2. CASE CtrlAnswers
    <2>1. PICK n \in 0 .. CtrlSlots, ok \in BOOLEAN :
             rx_q' = Append(rx_q, [e |-> AnswerKind(Head(ctrl)), op |-> Head(ctrl), n |-> n, ok |-> ok])
      BY <1>2, Zenon DEF CtrlAnswers, Report
    <2>2. ctrl # <<>> /\ ctrl' = Tail(ctrl) /\ sending' = sending /\ tx_q' = tx_q
      BY <1>2 DEF CtrlAnswers, workerVars
    <2>3. Head(ctrl) \in Commands \cup {NoOp}
      BY <1>q, <2>2 DEF QueueTypes
    <2> DEFINE ev == [e |-> AnswerKind(Head(ctrl)), op |-> Head(ctrl), n |-> n, ok |-> ok]
    <2>4. ev \in CtrlEvents
      BY <2>3, AnswerType
    <2>5. ev.op = Head(ctrl)
      OBVIOUS
    <2>6. rx_q' = Append(rx_q, ev)
      BY <2>1
    <2> HIDE DEF ev
    <2>7. /\ QueueTypes(Append(rx_q, ev), Tail(ctrl), sending, tx_q)
          /\ Flow(Append(rx_q, ev), Tail(ctrl), sending, tx_q, T) = Flow(rx_q, ctrl, sending, tx_q, T)
      BY <1>q, <2>2, <2>4, <2>5, FlowAnswer
    <2> QED BY <2>2, <2>6, <2>7, Zenon DEF Flowing
  <1>3. CASE CtrlNop
    <2>1. PICK n \in 0 .. CtrlSlots, ok \in BOOLEAN :
             rx_q' = Append(rx_q, [e |-> AnswerKind(NoOp), op |-> NoOp, n |-> n, ok |-> ok])
      BY <1>3, Zenon DEF CtrlNop, Report
    <2>2. ctrl' = ctrl /\ sending' = sending /\ tx_q' = tx_q
      BY <1>3 DEF CtrlNop, workerVars
    <2> DEFINE ev == [e |-> AnswerKind(NoOp), op |-> NoOp, n |-> n, ok |-> ok]
    <2>3. ev \in CtrlEvents
      BY AnswerType
    <2>4. ev.op \notin T
      BY DEF NoOp, IntOps, Procedures
    <2>5. rx_q' = Append(rx_q, ev)
      BY <2>1
    <2> HIDE DEF ev
    <2>6. /\ QueueTypes(Append(rx_q, ev), ctrl, sending, tx_q)
          /\ Flow(Append(rx_q, ev), ctrl, sending, tx_q, T) = Flow(rx_q, ctrl, sending, tx_q, T)
      BY <1>q, <2>3, <2>4, FlowNop
    <2> QED BY <2>2, <2>5, <2>6, Zenon DEF Flowing
  <1>4. CASE CollectTx
    <2>1. sending = <<>> /\ rx_q' = rx_q /\ ctrl' = ctrl
      BY <1>4 DEF CollectTx, PassInv, ctrlVars
    <2>2. PICK k \in 0 .. Len(tx_q) :
            /\ sending' = Filter(SubSeq(tx_q, 1, k), Collectable)
            /\ tx_q' = Filter(SubSeq(tx_q, 1, k), PassedOver) \o SubSeq(tx_q, k + 1, Len(tx_q))
      BY <1>4, <1>q, CollectStops, Zenon DEF QueueTypes
    <2> DEFINE seen == SubSeq(tx_q, 1, k)
               rest == SubSeq(tx_q, k + 1, Len(tx_q))
               s == Filter(seen, Collectable)
               h == Filter(seen, PassedOver)
    <2>3. seen \in Seq(Queued) /\ rest \in Seq(Packets) /\ Queued \subseteq Packets
      BY <1>q, SplitAt DEF QueueTypes, Queued
    <2>4. tx_q = Cat(seen, rest)
      BY <1>q, SplitAt, Zenon DEF QueueTypes, Cat
    <2> HIDE DEF seen, rest
    <2>5. seen \in Seq(Packets)
      BY <2>3
    <2>6. s \in Seq(Packets) /\ h \in Seq(Packets)
      BY <2>5, FilterType
    <2>7. Divides(Queued, Collectable, PassedOver)
      BY DEF Divides, Collectable, PassedOver
    <2>8. \/ Part(s, T) = Part(seen, T) /\ Part(h, T) = <<>>
          \/ Part(s, T) = <<>> /\ Part(h, T) = Part(seen, T)
      BY <2>3, <2>7, CollectSplits
    <2>9. QueueTypes(rx_q, ctrl, <<>>, tx_q)
      BY <1>q, <2>1
    <2> HIDE DEF s, h
    <2>10. /\ QueueTypes(rx_q, ctrl, s, Cat(h, rest))
           /\ Flow(rx_q, ctrl, s, Cat(h, rest), T) = Flow(rx_q, ctrl, <<>>, tx_q, T)
      BY <2>3, <2>4, <2>5, <2>6, <2>8, <2>9, FlowCollect
    <2>11. sending' = s /\ tx_q' = Cat(h, rest)
      BY <2>2 DEF s, h, seen, rest, Cat
    <2> QED BY <2>1, <2>10, <2>11, Zenon DEF Flowing
  <1>5. CASE SendMsg
    <2>1. sending # <<>> /\ sending' = Tail(sending) /\ tx_q' = tx_q /\ rx_q' = rx_q
          /\ ctrl' = IF IsCmd(Head(sending)) THEN Append(ctrl, Head(sending).op) ELSE ctrl
      BY <1>5 DEF SendMsg
    <2>2. sending # <<>>
      BY <2>1
    <2>3. /\ First(sending) \in Packets
          /\ QueueTypes(rx_q, ctrl, Rest(sending), tx_q)
          /\ QueueTypes(rx_q, Back(ctrl, FirstOp(sending)), Rest(sending), tx_q)
      BY <1>q, <2>2, FlowSend
    <2>6. SendKeeps(rx_q, ctrl, sending, tx_q, T)
      BY <1>q, <2>2, FlowSend, Zenon
    <2>4. ~IsCmd(First(sending)) => FirstOp(sending) \notin T
      BY <2>3 DEF IsCmd, Packets, StackOps, IntOps, Procedures, FirstOp
    <2>5. /\ sending' = Rest(sending)
          /\ ctrl' = IF IsCmd(First(sending)) THEN Back(ctrl, FirstOp(sending)) ELSE ctrl
      BY <2>1, Zenon DEF First, Rest, Back, FirstOp
    <2> QED BY <2>1, <2>3, <2>4, <2>5, <2>6, Zenon DEF Flowing, SendKeeps
  <1>6. CASE ReceiveForStack /\ Head(rx_q).op \notin IntOps
    <2>1. rx_q # <<>> /\ rx_q' = Rest(rx_q) /\ ctrl' = ctrl /\ sending' = sending /\ tx_q' = tx_q
      BY <1>6 DEF ReceiveForStack, Rest
    <2>2. rx_q # <<>> /\ First(rx_q).op \notin T
      BY <1>6, <2>1 DEF First
    <2>3. QueueTypes(Rest(rx_q), ctrl, sending, tx_q) /\ ReceiveKeeps(rx_q, ctrl, sending, tx_q, T)
      BY <1>q, <2>2, FlowReceive
    <2>4. FirstOp(rx_q) \notin T
      BY <2>2, Zenon DEF First, FirstOp
    <2> QED BY <2>1, <2>3, <2>4, Zenon DEF Flowing, ReceiveKeeps
  <1>7. CASE UNCHANGED <<rx_q, ctrl, sending, tx_q>>
    BY <1>7, <1>q DEF Flowing
  <1> QED BY <1>1, <1>2, <1>3, <1>4, <1>5, <1>6, <1>7
\* An internal command in flight belongs to a load procedure or to sleep mode.
LEMMA FlowCount ==
  ASSUME NEW r, NEW c, NEW s, NEW x, QueueTypes(r, c, s, x)
  PROVE  /\ Flow(r, c, s, x, IntOps) \in Seq(IntOps)
         /\ Len(Flow(r, c, s, x, IntOps)) = Len(Flow(r, c, s, x, LoadOps)) + Len(Flow(r, c, s, x, LpmOps))
         /\ Len(Flow(r, c, s, x, LoadOps)) \in Nat /\ Len(Flow(r, c, s, x, LpmOps)) \in Nat
PROOF
  <1> DEFINE p == Pipe(r, c, s, x)
  <1>1. p \in Seq(Ops)
    BY PipeType
  <1>2. LoadOps \cap LpmOps = {} /\ IntOps = LoadOps \cup LpmOps
    BY Zenon DEF LoadOps, LpmOps, IntOps, Procedures
  <1>3. Ops \cap IntOps = IntOps
    BY DEF Ops, Commands
  <1> HIDE DEF p
  <1>4. /\ Len(Filter(p, LoadOps \cup LpmOps)) = Len(Filter(p, LoadOps)) + Len(Filter(p, LpmOps))
        /\ Len(Filter(p, LoadOps)) \in Nat /\ Len(Filter(p, LpmOps)) \in Nat
    BY <1>1, <1>2, FilterSplit
  <1>5. Flow(r, c, s, x, IntOps) \in Seq(Ops \cap IntOps)
    BY FlowType
  <1>6. Flow(r, c, s, x, IntOps) \in Seq(IntOps)
    BY <1>3, <1>5, Zenon
  <1> QED BY <1>2, <1>4, <1>6, Zenon DEF Flow, p

\* What the invariant says of the ring and of what is in flight.
LEMMA RingFacts ==
  ASSUME TransportTypeOK, RingInv
  PROVE  /\ QueueTypes(rx_q, ctrl, sending, tx_q) /\ RingOK(h4)
         /\ RingOf(h4) = Flowing(IntOps) /\ Flowing(IntOps) \in Seq(IntOps)
         /\ Len(Flowing(IntOps)) = h4.count
         /\ h4.count = Len(Flowing(LoadOps)) + Len(Flowing(LpmOps))
         /\ LoadTokens = Asked("PRELOAD") + Asked("POSTLOAD") + Len(Flowing(LoadOps))
         /\ Len(Flowing(LpmOps)) = IF LpmBusy(lpm) THEN 1 ELSE 0
         /\ Len(Flowing(LoadOps)) \in {0, 1} /\ Asked("PRELOAD") \in Nat /\ Asked("POSTLOAD") \in Nat
         /\ ~Refuses(h4)
PROOF
  <1>1. QueueTypes(rx_q, ctrl, sending, tx_q)
    BY DEF TransportTypeOK, QueueTypes
  <1>2. /\ Flowing(IntOps) \in Seq(IntOps)
        /\ Len(Flowing(IntOps)) = Len(Flowing(LoadOps)) + Len(Flowing(LpmOps))
        /\ Len(Flowing(LoadOps)) \in Nat /\ Len(Flowing(LpmOps)) \in Nat
    BY <1>1, FlowCount DEF Flowing
  <1>3. /\ RingHolds = Flowing(IntOps)
        /\ Count(LoadOps) = Len(Flowing(LoadOps)) /\ Count(LpmOps) = Len(Flowing(LpmOps))
    BY PipelineFlow, Zenon DEF RingInv, RingMatches, InFlight, Count
  <1>4. RingOf(h4) = Flowing(IntOps)
    BY <1>3, Zenon DEF RingHolds, RingOf
  <1>5. Asked("PRELOAD") \in Nat /\ Asked("POSTLOAD") \in Nat
    BY DEF Asked
  <1>6. LoadTokens = Asked("PRELOAD") + Asked("POSTLOAD") + Len(Flowing(LoadOps)) /\ LoadTokens <= 1
    BY <1>3, Zenon DEF LoadTokens, RingInv
  <1> DEFINE l == Len(Flowing(LoadOps))
             m == Len(Flowing(LpmOps))
             a == Asked("PRELOAD")
             b == Asked("POSTLOAD")
  <1>7. l \in {0, 1}
    <2>1. l \in Nat /\ a \in Nat /\ b \in Nat /\ a + b + l <= 1
      BY <1>2, <1>5, <1>6, Zenon
    <2> HIDE DEF l, a, b
    <2> QED BY <2>1
  <1>8. Len(Flowing(LpmOps)) = IF LpmBusy(lpm) THEN 1 ELSE 0
    BY <1>3, Zenon DEF RingInv
  <1>9. h4 \in Rings /\ h4.count \in Nat /\ h4.wrt = (h4.rd + h4.count) % IntMax
    BY DEF TransportTypeOK, Rings, RingInv
  <1>10. Len(Flowing(IntOps)) = h4.count
    <2>1. Len(RingOf(h4)) = h4.count
      BY <1>9 DEF RingOf
    <2> QED BY <1>4, <2>1, Zenon
  <1>11. h4.count = Len(Flowing(LoadOps)) + Len(Flowing(LpmOps))
    BY <1>2, <1>10, Zenon
  <1>12. h4.count <= 2 /\ h4.count <= IntMax
    <2>1. m \in {0, 1} /\ h4.count = l + m
      BY <1>8, <1>11
    <2> HIDE DEF l, m
    <2> QED BY <1>7, <2>1, TransportAssumption
  <1>13. RingOK(h4)
    BY <1>9, <1>12 DEF RingOK
  <1>14. ~Refuses(h4)
    BY <1>9, <1>12, TransportAssumption DEF Refuses
  <1> QED BY <1>1, <1>2, <1>4, <1>5, <1>6, <1>7, <1>8, <1>10, <1>11, <1>13, <1>14, Zenon

\* An answer is intercepted exactly if it answers an internal command.
LEMMA InterceptsInternal ==
  ASSUME TransportTypeOK, RingInv, rx_q # <<>>
  PROVE  Intercepts(Head(rx_q)) <=> Head(rx_q).op \in IntOps
PROOF
  <1> DEFINE ev == First(rx_q)
             rest == Flow(Rest(rx_q), ctrl, sending, tx_q, IntOps)
  <1>1. QueueTypes(rx_q, ctrl, sending, tx_q) /\ RingOK(h4)
    BY RingFacts
  <1>2. RingOf(h4) = Flowing(IntOps) /\ Flowing(IntOps) \in Seq(IntOps) /\ Len(Flowing(IntOps)) = h4.count
    BY RingFacts
  <1>3. ev \in CtrlEvents /\ QueueTypes(Rest(rx_q), ctrl, sending, tx_q)
    BY <1>1, FlowReceive, Zenon
  <1>4. ev.op \in IntOps => Flowing(IntOps) = Ahead(ev.op, rest)
    <2>1. ReceiveKeeps(rx_q, ctrl, sending, tx_q, IntOps)
      BY <1>1, FlowReceive, Zenon
    <2> QED BY <2>1, Zenon DEF Flowing, ReceiveKeeps, First, FirstOp
  <1>5. rest \in Seq(IntOps)
    BY <1>3, FlowCount
  <1>6. h4.count \in Nat
    BY <1>1 DEF RingOK, Rings
  <1> HIDE DEF ev, rest
  <1>7. ev.op \in IntOps => h4.count > 0 /\ RingOf(h4)[1] = ev.op
    <2> SUFFICES ASSUME ev.op \in IntOps PROVE h4.count > 0 /\ RingOf(h4)[1] = ev.op
      OBVIOUS
    <2> DEFINE o == ev.op
    <2>1. o \in IntOps
      OBVIOUS
    <2> HIDE DEF o
    <2>2. Len(Ahead(o, rest)) = Len(rest) + 1 /\ Ahead(o, rest)[1] = o /\ Len(rest) \in Nat
      BY <1>5, <2>1, FrontProperties
    <2>3. Flowing(IntOps) = Ahead(o, rest)
      BY <1>4 DEF o
    <2>4. h4.count = Len(Ahead(o, rest)) /\ RingOf(h4)[1] = Ahead(o, rest)[1]
      BY <1>2, <2>3, Zenon
    <2>5. h4.count > 0 /\ RingOf(h4)[1] = o
      BY <1>6, <2>2, <2>4
    <2> QED BY <2>5 DEF o
  <1>8. h4.count > 0 => RingOf(h4)[1] = h4.cmd[h4.rd] /\ RingOf(h4)[1] \in IntOps
    <2> SUFFICES ASSUME h4.count > 0 PROVE RingOf(h4)[1] = h4.cmd[h4.rd] /\ RingOf(h4)[1] \in IntOps
      OBVIOUS
    <2>1. RingOf(h4)[1] = h4.cmd[h4.rd]
      BY <1>1, RingRelease
    <2> DEFINE f == Flowing(IntOps)
    <2>2. f \in Seq(IntOps) /\ 1 \in 1 .. Len(f)
      BY <1>2, <1>6
    <2> HIDE DEF f
    <2>3. f[1] \in IntOps
      BY <2>2
    <2>4. RingOf(h4)[1] \in IntOps
      BY <1>2, <2>3, Zenon DEF f
    <2> QED BY <2>1, <2>4
  <1>9. ev.op \in IntOps => ev.e = "complete"
    BY <1>3 DEF CtrlEvents, IntOps, StackOps, Procedures, NoOp
  <1>10. Intercepts(ev) <=> ev.op \in IntOps
    BY <1>7, <1>8, <1>9 DEF Intercepts
  <1> QED BY <1>10, Zenon DEF ev, First
-----------------------------------------------------------------------------
(* The ring, step by step.                                                 *)

\* The ring lists what is in flight, with so many commands of either kind.
Matched(h, r, c, s, x, l, m) ==
    /\ QueueTypes(r, c, s, x) /\ RingOK(h) /\ RingOf(h) = Flow(r, c, s, x, IntOps)
    /\ Len(Flow(r, c, s, x, LoadOps)) = l /\ Len(Flow(r, c, s, x, LpmOps)) = m
MatchedNext(l, m) == Matched(h4', rx_q', ctrl', sending', tx_q', l, m)

Loads == Len(Flowing(LoadOps))
Lpms  == Len(Flowing(LpmOps))

\* Steps that issue and release nothing.
LEMMA QuietRing ==
  ASSUME TransportTypeOK, PassInv, RingInv, h4' = h4,
         \/ \E m \in todo : TransmitBuf(m)
         \/ CtrlAnswers \/ CtrlNop \/ CollectTx \/ SendMsg
         \/ ReceiveForStack
         \/ UNCHANGED <<rx_q, ctrl, sending, tx_q>>
  PROVE  MatchedNext(Loads, Lpms)
PROOF
  <1>1. ReceiveForStack => Head(rx_q).op \notin IntOps
    BY InterceptsInternal DEF ReceiveForStack
  <1>2. LoadOps \subseteq IntOps /\ LpmOps \subseteq IntOps
    BY DEF LoadOps, LpmOps, IntOps, Procedures
  <1>3. /\ QueueTypes(rx_q', ctrl', sending', tx_q')
        /\ Flow(rx_q', ctrl', sending', tx_q', IntOps) = Flowing(IntOps)
    BY <1>1, FlowKept
  <1>4. Flow(rx_q', ctrl', sending', tx_q', LoadOps) = Flowing(LoadOps)
    BY <1>1, <1>2, FlowKept
  <1>5. Flow(rx_q', ctrl', sending', tx_q', LpmOps) = Flowing(LpmOps)
    BY <1>1, <1>2, FlowKept
  <1>6. RingOK(h4') /\ RingOf(h4') = Flowing(IntOps)
    BY RingFacts
  <1> QED BY <1>3, <1>4, <1>5, <1>6, Zenon DEF MatchedNext, Matched, Loads, Lpms

\* The next command of a procedure.
LEMMA NextOpType ==
  ASSUME step \in [Procedures -> Nat], NEW c \in Procedures
  PROVE  /\ NextOp(c) \in IntOps /\ [t |-> "cmd", op |-> NextOp(c)] \in Packets
         /\ NextOp(c) \in LpmOps <=> c = "lpm"
         /\ NextOp(c) \in LoadOps <=> c # "lpm"
PROOF
  <1>1. step[c] + 1 \in Nat
    OBVIOUS
  <1>2. NextOp(c) \in IntOps
    BY <1>1 DEF NextOp, IntOp, IntOps
  <1>3. (NextOp(c) \in LpmOps <=> c = "lpm") /\ (NextOp(c) \in LoadOps <=> c # "lpm")
    BY <1>1 DEF NextOp, IntOp, LpmOps, LoadOps, Procedures
  <1> QED BY <1>2, <1>3 DEF Packets

\* A length one more.
LEMMA BackLen ==
  ASSUME NEW Y, NEW s \in Seq(Y), NEW e \in Y
  PROVE  Len(Back(s, e)) = Len(s) + 1
PROOF
  BY BackProperties

\* The queues x and y = x with internal command o differ in that command only.
Issued(r, c, s, x, y, o) ==
    /\ QueueTypes(r, c, s, y)
    /\ Flow(r, c, s, y, IntOps) = Back(Flow(r, c, s, x, IntOps), o)
    /\ Len(Flow(r, c, s, y, LoadOps)) = Len(Flow(r, c, s, x, LoadOps)) + IF o \in LoadOps THEN 1 ELSE 0
    /\ Len(Flow(r, c, s, y, LpmOps)) = Len(Flow(r, c, s, x, LpmOps)) + IF o \in LpmOps THEN 1 ELSE 0

\* A procedure issues its next command: it is the last one in flight.
LEMMA IssueFlow ==
  ASSUME NEW r, NEW c, NEW s, NEW x, QueueTypes(r, c, s, x), NEW o \in IntOps
  PROVE  Issued(r, c, s, x, Append(x, [t |-> "cmd", op |-> o]), o)
PROOF
  <1> DEFINE m == [t |-> "cmd", op |-> o]
             y == Append(x, m)
  <1>1. m \in Packets /\ m.op = o
    BY DEF Packets
  <1> HIDE DEF m
  <1>2. QueueTypes(r, c, s, y)
    BY <1>1, FlowQueue
  <1>3. ASSUME NEW T
        PROVE  Flow(r, c, s, y, T) = IF o \in T THEN Back(Flow(r, c, s, x, T), o) ELSE Flow(r, c, s, x, T)
    <2>1. m \in Packets
      BY <1>1
    <2>2. Flow(r, c, s, y, T) = IF m.op \in T THEN Back(Flow(r, c, s, x, T), m.op) ELSE Flow(r, c, s, x, T)
      BY <2>1, FlowQueue
    <2> QED BY <1>1, <2>2, Zenon
  <1> HIDE DEF y
  <1>4. ASSUME NEW T, Len(Flow(r, c, s, x, T)) \in Nat
        PROVE  Len(Flow(r, c, s, y, T)) = Len(Flow(r, c, s, x, T)) + IF o \in T THEN 1 ELSE 0
    <2> DEFINE f == Flow(r, c, s, x, T)
               Y == Ops \cap T
    <2>1. f \in Seq(Y)
      BY FlowType
    <2>2. o \in T => o \in Y
      BY DEF Ops, Commands
    <2> HIDE DEF f, Y
    <2>3. o \in T => Len(Back(f, o)) = Len(f) + 1
      BY <2>1, <2>2, BackLen
    <2>4. Len(Flow(r, c, s, y, T)) = IF o \in T THEN Len(Back(f, o)) ELSE Len(f)
      BY <1>3, Zenon DEF f
    <2>5. Len(f) \in Nat
      BY <1>4 DEF f
    <2>6. Len(Flow(r, c, s, y, T)) = Len(f) + IF o \in T THEN 1 ELSE 0
      BY <2>3, <2>4, <2>5
    <2> QED BY <2>6 DEF f
  <1>5. Len(Flow(r, c, s, x, LoadOps)) \in Nat /\ Len(Flow(r, c, s, x, LpmOps)) \in Nat
    BY FlowCount
  <1>6. /\ Len(Flow(r, c, s, y, LoadOps)) = Len(Flow(r, c, s, x, LoadOps)) + IF o \in LoadOps THEN 1 ELSE 0
        /\ Len(Flow(r, c, s, y, LpmOps)) = Len(Flow(r, c, s, x, LpmOps)) + IF o \in LpmOps THEN 1 ELSE 0
    BY <1>4, <1>5, Zenon
  <1>7. Flow(r, c, s, y, IntOps) = Back(Flow(r, c, s, x, IntOps), o)
    BY <1>3, Zenon
  <1> QED BY <1>2, <1>6, <1>7, Zenon DEF y, m, Issued

\* PRELOAD, POSTLOAD or lpm_enable: a procedure that has nothing in flight
\* issues a command.
LEMMA IssueRing ==
  ASSUME TransportTypeOK, RingInv, NEW c \in Procedures, Emit(c, PutIntCmd(h4, NextOp(c))),
         UNCHANGED <<rx_q, ctrl, sending>>, h4.count < IntMax
  PROVE  MatchedNext(Loads + (IF c = "lpm" THEN 0 ELSE 1), Lpms + (IF c = "lpm" THEN 1 ELSE 0))
PROOF
  <1> DEFINE o == NextOp(c)
             y == Append(tx_q, [t |-> "cmd", op |-> o])
             h == PutIntCmd(h4, o)
  <1>1. o \in IntOps /\ (o \in LpmOps <=> c = "lpm") /\ (o \in LoadOps <=> c # "lpm")
    BY NextOpType, Zenon DEF TransportTypeOK
  <1>2. tx_q' = y /\ h4' = h
    BY DEF Emit
  <1>3. QueueTypes(rx_q, ctrl, sending, tx_q) /\ RingOK(h4) /\ RingOf(h4) = Flowing(IntOps)
    BY RingFacts
  <1> HIDE DEF o
  <1>4. /\ QueueTypes(rx_q, ctrl, sending, y)
        /\ Flow(rx_q, ctrl, sending, y, IntOps) = Back(Flowing(IntOps), o)
        /\ Len(Flow(rx_q, ctrl, sending, y, LoadOps)) = Loads + IF o \in LoadOps THEN 1 ELSE 0
        /\ Len(Flow(rx_q, ctrl, sending, y, LpmOps)) = Lpms + IF o \in LpmOps THEN 1 ELSE 0
    <2>1. Issued(rx_q, ctrl, sending, tx_q, y, o)
      BY <1>1, <1>3, IssueFlow
    <2> QED BY <2>1, Zenon DEF Issued, Flowing, Loads, Lpms
  <1>5. RingOK(h) /\ RingOf(h) = Back(RingOf(h4), o)
    BY <1>1, <1>3, RingPut
  <1> HIDE DEF y, h
  <1>6. Matched(h, rx_q, ctrl, sending, y,
                Loads + (IF o \in LoadOps THEN 1 ELSE 0), Lpms + (IF o \in LpmOps THEN 1 ELSE 0))
    BY <1>3, <1>4, <1>5, Zenon DEF Matched
  <1>7. /\ (IF o \in LoadOps THEN 1 ELSE 0) = (IF c = "lpm" THEN 0 ELSE 1)
        /\ (IF o \in LpmOps THEN 1 ELSE 0) = (IF c = "lpm" THEN 1 ELSE 0)
    BY <1>1
  <1> QED BY <1>2, <1>6, <1>7, Zenon DEF MatchedNext

\* What the callback of an internal command's procedure does next.
LEMMA ContinueType ==
  ASSUME NEW c \in Procedures, NEW ok
  PROVE  /\ Continue(c, ok) \in {"fw", "sco", "acl", "end"}
         /\ c = "lpm" => Continue(c, ok) = "end"
PROOF
  BY DEF Continue, Procedures

\* An internal answer is read: its command leaves the flight and the ring, and
\* the procedure's next command, if any, joins both.
LEMMA AnswerRing ==
  ASSUME TransportTypeOK, RingInv, ReceiveInternal
  PROVE  LET c  == Head(rx_q).op.src
             nx == Continue(c, Head(rx_q).ok)
         IN  /\ c \in Procedures /\ h4.count > 0
             /\ c = "lpm" => Lpms = 1 /\ MatchedNext(Loads, 0)
             /\ c # "lpm" /\ nx = "end" => Loads = 1 /\ MatchedNext(0, Lpms)
             /\ c # "lpm" /\ nx # "end" => Loads = 1 /\ MatchedNext(1, Lpms)
PROOF
  <1> DEFINE ev == First(rx_q)
             a  == ev.op
             c  == a.src
             nx == Continue(c, ev.ok)
             q  == Rest(rx_q)
             o  == NextOp(nx)
  <1>1. pc = "RX" /\ rx_q # <<>> /\ Intercepts(ev) /\ rx_q' = q /\ ctrl' = ctrl /\ sending' = sending
    BY Zenon DEF ReceiveInternal, First, Rest
  <1>2. \/ nx # "end" /\ Emit(nx, ReleaseIntCmd(PutIntCmd(h4, o)))
        \/ nx = "end" /\ h4' = ReleaseIntCmd(h4) /\ tx_q' = tx_q
    BY RingFacts DEF ReceiveInternal, First
  <1>3. a \in IntOps /\ c \in Procedures /\ h4.count > 0
    <2>1. a \in IntOps
      BY <1>1, InterceptsInternal DEF First
    <2> QED BY <1>1, <2>1 DEF Intercepts, IntOps
  <1>4. nx \in {"fw", "sco", "acl", "end"} /\ (c = "lpm" => nx = "end")
    BY <1>3, ContinueType
  <1>5. (a \in LpmOps <=> c = "lpm") /\ (a \in LoadOps <=> c # "lpm")
    BY <1>3, Zenon DEF IntOps, LpmOps, LoadOps, Procedures
  <1>6. nx # "end" => o \in IntOps /\ o \in LoadOps /\ o \notin LpmOps
    BY <1>4, NextOpType DEF TransportTypeOK, Procedures
  <1> HIDE DEF ev, a, nx, q, o
  <1>7. QueueTypes(rx_q, ctrl, sending, tx_q) /\ RingOK(h4) /\ RingOf(h4) = Flowing(IntOps)
    BY RingFacts
  <1>8. QueueTypes(q, ctrl, sending, tx_q)
    BY <1>1, <1>7, FlowReceive DEF q
  <1>9. ASSUME NEW T
        PROVE  Flowing(T) = IF a \in T THEN Ahead(a, Flow(q, ctrl, sending, tx_q, T))
                                        ELSE Flow(q, ctrl, sending, tx_q, T)
    <2>1. QueueTypes(rx_q, ctrl, sending, tx_q) /\ rx_q # <<>>
      BY <1>1, <1>7
    <2>2. ReceiveKeeps(rx_q, ctrl, sending, tx_q, T)
      BY <2>1, FlowReceive, Zenon
    <2> QED BY <2>2, Zenon DEF Flowing, ReceiveKeeps, FirstOp, First, ev, a, q
  <1> DEFINE fi == Flow(q, ctrl, sending, tx_q, IntOps)
             fl == Flow(q, ctrl, sending, tx_q, LoadOps)
             fp == Flow(q, ctrl, sending, tx_q, LpmOps)
  <1>10. fi \in Seq(IntOps) /\ Len(fl) \in Nat /\ Len(fp) \in Nat
    BY <1>8, FlowCount
  <1>11. fl \in Seq(Ops \cap LoadOps) /\ fp \in Seq(Ops \cap LpmOps)
    BY <1>8, FlowType
  <1>12. Flowing(IntOps) = Ahead(a, fi)
    BY <1>3, <1>9, Zenon
  <1>13. Loads = IF c = "lpm" THEN Len(fl) ELSE Len(Ahead(a, fl))
    BY <1>5, <1>9, Zenon DEF Loads
  <1>14. Lpms = IF c = "lpm" THEN Len(Ahead(a, fp)) ELSE Len(fp)
    BY <1>5, <1>9, Zenon DEF Lpms
  <1> HIDE DEF fi, fl, fp
  <1>15. Tail(Ahead(a, fi)) = fi
    BY <1>3, <1>10, FrontProperties
  <1>16. /\ c = "lpm" => Len(Ahead(a, fp)) = Len(fp) + 1
         /\ c # "lpm" => Len(Ahead(a, fl)) = Len(fl) + 1
    <2>1. (c = "lpm" => a \in Ops \cap LpmOps) /\ (c # "lpm" => a \in Ops \cap LoadOps)
      BY <1>3, <1>5 DEF Ops, Commands
    <2>2. c = "lpm" => Len(Ahead(a, fp)) = Len(fp) + 1
      BY <1>11, <2>1, FrontProperties
    <2>3. c # "lpm" => Len(Ahead(a, fl)) = Len(fl) + 1
      BY <1>11, <2>1, FrontProperties
    <2> QED BY <2>2, <2>3
  <1>17. Loads \in {0, 1} /\ Lpms \in {0, 1}
    BY RingFacts DEF Loads, Lpms
  <1>18. IF c = "lpm" THEN Lpms = 1 /\ Len(fp) = 0 /\ Len(fl) = Loads
                      ELSE Loads = 1 /\ Len(fl) = 0 /\ Len(fp) = Lpms
    <2> DEFINE nl == Len(fl)
               np == Len(fp)
    <2>1. CASE c = "lpm"
      <3>1. Loads = nl /\ Lpms = np + 1
        BY <1>13, <1>14, <1>16, <2>1, Zenon
      <3>2. nl \in Nat /\ np \in Nat
        BY <1>10
      <3> HIDE DEF nl, np
      <3>3. Lpms = 1 /\ np = 0 /\ nl = Loads
        BY <1>17, <3>1, <3>2
      <3> QED BY <2>1, <3>3, Zenon DEF nl, np
    <2>2. CASE c # "lpm"
      <3>1. Loads = nl + 1 /\ Lpms = np
        BY <1>13, <1>14, <1>16, <2>2, Zenon
      <3>2. nl \in Nat /\ np \in Nat
        BY <1>10
      <3> HIDE DEF nl, np
      <3>3. Loads = 1 /\ nl = 0 /\ np = Lpms
        BY <1>17, <3>1, <3>2
      <3> QED BY <2>2, <3>3, Zenon DEF nl, np
    <2> QED BY <2>1, <2>2
  <1>19. RingOK(ReleaseIntCmd(h4)) /\ RingOf(ReleaseIntCmd(h4)) = fi
    <2>1. RingOK(ReleaseIntCmd(h4)) /\ RingOf(ReleaseIntCmd(h4)) = Tail(RingOf(h4))
      BY <1>3, <1>7, RingRelease
    <2> QED BY <1>7, <1>12, <1>15, <2>1, Zenon
  <1>20. CASE nx = "end"
    <2>1. h4' = ReleaseIntCmd(h4) /\ tx_q' = tx_q
      BY <1>2, <1>20
    <2>2. MatchedNext(Len(fl), Len(fp))
      BY <1>1, <1>8, <1>19, <2>1, Zenon DEF MatchedNext, Matched, fi, fl, fp
    <2>3. c = "lpm" => Lpms = 1 /\ MatchedNext(Loads, 0)
      BY <1>18, <2>2, Zenon
    <2>4. c # "lpm" => Loads = 1 /\ MatchedNext(0, Lpms)
      BY <1>18, <2>2, Zenon
    <2> QED BY <1>3, <1>20, <2>3, <2>4, Zenon DEF c, a, nx, ev, First
  <1>21. CASE nx # "end"
    <2> DEFINE y == Append(tx_q, [t |-> "cmd", op |-> o])
               h == ReleaseIntCmd(PutIntCmd(h4, o))
    <2>1. h4' = h /\ tx_q' = y
      BY <1>2, <1>21 DEF Emit, o
    <2>2. o \in IntOps /\ o \in LoadOps /\ o \notin LpmOps /\ c # "lpm"
      BY <1>4, <1>6, <1>21
    <2>3. RingOK(h) /\ RingOf(h) = Back(fi, o)
      <3>1. RingOK(h) /\ RingOf(h) = Back(RingOf(ReleaseIntCmd(h4)), o)
        BY <1>3, <1>7, <2>2, RingPutRelease
      <3> QED BY <1>19, <3>1, Zenon
    <2>4. /\ QueueTypes(q, ctrl, sending, y)
          /\ Flow(q, ctrl, sending, y, IntOps) = Back(fi, o)
          /\ Len(Flow(q, ctrl, sending, y, LoadOps)) = Len(fl) + IF o \in LoadOps THEN 1 ELSE 0
          /\ Len(Flow(q, ctrl, sending, y, LpmOps)) = Len(fp) + IF o \in LpmOps THEN 1 ELSE 0
      <3>1. Issued(q, ctrl, sending, tx_q, y, o)
        BY <1>8, <2>2, IssueFlow
      <3> QED BY <3>1, Zenon DEF Issued, fi, fl, fp
    <2> HIDE DEF y, h
    <2>5. /\ Len(fl) + (IF o \in LoadOps THEN 1 ELSE 0) = 1
          /\ Len(fp) + (IF o \in LpmOps THEN 1 ELSE 0) = Lpms /\ Loads = 1
      BY <1>10, <1>18, <2>2
    <2>6. MatchedNext(1, Lpms)
      BY <1>1, <2>1, <2>3, <2>4, <2>5, Zenon DEF MatchedNext, Matched
    <2> QED BY <1>3, <1>21, <2>2, <2>5, <2>6, Zenon DEF c, a, nx, ev, First
  <1> QED BY <1>20, <1>21, Zenon
\* The requests of the preload and postload procedures that wait for the worker.
Tokens == Asked("PRELOAD") + Asked("POSTLOAD")

\* A step that touches neither bit leaves their number alone.
LEMMA TokensKept ==
  ASSUME "PRELOAD" \in ready' <=> "PRELOAD" \in ready, "POSTLOAD" \in ready' <=> "POSTLOAD" \in ready,
         "PRELOAD" \in events' <=> "PRELOAD" \in events, "POSTLOAD" \in events' <=> "POSTLOAD" \in events
  PROVE  Tokens' = Tokens
PROOF
  BY DEF Tokens, Asked

\* The invariant of the ring in terms of the two kinds of internal commands.
LEMMA TokenFacts ==
  ASSUME TransportTypeOK, RingInv
  PROVE  /\ Tokens \in Nat /\ Loads \in {0, 1} /\ Tokens + Loads <= 1
         /\ asked = 0 => Tokens + Loads = 0 /\ "fw" \notin done
         /\ asked = 1 /\ "fw" \in done => Tokens + Loads = 0
         /\ Lpms = (IF LpmBusy(lpm) THEN 1 ELSE 0) /\ h4.count = Loads + Lpms
PROOF
  <1>1. LoadTokens = Asked("PRELOAD") + Asked("POSTLOAD") + Loads
    BY RingFacts DEF Loads
  <1>2. LoadTokens = Tokens + Loads
    BY <1>1, Zenon DEF Tokens
  <1>3. Loads \in {0, 1} /\ Lpms = (IF LpmBusy(lpm) THEN 1 ELSE 0) /\ h4.count = Loads + Lpms
    BY RingFacts DEF Loads, Lpms
  <1>4. Tokens \in Nat
    BY DEF Tokens, Asked
  <1>5. /\ LoadTokens <= 1 /\ (asked = 0 => LoadTokens = 0 /\ "fw" \notin done)
        /\ (asked = 1 /\ "fw" \in done => LoadTokens = 0)
    BY DEF RingInv
  <1> QED BY <1>2, <1>3, <1>4, <1>5, Zenon

\* Back from there, in the next state.
LEMMA RingBack ==
  ASSUME NEW l, NEW m, MatchedNext(l, m), m = (IF LpmBusy(lpm') THEN 1 ELSE 0),
         Tokens' + l <= 1, asked' = 0 => Tokens' + l = 0 /\ "fw" \notin done',
         asked' = 1 /\ "fw" \in done' => Tokens' + l = 0
  PROVE  RingInv' /\ QueueTypes(rx_q', ctrl', sending', tx_q') /\ RingOK(h4')
PROOF
  <1>1. /\ QueueTypes(rx_q', ctrl', sending', tx_q') /\ RingOK(h4')
        /\ RingOf(h4') = Flow(rx_q', ctrl', sending', tx_q', IntOps)
        /\ Len(Flow(rx_q', ctrl', sending', tx_q', LoadOps)) = l
        /\ Len(Flow(rx_q', ctrl', sending', tx_q', LpmOps)) = m
    BY Zenon DEF MatchedNext, Matched
  <1>2. RingMatches'
    BY <1>1, Zenon DEF RingMatches, RingHolds, InFlight, RingOf, Pipeline, Flow, Pipe
  <1>3. Count(LoadOps)' = l /\ Count(LpmOps)' = m
    BY <1>1, Zenon DEF Count, Pipeline, Flow, Pipe
  <1>4. LoadTokens' = Tokens' + l
    BY <1>3, Zenon DEF LoadTokens, Tokens
  <1>5. h4'.wrt = (h4'.rd + h4'.count) % IntMax
    BY <1>1 DEF RingOK
  <1>6. LpmBusy(lpm)' <=> LpmBusy(lpm')
    BY DEF LpmBusy
  <1> QED BY <1>1, <1>2, <1>3, <1>4, <1>5, <1>6, Zenon DEF RingInv

\* The order of the requests: preload, postload, then sleep mode on and off.
LEMMA RequestTypes ==
  /\ Requests \in Seq(HandlerSet) /\ Len(Requests) \in Nat
  /\ Requests[1] = "PRELOAD" /\ Requests[2] = "POSTLOAD"
  /\ \A i \in 3 .. Len(Requests) : Requests[i] \notin {"PRELOAD", "POSTLOAD"}
PROOF
  <1>1. {"PRELOAD", "POSTLOAD", "LPM_ENABLE", "LPM_DISABLE"} \subseteq HandlerSet
    BY Ranks
  <1>2. CASE build.hcilp
    <2> DEFINE s == <<"PRELOAD", "POSTLOAD">>
               t == <<"LPM_ENABLE", "LPM_DISABLE">>
    <2>1. /\ s \in Seq(HandlerSet) /\ Len(s) = 2 /\ s[1] = "PRELOAD" /\ s[2] = "POSTLOAD"
          /\ t \in Seq(HandlerSet) /\ Len(t) = 2 /\ t[1] = "LPM_ENABLE" /\ t[2] = "LPM_DISABLE"
      BY <1>1
    <2>2. Requests = s \o t
      BY <1>2, Zenon DEF Requests
    <2> HIDE DEF s, t
    <2>3. /\ s \o t \in Seq(HandlerSet) /\ Len(s \o t) = 4
          /\ \A i \in 1 .. 4 : (s \o t)[i] = IF i <= 2 THEN s[i] ELSE t[i - 2]
      BY <2>1, Joined, SMTT(20)
    <2> DEFINE u == s \o t
    <2>4. Requests = u
      BY <2>2
    <2> HIDE DEF u
    <2>5. u \in Seq(HandlerSet) /\ Len(u) = 4 /\ \A i \in 1 .. 4 : u[i] = IF i <= 2 THEN s[i] ELSE t[i - 2]
      BY <2>3 DEF u
    <2>6. u[1] = s[1] /\ u[2] = s[2] /\ u[3] = t[1] /\ u[4] = t[2]
      BY <2>5
    <2>7. \A i \in 3 .. 4 : i = 3 \/ i = 4
      OBVIOUS
    <2>8. \A i \in 3 .. Len(u) : u[i] \notin {"PRELOAD", "POSTLOAD"}
      BY <2>1, <2>5, <2>6, <2>7
    <2> QED BY <2>1, <2>4, <2>5, <2>6, <2>8
  <1>3. CASE ~build.hcilp
    <2>1. Requests = <<"PRELOAD", "POSTLOAD">>
      BY <1>3 DEF Requests
    <2> QED BY <1>1, <2>1
  <1> QED BY <1>2, <1>3

-----------------------------------------------------------------------------
(* Low-power mode: what each function of lpm.c does with the control block. *)

\* Every function yields a control block; only lpm_enable and the vendor
\* library's callback change the mode.
LEMMA LpmTypes ==
  ASSUME NEW l \in LpmBlocks, NEW b \in BOOLEAN
  PROVE  /\ StopIdleTimer(l) \in LpmBlocks /\ StopIdleTimer(l).state = l.state
         /\ LpmTxDone(l, b) \in LpmBlocks /\ LpmTxDone(l, b).state = l.state
         /\ LpmWakeAssert(l) \in LpmBlocks /\ LpmWakeAssert(l).state = l.state
         /\ LpmAllowSleep(l) \in LpmBlocks /\ LpmAllowSleep(l).state = l.state
         /\ LpmWakeDeassert(l) \in LpmBlocks /\ LpmWakeDeassert(l).state = l.state
         /\ LpmEnable(l, b) \in LpmBlocks /\ LpmBusy(LpmEnable(l, b))
         /\ LpmVndCback(l, b) \in LpmBlocks /\ ~LpmBusy(LpmVndCback(l, b))
PROOF
  <1>1. ASSUME NEW k \in LpmBlocks, NEW c \in BOOLEAN
        PROVE  LpmTxDone(k, c) \in LpmBlocks /\ LpmTxDone(k, c).state = k.state
    BY Zenon DEF LpmBlocks, LpmTxDone, StartIdleTimer
  <1>2. StopIdleTimer(l) \in LpmBlocks /\ StopIdleTimer(l).state = l.state
    BY Zenon DEF LpmBlocks, StopIdleTimer
  <1>3. LpmWakeAssert(l) \in LpmBlocks /\ LpmWakeAssert(l).state = l.state
    <2> DEFINE k == IF l.state # "DISABLED"
                    THEN [StopIdleTimer(l) EXCEPT !.pin = TRUE, !.wake = "ASSERTED"] ELSE l
    <2>1. k \in LpmBlocks /\ k.state = l.state
      BY Zenon DEF LpmBlocks, StopIdleTimer
    <2>2. LpmWakeAssert(l) = LpmTxDone(k, FALSE)
      BY DEF LpmWakeAssert
    <2> HIDE DEF k
    <2> QED BY <1>1, <2>1, <2>2, Zenon
  <1>4. LpmAllowSleep(l) \in LpmBlocks /\ LpmAllowSleep(l).state = l.state
    BY Zenon DEF LpmBlocks, LpmAllowSleep, StartIdleTimer
  <1>5. LpmWakeDeassert(l) \in LpmBlocks /\ LpmWakeDeassert(l).state = l.state
    BY Zenon DEF LpmBlocks, LpmWakeDeassert
  <1>6. LpmEnable(l, b) \in LpmBlocks /\ LpmBusy(LpmEnable(l, b))
    BY Zenon DEF LpmBlocks, LpmEnable, LpmBusy
  <1>7. LpmVndCback(l, b) \in LpmBlocks /\ ~LpmBusy(LpmVndCback(l, b))
    BY Zenon DEF LpmBlocks, LpmVndCback, LpmBusy
  <1> QED BY <1>1, <1>2, <1>3, <1>4, <1>5, <1>6, <1>7

\* The wake line is raised and, unless a segment is to follow, the timer
\* condition set: hci_h4_send_msg's two calls.
LEMMA LpmSendTypes ==
  ASSUME NEW l \in LpmBlocks
  PROVE  /\ LpmWakeAssert(l) \in LpmBlocks /\ LpmWakeAssert(l).state = l.state
         /\ LpmTxDone(LpmWakeAssert(l), TRUE) \in LpmBlocks
         /\ LpmTxDone(LpmWakeAssert(l), TRUE).state = l.state
PROOF
  <1>1. LpmWakeAssert(l) \in LpmBlocks /\ LpmWakeAssert(l).state = l.state
    BY LpmTypes, Zenon
  <1> DEFINE k == LpmWakeAssert(l)
  <1> HIDE DEF k
  <1>2. k \in LpmBlocks /\ k.state = l.state
    BY <1>1 DEF k
  <1>3. LpmTxDone(k, TRUE) \in LpmBlocks /\ LpmTxDone(k, TRUE).state = k.state
    BY <1>2, LpmTypes, Zenon
  <1> QED BY <1>1, <1>2, <1>3, Zenon DEF k

\* The control block after a step of any kind.
LEMMA LpmStep ==
  ASSUME TransportTypeOK, [Next]_vars
  PROVE  /\ lpm' \in LpmBlocks
         /\ ~SetLpm /\ ~ReceiveInternal => lpm'.state = lpm.state
PROOF
  <1>1. lpm \in LpmBlocks
    BY DEF TransportTypeOK
  <1>2. CASE SetLpm
    <2> DEFINE l == LpmEnable(lpm, pc = "LPM_ENABLE")
    <2>1. (pc = "LPM_ENABLE") \in BOOLEAN
      OBVIOUS
    <2>2. l \in LpmBlocks
      BY <1>1, <2>1, LpmTypes, Zenon
    <2>3. lpm' \in {lpm, l, LpmVndCback(l, FALSE)}
      BY <1>2, Zenon DEF SetLpm
    <2> HIDE DEF l
    <2>4. LpmVndCback(l, FALSE) \in LpmBlocks
      BY <2>2, LpmTypes, Zenon
    <2> QED BY <1>1, <1>2, <2>2, <2>3, <2>4, Zenon
  <1>3. CASE ReceiveInternal
    <2>1. Head(rx_q) \in CtrlEvents
      <3>1. rx_q \in Seq(CtrlEvents) /\ rx_q # <<>>
        BY <1>3, Zenon DEF ReceiveInternal, TransportTypeOK
      <3> QED BY <3>1
    <2>2. Head(rx_q).ok \in BOOLEAN
      BY <2>1 DEF CtrlEvents
    <2>3. lpm' = LpmVndCback(lpm, Head(rx_q).ok) \/ lpm' = lpm
      BY <1>3, Zenon DEF ReceiveInternal
    <2>4. LpmVndCback(lpm, Head(rx_q).ok) \in LpmBlocks
      BY <1>1, <2>2, LpmTypes
    <2> QED BY <1>1, <1>3, <2>3, <2>4
  <1>4. CASE SendMsg
    <2>1. lpm' \in {LpmWakeAssert(lpm), LpmTxDone(LpmWakeAssert(lpm), TRUE)}
      BY <1>4 DEF SendMsg
    <2> QED BY <1>1, <2>1, LpmSendTypes, Zenon
  <1>5. CASE LpmEvent
    <2>1. lpm' \in {LpmWakeDeassert(lpm), LpmAllowSleep(lpm)}
      BY <1>5 DEF LpmEvent
    <2> QED BY <1>1, <2>1, LpmTypes, Zenon
  <1>6. CASE Cleanup \/ IdleTimerFires
    <2>1. lpm' \in {lpm, StopIdleTimer(lpm)}
      BY <1>6 DEF Cleanup, IdleTimerFires
    <2> QED BY <1>1, <2>1, LpmTypes, Zenon
  <1>7. CASE \/ WakeUp \/ ReceiveForStack \/ ReceiveDone \/ StartProcedure \/ CollectTx \/ SendDone \/ Exit
             \/ Stack \/ IdleTimeout \/ CtrlAnswers \/ CtrlNop \/ UNCHANGED vars
    <2>1. lpm' = lpm
      BY <1>7, Zenon DEF WakeUp, ReceiveForStack, ReceiveDone, StartProcedure, CollectTx, SendDone, Exit, Stack,
                  TransmitBuf, Request, AllowSleep, IdleTimeout, CtrlAnswers, CtrlNop, vars
    <2> QED BY <1>1, <2>1
  <1> QED BY <1>2, <1>3, <1>4, <1>5, <1>6, <1>7 DEF Next, Worker
-----------------------------------------------------------------------------
(* The ring's invariant, step by step.                                     *)

\* The next state's queues and ring are well formed and match.
RingNext == RingInv' /\ QueueTypes(rx_q', ctrl', sending', tx_q') /\ RingOK(h4')

\* A step that asks for, issues and releases nothing.
LEMMA QuietStep ==
  ASSUME TransportTypeOK, RingInv, MatchedNext(Loads, Lpms), Tokens' = Tokens, asked' = asked,
         done' = done, LpmBusy(lpm') <=> LpmBusy(lpm)
  PROVE  RingNext
PROOF
  <1>1. Lpms = (IF LpmBusy(lpm') THEN 1 ELSE 0)
    BY TokenFacts
  <1>2. /\ Tokens' + Loads <= 1 /\ (asked' = 0 => Tokens' + Loads = 0 /\ "fw" \notin done')
        /\ (asked' = 1 /\ "fw" \in done' => Tokens' + Loads = 0)
    BY TokenFacts
  <1> QED BY <1>1, <1>2, RingBack DEF RingNext

\* The bits of the load procedures after a step to the next handler.
LEMMA GotoTokens ==
  ASSUME PassInv, NEW evs, evs \subseteq HandlerSet, NEW k \in Nat, Goto(evs, k)
  PROVE  /\ "PRELOAD" \in events' <=> "PRELOAD" \in evs /\ k < 2
         /\ "POSTLOAD" \in events' <=> "POSTLOAD" \in evs /\ k < 3
PROOF
  <1>1. events' = {e \in evs : Rank(e) > k}
    BY GotoPass
  <1> QED BY <1>1, Ranks

\* Request: the next request is made once the firmware procedure has reported.
LEMMA RequestRing ==
  ASSUME TransportTypeOK, PassInv, RingInv, Request
  PROVE  RingNext
PROOF
  <1>1. /\ asked < Len(Requests) /\ (asked > 0 => "fw" \in done) /\ asked' = asked + 1
        /\ ready' = ready \cup {Requests[asked + 1]} /\ h4' = h4 /\ events' = events /\ done' = done
        /\ UNCHANGED <<rx_q, ctrl, sending, tx_q>> /\ lpm' = lpm /\ asked \in Nat
    BY DEF Request, workerVars, ctrlVars, TransportTypeOK
  <1>2. MatchedNext(Loads, Lpms)
    BY <1>1, QuietRing
  <1>3. Lpms = (IF LpmBusy(lpm') THEN 1 ELSE 0)
    BY <1>1, TokenFacts
  <1>4. CASE asked < 2
    <2>1. Tokens = 0 /\ Loads = 0 /\ (asked = 0 => "fw" \notin done)
      BY <1>1, <1>4, TokenFacts
    <2>2. \/ asked = 0 /\ ready' = ready \cup {"PRELOAD"}
          \/ asked = 1 /\ ready' = ready \cup {"POSTLOAD"}
      BY <1>1, <1>4, RequestTypes
    <2>3. {"PRELOAD", "POSTLOAD"} \cap (ready \cup events) = {}
      BY <2>1 DEF Tokens, Asked
    <2>4. Tokens' = 1
      BY <1>1, <2>2, <2>3 DEF Tokens, Asked
    <2> QED BY <1>1, <1>2, <1>3, <1>4, <2>1, <2>4, RingBack DEF RingNext
  <1>5. CASE asked >= 2
    <2>1. Requests[asked + 1] \notin {"PRELOAD", "POSTLOAD"}
      BY <1>1, <1>5, RequestTypes
    <2>2. Tokens' = Tokens
      BY <1>1, <2>1, TokensKept
    <2>3. Tokens' + Loads <= 1 /\ asked' > 1
      BY <1>1, <1>5, <2>2, TokenFacts
    <2> QED BY <1>1, <1>2, <1>3, <2>3, RingBack DEF RingNext
  <1> QED BY <1>1, <1>4, <1>5

\* PRELOAD and POSTLOAD: the request becomes a command.
LEMMA StartRing ==
  ASSUME TransportTypeOK, PassInv, RingInv, StartProcedure
  PROVE  RingNext
PROOF
  <1>1. PICK c \in {"fw", "sco", "acl"} : Emit(c, PutIntCmd(h4, NextOp(c))) /\ done' = done
    <2>1. ~Refuses(h4)
      BY RingFacts, Zenon
    <2> QED BY <2>1 DEF StartProcedure
  <1>2. /\ pc \in {"PRELOAD", "POSTLOAD"} /\ Goto(events, Rank(pc)) /\ lpm' = lpm /\ asked' = asked
        /\ UNCHANGED <<rx_q, ctrl, sending>> /\ ready' = ready \cup {"TX"}
    BY <1>1 DEF StartProcedure, Proceed, Emit, stackVars, ctrlVars
  <1>3. pc \in events /\ events \subseteq HandlerSet /\ \A e \in events : Rank(e) >= Rank(pc)
    BY <1>2, Ranks DEF PassInv, TransportTypeOK
  <1>4. Tokens \in Nat /\ Tokens + Loads <= 1 /\ Loads \in {0, 1}
    BY TokenFacts
  <1>5. Tokens = 1 /\ Loads = 0
    <2>1. Tokens >= 1
      BY <1>2, <1>3 DEF Tokens, Asked
    <2> QED BY <1>4, <2>1
  <1>6. Tokens' = 0
    <2>1. /\ "PRELOAD" \in events' <=> "PRELOAD" \in events /\ Rank(pc) < 2
          /\ "POSTLOAD" \in events' <=> "POSTLOAD" \in events /\ Rank(pc) < 3
      BY <1>2, <1>3, GotoTokens, Ranks, Zenon
    <2> QED BY <1>2, <1>3, <1>5, <2>1, Ranks DEF Tokens, Asked
  <1>7. asked # 0 /\ ~(asked = 1 /\ "fw" \in done)
    BY <1>5, TokenFacts
  <1>8. Lpms = (IF LpmBusy(lpm') THEN 1 ELSE 0) /\ h4.count < IntMax
    BY <1>2, <1>5, TokenFacts, TransportAssumption
  <1>9. c \in Procedures /\ c # "lpm"
    BY DEF Procedures
  <1>10. MatchedNext(Loads + (IF c = "lpm" THEN 0 ELSE 1), Lpms + (IF c = "lpm" THEN 1 ELSE 0))
    BY <1>1, <1>2, <1>8, <1>9, IssueRing
  <1>11. Lpms \in Nat
    BY <1>8
  <1>12. MatchedNext(1, Lpms)
    <2>1. Loads + (IF c = "lpm" THEN 0 ELSE 1) = 1 /\ Lpms + (IF c = "lpm" THEN 1 ELSE 0) = Lpms
      BY <1>5, <1>9, <1>11
    <2> QED BY <1>10, <2>1, Zenon
  <1>13. Tokens' + 1 <= 1 /\ asked' # 0 /\ ~(asked' = 1 /\ "fw" \in done')
    BY <1>1, <1>2, <1>6, <1>7
  <1> QED BY <1>8, <1>12, <1>13, RingBack DEF RingNext

\* LPM_ENABLE and LPM_DISABLE: dropped, or one sleep mode command is issued.
LEMMA SetLpmRing ==
  ASSUME TransportTypeOK, PassInv, RingInv, SetLpm
  PROVE  RingNext
PROOF
  <1>1. /\ pc \in {"LPM_ENABLE", "LPM_DISABLE"} /\ Goto(events, Rank(pc)) /\ asked' = asked /\ done' = done
        /\ UNCHANGED <<rx_q, ctrl, sending>>
        /\ \/ LpmBusy(lpm) /\ UNCHANGED <<lpm, tx_q, ready, h4>>
           \/ /\ ~LpmBusy(lpm) /\ lpm' = LpmEnable(lpm, pc = "LPM_ENABLE")
              /\ Emit("lpm", PutIntCmd(h4, NextOp("lpm")))
    <2>1. ~Refuses(h4)
      BY RingFacts
    <2> QED BY <2>1, Zenon DEF SetLpm, Proceed, stackVars, ctrlVars
  <1>2. pc \in events /\ events \subseteq HandlerSet /\ \A e \in events : Rank(e) >= Rank(pc)
    BY <1>1, Ranks, Zenon DEF PassInv, TransportTypeOK
  <1>3. Tokens' = Tokens
    <2>1. "PRELOAD" \notin events /\ "POSTLOAD" \notin events
      BY <1>1, <1>2, Ranks
    <2>2. "PRELOAD" \notin events' /\ "POSTLOAD" \notin events'
      BY <1>1, <1>2, <2>1, GotoTokens, Ranks, Zenon
    <2>3. ("PRELOAD" \in ready' <=> "PRELOAD" \in ready) /\ ("POSTLOAD" \in ready' <=> "POSTLOAD" \in ready)
      BY <1>1 DEF Emit
    <2> QED BY <2>1, <2>2, <2>3, TokensKept
  <1>4. CASE LpmBusy(lpm)
    <2>1. UNCHANGED <<lpm, tx_q, ready, h4>>
      BY <1>1, <1>4
    <2>2. MatchedNext(Loads, Lpms)
      BY <1>1, <2>1, QuietRing
    <2> QED BY <1>1, <1>3, <2>1, <2>2, QuietStep
  <1>5. CASE ~LpmBusy(lpm)
    <2>1. lpm' = LpmEnable(lpm, pc = "LPM_ENABLE") /\ Emit("lpm", PutIntCmd(h4, NextOp("lpm")))
      BY <1>1, <1>5
    <2>2. LpmBusy(lpm')
      <3>1. lpm \in LpmBlocks /\ (pc = "LPM_ENABLE") \in BOOLEAN
        BY DEF TransportTypeOK
      <3> QED BY <2>1, <3>1, LpmTypes, Zenon
    <2>3. Lpms = 0 /\ Loads \in {0, 1} /\ h4.count < IntMax
      BY <1>5, TokenFacts, TransportAssumption
    <2>4. "lpm" \in Procedures
      BY DEF Procedures
    <2>5. MatchedNext(Loads + (IF "lpm" = "lpm" THEN 0 ELSE 1), Lpms + (IF "lpm" = "lpm" THEN 1 ELSE 0))
      BY <1>1, <2>1, <2>3, <2>4, IssueRing
    <2>6. MatchedNext(Loads, 1)
      <3>1. Loads + (IF "lpm" = "lpm" THEN 0 ELSE 1) = Loads /\ Lpms + (IF "lpm" = "lpm" THEN 1 ELSE 0) = 1
        BY <2>3
      <3> QED BY <2>5, <3>1, Zenon
    <2>7. /\ Tokens' + Loads <= 1 /\ (asked' = 0 => Tokens' + Loads = 0 /\ "fw" \notin done')
          /\ (asked' = 1 /\ "fw" \in done' => Tokens' + Loads = 0)
      BY <1>1, <1>3, TokenFacts
    <2>8. 1 = (IF LpmBusy(lpm') THEN 1 ELSE 0)
      BY <2>2
    <2> QED BY <2>6, <2>7, <2>8, RingBack DEF RingNext
  <1> QED BY <1>4, <1>5

\* An answer is intercepted: its procedure goes on or reports.
LEMMA ReceiveRing ==
  ASSUME TransportTypeOK, PassInv, RingInv, ReceiveInternal
  PROVE  RingNext
PROOF
  <1> DEFINE c  == Head(rx_q).op.src
             nx == Continue(c, Head(rx_q).ok)
  <1>1. /\ c = "lpm" => Lpms = 1 /\ MatchedNext(Loads, 0)
        /\ c # "lpm" /\ nx = "end" => Loads = 1 /\ MatchedNext(0, Lpms)
        /\ c # "lpm" /\ nx # "end" => Loads = 1 /\ MatchedNext(1, Lpms)
    BY AnswerRing
  <1>2. c \in Procedures /\ (c = "lpm" => nx = "end")
    BY AnswerRing, ContinueType, Zenon
  <1>3. /\ events' = events /\ asked' = asked
        /\ ready' = ready \/ ready' = ready \cup {"TX"}
        /\ lpm' = (IF c = "lpm" THEN LpmVndCback(lpm, Head(rx_q).ok) ELSE lpm)
        /\ IF nx = "end" THEN done' = done \cup {Reports(c)} ELSE done' = done
    <2>1. ~Refuses(h4)
      BY RingFacts
    <2> QED BY <2>1, Zenon DEF ReceiveInternal, stackVars, Emit
  <1>4. c = "lpm" => ~LpmBusy(lpm')
    <2>1. Head(rx_q) \in CtrlEvents
      BY DEF ReceiveInternal, TransportTypeOK
    <2>2. Head(rx_q).ok \in BOOLEAN /\ lpm \in LpmBlocks
      BY <2>1 DEF CtrlEvents, TransportTypeOK
    <2> QED BY <1>3, <2>2, LpmTypes, Zenon
  <1> HIDE DEF c, nx
  <1>5. Tokens' = Tokens
    BY <1>3, TokensKept
  <1>6. /\ Tokens \in Nat /\ Loads \in {0, 1} /\ Tokens + Loads <= 1
        /\ asked = 0 => Tokens + Loads = 0 /\ "fw" \notin done
        /\ asked = 1 /\ "fw" \in done => Tokens + Loads = 0
        /\ Lpms = (IF LpmBusy(lpm) THEN 1 ELSE 0)
    BY TokenFacts
  <1>7. CASE c = "lpm"
    <2>1. MatchedNext(Loads, 0) /\ 0 = (IF LpmBusy(lpm') THEN 1 ELSE 0)
      BY <1>1, <1>4, <1>7
    <2>2. "fw" \in done' <=> "fw" \in done
      BY <1>2, <1>3, <1>7 DEF Reports
    <2>3. /\ Tokens' + Loads <= 1 /\ (asked' = 0 => Tokens' + Loads = 0 /\ "fw" \notin done')
          /\ (asked' = 1 /\ "fw" \in done' => Tokens' + Loads = 0)
      BY <1>3, <1>5, <1>6, <2>2
    <2> QED BY <2>1, <2>3, RingBack DEF RingNext
  <1>8. CASE c # "lpm"
    <2>1. Loads = 1 /\ Tokens = 0 /\ asked # 0 /\ ~(asked = 1 /\ "fw" \in done)
      BY <1>1, <1>6, <1>8
    <2>2. Lpms = (IF LpmBusy(lpm') THEN 1 ELSE 0)
      BY <1>3, <1>6, <1>8
    <2>3. CASE nx = "end"
      <3>1. MatchedNext(0, Lpms)
        BY <1>1, <1>8, <2>3
      <3>2. Tokens' + 0 = 0 /\ asked' # 0
        BY <1>3, <1>5, <2>1
      <3> QED BY <2>2, <3>1, <3>2, RingBack DEF RingNext
    <2>4. CASE nx # "end"
      <3>1. MatchedNext(1, Lpms)
        BY <1>1, <1>8, <2>4
      <3>2. Tokens' + 1 <= 1 /\ asked' # 0 /\ ~(asked' = 1 /\ "fw" \in done')
        BY <1>3, <1>5, <2>1, <2>4
      <3> QED BY <2>2, <3>1, <3>2, RingBack DEF RingNext
    <2> QED BY <2>3, <2>4
  <1> QED BY <1>7, <1>8, Zenon

\* Every step keeps the ring's invariant and the shape of ring and queues.
LEMMA RingStep ==
  ASSUME TransportTypeOK, PassInv, RingInv, [Next]_vars
  PROVE  RingNext
PROOF
  <1>1. CASE Request
    BY <1>1, RequestRing
  <1>2. CASE StartProcedure
    BY <1>2, StartRing
  <1>3. CASE SetLpm
    BY <1>3, SetLpmRing
  <1>4. CASE ReceiveInternal
    BY <1>4, ReceiveRing
  <1>5. ASSUME ~Request, ~StartProcedure, ~SetLpm, ~ReceiveInternal PROVE RingNext
    <2>1. LpmBusy(lpm') <=> LpmBusy(lpm)
      BY <1>5, LpmStep DEF LpmBusy
    <2>e. events \subseteq HandlerSet /\ ready \subseteq HandlerSet /\ {"RX", "TX", "IDLE", "SLEEP"} \subseteq HandlerSet
      BY Ranks, Zenon DEF TransportTypeOK
    <2>2. CASE (\E m \in todo : TransmitBuf(m)) \/ CtrlAnswers \/ CtrlNop \/ CollectTx \/ SendMsg \/ ReceiveForStack
      <3>1. MatchedNext(Loads, Lpms)
        <4>1. h4' = h4
          BY <2>2, Zenon DEF TransmitBuf, CtrlAnswers, CtrlNop, CollectTx, SendMsg, ReceiveForStack
        <4> QED BY <2>2, <4>1, QuietRing
      <3>2. asked' = asked /\ done' = done /\ events' = events
        BY <2>2, Zenon DEF TransmitBuf, CtrlAnswers, CtrlNop, CollectTx, SendMsg, ReceiveForStack, stackVars, workerVars
      <3>3. ready' \in {ready, ready \cup {"TX"}, ready \cup {"RX"}}
        BY <2>2, Zenon DEF TransmitBuf, CtrlAnswers, CtrlNop, Report, CollectTx, SendMsg, ReceiveForStack
      <3>4. Tokens' = Tokens
        BY <3>2, <3>3, TokensKept
      <3> QED BY <2>1, <3>1, <3>2, <3>4, QuietStep
    <2>3. CASE \/ AllowSleep \/ Cleanup \/ IdleTimerFires \/ IdleTimeout
               \/ WakeUp \/ ReceiveDone \/ SendDone \/ LpmEvent \/ Exit \/ UNCHANGED vars
      <3>1. UNCHANGED <<rx_q, ctrl, sending, tx_q, h4, asked, done>>
        BY <2>3, Zenon DEF AllowSleep, Cleanup, IdleTimerFires, IdleTimeout, WakeUp, ReceiveDone, SendDone,
                    LpmEvent, Exit, vars, stackVars, workerVars, ctrlVars
      <3>2. MatchedNext(Loads, Lpms)
        BY <3>1, QuietRing
      <3>3. Tokens' = Tokens
        <4>1. CASE AllowSleep \/ Cleanup \/ IdleTimerFires \/ IdleTimeout \/ Exit \/ UNCHANGED vars
          <5>1. events' = events /\ ready' \in {ready, ready \cup {"SLEEP"}, ready \cup {"EXIT"}, ready \cup {"IDLE"}}
            BY <4>1 DEF AllowSleep, Cleanup, IdleTimerFires, IdleTimeout, Exit, vars, workerVars
          <5> QED BY <5>1, TokensKept, Zenon
        <4>2. CASE WakeUp
          <5>1. Goto(ready, 0) /\ events = {} /\ ready' = {}
            BY <4>2, Ranks DEF WakeUp, Proceed, PassInv
          <5>2. /\ "PRELOAD" \in events' <=> "PRELOAD" \in ready
                /\ "POSTLOAD" \in events' <=> "POSTLOAD" \in ready
            BY <2>e, <5>1, GotoTokens
          <5> QED BY <5>1, <5>2 DEF Tokens, Asked
        <4>3. CASE ReceiveDone
          <5>1. PICK evs \in {events, events \cup {"TX"}} : Goto(evs, 1) /\ ready' = ready
            BY <4>3, Ranks DEF ReceiveDone, Proceed
          <5>2. /\ "PRELOAD" \in events' <=> "PRELOAD" \in events
                /\ "POSTLOAD" \in events' <=> "POSTLOAD" \in events
            BY <2>e, <5>1, GotoTokens
          <5> QED BY <5>1, <5>2, TokensKept
        <4>4. CASE SendDone \/ LpmEvent
          <5>1. PICK k \in {4, 7, 8} : Goto(events, k) /\ ready' = ready /\ \A e \in events : Rank(e) >= k
            BY <4>4, Ranks DEF SendDone, LpmEvent, Proceed, PassInv
          <5>2. "PRELOAD" \notin events /\ "POSTLOAD" \notin events
            BY <5>1, Ranks
          <5>3. "PRELOAD" \notin events' /\ "POSTLOAD" \notin events'
            BY <2>e, <5>1, <5>2, GotoTokens
          <5> QED BY <5>1, <5>2, <5>3, TokensKept, Zenon
        <4> QED BY <2>3, <4>1, <4>2, <4>3, <4>4
      <3> QED BY <2>1, <3>1, <3>2, <3>3, QuietStep
    <2> QED BY <1>5, <2>2, <2>3 DEF Next, Worker, Stack
  <1> QED BY <1>1, <1>2, <1>3, <1>4, <1>5
-----------------------------------------------------------------------------
(* The types, step by step.                                                *)

\* The counters of the internal procedures.
LEMMA StepType ==
  ASSUME TransportTypeOK, RingInv, [Next]_vars
  PROVE  step' \in [Procedures -> Nat]
PROOF
  <1>1. step \in [Procedures -> Nat]
    BY DEF TransportTypeOK
  <1>2. ASSUME NEW c \in Procedures, step' = [step EXCEPT ![c] = @ + 1]
        PROVE  step' \in [Procedures -> Nat]
    BY <1>1, <1>2
  <1>3. CASE ReceiveInternal
    <2> DEFINE d == Head(rx_q).op.src
               nx == Continue(d, Head(rx_q).ok)
    <2>1. nx # "end" => nx \in Procedures
      BY <1>3, AnswerRing, ContinueType, Zenon DEF Procedures
    <2>2. step' = step \/ (nx # "end" /\ step' = [step EXCEPT ![nx] = @ + 1])
      BY <1>3 DEF ReceiveInternal, Emit
    <2> HIDE DEF nx
    <2> QED BY <1>1, <1>2, <2>1, <2>2, Zenon
  <1>4. CASE StartProcedure \/ SetLpm
    <2>1. step' = step \/ \E c \in Procedures : step' = [step EXCEPT ![c] = @ + 1]
      BY <1>4, Zenon DEF StartProcedure, SetLpm, Emit, Procedures
    <2> QED BY <1>1, <1>2, <2>1
  <1>5. CASE \/ WakeUp \/ ReceiveForStack \/ ReceiveDone \/ CollectTx \/ SendMsg \/ SendDone \/ LpmEvent \/ Exit
             \/ Stack \/ Cleanup \/ IdleTimerFires \/ IdleTimeout \/ CtrlAnswers \/ CtrlNop \/ UNCHANGED vars
    <2>1. step' = step
      BY <1>5, Zenon DEF WakeUp, ReceiveForStack, ReceiveDone, CollectTx, SendMsg, SendDone, LpmEvent, Exit, Stack,
                  TransmitBuf, Request, AllowSleep, Cleanup, IdleTimerFires, IdleTimeout, CtrlAnswers, CtrlNop, vars
    <2> QED BY <1>1, <2>1
  <1> QED BY <1>3, <1>4, <1>5 DEF Next, Worker

\* The scalars, and what the stack has left to send.
LEMMA ScalarTypes ==
  ASSUME TransportTypeOK, [Next]_vars
  PROVE  /\ idle_cb' \in BOOLEAN /\ pending' \in BOOLEAN /\ credits' \in Int /\ asked' \in Nat
         /\ build' \in Builds /\ todo' \subseteq build'.packets
PROOF
  <1>1. /\ idle_cb \in BOOLEAN /\ pending \in BOOLEAN /\ credits \in Int /\ asked \in Nat
        /\ build \in Builds /\ todo \subseteq build.packets
    BY DEF TransportTypeOK
  <1>2. CASE ReceiveInternal \/ ReceiveForStack
    <2>1. Head(rx_q) \in CtrlEvents
      <3>1. rx_q \in Seq(CtrlEvents) /\ rx_q # <<>>
        BY <1>2, Zenon DEF ReceiveInternal, ReceiveForStack, TransportTypeOK
      <3> QED BY <3>1
    <2>2. Head(rx_q).n \in Int
      BY <2>1 DEF CtrlEvents
    <2>3. credits' = Head(rx_q).n /\ UNCHANGED <<idle_cb, pending, asked, build, todo>>
      BY <1>2, Zenon DEF ReceiveInternal, ReceiveForStack, stackVars
    <2> QED BY <1>1, <2>2, <2>3
  <1>3. CASE SendMsg
    <2>1. credits' \in {credits - 1, credits} /\ UNCHANGED <<idle_cb, pending, asked, build, todo>>
      BY <1>3, Zenon DEF SendMsg, stackVars
    <2> QED BY <1>1, <2>1
  <1>4. CASE CollectTx
    BY <1>1, <1>4, Zenon DEF CollectTx, stackVars
  <1>5. CASE Stack \/ Cleanup
    <2>1. CASE \E x \in todo : TransmitBuf(x)
      BY <1>1, <2>1, Zenon DEF TransmitBuf, workerVars
    <2>2. CASE Request
      <3>1. asked' = asked + 1 /\ UNCHANGED <<idle_cb, pending, credits, build, todo>>
        BY <2>2, Zenon DEF Request, workerVars
      <3> QED BY <1>1, <3>1
    <2>3. CASE AllowSleep \/ Cleanup
      <3>1. UNCHANGED <<idle_cb, pending, credits, asked, build, todo>>
        BY <2>3 DEF AllowSleep, Cleanup, stackVars, workerVars
      <3> QED BY <1>1, <3>1, Zenon
    <2> QED BY <1>5, <2>1, <2>2, <2>3, Zenon DEF Stack
  <1>6. CASE IdleTimerFires \/ IdleTimeout
    BY <1>1, <1>6, Zenon DEF IdleTimerFires, IdleTimeout, stackVars, workerVars
  <1>7. CASE \/ WakeUp \/ ReceiveDone \/ StartProcedure \/ SetLpm \/ SendDone \/ LpmEvent \/ Exit
             \/ CtrlAnswers \/ CtrlNop \/ UNCHANGED vars
    <2>1. UNCHANGED <<idle_cb, pending, credits, asked, build, todo>>
      BY <1>7, Zenon DEF WakeUp, ReceiveDone, StartProcedure, SetLpm, SendDone, LpmEvent, Exit, CtrlAnswers, CtrlNop,
                  vars, stackVars, workerVars
    <2> QED BY <1>1, <2>1
  <1> QED BY <1>2, <1>3, <1>4, <1>5, <1>6, <1>7, Zenon DEF Next, Worker

\* Every step keeps the types and the worker's place in its pass.
LEMMA TypeStep ==
  ASSUME TransportTypeOK, PassInv, RingInv, [Next]_vars
  PROVE  TransportTypeOK' /\ PassInv' /\ RingInv'
PROOF
  <1>1. RingInv' /\ QueueTypes(rx_q', ctrl', sending', tx_q') /\ RingOK(h4')
    BY RingStep DEF RingNext
  <1>2. ControlOK' /\ PassInv'
    <2>1. ControlOK /\ asked \in Nat
      BY DEF ControlOK, TransportTypeOK
    <2> QED BY <2>1, PassStep, RequestTypes, Zenon
  <1>3. /\ tx_q' \in Seq(Packets) /\ sending' \in Seq(Packets)
        /\ ctrl' \in Seq(Commands) /\ rx_q' \in Seq(CtrlEvents) /\ h4' \in Rings
    BY <1>1 DEF QueueTypes, RingOK
  <1>4. lpm' \in LpmBlocks /\ step' \in [Procedures -> Nat]
    BY LpmStep, StepType
  <1> QED BY <1>1, <1>2, <1>3, <1>4, ScalarTypes, Zenon DEF TransportTypeOK, ControlOK, Rings
-----------------------------------------------------------------------------
(* Sleep mode commands that have been sent.                                *)

Sent(T) == Flow(rx_q, ctrl, <<>>, <<>>, T)

\* What has been sent is the older part of what is in flight.
LEMMA SentFlow ==
  ASSUME NEW r, NEW c, NEW s, NEW x, QueueTypes(r, c, s, x), NEW T
  PROVE  /\ QueueTypes(r, c, <<>>, <<>>)
         /\ Filter(OpsOf(r) \o c, T) = Flow(r, c, <<>>, <<>>, T)
         /\ Len(Flow(r, c, <<>>, <<>>, T)) \in Nat
         /\ Len(Flow(r, c, <<>>, <<>>, T)) <= Len(Flow(r, c, s, x, T))
PROOF
  <1> DEFINE Y == Ops \cap T
             a == Part(r, T)
             b == Filter(c, T)
             d == Part(s, T)
             e == Part(x, T)
  <1>1. QueueTypes(r, c, <<>>, <<>>)
    BY DEF QueueTypes
  <1>2. a \in Seq(Y) /\ b \in Seq(Y) /\ d \in Seq(Y) /\ e \in Seq(Y)
    BY PartsType
  <1>3. Flow(r, c, s, x, T) = Join(a, b, d, e)
    BY FlowParts
  <1>4. Flow(r, c, <<>>, <<>>, T) = Join(a, b, <<>>, <<>>)
    <2>1. Part(<<>>, T) = <<>>
      BY OpsOfEmpty, FilterEmpty, Zenon DEF Part
    <2>2. Flow(r, c, <<>>, <<>>, T) = Join(a, b, Part(<<>>, T), Part(<<>>, T))
      BY <1>1, FlowParts
    <2> QED BY <2>1, <2>2, Zenon
  <1>5. OpsOf(r) \o c = Pipe(r, c, <<>>, <<>>)
    <2>1. OpsOf(r) \in Seq(Ops) /\ c \in Seq(Ops)
      BY QueuesCarry
    <2> DEFINE u == OpsOf(r) \o c
    <2>2. u \in Seq(Ops)
      BY <2>1
    <2> HIDE DEF u
    <2>3. u \o <<>> = u
      BY <2>2
    <2>4. Pipe(r, c, <<>>, <<>>) = (u \o <<>>) \o <<>>
      BY OpsOfEmpty, Zenon DEF Pipe, u
    <2>5. Pipe(r, c, <<>>, <<>>) = u
      BY <2>3, <2>4, Zenon
    <2> QED BY <2>5, Zenon DEF u
  <1> HIDE DEF Y, a, b, d, e
  <1> DEFINE z == <<>>
  <1>6. z \in Seq(Y) /\ Len(z) = 0
    OBVIOUS
  <1> HIDE DEF z
  <1>7. /\ Len(Join(a, b, d, e)) = Len(a) + Len(b) + Len(d) + Len(e)
        /\ Len(Join(a, b, z, z)) = Len(a) + Len(b) + Len(z) + Len(z)
    <2>1. z \in Seq(Y)
      BY <1>6
    <2> QED BY <1>2, <2>1, JoinType
  <1>8. Len(a) \in Nat /\ Len(b) \in Nat /\ Len(d) \in Nat /\ Len(e) \in Nat
    BY <1>2
  <1> DEFINE la == Len(a)
             lb == Len(b)
             ld == Len(d)
             le == Len(e)
             i == Len(Join(a, b, d, e))
             j == Len(Join(a, b, z, z))
  <1>9. i = la + lb + ld + le /\ j = la + lb /\ la \in Nat /\ lb \in Nat /\ ld \in Nat /\ le \in Nat
    BY <1>6, <1>7, <1>8
  <1>10. j \in Nat /\ j <= i
    <2> HIDE DEF i, j, la, lb, ld, le
    <2> QED BY <1>9
  <1> QED BY <1>1, <1>3, <1>4, <1>5, <1>10, Zenon DEF Flow, z

\* The controller's event, and the command it answers.
LEMMA CtrlEventType ==
  ASSUME TransportTypeOK
  PROVE  /\ CtrlAnswers => /\ ctrl # <<>> /\ ctrl' = Tail(ctrl)
                           /\ \E ev \in CtrlEvents : ev.op = Head(ctrl) /\ rx_q' = Append(rx_q, ev)
         /\ CtrlNop => /\ ctrl' = ctrl
                       /\ \E ev \in CtrlEvents : ev.op = NoOp /\ rx_q' = Append(rx_q, ev)
PROOF
  <1>1. ASSUME NEW op \in Commands \cup {NoOp}, NEW oks \in SUBSET BOOLEAN, NEW held, Report(op, oks, held)
        PROVE  \E ev \in CtrlEvents : ev.op = op /\ rx_q' = Append(rx_q, ev)
    <2>1. PICK n \in 0 .. CtrlSlots, ok \in BOOLEAN :
             rx_q' = Append(rx_q, [e |-> AnswerKind(op), op |-> op, n |-> n, ok |-> ok])
      BY <1>1 DEF Report
    <2>2. [e |-> AnswerKind(op), op |-> op, n |-> n, ok |-> ok] \in CtrlEvents
      BY AnswerType
    <2> QED BY <2>1, <2>2
  <1>2. CtrlAnswers => /\ ctrl # <<>> /\ ctrl' = Tail(ctrl)
                       /\ \E ev \in CtrlEvents : ev.op = Head(ctrl) /\ rx_q' = Append(rx_q, ev)
    <2> SUFFICES ASSUME CtrlAnswers
                 PROVE  /\ ctrl # <<>> /\ ctrl' = Tail(ctrl)
                        /\ \E ev \in CtrlEvents : ev.op = Head(ctrl) /\ rx_q' = Append(rx_q, ev)
      OBVIOUS
    <2>1. ctrl # <<>> /\ ctrl' = Tail(ctrl)
      BY DEF CtrlAnswers
    <2>2. Head(ctrl) \in Commands \cup {NoOp}
      BY <2>1 DEF TransportTypeOK
    <2>3. \E oks \in SUBSET BOOLEAN : Report(Head(ctrl), oks, ctrl')
      BY Zenon DEF CtrlAnswers
    <2> QED BY <1>1, <2>1, <2>2, <2>3, Zenon
  <1>3. CtrlNop => /\ ctrl' = ctrl
                   /\ \E ev \in CtrlEvents : ev.op = NoOp /\ rx_q' = Append(rx_q, ev)
    <2>1. CtrlNop => ctrl' = ctrl /\ Report(NoOp, {TRUE}, <<>>)
      BY Zenon DEF CtrlNop
    <2> QED BY <1>1, <2>1, Zenon
  <1> QED BY <1>2, <1>3

\* An event of the controller leaves what has been sent as it was, and so does
\* the worker when it reads an answer to something else.
LEMMA SentKept ==
  ASSUME TransportTypeOK, NEW T, T \subseteq IntOps,
         \/ CtrlAnswers \/ CtrlNop \/ UNCHANGED <<rx_q, ctrl>>
         \/ rx_q # <<>> /\ rx_q' = Tail(rx_q) /\ ctrl' = ctrl /\ Head(rx_q).op \notin T
  PROVE  Flow(rx_q', ctrl', <<>>, <<>>, T) = Sent(T)
PROOF
  <1>q. QueueTypes(rx_q, ctrl, <<>>, <<>>)
    BY DEF TransportTypeOK, QueueTypes
  <1>1. CASE CtrlAnswers
    <2>1. PICK ev \in CtrlEvents : ev.op = Head(ctrl) /\ rx_q' = Append(rx_q, ev)
      BY <1>1, CtrlEventType
    <2>2. ctrl # <<>> /\ ctrl' = Tail(ctrl)
      BY <1>1, CtrlEventType
    <2>3. Flow(Append(rx_q, ev), Tail(ctrl), <<>>, <<>>, T) = Flow(rx_q, ctrl, <<>>, <<>>, T)
      BY <1>q, <2>1, <2>2, FlowAnswer
    <2> QED BY <2>1, <2>2, <2>3, Zenon DEF Sent
  <1>2. CASE CtrlNop
    <2>1. PICK ev \in CtrlEvents : ev.op = NoOp /\ rx_q' = Append(rx_q, ev)
      BY <1>2, CtrlEventType
    <2>2. ctrl' = ctrl
      BY <1>2, CtrlEventType
    <2>3. ev.op \notin T
      BY <2>1, SMTT(20) DEF NoOp, IntOps, Procedures
    <2>4. Flow(Append(rx_q, ev), ctrl, <<>>, <<>>, T) = Flow(rx_q, ctrl, <<>>, <<>>, T)
      BY <1>q, <2>3, FlowNop
    <2> QED BY <2>1, <2>2, <2>4, Zenon DEF Sent
  <1>3. CASE rx_q # <<>> /\ rx_q' = Tail(rx_q) /\ ctrl' = ctrl /\ Head(rx_q).op \notin T
    <2>1. rx_q # <<>>
      BY <1>3
    <2>2. ReceiveKeeps(rx_q, ctrl, <<>>, <<>>, T)
      BY <1>q, <2>1, FlowReceive, Zenon
    <2>3. rx_q' = Rest(rx_q) /\ ctrl' = ctrl /\ FirstOp(rx_q) \notin T
      BY <1>3, Zenon DEF Rest, FirstOp, First
    <2> QED BY <2>2, <2>3, Zenon DEF Sent, ReceiveKeeps
  <1>4. CASE UNCHANGED <<rx_q, ctrl>>
    BY <1>4, Zenon DEF Sent
  <1> QED BY <1>1, <1>2, <1>3, <1>4, Zenon
-----------------------------------------------------------------------------
(* Sleep mode, step by step.                                               *)

\* What lpm.c keeps true of its control block.
LpmOK(l) == /\ l.state = "DISABLED" => l.wake = "DEASSERTED"
            /\ l.wake = "W4_TIMEOUT" => l.no_tx
            /\ l.state = "ENABLED" => (l.pin <=> l.wake # "DEASSERTED")

\* The idle timer is stopped; the device is let sleep; the line goes down.
LEMMA LpmQuiet ==
  ASSUME NEW l \in LpmBlocks, LpmOK(l)
  PROVE  /\ LpmOK(StopIdleTimer(l)) /\ StopIdleTimer(l).wake = l.wake
         /\ StopIdleTimer(l).pin = l.pin /\ StopIdleTimer(l).timeout = l.timeout
         /\ LpmOK(LpmAllowSleep(l)) /\ (LpmBusy(l) => LpmAllowSleep(l) = l)
         /\ LpmAllowSleep(l) = l \/ LpmAllowSleep(l).wake # "W4_TIMEOUT" \/ LpmAllowSleep(l).timer = LpmAllowSleep(l).timeout
         /\ LpmOK(LpmWakeDeassert(l)) /\ (LpmBusy(l) => LpmWakeDeassert(l) = l)
         /\ l.state = "ENABLED" => LpmWakeDeassert(l).wake # "W4_TIMEOUT"
PROOF
  <1>1. LpmOK(StopIdleTimer(l)) /\ StopIdleTimer(l).wake = l.wake
        /\ StopIdleTimer(l).pin = l.pin /\ StopIdleTimer(l).timeout = l.timeout
    BY DEF LpmOK, LpmBlocks, StopIdleTimer
  <1>2. LpmOK(LpmAllowSleep(l)) /\ (LpmBusy(l) => LpmAllowSleep(l) = l)
    BY DEF LpmOK, LpmBlocks, LpmAllowSleep, StartIdleTimer, LpmBusy
  <1>3. LpmAllowSleep(l) = l \/ LpmAllowSleep(l).wake # "W4_TIMEOUT" \/ LpmAllowSleep(l).timer = LpmAllowSleep(l).timeout
    BY DEF LpmBlocks, LpmAllowSleep, StartIdleTimer
  <1>4. LpmOK(LpmWakeDeassert(l)) /\ (LpmBusy(l) => LpmWakeDeassert(l) = l)
        /\ (l.state = "ENABLED" => LpmWakeDeassert(l).wake # "W4_TIMEOUT")
    BY DEF LpmOK, LpmBlocks, LpmWakeDeassert, LpmBusy
  <1> QED BY <1>1, <1>2, <1>3, <1>4

\* A packet is sent: unless sleep mode is off, the device is awake.
LEMMA LpmSends ==
  ASSUME NEW l \in LpmBlocks, LpmOK(l),
         NEW k \in {LpmWakeAssert(l), LpmTxDone(LpmWakeAssert(l), TRUE)}
  PROVE  /\ LpmOK(k) /\ k.state = l.state
         /\ l.state # "DISABLED" => k.wake = "ASSERTED" /\ k.pin
PROOF
  <1> DEFINE a == LpmWakeAssert(l)
  <1>1. /\ a \in LpmBlocks /\ a.state = l.state
    BY LpmTypes, Zenon
  <1>2. /\ l.state # "DISABLED" => a.wake = "ASSERTED" /\ a.pin
        /\ l.state = "DISABLED" => a.wake = "DEASSERTED"
    BY DEF LpmOK, LpmBlocks, LpmWakeAssert, LpmTxDone, StopIdleTimer
  <1> HIDE DEF a
  <1>3. LpmTxDone(a, TRUE) = [a EXCEPT !.no_tx = TRUE]
    BY <1>1, <1>2 DEF LpmTxDone
  <1>4. LpmOK(a)
    BY <1>1, <1>2 DEF LpmOK
  <1>5. LpmOK(LpmTxDone(a, TRUE)) /\ LpmTxDone(a, TRUE).state = l.state
        /\ (l.state # "DISABLED" => LpmTxDone(a, TRUE).wake = "ASSERTED" /\ LpmTxDone(a, TRUE).pin)
    BY <1>1, <1>2, <1>3, Zenon DEF LpmOK, LpmBlocks
  <1>6. k = a \/ k = LpmTxDone(a, TRUE)
    BY Zenon DEF a
  <1> QED BY <1>1, <1>2, <1>4, <1>5, <1>6, Zenon

\* A request for the mode, and the vendor library's answer to one whose command
\* has been sent.
LEMMA LpmChanges ==
  ASSUME NEW l \in LpmBlocks, LpmOK(l), NEW b \in BOOLEAN
  PROVE  /\ LpmOK(LpmEnable(l, b))
         /\ l.wake = "ASSERTED" /\ l.pin => LpmOK(LpmVndCback(l, b)) /\ LpmVndCback(l, b).wake # "W4_TIMEOUT"
PROOF
  BY DEF LpmOK, LpmBlocks, LpmEnable, LpmVndCback

\* The invariant of sleep mode in terms of the block and of what has been sent.
LEMMA SleepFacts ==
  ASSUME TransportTypeOK, RingInv, SleepInv
  PROVE  /\ lpm \in LpmBlocks /\ LpmOK(lpm) /\ SleepNotForgotten
         /\ LpmBusy(lpm) /\ Len(Sent(LpmOps)) > 0 => lpm.wake = "ASSERTED" /\ lpm.pin
         /\ ~LpmBusy(lpm) => Len(Sent(LpmOps)) = 0
         /\ Len(Sent(LpmOps)) \in Nat
PROOF
  <1>1. QueueTypes(rx_q, ctrl, sending, tx_q)
    BY RingFacts
  <1>2. /\ Filter(OpsOf(rx_q) \o ctrl, LpmOps) = Flow(rx_q, ctrl, <<>>, <<>>, LpmOps)
        /\ Len(Flow(rx_q, ctrl, <<>>, <<>>, LpmOps)) \in Nat
        /\ Len(Flow(rx_q, ctrl, <<>>, <<>>, LpmOps)) <= Len(Flow(rx_q, ctrl, sending, tx_q, LpmOps))
    BY <1>1, SentFlow
  <1>3. Filter(SentOps, LpmOps) = Sent(LpmOps) /\ Len(Sent(LpmOps)) \in Nat /\ Len(Sent(LpmOps)) <= Lpms
    BY <1>2, Zenon DEF SentOps, Sent, Lpms, Flowing
  <1>4. Lpms = (IF LpmBusy(lpm) THEN 1 ELSE 0)
    BY TokenFacts
  <1> DEFINE n == Len(Sent(LpmOps))
  <1>5. n \in Nat /\ n <= Lpms
    BY <1>3
  <1>6. ~LpmBusy(lpm) => n = 0
    <2> HIDE DEF n
    <2> QED BY <1>4, <1>5
  <1>7. LpmBusy(lpm) /\ n > 0 => lpm.wake = "ASSERTED" /\ lpm.pin
    BY <1>3, Zenon DEF SleepInv
  <1>8. lpm \in LpmBlocks /\ LpmOK(lpm) /\ SleepNotForgotten
    BY DEF TransportTypeOK, SleepInv, PinMatchesState, LpmOK
  <1> QED BY <1>5, <1>6, <1>7, <1>8

\* Back from there, in the next state.
LEMMA SleepBack ==
  ASSUME QueueTypes(rx_q', ctrl', sending', tx_q'), LpmOK(lpm'), SleepNotForgotten',
         LpmBusy(lpm') /\ Len(Flow(rx_q', ctrl', <<>>, <<>>, LpmOps)) > 0 => lpm'.wake = "ASSERTED" /\ lpm'.pin
  PROVE  SleepInv'
PROOF
  <1>1. Filter(OpsOf(rx_q') \o ctrl', LpmOps) = Flow(rx_q', ctrl', <<>>, <<>>, LpmOps)
    BY SentFlow
  <1>2. Filter(SentOps, LpmOps)' = Flow(rx_q', ctrl', <<>>, <<>>, LpmOps)
    BY <1>1, Zenon DEF SentOps, OpsOf
  <1>3. LpmBusy(lpm)' /\ Len(Filter(SentOps, LpmOps))' > 0 => lpm'.wake = "ASSERTED" /\ lpm'.pin
    BY <1>2, Zenon DEF LpmBusy
  <1>4. /\ lpm'.state = "DISABLED" => lpm'.wake = "DEASSERTED"
        /\ lpm'.wake = "W4_TIMEOUT" => lpm'.no_tx
        /\ PinMatchesState'
    BY Zenon DEF LpmOK, PinMatchesState
  <1> QED BY <1>3, <1>4, Zenon DEF SleepInv

\* The wait for the idle timeout is kept by a step that leaves it to wait.
Awaits == lpm.timer \/ idle_cb \/ "IDLE" \in ready \/ "IDLE" \in events \/ pc = "IDLE" \/ api = "down"

\* Every step but the worker's handling of the timeout itself, and the ones that
\* wake the device, hands the timeout on: from the timer to its callback, to the
\* signal, to the worker's snapshot, to the handler.
LEMMA AwaitsStep ==
  ASSUME TransportTypeOK, PassInv, [Next]_vars, Awaits, ~SendMsg, ~LpmEvent,
         LpmIdleDue(lpm), LpmIdleDue(lpm')
  PROVE  Awaits' \/ ReceiveInternal \/ SetLpm
PROOF
  <1> USE DEF Awaits
  <1>h. "IDLE" \in HandlerSet /\ Rank("IDLE") = 7 /\ {"RX", "TX"} \subseteq HandlerSet
    BY Ranks
  <1>e. events \subseteq HandlerSet /\ ready \subseteq HandlerSet
    BY DEF TransportTypeOK
  <1>g. ASSUME NEW evs, evs \subseteq HandlerSet, NEW k \in Nat, k < 7, Goto(evs, k), "IDLE" \in evs
        PROVE  Awaits'
    <2>1. events' = {e \in evs : Rank(e) > k}
      BY <1>g, GotoPass
    <2> QED BY <1>g, <1>h, <2>1
  <1>1. CASE IdleTimerFires
    BY <1>1 DEF IdleTimerFires
  <1>2. CASE IdleTimeout
    BY <1>2 DEF IdleTimeout, workerVars, stackVars
  <1>3. CASE Cleanup
    BY <1>3 DEF Cleanup, workerVars
  <1>4. CASE WakeUp
    <2>1. Goto(ready, 0) /\ events = {} /\ UNCHANGED <<lpm, idle_cb, api>> /\ pc # "IDLE"
      BY <1>4, Ranks DEF WakeUp, Proceed, PassInv, stackVars
    <2> QED BY <1>e, <1>g, <2>1, SMTT(20)
  <1>5. CASE ReceiveDone
    <2>1. PICK evs \in {events, events \cup {"TX"}} : Goto(evs, 1)
      BY <1>5, Ranks, Zenon DEF ReceiveDone, Proceed
    <2>2. UNCHANGED <<lpm, idle_cb, api, ready>> /\ pc # "IDLE" /\ evs \subseteq HandlerSet
      BY <1>5, <1>e, <1>h DEF ReceiveDone, stackVars
    <2> QED BY <1>g, <2>1, <2>2, SMTT(20)
  <1>6. CASE SendDone
    <2>1. Goto(events, 4) /\ UNCHANGED <<lpm, idle_cb, api, ready>> /\ pc # "IDLE"
      BY <1>6, Ranks DEF SendDone, stackVars
    <2> QED BY <1>e, <1>g, <2>1, SMTT(20)
  <1>7. CASE StartProcedure
    <2>1. PICK k \in {2, 3} : Goto(events, k)
      BY <1>7, Ranks, Zenon DEF StartProcedure, Proceed
    <2>2. UNCHANGED <<lpm, idle_cb, api>> /\ ready \subseteq ready' /\ pc # "IDLE"
      BY <1>7, Zenon DEF StartProcedure, Emit, stackVars
    <2> QED BY <1>e, <1>g, <2>1, <2>2, SMTT(20)
  <1>8. CASE CollectTx \/ Exit \/ ReceiveForStack
    BY <1>8, Zenon DEF CollectTx, Exit, ReceiveForStack, stackVars
  <1>9. CASE Stack
    BY <1>9 DEF Stack, TransmitBuf, Request, AllowSleep, workerVars, stackVars
  <1>10. CASE CtrlAnswers \/ CtrlNop
    BY <1>10, Zenon DEF CtrlAnswers, CtrlNop, Report, workerVars, stackVars
  <1>11. CASE UNCHANGED vars
    BY <1>11 DEF vars, workerVars, stackVars
  <1> QED BY <1>1, <1>2, <1>3, <1>4, <1>5, <1>6, <1>7, <1>8, <1>9, <1>10, <1>11, Zenon DEF Next, Worker

\* The timeout's handler and BTU's permission to sleep.
LEMMA LpmEventSleep ==
  ASSUME TransportTypeOK, PassInv, RingInv, SleepInv, RingNext, LpmEvent
  PROVE  SleepInv'
PROOF
  <1>1. /\ lpm \in LpmBlocks /\ LpmOK(lpm) /\ SleepNotForgotten
        /\ LpmBusy(lpm) /\ Len(Sent(LpmOps)) > 0 => lpm.wake = "ASSERTED" /\ lpm.pin
    BY SleepFacts
  <1>2. /\ pc \in {"IDLE", "SLEEP"} /\ UNCHANGED <<rx_q, ctrl, ready, idle_cb, api>> /\ Goto(events, Rank(pc))
        /\ lpm' = IF pc = "IDLE" THEN LpmWakeDeassert(lpm) ELSE LpmAllowSleep(lpm)
    BY DEF LpmEvent, Proceed, stackVars, ctrlVars
  <1>3. LpmOK(lpm') /\ (LpmBusy(lpm) => lpm' = lpm) /\ lpm'.state = lpm.state
    BY <1>1, <1>2, LpmQuiet, LpmTypes, Zenon
  <1>4. LpmBusy(lpm') <=> LpmBusy(lpm)
    BY <1>3 DEF LpmBusy
  <1>5. LpmBusy(lpm') /\ Len(Flow(rx_q', ctrl', <<>>, <<>>, LpmOps)) > 0 => lpm'.wake = "ASSERTED" /\ lpm'.pin
    BY <1>1, <1>2, <1>3, <1>4, Zenon DEF Sent
  <1>6. SleepNotForgotten'
    <2>1. CASE pc = "IDLE"
      <3>1. lpm.state = "ENABLED" => lpm'.wake # "W4_TIMEOUT"
        BY <1>1, <1>2, <2>1, LpmQuiet, Zenon
      <3> QED BY <1>3, <3>1, Zenon DEF SleepNotForgotten
    <2>2. CASE pc = "SLEEP"
      <3>1. lpm' = lpm \/ lpm'.wake # "W4_TIMEOUT" \/ lpm'.timer = lpm'.timeout
        BY <1>1, <1>2, <2>2, LpmQuiet, Zenon
      <3>2. "IDLE" \notin events
        BY <2>2, Ranks, SMTT(20) DEF PassInv, TransportTypeOK
      <3>3. CASE lpm' = lpm
        BY <1>1, <1>2, <2>2, <3>2, <3>3 DEF SleepNotForgotten
      <3>4. CASE lpm'.wake # "W4_TIMEOUT" \/ lpm'.timer = lpm'.timeout
        BY <3>4, Zenon DEF SleepNotForgotten
      <3> QED BY <3>1, <3>3, <3>4
    <2> QED BY <1>2, <2>1, <2>2
  <1> QED BY <1>3, <1>5, <1>6, SleepBack DEF RingNext

\* A packet is sent: the device is awake, unless sleep mode is off.
LEMMA SendSleep ==
  ASSUME TransportTypeOK, PassInv, RingInv, SleepInv, RingNext, SendMsg
  PROVE  SleepInv'
PROOF
  <1>1. lpm \in LpmBlocks /\ LpmOK(lpm)
    BY SleepFacts
  <1>2. lpm' \in {LpmWakeAssert(lpm), LpmTxDone(LpmWakeAssert(lpm), TRUE)}
    BY DEF SendMsg
  <1>3. LpmOK(lpm') /\ lpm'.state = lpm.state /\ (lpm.state # "DISABLED" => lpm'.wake = "ASSERTED" /\ lpm'.pin)
    BY <1>1, <1>2, LpmSends, Zenon
  <1>4. SleepNotForgotten'
    BY <1>3 DEF SleepNotForgotten
  <1>5. LpmBusy(lpm') => lpm'.wake = "ASSERTED" /\ lpm'.pin
    BY <1>3 DEF LpmBusy
  <1> QED BY <1>3, <1>4, <1>5, SleepBack DEF RingNext

\* lpm_enable: no sleep mode command is in flight when one is issued.
LEMMA SetLpmSleep ==
  ASSUME TransportTypeOK, PassInv, RingInv, SleepInv, RingNext, SetLpm
  PROVE  SleepInv'
PROOF
  <1>1. /\ lpm \in LpmBlocks /\ LpmOK(lpm) /\ SleepNotForgotten
        /\ LpmBusy(lpm) /\ Len(Sent(LpmOps)) > 0 => lpm.wake = "ASSERTED" /\ lpm.pin
        /\ ~LpmBusy(lpm) => Len(Sent(LpmOps)) = 0
    BY SleepFacts
  <1>2. /\ UNCHANGED <<rx_q, ctrl>>
        /\ (LpmBusy(lpm) /\ lpm' = lpm) \/ (~LpmBusy(lpm) /\ lpm' = LpmEnable(lpm, pc = "LPM_ENABLE"))
    <2>1. ~Refuses(h4)
      BY RingFacts
    <2> QED BY <2>1, Zenon DEF SetLpm, ctrlVars
  <1>3. Flow(rx_q', ctrl', <<>>, <<>>, LpmOps) = Sent(LpmOps)
    BY <1>2 DEF Sent
  <1>4. CASE LpmBusy(lpm) /\ lpm' = lpm
    <2>1. SleepNotForgotten'
      BY <1>4 DEF SleepNotForgotten, LpmBusy
    <2> QED BY <1>1, <1>3, <1>4, <2>1, SleepBack DEF RingNext
  <1>5. CASE ~LpmBusy(lpm) /\ lpm' = LpmEnable(lpm, pc = "LPM_ENABLE")
    <2>1. (pc = "LPM_ENABLE") \in BOOLEAN
      OBVIOUS
    <2>2. LpmOK(lpm') /\ LpmBusy(lpm')
      BY <1>1, <1>5, <2>1, LpmChanges, LpmTypes, Zenon
    <2>3. SleepNotForgotten'
      BY <2>2 DEF SleepNotForgotten, LpmBusy
    <2>4. ~(Len(Flow(rx_q', ctrl', <<>>, <<>>, LpmOps)) > 0)
      BY <1>1, <1>3, <1>5
    <2> QED BY <2>2, <2>3, <2>4, SleepBack DEF RingNext
  <1> QED BY <1>2, <1>4, <1>5

\* lpm_vnd_cback runs on the answer to a command that was sent.
LEMMA ReceiveSleep ==
  ASSUME TransportTypeOK, PassInv, RingInv, SleepInv, RingNext, ReceiveInternal
  PROVE  SleepInv'
PROOF
  <1>1. /\ lpm \in LpmBlocks /\ LpmOK(lpm) /\ SleepNotForgotten
        /\ LpmBusy(lpm) /\ Len(Sent(LpmOps)) > 0 => lpm.wake = "ASSERTED" /\ lpm.pin
        /\ ~LpmBusy(lpm) => Len(Sent(LpmOps)) = 0
        /\ Len(Sent(LpmOps)) \in Nat
    BY SleepFacts
  <1> DEFINE ev == Head(rx_q)
             c == ev.op.src
  <1>2. /\ rx_q # <<>> /\ rx_q' = Tail(rx_q) /\ ctrl' = ctrl /\ UNCHANGED <<events, pc, idle_cb, api>>
        /\ ready \subseteq ready'
        /\ lpm' = (IF c = "lpm" THEN LpmVndCback(lpm, ev.ok) ELSE lpm)
    BY Zenon DEF ReceiveInternal, Emit, stackVars
  <1>3. ev.op \in IntOps /\ ev \in CtrlEvents
    <2>1. rx_q \in Seq(CtrlEvents) /\ Intercepts(ev)
      BY Zenon DEF ReceiveInternal, TransportTypeOK
    <2>2. ev \in CtrlEvents
      BY <1>2, <2>1
    <2> QED BY <1>2, <2>1, <2>2, InterceptsInternal, Zenon
  <1>4. ev.ok \in BOOLEAN /\ (ev.op \in LpmOps <=> c = "lpm")
    BY <1>3 DEF CtrlEvents, IntOps, LpmOps
  <1>5. LpmOps \subseteq IntOps
    BY DEF LpmOps, IntOps, Procedures
  <1>6. CASE c # "lpm"
    <2>1. Flow(rx_q', ctrl', <<>>, <<>>, LpmOps) = Sent(LpmOps)
      BY <1>2, <1>4, <1>5, <1>6, SentKept, Zenon
    <2>2. lpm' = lpm
      BY <1>2, <1>6, Zenon
    <2>3. SleepNotForgotten'
      BY <1>1, <1>2, <2>2, Zenon DEF SleepNotForgotten
    <2> QED BY <1>1, <2>1, <2>2, <2>3, SleepBack, Zenon DEF RingNext
  <1>7. CASE c = "lpm"
    <2>1. Len(Sent(LpmOps)) > 0
      <3>1. QueueTypes(rx_q, ctrl, <<>>, <<>>)
        BY DEF TransportTypeOK, QueueTypes
      <3>2. rx_q # <<>>
        BY <1>2
      <3>3. ReceiveKeeps(rx_q, ctrl, <<>>, <<>>, LpmOps) /\ QueueTypes(Rest(rx_q), ctrl, <<>>, <<>>)
        BY <3>1, <3>2, FlowReceive
      <3> DEFINE o == FirstOp(rx_q)
                 f == Flow(Rest(rx_q), ctrl, <<>>, <<>>, LpmOps)
      <3>4. o \in LpmOps /\ o \in Ops \cap LpmOps
        BY <1>3, <1>4, <1>7, Zenon DEF FirstOp, First, Ops, Commands
      <3>5. Sent(LpmOps) = Ahead(o, f)
        BY <3>3, <3>4, Zenon DEF ReceiveKeeps, Sent
      <3>6. f \in Seq(Ops \cap LpmOps)
        BY <3>3, FlowType
      <3> HIDE DEF o, f
      <3>7. Len(Ahead(o, f)) = Len(f) + 1 /\ Len(f) \in Nat
        BY <3>4, <3>6, FrontProperties
      <3>8. Len(Ahead(o, f)) > 0
        BY <3>7
      <3> QED BY <3>5, <3>8, Zenon
    <2>2. LpmBusy(lpm)
      <3> DEFINE n == Len(Sent(LpmOps))
      <3>1. n > 0 /\ (~LpmBusy(lpm) => n = 0)
        BY <1>1, <2>1
      <3> HIDE DEF n
      <3> QED BY <3>1
    <2>3. lpm.wake = "ASSERTED" /\ lpm.pin
      BY <1>1, <2>1, <2>2, Zenon
    <2>4. lpm' = LpmVndCback(lpm, ev.ok)
      BY <1>2, <1>7
    <2>5. LpmOK(lpm') /\ lpm'.wake # "W4_TIMEOUT" /\ ~LpmBusy(lpm')
      BY <1>1, <1>4, <2>3, <2>4, LpmChanges, LpmTypes, Zenon
    <2>6. SleepNotForgotten'
      BY <2>5 DEF SleepNotForgotten
    <2> QED BY <2>5, <2>6, SleepBack DEF RingNext
  <1> QED BY <1>6, <1>7

\* Every step keeps the invariant of sleep mode.
LEMMA SleepStep ==
  ASSUME TransportTypeOK, PassInv, RingInv, SleepInv, [Next]_vars
  PROVE  SleepInv'
PROOF
  <1>0. RingNext
    BY RingStep
  <1>1. CASE SendMsg
    BY <1>0, <1>1, SendSleep
  <1>2. CASE LpmEvent
    BY <1>0, <1>2, LpmEventSleep, Zenon
  <1>3. CASE SetLpm
    BY <1>0, <1>3, SetLpmSleep
  <1>4. CASE ReceiveInternal
    BY <1>0, <1>4, ReceiveSleep
  <1>5. ASSUME ~SendMsg, ~LpmEvent, ~SetLpm, ~ReceiveInternal
        PROVE  SleepInv'
    <2>1. /\ lpm \in LpmBlocks /\ LpmOK(lpm) /\ SleepNotForgotten
          /\ LpmBusy(lpm) /\ Len(Sent(LpmOps)) > 0 => lpm.wake = "ASSERTED" /\ lpm.pin
      BY SleepFacts
    <2>2. lpm' = lpm \/ lpm' = StopIdleTimer(lpm)
      BY <1>5, Zenon DEF Next, Worker, Stack, vars, WakeUp, ReceiveForStack, ReceiveDone, StartProcedure, CollectTx,
                  SendDone, Exit, TransmitBuf, Request, AllowSleep, Cleanup, IdleTimerFires, IdleTimeout,
                  CtrlAnswers, CtrlNop
    <2>3. LpmOK(lpm') /\ lpm'.state = lpm.state /\ lpm'.wake = lpm.wake /\ lpm'.pin = lpm.pin
          /\ lpm'.timeout = lpm.timeout
      BY <2>1, <2>2, LpmQuiet, LpmTypes, Zenon
    <2>4. Flow(rx_q', ctrl', <<>>, <<>>, LpmOps) = Sent(LpmOps)
      <3>1. LpmOps \subseteq IntOps
        BY DEF LpmOps, IntOps, Procedures
      <3>2. CASE ReceiveForStack
        <4>1. rx_q # <<>> /\ rx_q' = Tail(rx_q) /\ ctrl' = ctrl /\ Head(rx_q).op \notin IntOps
          BY <3>2, InterceptsInternal DEF ReceiveForStack
        <4> QED BY <3>1, <4>1, SentKept, Zenon
      <3>3. CASE CtrlAnswers \/ CtrlNop
        BY <3>1, <3>3, SentKept
      <3>4. CASE ~ReceiveForStack /\ ~CtrlAnswers /\ ~CtrlNop
        <4>1. UNCHANGED <<rx_q, ctrl>>
          BY <1>5, <3>4, Zenon DEF Next, Worker, Stack, vars, ctrlVars, WakeUp, ReceiveDone, StartProcedure, CollectTx,
                            SendDone, Exit, TransmitBuf, Request, AllowSleep, Cleanup, IdleTimerFires, IdleTimeout
        <4> QED BY <3>1, <4>1, SentKept
      <3> QED BY <3>2, <3>3, <3>4
    <2>5. LpmBusy(lpm') /\ Len(Flow(rx_q', ctrl', <<>>, <<>>, LpmOps)) > 0 => lpm'.wake = "ASSERTED" /\ lpm'.pin
      <3>1. LpmBusy(lpm') <=> LpmBusy(lpm)
        BY <2>3 DEF LpmBusy
      <3> QED BY <2>1, <2>3, <2>4, <3>1, Zenon
    <2>6. SleepNotForgotten'
      <3> SUFFICES ASSUME lpm'.state = "ENABLED", lpm'.wake = "W4_TIMEOUT", lpm'.timeout
                   PROVE  Awaits'
        BY DEF SleepNotForgotten, Awaits
      <3>1. Awaits
        BY <2>1, <2>3 DEF SleepNotForgotten, Awaits
      <3>2. LpmIdleDue(lpm) /\ LpmIdleDue(lpm')
        BY <2>3 DEF LpmIdleDue
      <3> QED BY <1>5, <3>1, <3>2, AwaitsStep, Zenon
    <2> QED BY <1>0, <2>3, <2>5, <2>6, SleepBack, Zenon DEF RingNext
  <1> QED BY <1>1, <1>2, <1>3, <1>4, <1>5
-----------------------------------------------------------------------------
(* The theorems.                                                           *)

\* The invariant holds initially: nothing is queued, asked for or in flight.
LEMMA TransportInit ==
  ASSUME Init
  PROVE  TransportInv
PROOF
  <1>1. tx_q = <<>> /\ sending = <<>> /\ ctrl = <<>> /\ rx_q = <<>> /\ ready = {} /\ events = {} /\ pc = "wait"
        /\ h4 = [cmd |-> [i \in 0 .. IntMax - 1 |-> NoOp], rd |-> 0, wrt |-> 0, count |-> 0]
        /\ lpm = LpmInit /\ done = {} /\ asked = 0
    BY DEF Init
  <1>2. 0 \in 0 .. IntMax - 1 /\ IntMax \in Nat /\ 0 % IntMax = 0
    BY TransportAssumption, SMTT(20)
  <1>3. TransportTypeOK
    <2>1. /\ tx_q \in Seq(Packets) /\ sending \in Seq(Packets) /\ ctrl \in Seq(Commands) /\ rx_q \in Seq(CtrlEvents)
      BY <1>1, SMTT(20)
    <2>2. h4 \in [cmd : [0 .. IntMax - 1 -> IntOps \cup {NoOp}], rd : 0 .. IntMax - 1,
                  wrt : 0 .. IntMax - 1, count : Nat]
      BY <1>1, <1>2, Zenon
    <2>3. lpm \in LpmBlocks
      BY <1>1 DEF LpmInit, LpmBlocks
    <2>4. ready \subseteq HandlerSet /\ events \subseteq HandlerSet /\ pc \in HandlerSet \cup {"SEND", "wait", "exited"}
      BY <1>1
    <2>5. step \in [Procedures -> Nat] /\ credits \in Int /\ asked \in Nat
      BY DEF Init
    <2>6. idle_cb \in BOOLEAN /\ pending \in BOOLEAN
      BY Zenon DEF Init
    <2>7. build \in Builds /\ todo \subseteq build.packets
      BY Zenon DEF Init
    <2> QED BY <2>1, <2>2, <2>3, <2>4, <2>5, <2>6, <2>7, Zenon DEF TransportTypeOK
  <1>4. PassInv
    BY <1>1, Ranks, Zenon DEF PassInv
  <1>5. Pipeline = <<>> /\ SentOps = <<>>
    BY <1>1, OpsOfEmpty DEF Pipeline, SentOps
  <1>6. \A T : Filter(Pipeline, T) = <<>> /\ Filter(SentOps, T) = <<>>
    BY <1>5, FilterEmpty, Zenon
  <1>7. RingInv
    <2>1. RingHolds = <<>>
      BY <1>1 DEF RingHolds
    <2>2. RingMatches
      BY <1>6, <2>1, Zenon DEF RingMatches, InFlight
    <2>3. Count(LoadOps) = 0 /\ Count(LpmOps) = 0
      BY <1>6 DEF Count
    <2>4. LoadTokens = 0
      BY <1>1, <2>3 DEF LoadTokens, Asked
    <2>5. h4.wrt = (h4.rd + h4.count) % IntMax
      BY <1>1, <1>2, SMTT(20)
    <2>6. ~LpmBusy(lpm)
      BY <1>1, Zenon DEF LpmInit, LpmBusy
    <2> QED BY <1>1, <2>2, <2>3, <2>4, <2>5, <2>6, SMTT(20) DEF RingInv
  <1>8. SleepInv
    BY <1>1, <1>6 DEF SleepInv, LpmInit, LpmBusy, PinMatchesState, SleepNotForgotten
  <1> QED BY <1>3, <1>4, <1>7, <1>8, Zenon DEF TransportInv

\* The queues, the worker's pass, the ring of internal commands and the sleep
\* mode block keep to one another on every behaviour, whatever the sizes of ring,
\* batch and firmware and whatever the controller can hold.
THEOREM TransportInvariant == Spec => []TransportInv
PROOF
  <1>1. Init => TransportInv
    BY TransportInit
  <1>2. TransportInv /\ [Next]_vars => TransportInv'
    BY TypeStep, SleepStep DEF TransportInv
  <1> QED BY <1>1, <1>2, PTL DEF Spec

\* The int_cmd ring always lists exactly the internal commands that are
\* unanswered, in the order their answers will come: internal_event_intercept
\* never takes one command's answer for another's, nor lets one through.
THEOREM RingListsInFlight == Spec => []RingMatches
PROOF
  <1>1. TransportInv => RingMatches
    BY DEF TransportInv, RingInv
  <1> QED BY <1>1, TransportInvariant, PTL

\* While sleep mode is on, lpm.c's wake_state agrees with the wake line.
THEOREM PinAgrees == Spec => []PinMatchesState
PROOF
  <1>1. TransportInv => PinMatchesState
    BY DEF TransportInv, SleepInv
  <1> QED BY <1>1, TransportInvariant, PTL

\* A device that waits for the idle timeout is not forgotten: the timer, its
\* callback, the signal or the worker has it.
THEOREM SleepIsRemembered == Spec => []SleepNotForgotten
PROOF
  <1>1. TransportInv => SleepNotForgotten
    BY DEF TransportInv, SleepInv
  <1> QED BY <1>1, TransportInvariant, PTL
-----------------------------------------------------------------------------
(* Nothing queued is forgotten, while one batch can hold all that is queued. *)

\* The collection loop reaches the end of the queue: it stops early only when
\* sending_msg_que is full.
QueueFits == Len(tx_q) <= MaxBatch

\* All that is left behind are commands, for want of credits, marked as pending.
LEMMA CollectLeaves ==
  ASSUME TransportTypeOK, QueueFits, CollectTx
  PROVE  \A i \in 1 .. Len(tx_q') : IsCmd(tx_q'[i]) /\ pending' /\ credits <= 0
PROOF
  <1>1. tx_q \in Seq(Packets) /\ Len(tx_q) \in Nat /\ credits \in Int
    BY DEF TransportTypeOK
  <1>2. PICK k \in 0 .. Len(tx_q) :
            /\ tx_q' = Filter(SubSeq(tx_q, 1, k), PassedOver) \o SubSeq(tx_q, k + 1, Len(tx_q))
            /\ pending' = (Filter(SubSeq(tx_q, 1, k), PassedOver) # <<>>)
            /\ k = Len(tx_q) \/ Len(Filter(SubSeq(tx_q, 1, k), Collectable)) = MaxBatch
    BY <1>1, CollectStops, Zenon
  <1>3. k = Len(tx_q)
    <2> DEFINE u == SubSeq(tx_q, 1, k)
               n == Len(Filter(u, Collectable))
    <2>1. u \in Seq(Packets) /\ Len(u) = k /\ k \in Nat
      BY <1>1
    <2>2. k = Len(tx_q) \/ n = MaxBatch
      BY <1>2, Zenon
    <2> HIDE DEF u
    <2>3. n <= k
      BY <2>1, FilterLength
    <2> HIDE DEF n
    <2> QED BY <1>1, <2>1, <2>2, <2>3, TransportAssumption, SMTT(20) DEF QueueFits
  <1> DEFINE h == Filter(tx_q, PassedOver)
             Y == Packets \cap PassedOver
  <1>4. h \in Seq(Y)
    BY <1>1, FilterKeeps
  <1> HIDE DEF h, Y
  <1>5. tx_q' = h /\ pending' = (h # <<>>)
    <2>1. SubSeq(tx_q, 1, Len(tx_q)) = tx_q
      BY <1>1
    <2>2. SubSeq(tx_q, Len(tx_q) + 1, Len(tx_q)) = <<>>
      BY <1>1
    <2>3. h \o <<>> = h
      BY <1>4
    <2>4. tx_q' = h \o <<>> /\ pending' = (h # <<>>)
      BY <1>2, <1>3, <2>1, <2>2, Zenon DEF h
    <2> QED BY <2>3, <2>4, Zenon
  <1>6. ASSUME NEW i \in 1 .. Len(h)
        PROVE  IsCmd(h[i]) /\ h # <<>> /\ credits <= 0
    <2>1. h[i] \in Y
      BY <1>4
    <2>2. h[i] \in PassedOver
      BY <2>1 DEF Y
    <2>3. IsCmd(h[i]) /\ ~(credits > 0)
      BY <2>2 DEF PassedOver, Collectable
    <2>4. h # <<>>
      BY SMTT(20)
    <2> QED BY <1>1, <2>3, <2>4
  <1> QED BY <1>5, <1>6, Zenon

\* Every other step hands the signal on, or leaves the commands pending until
\* credits come.
LEMMA ResumeStep ==
  ASSUME TransportInv, ResumeInv, QueueFits, [Next]_vars
  PROVE  ResumeInv'
PROOF
  <1> USE DEF ResumeInv
  <1>0. TransportTypeOK /\ PassInv /\ RingInv
    BY DEF TransportInv
  <1>h. Rank("TX") = 4 /\ "TX" \in HandlerSet /\ "SEND" \notin HandlerSet
    BY Ranks, Zenon
  <1>e. events \subseteq HandlerSet /\ ready \subseteq HandlerSet /\ credits \in Int
    BY <1>0 DEF TransportTypeOK
  <1>g. ASSUME NEW evs, evs \subseteq HandlerSet, NEW k \in Nat, k < 4, Goto(evs, k), "TX" \in evs
        PROVE  "TX" \in events' /\ pc' # "SEND"
    BY <1>g, <1>h, GotoPass, SMTT(20)
  <1>1. CASE "TX" \in ready'
    BY <1>1
  <1>2. CASE \E m \in todo : TransmitBuf(m)
    BY <1>1, <1>2, Zenon DEF TransmitBuf
  <1>3. CASE Request \/ AllowSleep \/ Cleanup \/ IdleTimerFires \/ IdleTimeout \/ CtrlAnswers \/ CtrlNop \/ UNCHANGED vars
    <2>1. UNCHANGED <<tx_q, pc, events, pending, credits>> /\ ready \subseteq ready'
      BY <1>3, Zenon DEF Request, AllowSleep, Cleanup, IdleTimerFires, IdleTimeout, CtrlAnswers, CtrlNop, Report, vars, workerVars
    <2> QED BY <2>1
  <1>4. CASE WakeUp
    <2>1. Goto(ready, 0) /\ events = {} /\ pc = "wait" /\ UNCHANGED <<tx_q, pending, credits>>
      BY <1>0, <1>4, Ranks, Zenon DEF WakeUp, Proceed, PassInv
    <2>2. ASSUME "TX" \in ready PROVE "TX" \in events' /\ pc' # "SEND"
      <3>1. ready \subseteq HandlerSet /\ Goto(ready, 0) /\ 0 \in Nat /\ 0 < 4
        BY <1>e, <2>1
      <3> QED BY <1>g, <2>2, <3>1, Zenon
    <2> QED BY <2>1, <2>2, Zenon
  <1>5. CASE ReceiveInternal
    <2>1. CASE h4' = ReleaseIntCmd(h4) /\ UNCHANGED <<tx_q, ready, step>>
      <3>1. UNCHANGED <<tx_q, ready, pc, events, pending>> /\ pc = "RX"
        BY <1>5, <2>1, Zenon DEF ReceiveInternal
      <3> QED BY <3>1
    <2>2. CASE "TX" \in ready'
      BY <2>2
    <2> QED BY <1>5, <2>1, <2>2, Zenon DEF ReceiveInternal, Emit
  <1>6. CASE ReceiveForStack
    BY <1>6 DEF ReceiveForStack
  <1>7. CASE ReceiveDone
    <2> DEFINE evs == IF pending /\ credits > 0 THEN events \cup {"TX"} ELSE events
    <2>1. Goto(evs, 1) /\ pc = "RX" /\ UNCHANGED <<tx_q, ready, pending, credits>>
      BY <1>7, Ranks DEF ReceiveDone, Proceed
    <2>2. evs \subseteq HandlerSet
      BY <1>e, <1>h
    <2>3. "TX" \in events \/ (pending /\ credits > 0) => "TX" \in evs
      OBVIOUS
    <2> HIDE DEF evs
    <2>4. "TX" \in evs => "TX" \in events' /\ pc' # "SEND"
      BY <1>g, <2>1, <2>2, SMTT(20)
    <2> QED BY <1>e, <2>1, <2>3, <2>4, SMTT(20)
  <1>8. CASE StartProcedure
    <2>1. "TX" \in ready'
      BY <1>0, <1>8, RingFacts DEF StartProcedure, Emit
    <2> QED BY <1>1, <2>1, Zenon
  <1>9. CASE CollectTx
    BY <1>0, <1>9, CollectLeaves, Zenon DEF CollectTx
  <1>10. CASE SendMsg
    BY <1>e, <1>10 DEF SendMsg
  <1>11. CASE SendDone \/ Exit
    <2>1. UNCHANGED <<tx_q, ready, pending, credits>> /\ pc \in {"SEND", "EXIT"} /\ (pc = "EXIT" => events' = events)
      BY <1>11 DEF SendDone, Exit
    <2>2. pc = "EXIT" => "TX" \notin events
      BY <1>0, Ranks DEF PassInv
    <2> QED BY <2>1, <2>2, Zenon
  <1>12. CASE SetLpm \/ LpmEvent
    <2>1. pc \in {"LPM_ENABLE", "LPM_DISABLE", "IDLE", "SLEEP"} /\ UNCHANGED <<pending, credits>>
          /\ (UNCHANGED <<tx_q, ready>> \/ "TX" \in ready')
      BY <1>12, Zenon DEF SetLpm, LpmEvent, Emit
    <2>2. "TX" \notin events
      BY <1>0, <2>1, Ranks DEF PassInv
    <2> QED BY <2>1, <2>2
  <1> QED BY <1>2, <1>3, <1>4, <1>5, <1>6, <1>7, <1>8, <1>9, <1>10, <1>11, <1>12, Zenon DEF Next, Worker, Stack

\* As long as one batch can hold all that is queued, a worker that waits without
\* a signal on its way has left nothing behind but commands that wait for
\* credits, and has marked them so.
THEOREM QueueIsServed == Spec /\ []QueueFits => []NothingForgotten
PROOF
  <1>1. Init => ResumeInv
    BY DEF Init, ResumeInv
  <1>2. TransportInv /\ ResumeInv /\ QueueFits /\ [Next]_vars => ResumeInv'
    BY ResumeStep
  <1>3. TransportInv /\ ResumeInv => NothingForgotten
    BY DEF TransportInv, ResumeInv, NothingForgotten, PassInv
  <1> QED BY <1>1, <1>2, <1>3, TransportInvariant, PTL DEF Spec
=============================================================================
