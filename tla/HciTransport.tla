---------------------------- MODULE HciTransport ----------------------------
(***************************************************************************)
(* The host/controller library: the transmit queue tx_q, the worker thread *)
(* that drains it, the H4 command credits, the ring of commands the        *)
(* library issues on its own behalf (firmware, SCO, ACL length, sleep      *)
(* mode) and low-power mode (module Lpm).                                  *)
(*                                                                         *)
(* Threads: the stack (BTU and BTIF tasks) that queues packets and sets    *)
(* request bits, the UART reader that queues controller events, the idle   *)
(* timer's callback, the worker, and the caller of cleanup().              *)
(***************************************************************************)
EXTENDS Lpm, Subsequence

CONSTANTS Builds,        \* [hcilp |-> HCILP_INCLUDED, scolen |-> commands of the SCO
                         \*  procedure, packets |-> what the stack sends, each once]
          MaxBatch,      \* size of sending_msg_que
          IntMax,        \* INT_CMD_PKT_MAX_COUNT: slots of the int_cmd ring
          FwLen,         \* commands of the firmware procedure
          CtrlSlots      \* commands the controller can hold

PacketKinds == {"cmd", "acl", "part"}
StackOps    == [src : {"stack"}, n : Nat]

\* A postload procedure and the sleep mode procedure may run at the same time,
\* so the ring has two slots at least (in the code it has 8).
ASSUME TransportAssumption ==
    /\ {MaxBatch, IntMax, CtrlSlots, FwLen} \subseteq Nat \ {0} /\ IntMax >= 2
    /\ \A b \in Builds : /\ b.hcilp \in BOOLEAN /\ b.scolen \in Nat
                         /\ b.packets \subseteq [t : PacketKinds, op : StackOps]

VARIABLES tx_q,       \* BUFFER_Q tx_q
          ready,      \* ready_events
          idle_cb,    \* the idle timer's callback thread is running
          events,     \* the worker's snapshot of ready_events: bits not yet tested
          pc,         \* what the worker does next: a handler, "wait" or "exited"
          sending,    \* sending_msg_que, from the first unsent entry on
          pending,    \* tx_cmd_pkts_pending
          credits,    \* num_hci_cmd_pkts
          h4,         \* int_cmd ring: [cmd, rd, wrt, count]
          lpm,        \* bt_lpm_cb (module Lpm)
          step,       \* per internal procedure: commands it has issued
          done,       \* procedures that have reported: preload_cb, postload_cb
          rx_q,       \* controller events in the UART receive queue
          ctrl,       \* commands the controller holds, oldest first
          reported,   \* credits in the controller's last event
          asked,      \* requests BTIF has made, in the order of Requests
          todo,       \* stack packets not yet handed over
          window,     \* cmd_window of the BTU task
          api,        \* the library: "up", "stopping", "joining", "down"
          build       \* the build that runs

workerVars == <<events, pc, sending, pending, credits, done>>
stackVars  == <<asked, todo, window, api, build>>
ctrlVars   == <<rx_q, ctrl, reported>>
vars == <<tx_q, ready, idle_cb, h4, lpm, step, workerVars, stackVars, ctrlVars>>

Procedures == {"fw", "sco", "acl", "lpm"}
IntOp(c, n) == [src |-> c, n |-> n]
NoOp        == [src |-> "none", n |-> 0]
IntOps      == [src : Procedures, n : Nat]
IsCmd(m)    == m.t = "cmd"

Handlers == <<"RX", "PRELOAD", "POSTLOAD", "TX", "LPM_ENABLE", "LPM_DISABLE",
              "IDLE", "SLEEP", "EXIT">>
Rank(h)  == IF h = "wait" THEN 0
            ELSE CHOOSE i \in 1 .. Len(Handlers) : Handlers[i] = h

Init ==
    /\ tx_q = <<>> /\ ready = {} /\ idle_cb = FALSE /\ events = {} /\ pc = "wait"
    /\ sending = <<>> /\ pending = FALSE /\ credits = 1
    /\ h4 = [cmd |-> [i \in 0 .. IntMax - 1 |-> NoOp], rd |-> 0, wrt |-> 0, count |-> 0]
    /\ lpm = LpmInit /\ step = [c \in Procedures |-> 0] /\ done = {}
    /\ rx_q = <<>> /\ ctrl = <<>> /\ reported = 1
    /\ build \in Builds /\ asked = 0 /\ todo = build.packets /\ window = 1 /\ api = "up"

-----------------------------------------------------------------------------
(* The stack's threads.                                                    *)

\* transmit_buf: queue the packet, then signal the worker.  BTU sends nothing
\* before preload_cb, and commands only while its window is open
\* (btu_hcif_send_cmd).
TransmitBuf(m) ==
    /\ api = "up" /\ "fw" \in done /\ m \in todo
    /\ IsCmd(m) => window > 0
    /\ window' = IF IsCmd(m) THEN window - 1 ELSE window
    /\ tx_q' = Append(tx_q, m) /\ ready' = ready \cup {"TX"} /\ todo' = todo \ {m}
    /\ UNCHANGED <<idle_cb, h4, lpm, step, workerVars, asked, api, build, ctrlVars>>

\* bte_main_enable, btif_enable_bluetooth_evt and btif_disable_bluetooth_evt
\* call preload, postload, lpm(ENABLE) and lpm(DISABLE) in this order.
Requests == <<"PRELOAD", "POSTLOAD">> \o (IF build.hcilp THEN <<"LPM_ENABLE", "LPM_DISABLE">> ELSE <<>>)
Request ==
    /\ asked < Len(Requests) /\ (asked > 0 => "fw" \in done)
    /\ asked' = asked + 1 /\ ready' = ready \cup {Requests[asked + 1]}
    /\ UNCHANGED <<tx_q, idle_cb, h4, lpm, step, workerVars, todo, window, api, build, ctrlVars>>

\* btu_check_bt_sleep: sleep is allowed while lpm_enabled, whenever BTU is idle.
AllowSleep ==
    /\ api = "up" /\ lpm.hal /\ "SLEEP" \notin ready
    /\ ready' = ready \cup {"SLEEP"}
    /\ UNCHANGED <<tx_q, idle_cb, h4, lpm, step, workerVars, stackVars, ctrlVars>>

\* cleanup: clear lib_running, signal EXIT, join the worker, lpm_cleanup.
Cleanup ==
    /\ asked = Len(Requests)
    /\ \/ api = "up" /\ api' = "stopping" /\ UNCHANGED <<ready, lpm>>
       \/ api = "stopping" /\ api' = "joining" /\ ready' = ready \cup {"EXIT"} /\ UNCHANGED lpm
       \/ /\ api = "joining" /\ pc = "exited" /\ api' = "down"
          /\ lpm' = StopIdleTimer(lpm) /\ UNCHANGED ready
    /\ UNCHANGED <<tx_q, idle_cb, h4, step, workerVars, asked, todo, window, build, ctrlVars>>

-----------------------------------------------------------------------------
(* The idle timer, on threads of its own.                                  *)

\* The one-shot timer expires and its callback thread starts.
IdleTimerFires ==
    /\ lpm.timer /\ ~idle_cb /\ lpm' = StopIdleTimer(lpm) /\ idle_cb' = TRUE
    /\ UNCHANGED <<tx_q, ready, h4, step, workerVars, stackVars, ctrlVars>>

\* The callback tests the control block and signals the worker.
IdleTimeout ==
    /\ idle_cb /\ idle_cb' = FALSE
    /\ ready' = IF LpmIdleDue(lpm) THEN ready \cup {"IDLE"} ELSE ready
    /\ UNCHANGED <<tx_q, h4, lpm, step, workerVars, stackVars, ctrlVars>>

-----------------------------------------------------------------------------
(* The controller: it answers its commands in order, each event reporting  *)
(* how many more it can take; having reported none it follows with a NOP.  *)
(* The UART reader queues the bytes and signals the worker.                *)

AnswerKind(op) == IF op.src = "stack" /\ op.n % 2 = 0 THEN "status" ELSE "complete"
Report(op, oks, held) ==
    \E ok \in oks, n \in 0 .. CtrlSlots :
        /\ n <= IF Len(held) >= CtrlSlots THEN 0 ELSE CtrlSlots - Len(held)
        /\ rx_q' = Append(rx_q, [e |-> AnswerKind(op), op |-> op, n |-> n, ok |-> ok])
        /\ reported' = n /\ ready' = ready \cup {"RX"}

CtrlAnswers ==
    /\ api # "down" /\ ctrl # <<>> /\ ctrl' = Tail(ctrl)
    /\ LET op == Head(ctrl)
       IN  Report(op, IF op.src \in {"fw", "lpm"} THEN BOOLEAN ELSE {TRUE}, ctrl')
    /\ UNCHANGED <<tx_q, idle_cb, h4, lpm, step, workerVars, stackVars>>

CtrlNop ==
    /\ api # "down" /\ ctrl = <<>> /\ reported = 0 /\ Report(NoOp, {TRUE}, <<>>)
    /\ reported' > 0
    /\ UNCHANGED <<tx_q, idle_cb, ctrl, h4, lpm, step, workerVars, stackVars>>

-----------------------------------------------------------------------------
(* Internal commands.                                                      *)

\* hci_h4_send_int_cmd: the ring refuses, or takes the opcode at wrt.
Refuses(h) == h.count > IntMax
\* Variant: the write index is not advanced.
PutIntCmdSameSlot(h, op) == [h EXCEPT !.cmd[h.wrt] = op, !.count = @ + 1]

PutIntCmd(h, op) ==
    [h EXCEPT !.cmd[h.wrt] = op, !.wrt = (@ + 1) % IntMax, !.count = @ + 1]
ReleaseIntCmd(h) == [h EXCEPT !.rd = (@ + 1) % IntMax, !.count = @ - 1]

\* Procedure c sends its next command: it enters the ring (which becomes
\* h), joins tx_q, and the worker signals itself.
NextOp(c) == IntOp(c, step[c] + 1)
\* Variant: the worker is not signalled.
EmitSilently(c, h) ==
    /\ tx_q' = Append(tx_q, [t |-> "cmd", op |-> NextOp(c)])
    /\ step' = [step EXCEPT ![c] = @ + 1] /\ h4' = h /\ UNCHANGED ready

Emit(c, h) ==
    /\ tx_q' = Append(tx_q, [t |-> "cmd", op |-> NextOp(c)])
    /\ ready' = ready \cup {"TX"} /\ step' = [step EXCEPT ![c] = @ + 1] /\ h4' = h

\* A Command Complete for the oldest internal command is intercepted.
Intercepts(ev) == ev.e = "complete" /\ h4.count > 0 /\ ev.op = h4.cmd[h4.rd]

\* What the callback of procedure c does with its answer: hw_config_cback sends
\* the next command or reports; hw_sco_cfg_cback ends in the ACL length
\* procedure; get_acl_data_length_cback asks for both lengths, then reports.
Continue(c, ok) ==
    CASE c = "fw"  -> IF ok /\ step[c] < FwLen THEN "fw" ELSE "end"
      [] c = "sco" -> IF step[c] < build.scolen THEN "sco" ELSE "acl"
      [] c = "acl" -> IF step[c] < 2 THEN "acl" ELSE "end"
      [] c = "lpm" -> "end"
Reports(c) == IF c = "sco" THEN "acl" ELSE c

-----------------------------------------------------------------------------
(* The worker thread.                                                      *)

\* The worker tests the bits of its snapshot in a fixed order and then, at the
\* head of the loop, lib_running; EXIT leaves the loop.
NextHandler(evs, k) ==
    LET later == {i \in k + 1 .. Len(Handlers) : Handlers[i] \in evs}
    IN  IF later # {} THEN Handlers[CHOOSE i \in later : \A j \in later : i <= j]
        ELSE IF api = "up" THEN "wait" ELSE "exited"
Later(evs, k) == {e \in evs : Rank(e) > k}
Goto(evs, k)  == events' = Later(evs, k) /\ pc' = NextHandler(evs, k)
Proceed(evs)  == Goto(evs, Rank(pc))

WakeUp ==
    /\ pc = "wait" /\ ready # {} /\ ready' = {} /\ Proceed(ready)
    /\ UNCHANGED <<tx_q, idle_cb, h4, lpm, step, sending, pending, credits, done, stackVars, ctrlVars>>

\* hci_h4_receive_msg, one controller event that is intercepted: the credits it
\* reports are taken, and the callback runs before the ring entry is released.
ReceiveInternal ==
    /\ pc = "RX" /\ rx_q # <<>> /\ Intercepts(Head(rx_q))
    /\ LET ev == Head(rx_q)
           c  == ev.op.src
           nx == Continue(c, ev.ok)
       IN  /\ rx_q' = Tail(rx_q) /\ credits' = ev.n
           /\ lpm' = IF c = "lpm" THEN LpmVndCback(lpm, ev.ok) ELSE lpm
           /\ \/ /\ nx # "end" /\ ~Refuses(h4)
                 /\ Emit(nx, ReleaseIntCmd(PutIntCmd(h4, NextOp(nx)))) /\ UNCHANGED done
              \/ /\ nx = "end" \/ Refuses(h4)
                 /\ done' = done \cup {Reports(c)} /\ h4' = ReleaseIntCmd(h4)
                 /\ UNCHANGED <<tx_q, ready, step>>
    /\ UNCHANGED <<idle_cb, events, pc, sending, pending, ctrl, reported, stackVars>>

\* Variant: the credits of an event for no command (a NOP) are not taken.
ReceiveForStackNopIgnored ==
    /\ pc = "RX" /\ rx_q # <<>> /\ ~Intercepts(Head(rx_q))
    /\ rx_q' = Tail(rx_q) /\ window' = Head(rx_q).n
    /\ credits' = IF Head(rx_q).op = NoOp THEN credits ELSE Head(rx_q).n
    /\ UNCHANGED <<tx_q, ready, idle_cb, h4, lpm, step, events, pc, sending, pending, done,
                   asked, todo, api, build, ctrl, reported>>

\* Any other event: its credits are taken and it goes to the BTU task, whose
\* window becomes what the event reports.
ReceiveForStack ==
    /\ pc = "RX" /\ rx_q # <<>> /\ ~Intercepts(Head(rx_q))
    /\ rx_q' = Tail(rx_q) /\ credits' = Head(rx_q).n /\ window' = Head(rx_q).n
    /\ UNCHANGED <<tx_q, ready, idle_cb, h4, lpm, step, events, pc, sending, pending, done,
                   asked, todo, api, build, ctrl, reported>>

\* Variant: new credits do not resume the commands held back.
ReceiveDoneNoResume ==
    /\ pc = "RX" /\ rx_q = <<>> /\ Proceed(events)
    /\ UNCHANGED <<tx_q, ready, idle_cb, h4, lpm, step, sending, pending, credits, done, stackVars, ctrlVars>>

\* The receive queue is empty; new credits resume the commands held back.
ReceiveDone ==
    /\ pc = "RX" /\ rx_q = <<>>
    /\ Proceed(IF pending /\ credits > 0 THEN events \cup {"TX"} ELSE events)
    /\ UNCHANGED <<tx_q, ready, idle_cb, h4, lpm, step, sending, pending, credits, done, stackVars, ctrlVars>>

\* PRELOAD starts the firmware procedure, POSTLOAD the SCO procedure where the
\* vendor library has one, the ACL length procedure where it has not.
StartProcedure ==
    /\ pc \in {"PRELOAD", "POSTLOAD"} /\ Proceed(events)
    /\ LET c == IF pc = "PRELOAD" THEN "fw" ELSE IF build.scolen > 0 THEN "sco" ELSE "acl"
       IN  \/ /\ ~Refuses(h4) /\ Emit(c, PutIntCmd(h4, NextOp(c))) /\ UNCHANGED done
           \/ /\ Refuses(h4) /\ done' = done \cup {Reports(c)} /\ UNCHANGED <<tx_q, ready, step, h4>>
    /\ UNCHANGED <<idle_cb, lpm, sending, pending, credits, stackVars, ctrlVars>>

\* lpm_enable: dropped while a request is in progress; otherwise the vendor
\* library sends its sleep mode command, or fails at once if the ring is full.
SetLpm ==
    /\ pc \in {"LPM_ENABLE", "LPM_DISABLE"} /\ Proceed(events)
    /\ LET l == LpmEnable(lpm, pc = "LPM_ENABLE")
       IN  \/ LpmBusy(lpm) /\ UNCHANGED <<lpm, tx_q, ready, step, h4>>
           \/ ~LpmBusy(lpm) /\ ~Refuses(h4) /\ lpm' = l /\ Emit("lpm", PutIntCmd(h4, NextOp("lpm")))
           \/ ~LpmBusy(lpm) /\ Refuses(h4) /\ lpm' = LpmVndCback(l, FALSE) /\ UNCHANGED <<tx_q, ready, step, h4>>
    /\ UNCHANGED <<idle_cb, sending, pending, credits, done, stackVars, ctrlVars>>

LpmEvent ==
    /\ pc \in {"IDLE", "SLEEP"} /\ Proceed(events)
    /\ lpm' = IF pc = "IDLE" THEN LpmWakeDeassert(lpm) ELSE LpmAllowSleep(lpm)
    /\ UNCHANGED <<tx_q, ready, idle_cb, h4, step, sending, pending, credits, done, stackVars, ctrlVars>>

\* The collection loop, under the queue's lock: while there are no credits the
\* commands are passed over; the loop stops when the batch is full.
Queued      == {tx_q[i] : i \in 1 .. Len(tx_q)}
Collectable == {m \in Queued : IsCmd(m) => credits > 0}
PassedOver  == Queued \ Collectable
CollectTx ==
    /\ pc = "TX" /\ pc' = "SEND"
    /\ LET full == {k \in 1 .. Len(tx_q) : Len(Filter(SubSeq(tx_q, 1, k), Collectable)) = MaxBatch}
           stop == IF full = {} THEN Len(tx_q) ELSE CHOOSE k \in full : \A j \in full : k <= j
           seen == SubSeq(tx_q, 1, stop)
           held == Filter(seen, PassedOver)
       IN  /\ sending' = Filter(seen, Collectable) /\ pending' = (held # <<>>)
           /\ tx_q' = held \o SubSeq(tx_q, stop + 1, Len(tx_q))
    /\ UNCHANGED <<ready, idle_cb, h4, lpm, step, events, credits, done, stackVars, ctrlVars>>

\* hci_h4_send_msg: the device is woken and the packet written; a segment of an
\* L2CAP packet that is to be continued goes back without lpm_tx_done.
SendMsg ==
    /\ pc = "SEND" /\ sending # <<>>
    /\ LET m == Head(sending)
       IN  /\ sending' = Tail(sending)
           /\ ctrl' = IF IsCmd(m) THEN Append(ctrl, m.op) ELSE ctrl
           /\ credits' = IF IsCmd(m) THEN credits - 1 ELSE credits
           /\ lpm' = IF m.t = "part" THEN LpmWakeAssert(lpm) ELSE LpmTxDone(LpmWakeAssert(lpm), TRUE)
    /\ UNCHANGED <<tx_q, ready, idle_cb, h4, step, events, pc, pending, done, stackVars, rx_q, reported>>

SendDone ==
    /\ pc = "SEND" /\ sending = <<>>
    /\ Goto(events, Rank("TX"))
    /\ UNCHANGED <<tx_q, ready, idle_cb, h4, lpm, step, sending, pending, credits, done, stackVars, ctrlVars>>

\* Variant: EXIT leaves the pass, not the loop.
ExitPass ==
    /\ pc = "EXIT" /\ pc' = "wait"
    /\ UNCHANGED <<tx_q, ready, idle_cb, h4, lpm, step, events, sending, pending, credits, done, stackVars, ctrlVars>>

Exit ==
    /\ pc = "EXIT" /\ pc' = "exited"
    /\ UNCHANGED <<tx_q, ready, idle_cb, h4, lpm, step, events, sending, pending, credits, done, stackVars, ctrlVars>>

Worker == \/ WakeUp \/ ReceiveInternal \/ ReceiveForStack \/ ReceiveDone \/ StartProcedure
          \/ CollectTx \/ SendMsg \/ SendDone \/ SetLpm \/ LpmEvent \/ Exit

Stack  == (\E m \in todo : TransmitBuf(m)) \/ Request \/ AllowSleep

Next == \/ Worker \/ Stack \/ Cleanup \/ IdleTimerFires \/ IdleTimeout
        \/ CtrlAnswers \/ CtrlNop

\* Every thread that is runnable runs, a controller with work does it, and a
\* cleanup that has begun goes on; whether the stack sends, asks for sleep or
\* shuts down is its own choice.
Fairness ==
    /\ WF_vars(Worker) /\ WF_vars(IdleTimeout) /\ WF_vars(IdleTimerFires)
    /\ WF_vars(CtrlAnswers) /\ WF_vars(CtrlNop)
    /\ WF_vars(Cleanup /\ api # "up")

Spec == Init /\ [][Next]_vars /\ Fairness

-----------------------------------------------------------------------------
(* Properties.                                                             *)

OpsOf(q)  == [i \in 1 .. Len(q) |-> q[i].op]
Pipeline  == OpsOf(rx_q) \o ctrl \o OpsOf(sending) \o OpsOf(tx_q)
InFlight  == Filter(Pipeline, IntOps)
RingHolds == [i \in 1 .. h4.count |-> h4.cmd[(h4.rd + i - 1) % IntMax]]

\* The ring of internal commands lists exactly the internal commands that are
\* unanswered - queued, collected, at the controller or answered but not yet
\* read - in the order their answers will come.  internal_event_intercept
\* compares an answer with the ring's oldest entry only, so one entry out of
\* order would send every later internal answer to the stack.
RingMatches == RingHolds = InFlight

\* Nothing is forgotten: when the worker waits, no signal is on its way and
\* packets are still queued, they are commands held back for want of credits
\* and tx_cmd_pkts_pending says so, so the next credits will send them.
NothingForgotten ==
    pc = "wait" /\ {"TX", "RX"} \cap ready = {} =>
        \A i \in 1 .. Len(tx_q) : IsCmd(tx_q[i]) /\ pending /\ credits <= 0

\* While sleep mode is on, the wake line is down exactly when lpm.c believes it
\* is: a line wrongly believed up would leave the controller asleep for good.
PinMatchesState == lpm.state = "ENABLED" => (lpm.pin <=> lpm.wake # "DEASSERTED")

\* A device that waits for the idle timeout has the timer armed, its callback
\* running or the timeout signalled: the wait cannot be lost to a wake-up, a
\* late callback or a failed request to leave the mode.  (lpm_vnd_cback clears
\* timeout_ms with the rest of the block when a request to enter the mode fails;
\* from then on the timer is never armed, hence the third conjunct.)
SleepNotForgotten ==
    lpm.state = "ENABLED" /\ lpm.wake = "W4_TIMEOUT" /\ lpm.timeout =>
        \/ lpm.timer \/ idle_cb \/ "IDLE" \in ready
        \/ "IDLE" \in events \/ pc = "IDLE" \/ api = "down"

\* The types, with what each queue may hold: an internal command is a command,
\* and a Command Complete answers it.
HandlerSet  == {Handlers[i] : i \in 1 .. Len(Handlers)}
Commands    == IntOps \cup StackOps
Packets     == [t : {"cmd"}, op : IntOps] \cup [t : PacketKinds, op : StackOps]
CtrlEvents  == [e : {"complete"}, op : IntOps, n : Nat, ok : BOOLEAN]
               \cup [e : {"complete", "status"}, op : StackOps \cup {NoOp}, n : Nat, ok : BOOLEAN]
TransportTypeOK ==
    /\ tx_q \in Seq(Packets) /\ sending \in Seq(Packets)
    /\ ctrl \in Seq(Commands) /\ rx_q \in Seq(CtrlEvents)
    /\ ready \subseteq HandlerSet /\ events \subseteq HandlerSet
    /\ pc \in HandlerSet \cup {"SEND", "wait", "exited"}
    /\ idle_cb \in BOOLEAN /\ pending \in BOOLEAN /\ credits \in Int /\ asked \in Nat
    /\ h4 \in [cmd : [0 .. IntMax - 1 -> IntOps \cup {NoOp}], rd : 0 .. IntMax - 1,
              wrt : 0 .. IntMax - 1, count : Nat]
    /\ lpm \in LpmBlocks /\ step \in [Procedures -> Nat]
    /\ build \in Builds /\ todo \subseteq build.packets

\* Where the worker is in its pass: the bits of its snapshot that are left start
\* with the one it is handling.
PassInv ==
    /\ pc \in HandlerSet => pc \in events
    /\ pc = "wait" => events = {}
    /\ pc \in HandlerSet => \A e \in events : Rank(e) >= Rank(pc)
    /\ pc = "SEND" => \A e \in events : Rank(e) >= Rank("TX")
    /\ pc # "SEND" => sending = <<>>

\* Why the ring is never too small: at most one command of the preload and
\* postload procedures is asked for or in flight, and one sleep mode command
\* exactly while a request for the mode is in progress.
LoadOps == [src : {"fw", "sco", "acl"}, n : Nat]
LpmOps  == [src : {"lpm"}, n : Nat]
Count(T)    == Len(Filter(Pipeline, T))
Asked(e)    == (IF e \in ready THEN 1 ELSE 0) + (IF e \in events THEN 1 ELSE 0)
LoadTokens  == Asked("PRELOAD") + Asked("POSTLOAD") + Count(LoadOps)
RingInv ==
    /\ RingMatches /\ h4.wrt = (h4.rd + h4.count) % IntMax
    /\ LoadTokens <= 1
    /\ asked = 0 => LoadTokens = 0 /\ "fw" \notin done
    /\ asked = 1 /\ "fw" \in done => LoadTokens = 0
    /\ Count(LpmOps) = IF LpmBusy(lpm) THEN 1 ELSE 0

\* A sleep mode command that has been sent has woken the device, which then
\* stays awake until the answer is read.
SentOps == OpsOf(rx_q) \o ctrl
SleepInv ==
    /\ LpmBusy(lpm) /\ Len(Filter(SentOps, LpmOps)) > 0 => lpm.wake = "ASSERTED" /\ lpm.pin
    /\ lpm.state = "DISABLED" => lpm.wake = "DEASSERTED"
    /\ lpm.wake = "W4_TIMEOUT" => lpm.no_tx
    /\ PinMatchesState /\ SleepNotForgotten

TransportInv == TransportTypeOK /\ PassInv /\ RingInv /\ SleepInv

\* What is queued is taken up: the worker is told, or has the commands that are
\* left marked as pending and no credits, or is about to take credits over.
ResumeInv ==
    \A i \in 1 .. Len(tx_q) :
        \/ "TX" \in ready \/ pc = "TX" \/ ("TX" \in events /\ pc # "SEND")
        \/ IsCmd(tx_q[i]) /\ pending /\ (credits <= 0 \/ pc = "RX")

\* Each packet the stack hands over leaves the library, and each command is
\* answered, unless the library is shut down first: a command held back for
\* want of credits is resumed by whatever event brings them.  (A packet is
\* handed over once and answered for good, so each one's answer comes exactly
\* if from some point on none is missing; the two properties below are stated
\* in the same form.)
Unanswered(op) == \E i \in 1 .. Len(Pipeline) : Pipeline[i] = op
CommandsAnswered ==
    <>[](api # "up" \/ \A m \in build.packets \ todo : ~Unanswered(m.op))

\* The firmware procedure reports (preload_cb), with success or failure, and
\* once postload was asked for, the postload procedure reports too.
ProceduresReport ==
    <>[](/\ asked > 0 => "fw" \in done
         /\ asked > 1 => "acl" \in done \/ api # "up")

\* cleanup returns: the worker always leaves its loop and is joined.
CleanupReturns == <>[](api \in {"up", "down"})

\* Credits are never overdrawn: "if we have used up controller's outstanding
\* HCI command credits (normally is 1), skip all HCI command packets in the
\* queue".
CreditsNotOverdrawn == credits >= 0
=============================================================================
