------------------------------- MODULE Rfcomm -------------------------------
(***************************************************************************)
(* RFCOMM between two devices that both run this stack: the multiplexer    *)
(* state machine (rfc_mx_fsm.c), the port state machine (rfc_port_fsm.c),  *)
(* the port emulation entity (port_rfc.c, port_utils.c, rfc_port_if.c),    *)
(* the L2CAP callbacks (rfc_l2cap_if.c), the API (port_api.c) and the      *)
(* socket that takes the data of a port (btif_sock_rfc.c).                 *)
(*                                                                         *)
(* All but the flush of a socket runs in the BTU task of its device, so a  *)
(* step handles one event to the end.  The flush runs on the socket thread *)
(* and is not serialized with the stack: it is two steps, between which    *)
(* the BTU task goes on (AppReady).  A device is a record s that every     *)
(* handler takes and returns:                                              *)
(*   mcb   the multiplexer control block of the other device               *)
(*   port  the port control blocks, by handle; last is the one last given  *)
(*   sec   BTM's access requests: act, the port whose request is being     *)
(*         checked (0 for none), and pend, the ports whose requests wait   *)
(*   chan  L2CAP's channels: "none", "req" (requested), "offer" (indicated *)
(*         and not answered), "open" or "full" (open and congested)        *)
(*   flush what the socket thread is in the middle of                      *)
(* and, within a step, out (what is sent), fresh (the channel L2CAP has    *)
(* free, 0 for none) and the settings of the workload (see load).          *)
(* Flow control is credit based, as PORT_FC_DEFAULT makes it between two   *)
(* devices with this code.  One server channel is used: its DLCI is 2, or  *)
(* 3 where the client's device did not set the multiplexer up.             *)
(***************************************************************************)
EXTENDS Naturals, Sequences, FiniteSets, SequencesExt, FiniteSetsExt

CONSTANTS
  CreditMax,      \* credit_rx_max
  CreditLow,      \* credit_rx_low
  CreditInitial,  \* the k of a PN frame: credit_rx_max, RFCOMM_K_MAX at most
  RxCritical,     \* rx_buf_critical
  TxCritical,     \* PORT_TX_BUF_CRITICAL_WM
  MaxPorts,       \* MAX_RFC_PORTS
  Chans,          \* the channel identifiers
  Workloads       \* what the users do and what fails: the values load begins with

ASSUME RfcommConstants ==
  /\ CreditLow \in Nat /\ CreditMax \in Nat /\ CreditLow < CreditMax
  /\ CreditInitial \in 1 .. CreditMax /\ CreditMax <= RxCritical
  /\ MaxPorts \in Nat \ {0} /\ TxCritical \in Nat
  /\ Chans \subseteq Nat \ {0} /\ IsFiniteSet(Chans)

VARIABLES
  dev,   \* dev[d]: the fields mcb, port, last, sec, chan and flush of device d
  net,   \* net[d]: the L2CAP signals and RFCOMM frames on their way to d
  load   \* what may still happen.  By device: servers, clients (ports opened),
         \* closes, writes, holds (PORT_FlowControl), purges, jams (congestions)
         \* and refusals (data the socket has no room for).  In all: denials (of access),
         \* rejects (connections), losses (of the link),
         \* early (timers that run out while something is under way).
         \* Settings: sock (the ports have a socket), short (data is shorter
         \* than the MTU), abort ("authenticating" or "authorizing" where BTM
         \* is when it checks, "no" if it is where it cannot abort).
         \* late: a timer has run out while something was under way

vars == <<dev, net, load>>

Device == 1 .. 2
Peer(d) == 3 - d
Ports == 1 .. MaxPorts
Dlcis == {2, 3}

NoMcb ==
  [state |-> "idle", init |-> FALSE, lcid |-> 0, pending |-> 0, sent |-> FALSE, rcvd |-> FALSE,
   restart |-> FALSE, ready |-> FALSE, congested |-> FALSE, cmdq |-> <<>>, disc |-> FALSE,
   inx |-> [x \in Dlcis |-> 0], timer |-> FALSE]

\* mcb is "none", "mux" (the block of the device) or "gone" (a block that has
\* been released, which the next allocations do not hand out again).  appq is
\* the socket's incoming_que.  The last six are not in the code: what the
\* management callback said last (up), whether parameters were negotiated for
\* the port (neg), the credits of the data the socket refused (lost), that the
\* flush of the socket has overwritten a credit_rx newer than the one it read
\* (raced), that the timer which was to close the port was stopped (stopped),
\* and that the access request was dropped for that of another port (cut).
NoPort ==
  [used |-> FALSE, state |-> "closed", server |-> FALSE, dlci |-> 0, addr |-> FALSE, keep |-> FALSE,
   mgmt |-> FALSE, line |-> FALSE, mcb |-> "none", rfc |-> "closed", rsp |-> {}, timer |-> FALSE,
   ctrl |-> {}, ctx |-> 0, crx |-> 0, txq |-> 0, rxq |-> 0, peerfc |-> FALSE, userfc |-> FALSE,
   appq |-> 0, lost |-> 0, up |-> FALSE, neg |-> FALSE, raced |-> FALSE, stopped |-> FALSE, cut |-> FALSE]

\* The socket thread has read crx as the credit_rx of the port (0: no flush is
\* under way).  past: what the BTU task may have been in the middle of, beyond
\* its use of slot_lock, when the thread took that lock.
NoFlush == [port |-> 0, crx |-> 0, past |-> {}]

-----------------------------------------------------------------------------
(* Timers, frames, L2CAP and BTM.                                          *)

rfc_timer_start(s) == [s EXCEPT !.mcb.timer = TRUE]
rfc_timer_stop(s) == [s EXCEPT !.mcb.timer = FALSE]
rfc_port_timer_start(s, i) == [s EXCEPT !.port[i].timer = TRUE]
rfc_port_timer_stop(s, i) == [s EXCEPT !.port[i].timer = FALSE]

Msg(t, c, dlci, k) == [t |-> t, c |-> c, dlci |-> dlci, k |-> k]
Signal(s, t, c) == [s EXCEPT !.out = Append(@, Msg(t, c, 0, 0))]

Open(s, c) == c # 0 /\ s.chan[c] \in {"open", "full"}

\* L2CA_DataWrite: a channel that is not open takes nothing.
L2CA_DataWrite(s, m) ==
  IF Open(s, s.mcb.lcid) THEN [s EXCEPT !.out = Append(@, [m EXCEPT !.c = s.mcb.lcid])] ELSE s

\* rfc_check_send_cmd, which all frames but data go through.
rfc_check_send_cmd(s, m) ==
  IF s.mcb.congested THEN [s EXCEPT !.mcb.cmdq = Append(@, m)] ELSE L2CA_DataWrite(s, m)

Send(s, t, dlci, k) == rfc_check_send_cmd(s, Msg(t, 0, dlci, k))

\* A frame of port i goes to the block it is on; a released block has no channel.
SendOn(s, i, t) == IF s.port[i].mcb = "mux" THEN Send(s, t, s.port[i].dlci, 0) ELSE s

L2CA_ConnectRsp(s, c, ok) ==
  IF c = 0 \/ s.chan[c] # "offer" THEN s
  ELSE Signal([s EXCEPT !.chan[c] = IF ok THEN "open" ELSE "none"],
              IF ok THEN "conn_ok" ELSE "conn_no", c)

L2CA_ConfigReq(s) == IF Open(s, s.mcb.lcid) THEN Signal(s, "cfg_req", s.mcb.lcid) ELSE s
L2CA_ConfigRsp(s) == IF Open(s, s.mcb.lcid) THEN Signal(s, "cfg_rsp", s.mcb.lcid) ELSE s

\* A request that is not answered yet is dropped without a word.
L2CA_DisconnectReq(s) ==
  LET c == s.mcb.lcid IN
  IF Open(s, c) THEN Signal([s EXCEPT !.chan[c] = "none"], "disc_ind", c)
  ELSE IF c # 0 /\ s.chan[c] = "req" THEN [s EXCEPT !.chan[c] = "none"]
  ELSE s

\* L2CA_ConnectReq, whose result the multiplexer keeps.
L2CA_ConnectReq(s) ==
  LET c == s.fresh IN
  IF c = 0 THEN [s EXCEPT !.mcb.lcid = 0]
  ELSE Signal([s EXCEPT !.mcb.lcid = c, !.chan[c] = "req"], "conn_req", c)

\* btm_sec_mx_access_request: one request is under way, the others wait.
btm_sec_mx_access_request(s, i) ==
  LET t == [s EXCEPT !.port[i].cut = FALSE] IN
  IF s.sec.act = 0 THEN [t EXCEPT !.sec.act = i] ELSE [t EXCEPT !.sec.pend = Append(@, i)]

\* btm_sec_check_pending_reqs submits those that wait again, in their order.
btm_sec_check_pending_reqs(s) ==
  IF s.sec.act # 0 \/ s.sec.pend = <<>> THEN s
  ELSE [s EXCEPT !.sec = [act |-> Head(@.pend), pend |-> Tail(@.pend)]]

\* btm_sec_abort_access_req drops the request under way, whosever it is, and
\* does not look at those that wait.  BTM_DeviceAuthorized, called later, does
\* not either (btm_sec_auth_complete does, see AuthComplete).
btm_sec_abort_access_req(s) ==
  LET cut == {s.sec.act} \union (IF s.abort = "authorizing" THEN ToSet(s.sec.pend) ELSE {}) IN
  IF s.abort = "no" \/ s.sec.act = 0 THEN s
  ELSE [s EXCEPT !.sec.act = 0,
                 !.port = [i \in Ports |-> IF i \in cut THEN [@[i] EXCEPT !.cut = TRUE] ELSE @[i]]]

\* The management callback: a connection is up, or it is not.
Mgmt(s, i, up) == IF s.port[i].mgmt THEN [s EXCEPT !.port[i].up = up] ELSE s

\* h for the ports that are on the multiplexer when the loop begins, in turn.
ForLinked(s, h(_, _)) ==
  FoldLeft(LAMBDA t, i : IF s.port[i].mcb = "mux" THEN h(t, i) ELSE t, s, [i \in Ports |-> i])

-----------------------------------------------------------------------------
(* Closing ports and the multiplexer.                                      *)

\* RFC_MX_EVENT_CLOSE_REQ, and the timeout in CONNECTED.
MxClose(s) ==
  IF s.mcb.state = "connected"
  THEN Send([rfc_timer_start(s) EXCEPT !.mcb.state = "disc_wait_ua"], "DISC", 0, 0)
  ELSE s

\* rfc_check_mcb_active: the end that closed the last port takes the
\* multiplexer down, the other waits for some time.
rfc_check_mcb_active(s) ==
  IF \E x \in Dlcis : s.mcb.inx[x] # 0 THEN [s EXCEPT !.mcb.disc = FALSE]
  ELSE IF s.mcb.disc THEN MxClose([s EXCEPT !.mcb.disc = FALSE])
  ELSE rfc_timer_start(s)

rfc_release_multiplexer_channel(s) ==
  [s EXCEPT !.mcb = NoMcb,
            !.port = [i \in Ports |-> IF @[i].mcb = "mux" THEN [@[i] EXCEPT !.mcb = "gone"] ELSE @[i]]]

\* Port i gives up its DLCI on the multiplexer it is on.
Unindex(s, i) ==
  IF s.port[i].mcb = "mux"
  THEN rfc_check_mcb_active([s EXCEPT !.mcb.inx[s.port[i].dlci] = 0])
  ELSE s

\* port_release_port: a server's port is prepared for the next connection.
port_release_port(s, i) ==
  LET p == s.port[i] IN
  IF p.rfc # "closed"
  THEN [s EXCEPT !.port[i].state = "closed", !.port[i].rxq = 0, !.port[i].txq = 0]
  ELSE [Unindex(s, i) EXCEPT !.port[i] =
          IF p.keep
          THEN [NoPort EXCEPT !.used = TRUE, !.state = "opening", !.server = p.server, !.keep = TRUE,
                  !.dlci = 2 * (p.dlci \div 2), !.mgmt = p.mgmt, !.rsp = p.rsp, !.up = p.up]
          ELSE NoPort]

\* Variant: the user is not told.
port_rfc_closedUntold(s, i) ==
  IF s.port[i].state = "opening" /\ s.port[i].server
  THEN [Unindex(s, i) EXCEPT !.port[i].timer = FALSE, !.port[i].rfc = "closed",
                             !.port[i].mcb = "none", !.port[i].dlci = 2 * (@ \div 2)]
  ELSE port_release_port([s EXCEPT !.port[i].rfc = "closed", !.port[i].line = TRUE], i)

\* port_rfc_closed: a server's user, not told that the connection is up, is
\* not told that it is down.
port_rfc_closed(s, i) ==
  IF s.port[i].state = "opening" /\ s.port[i].server
  THEN [Unindex(s, i) EXCEPT !.port[i].timer = FALSE, !.port[i].rfc = "closed",
                             !.port[i].mcb = "none", !.port[i].dlci = 2 * (@ \div 2)]
  ELSE port_release_port([Mgmt(s, i, FALSE) EXCEPT !.port[i].rfc = "closed", !.port[i].line = TRUE], i)

rfc_port_closed(s, i) ==
  port_rfc_closed(Unindex([s EXCEPT !.port[i].timer = FALSE, !.port[i].rfc = "closed"], i), i)

PORT_CloseInd(s) == rfc_release_multiplexer_channel(ForLinked(s, port_rfc_closed))

\* Port_TimeOutCloseMux, for the block that port i is on.
Port_TimeOutCloseMux(s, i) ==
  IF s.port[i].mcb = "mux" THEN ForLinked(s, port_rfc_closed) ELSE port_rfc_closed(s, i)

PORT_DlcReleaseInd(s, dlci) ==
  IF s.mcb.inx[dlci] = 0 THEN s ELSE port_rfc_closed(s, s.mcb.inx[dlci])

-----------------------------------------------------------------------------
(* Data and credits.                                                       *)

\* rfc_port_sm_opened, RFC_EVENT_DATA: a short frame carries the credits that
\* are due.  In the other states the data is dropped.
RFCOMM_DataReq(s, i) ==
  LET p == s.port[i]
      k == IF s.short /\ ~ p.userfc /\ p.crx < CreditMax THEN CreditMax - p.crx ELSE 0
  IN IF p.rfc # "opened" \/ p.mcb # "mux" THEN s
     ELSE [L2CA_DataWrite(s, Msg("DATA", 0, p.dlci, k)) EXCEPT
             !.port[i].crx = @ + k,
             !.port[i].ctx = IF @ > 0 THEN @ - 1 ELSE 0,
             !.port[i].peerfc = @ \/ p.ctx <= 1]

port_rfc_send_tx_data(s, i) ==
  FoldLeft(LAMBDA t, n : IF t.port[i].peerfc \/ t.port[i].mcb # "mux" \/ ~ t.mcb.ready THEN t
                         ELSE RFCOMM_DataReq([t EXCEPT !.port[i].txq = @ - 1], i),
           s, [n \in 1 .. s.port[i].txq |-> n])

\* Variant: credits that arrive do not wake the sender.
rfc_inc_creditUnnoted(s, i, k) == [s EXCEPT !.port[i].ctx = @ + k]

\* PORT_FlowInd for one DLCI, and for all of them.
FlowIndPort(s, i) == port_rfc_send_tx_data([s EXCEPT !.port[i].peerfc = FALSE], i)
FlowIndAll(s, enable) ==
  ForLinked([s EXCEPT !.mcb.ready = enable],
            LAMBDA t, i : IF t.port[i].rfc = "opened" THEN port_rfc_send_tx_data(t, i) ELSE t)

rfc_inc_credit(s, i, k) ==
  LET t == [s EXCEPT !.port[i].ctx = @ + k] IN IF s.port[i].peerfc THEN FlowIndPort(t, i) ELSE t

\* port_flow_control_peer with enable: count buffers were taken.
port_flow_control_peer(s, i, count) ==
  LET p == s.port[i]
      left == IF count > p.crx THEN 0 ELSE p.crx - count
  IN IF p.mcb # "mux" THEN s
     ELSE IF left <= CreditLow /\ ~ p.userfc
     THEN Send([s EXCEPT !.port[i].crx = CreditMax], "CREDIT", p.dlci, CreditMax - left)
     ELSE [s EXCEPT !.port[i].crx = left]

\* PORT_DataInd: with a socket the data goes to the socket, which may refuse
\* it (bta_co_rfc_data_incoming queues it and no credit is taken back).
PORT_DataInd(s, i, refused) ==
  IF s.sock
  THEN IF refused THEN [s EXCEPT !.port[i].appq = @ + 1, !.port[i].lost = @ + 1]
       ELSE port_flow_control_peer(s, i, 1)
  ELSE IF s.port[i].rxq + 1 > RxCritical THEN s
  ELSE [s EXCEPT !.port[i].rxq = @ + 1]

-----------------------------------------------------------------------------
(* The port emulation entity above the state machines.                     *)

RFCOMM_ParNegReq(s, dlci) ==
  LET i == s.mcb.inx[dlci] IN
  IF s.mcb.state # "connected" \/ i = 0 THEN s
  ELSE rfc_port_timer_start(
         Send([s EXCEPT !.port[i].crx = CreditInitial, !.port[i].neg = TRUE, !.port[i].raced = FALSE,
                        !.port[i].rsp = @ \union {"PN"}],
              "PN", dlci, CreditInitial), i)

RFCOMM_ControlReq(s, i) ==
  LET p == s.port[i] IN
  IF p.state # "opened" \/ p.rfc # "opened" THEN s
  ELSE rfc_port_timer_start(
         Send([s EXCEPT !.port[i].ctrl = @ \union {"sent"}, !.port[i].rsp = @ \union {"MSC"}],
              "MSC", p.dlci, 0), i)

StartFailed(s, i) ==
  port_release_port(Mgmt([rfc_release_multiplexer_channel(s) EXCEPT !.port[i].mcb = "none"], i, FALSE), i)

PORT_StartCnf(s, ok) ==
  IF \A i \in Ports : s.port[i].mcb # "mux" THEN rfc_check_mcb_active(s)
  ELSE IF ok THEN ForLinked(s, LAMBDA t, i : RFCOMM_ParNegReq(t, t.port[i].dlci))
  ELSE ForLinked(s, StartFailed)

\* PORT_StartInd: some port has to be on this multiplexer or on none.
PORT_StartInd(s) ==
  IF \A i \in Ports : s.port[i].mcb = "gone" THEN Send(s, "DM", 0, 0)
  ELSE [Send(s, "UA", 0, 0) EXCEPT !.mcb.state = "connected", !.mcb.ready = TRUE]

\* port_find_dlci_port: a port on no multiplexer that listens on the DLCI.
Listening(s, dlci) ==
  {i \in Ports : s.port[i].used /\ s.port[i].mcb = "none" /\ s.port[i].dlci \in {dlci, 2 * (dlci \div 2)}}

\* The port found is the one of the DLCI from now on.
Adopt(s, i, dlci) == [s EXCEPT !.port[i].dlci = dlci, !.mcb.inx[dlci] = i]

RFCOMM_ParNegRsp(s, dlci) ==
  IF s.mcb.state = "connected" THEN Send(s, "PNR", dlci, CreditInitial) ELSE s

ParNegotiated(s, i, dlci, k) ==
  RFCOMM_ParNegRsp([s EXCEPT !.port[i].addr = TRUE, !.port[i].mcb = "mux", !.port[i].crx = CreditInitial,
                             !.port[i].ctx = k, !.port[i].neg = TRUE, !.port[i].raced = FALSE], dlci)

PORT_ParNegInd(s, dlci, k) ==
  IF s.mcb.inx[dlci] # 0 THEN ParNegotiated(s, s.mcb.inx[dlci], dlci, k)
  ELSE IF Listening(s, dlci) = {} THEN rfc_check_mcb_active(Send(s, "DM", dlci, 0))
  ELSE ParNegotiated(Adopt(s, Min(Listening(s, dlci)), dlci), Min(Listening(s, dlci)), dlci, k)

\* PORT_DlcEstablishCnf; a failure closes the port.
PORT_DlcEstablishCnf(s, dlci, ok) ==
  LET i == s.mcb.inx[dlci] IN
  IF i = 0 THEN s
  ELSE IF ~ ok THEN port_rfc_closed(s, i)
  ELSE RFCOMM_ControlReq([Mgmt(rfc_timer_stop(s), i, TRUE) EXCEPT !.port[i].state = "opened"], i)

\* RFC_EVENT_OPEN.
PortOpen(s, i) ==
  IF s.port[i].rfc # "closed" THEN s
  ELSE btm_sec_mx_access_request([s EXCEPT !.port[i].rfc = "orig_sec"], i)

RFCOMM_DlcEstablishReq(s, dlci) ==
  IF s.mcb.state # "connected" THEN PORT_DlcEstablishCnf(s, dlci, FALSE) ELSE PortOpen(s, s.mcb.inx[dlci])

PORT_ParNegCnf(s, dlci, k) ==
  LET i == s.mcb.inx[dlci]
      t == [s EXCEPT !.port[i].ctx = k]
  IN IF t.port[i].state = "opening" THEN RFCOMM_DlcEstablishReq(t, dlci) ELSE t

\* rfc_process_pn; a command is ignored, and refused, while the multiplexer is
\* being shut down, a response when none is expected.
rfc_process_pn(s, is_command, dlci, k) ==
  LET i == s.mcb.inx[dlci] IN
  IF is_command
  THEN IF s.mcb.state = "disc_wait_ua" THEN Send(s, "DM", dlci, 0) ELSE PORT_ParNegInd(s, dlci, k)
  ELSE IF i = 0 \/ "PN" \notin s.port[i].rsp THEN s
  ELSE PORT_ParNegCnf([rfc_port_timer_stop(s, i) EXCEPT !.port[i].rsp = @ \ {"PN"}], dlci, k)

\* RFCOMM_DlcEstablishRsp with success, and the RFC_EVENT_ESTABLISH_RSP of a
\* port whose access was granted.
RFCOMM_DlcEstablishRsp(s, dlci) ==
  IF s.mcb.state # "connected" THEN PORT_DlcReleaseInd(s, dlci)
  ELSE [Send(s, "UA", dlci, 0) EXCEPT !.port[s.mcb.inx[dlci]].rfc = "opened"]

\* The port is reported up whether or not the multiplexer still is.
PORT_DlcEstablishInd(s, dlci) ==
  LET i == s.mcb.inx[dlci] IN
  IF i = 0 THEN s
  ELSE [Mgmt(RFCOMM_DlcEstablishRsp(rfc_timer_stop(s), dlci), i, TRUE) EXCEPT !.port[i].state = "opened"]

PORT_ControlInd(s, i) ==
  LET Received(t) == [t EXCEPT !.port[i].ctrl = @ \union {"received"}] IN
  Received(IF "sent" \notin s.port[i].ctrl THEN RFCOMM_ControlReq(s, i)
           ELSE IF "confirmed" \in s.port[i].ctrl THEN port_rfc_send_tx_data(s, i) ELSE s)

PORT_ControlCnf(s, i) ==
  LET t == [s EXCEPT !.port[i].ctrl = @ \union {"confirmed"}] IN
  IF "received" \in t.port[i].ctrl THEN port_rfc_send_tx_data(t, i) ELSE t

\* rfc_process_msc: a command is answered first.  A response stops the timer of
\* the port, whatever it was started for.
rfc_process_msc(s, is_command, dlci) ==
  LET i == s.mcb.inx[dlci] IN
  IF i = 0 THEN s
  ELSE IF is_command THEN PORT_ControlInd(Send(s, "MSCR", dlci, 0), i)
  ELSE IF "MSC" \notin s.port[i].rsp THEN s
  ELSE PORT_ControlCnf([rfc_port_timer_stop(s, i) EXCEPT
                          !.port[i].rsp = @ \ {"MSC"}, !.port[i].stopped = @ \/ s.port[i].rfc = "closed"], i)

\* rfc_process_mx_message: PN and MSC, commands and responses.
rfc_process_mx_message(s, m) ==
  IF m.t \in {"PN", "PNR"} THEN rfc_process_pn(s, m.t = "PN", m.dlci, m.k)
  ELSE rfc_process_msc(s, m.t = "MSC", m.dlci)

-----------------------------------------------------------------------------
(* The state machine of a port: one operator per event.                    *)

\* The user closes: port_start_close calls it when the port is not closed.
PortClose(s, i) ==
  CASE s.port[i].rfc \in {"sabme_wait_ua", "opened"} ->
         SendOn([rfc_port_timer_start(s, i) EXCEPT !.port[i].rsp = {}, !.port[i].rfc = "disc_wait_ua"], i, "DISC")
    [] s.port[i].rfc = "orig_sec" -> rfc_port_closed(btm_sec_abort_access_req(s), i)
    [] OTHER -> s

\* BTM answered, and the port still waits (rfc_sec_check_complete).
PortSecComplete(s, i, ok) ==
  CASE s.port[i].rfc = "orig_sec" /\ ok ->
         SendOn([rfc_port_timer_start(s, i) EXCEPT !.port[i].rfc = "sabme_wait_ua"], i, "SABM")
    [] s.port[i].rfc = "orig_sec" /\ ~ ok ->
         rfc_port_closed(PORT_DlcEstablishCnf([s EXCEPT !.mcb.disc = TRUE], s.port[i].dlci, FALSE), i)
    [] s.port[i].rfc = "term_sec" /\ ok /\ s.port[i].mcb = "mux" -> PORT_DlcEstablishInd(s, s.port[i].dlci)
    [] s.port[i].rfc = "term_sec" /\ ~ ok /\ s.port[i].mcb # "none" ->
         port_rfc_closed([SendOn(s, i, "DM") EXCEPT !.mcb.disc = @ \/ s.port[i].mcb = "mux"], i)
    [] OTHER -> s

PortSabm(s, i) ==
  CASE s.port[i].rfc = "closed" ->
         btm_sec_mx_access_request([rfc_timer_stop(s) EXCEPT !.port[i].rfc = "term_sec"], i)
    [] s.port[i].rfc \in {"sabme_wait_ua", "opened"} -> SendOn(s, i, "UA")
    [] s.port[i].rfc = "disc_wait_ua" -> SendOn(s, i, "DM")
    [] OTHER -> s

PortUa(s, i) ==
  CASE s.port[i].rfc = "sabme_wait_ua" ->
         PORT_DlcEstablishCnf([rfc_port_timer_stop(s, i) EXCEPT !.port[i].rfc = "opened"], s.port[i].dlci, TRUE)
    [] s.port[i].rfc = "disc_wait_ua" -> rfc_port_closed([s EXCEPT !.mcb.disc = TRUE], i)
    [] OTHER -> s

PortDm(s, i) ==
  CASE s.port[i].rfc \in {"closed", "disc_wait_ua"} -> rfc_port_closed(s, i)
    [] s.port[i].rfc = "sabme_wait_ua" ->
         rfc_port_closed(PORT_DlcEstablishCnf([s EXCEPT !.mcb.disc = TRUE], s.port[i].dlci, FALSE), i)
    [] s.port[i].rfc = "opened" -> rfc_port_closed(PORT_DlcReleaseInd(s, s.port[i].dlci), i)
    [] OTHER -> s

\* A port whose user has not read all data stays, for RFC_DISC_TIMEOUT.
PortDisc(s, i) ==
  CASE s.port[i].rfc \in {"closed", "disc_wait_ua"} -> SendOn(s, i, "DM")
    [] s.port[i].rfc = "sabme_wait_ua" ->
         rfc_port_closed(PORT_DlcEstablishCnf(SendOn(s, i, "UA"), s.port[i].dlci, FALSE), i)
    [] s.port[i].rfc = "term_sec" ->
         PORT_DlcReleaseInd([SendOn(btm_sec_abort_access_req(s), i, "UA") EXCEPT !.port[i].rfc = "closed"],
                            s.port[i].dlci)
    [] s.port[i].rfc = "opened" /\ s.port[i].rxq > 0 ->
         rfc_port_timer_start([SendOn(s, i, "UA") EXCEPT !.port[i].rfc = "closed"], i)
    [] s.port[i].rfc = "opened" /\ s.port[i].rxq = 0 ->
         PORT_DlcReleaseInd([SendOn(s, i, "UA") EXCEPT !.port[i].rfc = "closed"], s.port[i].dlci)
    [] OTHER -> s

PortUih(s, i, refused) ==
  CASE s.port[i].rfc = "opened" -> PORT_DataInd(s, i, refused)
    [] s.port[i].rfc \in {"closed", "disc_wait_ua"} -> SendOn(s, i, "DM")
    [] OTHER -> s

PortTimeout(s, i) ==
  CASE s.port[i].rfc \in {"closed", "opened"} -> Port_TimeOutCloseMux(s, i)
    [] s.port[i].rfc = "sabme_wait_ua" ->
         IF s.port[i].mcb # "mux" THEN [s EXCEPT !.port[i].rfc = "closed"]
         ELSE PORT_DlcEstablishCnf([s EXCEPT !.port[i].rfc = "closed"], s.port[i].dlci, FALSE)
    [] s.port[i].rfc = "disc_wait_ua" -> rfc_port_closed(s, i)
    [] OTHER -> s

-----------------------------------------------------------------------------
(* The state machine of the multiplexer: one operator per event.           *)

Idle(s) == [s EXCEPT !.mcb.state = "idle"]

\* rfc_alloc_multiplexer_channel for a multiplexer that is idle.
NewMcb(s, init) == rfc_timer_start([s EXCEPT !.mcb = [NoMcb EXCEPT !.init = init]])

\* RFC_MX_EVENT_START_REQ.
MxStart(s) ==
  LET t == L2CA_ConnectReq(s) IN
  IF s.mcb.state = "disc_wait_ua" THEN [s EXCEPT !.mcb.restart = TRUE]
  ELSE IF s.mcb.state # "idle" THEN s
  ELSE IF s.fresh = 0 THEN PORT_StartCnf(t, FALSE)
  ELSE [t EXCEPT !.mcb.state = "wait_conn_cnf"]

\* RFC_MX_EVENT_CONN_IND on channel c.
MxConnInd(s, c) ==
  L2CA_ConfigReq([L2CA_ConnectRsp(rfc_timer_start([s EXCEPT !.mcb.lcid = c]), c, TRUE)
                    EXCEPT !.mcb.state = "configure"])

\* Variant: the port's DLCI becomes odd, its place in the
\* table does not.
RetryAsAcceptorOldTable(s) ==
  LET even == s.mcb.inx[2] IN
  MxConnInd([Idle(s) EXCEPT !.mcb.init = FALSE,
                            !.port = IF even # 0 THEN [@ EXCEPT ![even].dlci = 3] ELSE @],
            s.mcb.pending)

\* The request of the other device, which was waiting, is taken instead: the
\* even DLCIs become odd.
RetryAsAcceptor(s) ==
  LET even == s.mcb.inx[2] IN
  MxConnInd([Idle(s) EXCEPT !.mcb.init = FALSE,
                            !.mcb.inx = IF even # 0 THEN [@ EXCEPT ![2] = 0, ![3] = even] ELSE @,
                            !.port = IF even # 0 THEN [@ EXCEPT ![even].dlci = 3] ELSE @],
            s.mcb.pending)

MxConnCnf(s, ok) ==
  IF s.mcb.state # "wait_conn_cnf" THEN s
  ELSE IF ok THEN L2CA_ConfigReq([s EXCEPT !.mcb.state = "configure"])
  ELSE PORT_StartCnf(Idle(s), FALSE)

\* Both halves of the configuration are done.
Configured(s) ==
  IF s.mcb.state # "configure" \/ ~ s.mcb.sent \/ ~ s.mcb.rcvd THEN s
  ELSE IF s.mcb.init
  THEN rfc_timer_start(Send([s EXCEPT !.mcb.state = "sabme_wait_ua"], "SABM", 0, 0))
  ELSE rfc_timer_start([s EXCEPT !.mcb.state = "wait_sabme"])

\* A reconfiguration is not supported.
Reconfigured(s) ==
  CASE s.mcb.state = "sabme_wait_ua" -> PORT_StartCnf(L2CA_DisconnectReq(Idle(s)), FALSE)
    [] s.mcb.state = "wait_sabme" -> PORT_CloseInd(L2CA_DisconnectReq(Idle(s)))
    [] OTHER -> s

MxConfInd(s) ==
  IF s.mcb.state \in {"wait_conn_cnf", "configure"}
  THEN Configured([L2CA_ConfigRsp(s) EXCEPT !.mcb.rcvd = TRUE])
  ELSE Reconfigured(s)

MxConfCnf(s) ==
  IF s.mcb.state = "configure" THEN Configured([s EXCEPT !.mcb.sent = TRUE]) ELSE Reconfigured(s)

MxDiscInd(s) == IF s.mcb.state = "idle" THEN s ELSE PORT_CloseInd(Idle(s))

MxSabm(s) ==
  IF s.mcb.state # "wait_sabme" THEN s
  ELSE IF s.mcb.pending = 0 THEN PORT_StartInd(rfc_timer_stop(s))
  ELSE PORT_StartCnf([rfc_timer_stop(Send(s, "UA", 0, 0)) EXCEPT
                        !.mcb.pending = 0, !.mcb.state = "connected", !.mcb.ready = TRUE], TRUE)

\* Variant: a port opened meanwhile is forgotten.
MxDisconnectedForGood(s) == rfc_release_multiplexer_channel(L2CA_DisconnectReq(s))

\* The multiplexer is down: connect again if a port was opened meanwhile.
MxDisconnected(s) ==
  LET down == L2CA_DisconnectReq(s)
      Restart(t) == IF s.fresh = 0 THEN PORT_StartCnf(t, FALSE)
                    ELSE [rfc_timer_start(t) EXCEPT !.mcb.state = "wait_conn_cnf", !.mcb.init = TRUE,
                            !.mcb.restart = FALSE, !.mcb.sent = FALSE, !.mcb.rcvd = FALSE, !.mcb.cmdq = <<>>]
  IN IF s.mcb.restart THEN Restart(L2CA_ConnectReq(down)) ELSE rfc_release_multiplexer_channel(down)

MxUa(s) ==
  CASE s.mcb.state = "sabme_wait_ua" ->
         PORT_StartCnf([rfc_timer_stop(s) EXCEPT !.mcb.state = "connected", !.mcb.ready = TRUE], TRUE)
    [] s.mcb.state = "disc_wait_ua" -> MxDisconnected(s)
    [] OTHER -> s

MxDm(s) ==
  CASE s.mcb.state = "sabme_wait_ua" -> PORT_StartCnf(L2CA_DisconnectReq(Idle(rfc_timer_stop(s))), FALSE)
    [] s.mcb.state = "disc_wait_ua" -> MxDisconnected(s)
    [] OTHER -> s

MxDisc(s) ==
  LET t == Send(s, "UA", 0, 0) IN
  CASE s.mcb.state = "connected" -> PORT_CloseInd(IF s.mcb.init THEN L2CA_DisconnectReq(t) ELSE t)
    [] s.mcb.state = "disc_wait_ua" -> t
    [] OTHER -> s

MxTimeout(s) ==
  LET t == L2CA_DisconnectReq(Idle(s)) IN
  CASE s.mcb.state = "wait_conn_cnf" /\ s.mcb.pending # 0 -> RetryAsAcceptor(t)
    [] s.mcb.state = "wait_conn_cnf" /\ s.mcb.pending = 0 -> PORT_CloseInd(t)
    [] s.mcb.state \in {"configure", "sabme_wait_ua"} -> PORT_StartCnf(t, FALSE)
    [] s.mcb.state = "wait_sabme" -> PORT_CloseInd(t)
    [] s.mcb.state = "connected" -> MxClose(s)
    [] s.mcb.state = "disc_wait_ua" -> MxDisconnected(s)
    [] OTHER -> s

-----------------------------------------------------------------------------
(* The L2CAP callbacks.                                                    *)

\* RFCOMM_ConnectInd: both devices connect at once when the own request is
\* out; the timer, which is random, decides who gives up.
RFCOMM_ConnectInd(s, c) ==
  CASE s.mcb.state = "idle" -> MxConnInd(NewMcb(s, FALSE), c)
    [] s.mcb.state = "wait_conn_cnf" /\ s.mcb.init -> rfc_timer_start([s EXCEPT !.mcb.pending = c])
    [] s.mcb.state = "connected" -> L2CA_ConnectRsp(rfc_timer_stop(s), c, FALSE)
    [] OTHER -> L2CA_ConnectRsp(s, c, FALSE)

RFCOMM_ConnectCnf(s, ok) ==
  IF s.mcb.pending = 0 THEN MxConnCnf(s, ok)
  ELSE IF ~ ok THEN RetryAsAcceptor(s)
  ELSE MxConnCnf([L2CA_ConnectRsp(s, s.mcb.pending, FALSE) EXCEPT !.mcb.pending = 0], TRUE)

MxFrame(s, t) ==
  CASE t = "SABM" -> MxSabm(s)
    [] t = "UA" -> MxUa(s)
    [] t = "DM" -> MxDm(s)
    [] t = "DISC" -> MxDisc(s)

PortFrame(s, i, m, refused) ==
  CASE m.t = "SABM" -> PortSabm(s, i)
    [] m.t = "UA" -> PortUa(s, i)
    [] m.t = "DM" -> PortDm(s, i)
    [] m.t = "DISC" -> PortDisc(s, i)
    [] m.t = "CREDIT" -> rfc_inc_credit(s, i, m.k)
    [] m.t = "DATA" -> IF m.k = 0 THEN PortUih(s, i, refused)
                       ELSE rfc_inc_credit(PortUih(s, i, refused), i, m.k)

\* RFCOMM_BufDataInd; a command for a DLCI without a port is answered by DM,
\* a SABME may find a port that listens.
RFCOMM_BufDataInd(s, m, refused) ==
  LET i == s.mcb.inx[m.dlci]
      waiting == Listening(s, m.dlci)
  IN CASE m.dlci = 0 -> MxFrame(s, m.t)
       [] m.t \in {"PN", "PNR", "MSC", "MSCR"} -> rfc_process_mx_message(s, m)
       [] OTHER ->
            IF i # 0 /\ s.port[i].mcb # "none" THEN PortFrame(s, i, m, refused)
            ELSE IF m.t \in {"UA", "DM"} THEN s
            ELSE IF m.t # "SABM" \/ waiting = {} THEN Send(s, "DM", m.dlci, 0)
            ELSE PortSabm([Adopt(s, Min(waiting), m.dlci) EXCEPT !.port[Min(waiting)].mcb = "mux"],
                          Min(waiting))

\* rfc_process_l2cap_congestion.
Congested(s) == FlowIndAll([s EXCEPT !.mcb.congested = TRUE], FALSE)
Uncongested(s) ==
  FlowIndAll(FoldLeft(L2CA_DataWrite, [s EXCEPT !.mcb.congested = FALSE, !.mcb.cmdq = <<>>], s.mcb.cmdq), TRUE)

\* A message for device s.  What comes for a channel L2CAP does not have is
\* dropped, and rfc_find_lcid_mcb knows the channel of the multiplexer only.
Receive(s, m, reject, refused) ==
  LET mine == s.mcb.lcid = m.c IN
  CASE m.t = "conn_req" ->
         IF reject THEN Signal(s, "conn_no", m.c)
         ELSE RFCOMM_ConnectInd([s EXCEPT !.chan[m.c] = "offer"], m.c)
    [] s.chan[m.c] = "none" -> s
    [] m.t = "conn_ok" -> LET t == [s EXCEPT !.chan[m.c] = "open"] IN
                          IF mine THEN RFCOMM_ConnectCnf(t, TRUE) ELSE t
    [] m.t = "conn_no" -> LET t == [s EXCEPT !.chan[m.c] = "none"] IN
                          IF mine THEN RFCOMM_ConnectCnf(t, FALSE) ELSE t
    [] m.t = "disc_ind" -> LET t == [s EXCEPT !.chan[m.c] = "none"] IN
                           IF mine THEN MxDiscInd(t) ELSE t
    [] ~ mine \/ m.t \in {"conn_req", "conn_ok", "conn_no", "disc_ind"} -> s
    [] m.t = "cfg_req" -> MxConfInd(s)
    [] m.t = "cfg_rsp" -> MxConfCnf(s)
    [] OTHER -> RFCOMM_BufDataInd(s, m, refused)

-----------------------------------------------------------------------------
(* The API.                                                                *)

\* port_allocate_port: the next port that is free after the one last given.
FreePort(s) ==
  LET order == [n \in Ports |-> ((s.last + n - 1) % MaxPorts) + 1]
      free == SelectSeq(order, LAMBDA i : ~ s.port[i].used)
  IN IF free = <<>> THEN 0 ELSE Head(free)

NewPort(s, i, server, dlci) ==
  [s EXCEPT !.last = i,
            !.port[i] = [NoPort EXCEPT !.used = TRUE, !.state = "opening", !.server = server,
                           !.dlci = dlci, !.keep = server, !.mgmt = TRUE, !.addr = ~ server]]

\* port_open_continue.  In the states in between the port only waits.
port_open_continue(s, i) ==
  LET On(t) == [t EXCEPT !.port[i].mcb = "mux", !.mcb.inx[t.port[i].dlci] = i] IN
  CASE s.mcb.state = "idle" -> MxStart(On(NewMcb(s, TRUE)))
    [] s.mcb.state = "connected" -> RFCOMM_ParNegReq(On(rfc_timer_stop(s)), s.port[i].dlci)
    [] s.mcb.state = "disc_wait_ua" -> MxStart(On(s))
    [] OTHER -> On(s)

RFCOMM_CreateServer(s) ==
  IF FreePort(s) = 0 THEN s ELSE NewPort(s, FreePort(s), TRUE, 2)

\* The same client connection is not opened twice.
RFCOMM_CreateClient(s) ==
  LET dlci == IF s.mcb.state # "idle" /\ ~ s.mcb.init THEN 3 ELSE 2
      same == {i \in Ports : s.port[i].used /\ s.port[i].addr /\ s.port[i].dlci = dlci}
  IN IF same # {} /\ ~ s.port[Min(same)].server THEN s
     ELSE IF FreePort(s) = 0 THEN s
     ELSE port_open_continue(NewPort(s, FreePort(s), FALSE, dlci), FreePort(s))

port_start_close(s, i) ==
  LET t == [s EXCEPT !.port[i].line = TRUE, !.port[i].state = "closing"] IN
  IF s.port[i].mcb = "none" \/ s.port[i].rfc = "closed"
  THEN port_release_port(Mgmt(t, i, FALSE), i)
  ELSE IF s.port[i].mcb = "mux" /\ s.mcb.inx[s.port[i].dlci] = i THEN PortClose(t, i)
  ELSE t

RFCOMM_RemoveConnection(s, i) == port_start_close(s, i)
RFCOMM_RemoveServer(s, i) ==
  port_start_close([s EXCEPT !.port[i].mgmt = FALSE, !.port[i].keep = FALSE, !.port[i].up = FALSE], i)

\* port_write: the data is kept until the peer allows it and the first
\* control commands have gone both ways.
port_write(s, i) ==
  LET p == s.port[i] IN
  IF p.server /\ p.rfc # "opened" THEN s
  ELSE IF p.peerfc \/ p.mcb # "mux" \/ ~ s.mcb.ready \/ p.rfc # "opened" \/ ~ {"sent", "received"} \subseteq p.ctrl
  THEN IF p.txq > TxCritical THEN s ELSE [s EXCEPT !.port[i].txq = @ + 1]
  ELSE RFCOMM_DataReq(s, i)

PORT_FlowControl(s, i, enable) ==
  LET t == [s EXCEPT !.port[i].userfc = ~ enable] IN
  IF s.port[i].mcb = "none" THEN s
  ELSE IF enable THEN port_flow_control_peer(t, i, 0) ELSE t

\* Variant: the credits of the data thrown away are not counted.
PORT_PurgeUncounted(s, i, rx) ==
  IF rx THEN [s EXCEPT !.port[i].rxq = 0] ELSE [s EXCEPT !.port[i].txq = 0]

PORT_Purge(s, i, rx) ==
  IF ~ rx THEN [s EXCEPT !.port[i].txq = 0]
  ELSE IF s.port[i].rxq = 0 THEN s
  ELSE port_flow_control_peer([s EXCEPT !.port[i].rxq = 0], i, s.port[i].rxq)

-----------------------------------------------------------------------------
(* The steps of the system.                                                *)

InUse(c) ==
  \E d \in Device : dev[d].chan[c] # "none" \/ \E n \in DOMAIN net[d] : net[d][n].c = c
Fresh == LET free == {c \in Chans : ~ InUse(c)} IN IF free = {} THEN 0 ELSE Min(free)

Before(d) ==
  [mcb |-> dev[d].mcb, port |-> dev[d].port, last |-> dev[d].last, sec |-> dev[d].sec,
   chan |-> dev[d].chan, flush |-> dev[d].flush, out |-> <<>>, fresh |-> Fresh,
   sock |-> load.sock, short |-> load.short, abort |-> load.abort]

\* Device d is s after a step of the BTU task, which with it is no longer in the
\* middle of anything; the messages in queue are still to be received.
After(d, s, queue) ==
  /\ dev' = [dev EXCEPT ![d] = [mcb |-> s.mcb, port |-> s.port, last |-> s.last, sec |-> s.sec, chan |-> s.chan,
                                flush |-> [s.flush EXCEPT !.past = {}]]]
  /\ net' = [net EXCEPT ![d] = queue, ![Peer(d)] = @ \o s.out]

\* The BTU task can do what, "write" or "DATA", on a socket: it takes slot_lock
\* for the data first (bta_co_rfc_data_incoming, bta_co_rfc_data_outgoing).
Unlocked(d, what) == load.sock /\ dev[d].flush.port # 0 => what \in dev[d].flush.past

\* An authorization that was aborted leaves the requests that wait where they are.
Answered(d) == dev[d].sec.act = 0 /\ (dev[d].sec.pend = <<>> \/ load.abort = "authorizing")

Idling == \A d \in Device : /\ net[d] = <<>> /\ Answered(d) /\ dev[d].flush.port = 0
                            /\ \A c \in Chans : dev[d].chan[c] # "full"

OpenServer(d) ==
  /\ load.servers[d] > 0
  /\ load' = [load EXCEPT !.servers[d] = @ - 1]
  /\ After(d, RFCOMM_CreateServer(Before(d)), net[d])

OpenClient(d) ==
  /\ load.clients[d] > 0
  /\ load' = [load EXCEPT !.clients[d] = @ - 1]
  /\ After(d, RFCOMM_CreateClient(Before(d)), net[d])

Usable(d, i) == dev[d].port[i].used /\ dev[d].port[i].state # "closed"

\* The users (bta_jv, bta_ag) close a client at any time, the connection of a
\* server when it is up, and remove a server at any time.
Close(d, i) ==
  /\ load.closes[d] > 0 /\ Usable(d, i)
  /\ load' = [load EXCEPT !.closes[d] = @ - 1]
  /\ \/ /\ dev[d].port[i].server => dev[d].port[i].up
        /\ After(d, RFCOMM_RemoveConnection(Before(d), i), net[d])
     \/ dev[d].port[i].server /\ After(d, RFCOMM_RemoveServer(Before(d), i), net[d])

Write(d, i) ==
  /\ load.writes[d] > 0 /\ Usable(d, i) /\ ~ dev[d].port[i].line /\ Unlocked(d, "write")
  /\ load' = [load EXCEPT !.writes[d] = @ - 1]
  /\ After(d, port_write(Before(d), i), net[d])

Read(d, i) ==
  /\ Usable(d, i) /\ ~ dev[d].port[i].line /\ dev[d].port[i].rxq > 0
  /\ After(d, port_flow_control_peer([Before(d) EXCEPT !.port[i].rxq = @ - 1], i, 1), net[d])
  /\ UNCHANGED load

Hold(d, i) ==
  /\ load.holds[d] > 0 /\ Usable(d, i) /\ ~ dev[d].port[i].userfc
  /\ load' = [load EXCEPT !.holds[d] = @ - 1]
  /\ After(d, PORT_FlowControl(Before(d), i, FALSE), net[d])

Resume(d, i) ==
  /\ Usable(d, i) /\ dev[d].port[i].userfc
  /\ After(d, PORT_FlowControl(Before(d), i, TRUE), net[d])
  /\ UNCHANGED load

\* What the BTU task may be in the middle of, beyond the use of slot_lock.
Past(d) ==
  {what \in {"DATA", "write"} :
     IF what = "write" THEN load.writes[d] > 0 ELSE net[d] # <<>> /\ Head(net[d]).t = "DATA"}

\* flush_incoming_que_on_wr_signal, on the socket thread with slot_lock held:
\* the application has taken all there is, and PORT_FlowControl reads credit_rx.
AppReady(d, i) ==
  LET p == dev[d].port[i] IN
  /\ Usable(d, i) /\ p.appq > 0 /\ dev[d].flush.port = 0
  /\ dev' = [dev EXCEPT ![d].port[i].appq = 0,
                        ![d].port[i].userfc = @ /\ p.mcb = "none",
                        ![d].flush = IF p.mcb = "mux" THEN [port |-> i, crx |-> p.crx, past |-> Past(d)] ELSE @]
  /\ UNCHANGED <<net, load>>

\* Then port_flow_control_peer writes what follows from the value that was read.
AppReadyEnds(d) ==
  LET i == dev[d].flush.port
      v == dev[d].flush.crx
      s == [Before(d) EXCEPT !.flush = NoFlush, !.port[i].crx = v, !.port[i].raced = @ \/ dev[d].port[i].crx # v]
  IN /\ i # 0
     /\ After(d, port_flow_control_peer(s, i, 0), net[d])
     /\ UNCHANGED load

Purge(d, i) ==
  /\ load.purges[d] > 0 /\ Usable(d, i)
  /\ load' = [load EXCEPT !.purges[d] = @ - 1]
  /\ \E rx \in BOOLEAN : After(d, PORT_Purge(Before(d), i, rx), net[d])

\* BTM answers (btm_sec_dev_rec_cback_event calls rfc_sec_check_complete) and
\* turns to the next request.
SecComplete(d, ok) ==
  LET i == dev[d].sec.act
      s == [Before(d) EXCEPT !.sec.act = 0]
  IN /\ i # 0
     /\ ok \/ load.denials > 0
     /\ load' = IF ok THEN load ELSE [load EXCEPT !.denials = @ - 1]
     /\ After(d, btm_sec_check_pending_reqs(IF dev[d].port[i].used THEN PortSecComplete(s, i, ok) ELSE s), net[d])

\* btm_sec_auth_complete, for an authentication whose request was aborted.
AuthComplete(d) ==
  /\ dev[d].sec.act = 0 /\ dev[d].sec.pend # <<>> /\ load.abort = "authenticating"
  /\ After(d, btm_sec_check_pending_reqs(Before(d)), net[d])
  /\ UNCHANGED load

\* Time is long against what is under way, unless the workload says otherwise.
TimeOut ==
  \/ Idling /\ UNCHANGED load
  \/ ~ Idling /\ load.early > 0 /\ load' = [load EXCEPT !.early = @ - 1, !.late = TRUE]

MuxTimer(d) ==
  /\ dev[d].mcb.timer /\ TimeOut
  /\ After(d, MxTimeout(rfc_timer_stop(Before(d))), net[d])

PortTimer(d, i) ==
  /\ dev[d].port[i].timer /\ TimeOut
  /\ After(d, PortTimeout(rfc_port_timer_stop(Before(d), i), i), net[d])

Deliver(d) ==
  /\ net[d] # <<>>
  /\ \E reject, refused \in BOOLEAN :
       /\ reject => load.rejects > 0 /\ Head(net[d]).t = "conn_req"
       /\ refused => load.refusals[d] > 0 /\ Head(net[d]).t = "DATA" /\ dev[d].flush.port = 0
       /\ Head(net[d]).t = "DATA" => Unlocked(d, "DATA")
       /\ load' = IF reject THEN [load EXCEPT !.rejects = @ - 1]
                  ELSE IF refused THEN [load EXCEPT !.refusals[d] = @ - 1] ELSE load
       /\ After(d, Receive(Before(d), Head(net[d]), reject, refused), Tail(net[d]))

\* L2CAP's congestion callbacks, for the channel of the multiplexer.
Congest(d) ==
  \E c \in Chans :
    /\ load.jams[d] > 0 /\ dev[d].chan[c] = "open" /\ dev[d].mcb.lcid = c
    /\ load' = [load EXCEPT !.jams[d] = @ - 1]
    /\ After(d, Congested([Before(d) EXCEPT !.chan[c] = "full"]), net[d])

Uncongest(d) ==
  \E c \in Chans :
    LET s == [Before(d) EXCEPT !.chan[c] = "open"] IN
    /\ dev[d].chan[c] = "full"
    /\ After(d, IF dev[d].mcb.lcid = c THEN Uncongested(s) ELSE s, net[d])
    /\ UNCHANGED load

\* The link is lost: what was under way is gone, L2CAP reports all channels.
LoseLink ==
  /\ load.losses > 0
  /\ load' = [load EXCEPT !.losses = @ - 1]
  /\ net' = [d \in Device |->
       LET up == SetToSortSeq({c \in Chans : dev[d].chan[c] # "none"}, <)
       IN [n \in DOMAIN up |-> Msg("disc_ind", up[n], 0, 0)]]
  /\ UNCHANGED dev

Init ==
  /\ load \in Workloads
  /\ dev = [d \in Device |-> [mcb |-> NoMcb, port |-> [i \in Ports |-> NoPort], last |-> 0,
                              sec |-> [act |-> 0, pend |-> <<>>], chan |-> [c \in Chans |-> "none"],
                              flush |-> NoFlush]]
  /\ net = [d \in Device |-> <<>>]

Next ==
  \/ LoseLink
  \/ \E d \in Device :
       \/ OpenServer(d) \/ OpenClient(d) \/ MuxTimer(d) \/ Deliver(d) \/ Congest(d) \/ Uncongest(d)
       \/ AuthComplete(d) \/ AppReadyEnds(d)
       \/ \E ok \in BOOLEAN : SecComplete(d, ok)
       \/ \E i \in Ports :
            \/ Close(d, i) \/ Write(d, i) \/ Read(d, i) \/ Hold(d, i) \/ Resume(d, i)
            \/ AppReady(d, i) \/ Purge(d, i) \/ PortTimer(d, i)

Spec == Init /\ [][Next]_vars

-----------------------------------------------------------------------------
(* Properties.                                                             *)

Frames(queue, t, dlci) == {n \in DOMAIN queue : queue[n].t \in t /\ queue[n].dlci = dlci}
Credits(queue, dlci) ==
  FoldLeft(LAMBDA k, m : IF m.t \in {"DATA", "CREDIT"} /\ m.dlci = dlci THEN k + m.k ELSE k, 0, queue)

\* Port i of d and port j of the other device are two ends of one connection
\* over a channel that is up.
Joined(d, i, j) ==
  LET p == dev[d].port[i]  q == dev[Peer(d)].port[j]
      Broken(queue) == \E n \in DOMAIN queue : queue[n].t = "disc_ind" /\ queue[n].c = dev[d].mcb.lcid
  IN
  /\ ~ Broken(net[1]) /\ ~ Broken(net[2])
  /\ p.rfc = "opened" /\ p.mcb = "mux" /\ q.rfc = "opened" /\ q.mcb = "mux" /\ p.dlci = q.dlci
  /\ dev[d].mcb.lcid = dev[Peer(d)].mcb.lcid

\* Nothing is under way, and time will not change anything.
Settled ==
  /\ Idling
  /\ \A d \in Device : ~ dev[d].mcb.timer /\ \A i \in Ports : ~ dev[d].port[i].timer

\* credit_rx of a receiver counts the credits its sender has, the data and
\* the credits under way, and the data the user has not taken (and, with a
\* socket, what it refused): rfc_inc_credit, rfc_dec_credit and
\* port_flow_control_peer together make no credit and lose none, whatever the
\* users read, hold, purge and close meanwhile.  One way is known: the socket
\* thread, in port_flow_control_peer, overwrites what the BTU task wrote since
\* (raced); btif_sock_rfc.c:871 says the call needs to be serialized.
CreditsConserved ==
  ~ load.late => \A d \in Device : \A i, j \in Ports :
    LET p == dev[d].port[i]  q == dev[Peer(d)].port[j] IN
    Joined(d, i, j) /\ p.neg /\ q.neg /\ ~ p.raced =>
      p.crx = q.ctx + Cardinality(Frames(net[d], {"DATA"}, p.dlci)) + Credits(net[Peer(d)], p.dlci)
              + Credits(dev[d].mcb.cmdq, p.dlci) + p.rxq + p.lost

\* Data does not wait for ever: when all is settled, a sender that has data in
\* its queue waits for a receiver that has data to take or holds the flow.
\* A wake-up that PORT_FlowInd, PORT_ControlInd or PORT_ControlCnf misses
\* leaves port_rfc_send_tx_data uncalled.
NoStall ==
  Settled => \A d \in Device : \A i, j \in Ports :
    LET p == dev[d].port[i]  q == dev[Peer(d)].port[j] IN
    Joined(d, i, j) /\ p.neg /\ q.neg /\ q.txq > 0 => p.rxq > 0 \/ p.userfc \/ p.lost > 0

\* p_mcb and dlci of a port and port_inx of its multiplexer are two records of
\* one fact: a port is in the table of the multiplexer it is on, under its
\* DLCI, and nothing else is, also when DLCIs change because both devices
\* connected at once.
PortsIndexed ==
  \A d \in Device :
    /\ \A x \in Dlcis : LET i == dev[d].mcb.inx[x] IN
         i # 0 => dev[d].port[i].mcb = "mux" /\ dev[d].port[i].dlci = x
    /\ \A i \in Ports : LET p == dev[d].port[i] IN
         /\ p.mcb = "mux" => dev[d].mcb.inx[p.dlci] = i
         /\ p.timer => p.used

\* What the management callback said is so: a connection that is up for the
\* user is open, being closed by the user, or closed by the peer with data not
\* read yet and a timer that will end it; unless an answer to MSC that came after
\* the peer's DISC has stopped that timer (rfc_process_msc): then the connection
\* stays up for as long as the multiplexer does.
UpIsTrue ==
  ~ load.late => \A d \in Device : \A i \in Ports :
    LET p == dev[d].port[i] IN
    p.used /\ p.mgmt =>
      /\ p.state = "opened" => p.up
      /\ p.up => p.state \in {"opened", "closing"}
                 /\ (p.rfc \in {"opened", "disc_wait_ua"} \/ (p.rfc = "closed" /\ (p.timer \/ p.stopped)))

\* Five known ways in which a port is left behind.  A client opened while the
\* other device sets the multiplexer up: port_open_continue leaves it to the
\* multiplexer, whose PORT_StartInd does not start it.
NotStarted(d, p) ==
  /\ p.mcb = "mux" /\ ~ p.server /\ p.rfc = "closed" /\ p.rsp = {}
  /\ dev[d].mcb.state = "connected" /\ ~ dev[d].mcb.init

\* A server removed while the access of a client is checked, which
\* rfc_port_sm_term_wait_sec_check ignores.
Ignored(p) == p.server /\ ~ p.mgmt /\ p.state = "opened" /\ p.rfc = "opened"

\* A server that a client began to connect to and let go before the SABME: it
\* stays on the multiplexer, even when that has been released.
Abandoned(p) == p.server /\ p.state = "opening" /\ p.rfc = "closed" /\ p.mcb # "none"

\* A port whose access request BTM dropped when that of another port was aborted.
Unanswered(p) == p.cut /\ p.rfc \in {"orig_sec", "term_sec"}

\* A port whose user has not been told that it is closed: the timer was stopped.
Unended(p) == p.stopped /\ p.rfc = "closed" /\ p.state = "opened"

\* When all is settled the two ends agree: an open port has an open port at
\* the other end, every other port is a server that can be connected to (or
\* one of the five left behind), and no multiplexer and no channel is kept
\* without a port.
EndsAgree ==
  Settled /\ ~ load.late => \A d \in Device :
    /\ \A i \in Ports : LET p == dev[d].port[i] IN
         p.used => \/ p.state = "opened" /\ p.rfc = "opened" /\ p.mgmt
                   \/ p.server /\ p.state = "opening" /\ p.rfc = "closed" /\ p.mcb = "none"
                   \/ NotStarted(d, p) \/ Abandoned(p) \/ Ignored(p) \/ Unanswered(p) \/ Unended(p)
    /\ \A i \in Ports : dev[d].port[i].rfc = "opened" => \E j \in Ports : Joined(d, i, j)
    /\ \A c \in Chans : Open(dev[d], c) =>
         dev[d].mcb.lcid = c /\ dev[d].mcb.state = "connected" /\ \E x \in Dlcis : dev[d].mcb.inx[x] # 0
=============================================================================
