--------------------------- MODULE L2capChannel ---------------------------
(***************************************************************************)
(* L2CAP connection-oriented channels between two devices, A and B, that   *)
(* both run this stack: the link control block (l2c_link.c), the channel   *)
(* state machine (l2c_csm.c), the signalling commands (l2c_main.c,         *)
(* l2c_utils.c), the negotiation of the channel mode (l2c_fcr.c) and the   *)
(* L2CA_ functions (l2c_api.c).                                            *)
(*                                                                         *)
(* All of it runs in the BTU task, so one step handles one event, to the   *)
(* end: a packet or an HCI event, a timer, a call of the user or the       *)
(* security manager's answer.  An end is a record s that every handler     *)
(* takes and returns:                                                      *)
(*   lcb   the link control block (state "none": not in use)               *)
(*   ccb   the pool of channel control blocks, by local CID                *)
(*   free  the free list of that pool                                      *)
(*   sec   the channels whose security request BTM has not answered        *)
(*   user  what the layer above knows of each CID (not in the code)        *)
(*   odd   the callbacks of this step the layer above does not expect      *)
(*   grant what a security request made in this step is answered           *)
(*   out   what this step hands to the controller                          *)
(* Packets and HCI events reach the host through one queue, in order.      *)
(* A CCB that is free is written with the fields l2cu_allocate_ccb resets  *)
(* already reset; remote_cid and local_id are not among them.              *)
(***************************************************************************)
EXTENDS Naturals, Sequences, FiniteSets, SequencesExt

CONSTANTS
  Cids,      \* the channel control blocks of an end: 1 .. MAX_L2CAP_CHANNELS
  Workloads  \* what the users do, what fails and how often: see load

ASSUME L2capConstants == Cids \in SUBSET (Nat \ {0}) /\ IsFiniteSet(Cids)

VARIABLES
  lcb, ccb, free, sec, user, odd,   \* the fields of an end, by end
  wire,    \* wire[e]: the packets and HCI events on their way to host e
  air,     \* the controllers: [link, made, page]
  load     \* what is left of the workload: the control blocks of an end
           \* (room), connections and modes by end, the security manager's
           \* answers, user disconnections (closes) and refused configurations
           \* (rejects), link losses, failed pages and early timers

vars == <<lcb, ccb, free, sec, user, odd, wire, air, load>>

End == {"A", "B"}

Peer(e) == IF e = "A" THEN "B" ELSE "A"

\* ertm_info.preferred_mode and allowed_modes as the users fill them in.
Preferred(modes) == IF "ertm" \in modes THEN "ertm" ELSE "basic"

NoCcb ==
  [used |-> FALSE, state |-> "closed", remote |-> 0, lid |-> 0, rid |-> 0,
   timer |-> FALSE, ib |-> FALSE, ob |-> FALSE, reconfig |-> FALSE,
   pnd |-> FALSE, noretry |-> FALSE, allowed |-> {"basic"}, pref |-> "basic",
   our |-> "basic", peer |-> "basic", rejected |-> FALSE, missed |-> FALSE]

NoLcb ==
  [state |-> "none", handle |-> 0, timer |-> FALSE, w4info |-> FALSE,
   infotimer |-> FALSE, ext |-> FALSE, id |-> 0, pending |-> 0,
   chans |-> <<>>, idle0 |-> FALSE, xmit |-> <<>>]

NoUser == [st |-> "none", owes |-> FALSE, asked |-> FALSE, id |-> 0]

\* l2cu_allocate_lcb.
AllocateLcb(s) == [s EXCEPT !.lcb = [NoLcb EXCEPT !.state = "disconnected", !.id = 1]]

-----------------------------------------------------------------------------
(* Sending.  A signalling packet goes through the link's transmit queue,   *)
(* which only a connected link empties; the queue lives as long as the     *)
(* link control block, over a reconnection too.                            *)

Command(s, cmd) == [s EXCEPT !.out = Append(@, [handle |-> s.lcb.handle, m |-> [t |-> cmd]])]

Send(s, m) ==
  LET q == Append(s.lcb.xmit, m)
      packets == [i \in DOMAIN q |-> [handle |-> s.lcb.handle, m |-> q[i]]]
  IN IF s.lcb.state = "connected"
     THEN [s EXCEPT !.out = @ \o packets, !.lcb.xmit = <<>>]
     ELSE [s EXCEPT !.lcb.xmit = q]

\* A request of channel c: the identifier is the link's next one.
Request(s, c, m) ==
  LET id == s.lcb.id + 1 IN
  Send([s EXCEPT !.lcb.id = id, !.ccb[c].lid = id], [m EXCEPT !.id = id])

ConnectReqTo(s, c) == Request(s, c, [t |-> "conn_req", id |-> 0, scid |-> c])

ConfigReqTo(s, c) ==
  Request(s, c, [t |-> "cfg_req", id |-> 0, dcid |-> s.ccb[c].remote, mode |-> s.ccb[c].our])

DiscReqTo(s, c) ==
  Request(s, c, [t |-> "disc_req", id |-> 0, dcid |-> s.ccb[c].remote, scid |-> c])

ConnectRspTo(s, c, result) ==
  IF result = "pending" /\ s.ccb[c].pnd
  THEN s
  ELSE Send([s EXCEPT !.ccb[c].pnd = @ \/ result = "pending"],
            [t |-> "conn_rsp", id |-> s.ccb[c].rid, dcid |-> c,
             scid |-> s.ccb[c].remote, result |-> result])

\* fcr: the response names a mode, which a negative one proposes.
ConfigRspTo(s, c, result, fcr, mode) ==
  Send(s, [t |-> "cfg_rsp", id |-> s.ccb[c].rid, scid |-> s.ccb[c].remote,
           result |-> result, fcr |-> fcr, mode |-> mode])

DiscRspTo(s, id, local, remote) ==
  Send(s, [t |-> "disc_rsp", id |-> id, dcid |-> local, scid |-> remote])

InfoReqTo(s, type) ==
  LET id == s.lcb.id + 1 IN
  Send([s EXCEPT !.lcb.id = id, !.lcb.w4info = TRUE, !.lcb.infotimer = TRUE],
       [t |-> "info_req", id |-> id, type |-> type])

-----------------------------------------------------------------------------
(* Timers, callbacks, control blocks.                                      *)

Timer(s, c) == [s EXCEPT !.ccb[c].timer = TRUE]

StopTimer(s, c) == [s EXCEPT !.ccb[c].timer = FALSE]

Goto(s, c, state) == [s EXCEPT !.ccb[c].state = state]

\* Records (not in the code) the channels an event was meant for and missed.
Missed(s, chans) ==
  [s EXCEPT !.ccb = [c \in Cids |-> [@[c] EXCEPT !.missed = @ \/ c \in chans]]]

\* The callbacks a user expects in each of its states, and where they lead.
Expected ==
  [ConnectInd |-> {"untold"}, ConnectCfm |-> {"asked"}, ConnectCfmNeg |-> {"asked"},
   ConfigInd |-> {"up"}, ConfigCfm |-> {"up"}, ConfigCfmNeg |-> {"up"},
   DisconnectInd |-> {"asked", "offered", "up", "acking"},
   DisconnectIndAck |-> {"up"}, DisconnectCfm |-> {"closing"}]

\* The callback cb for channel c.
Tell(s, c, cb) ==
  LET u == s.user[c]
      v == CASE cb = "ConnectInd" -> [NoUser EXCEPT !.st = "offered", !.id = s.ccb[c].rid]
             [] cb = "ConnectCfm" -> [NoUser EXCEPT !.st = "up"]
             [] cb = "ConfigInd" -> [u EXCEPT !.owes = TRUE]
             [] cb = "ConfigCfm" -> u
             [] cb = "ConfigCfmNeg" -> [u EXCEPT !.asked = FALSE]
             [] cb = "DisconnectIndAck" -> [u EXCEPT !.st = "acking"]
             [] OTHER -> NoUser
  IN IF u.st \in Expected[cb]
     THEN [s EXCEPT !.user[c] = v]
     ELSE [s EXCEPT !.odd = @ \union {<<cb, u.st>>}]

Disconnect(s) == Command([s EXCEPT !.lcb.state = "disconnecting", !.lcb.timer = TRUE], "disconnect")

\* l2cu_no_dynamic_ccbs: the idle timer, or the link goes down at once.
NoDynamicCcbs(s) == IF s.lcb.idle0 THEN Disconnect(s) ELSE [s EXCEPT !.lcb.timer = TRUE]

AllocateCcb(s) ==
  LET c == Head(s.free) IN
  [s EXCEPT !.free = Tail(@), !.lcb.chans = Append(@, c),
            !.ccb[c] = [NoCcb EXCEPT !.used = TRUE, !.remote = s.ccb[c].remote,
                                      !.lid = s.ccb[c].lid]]

\* A variant of Release that forgets btu_stop_timer.
ReleaseTimed(s, c) ==
  LET k == s.ccb[c]
      r == [s EXCEPT !.free = Append(@, c),
                     !.user[c] = IF @.st \in {"untold", "refused"} THEN NoUser ELSE @,
                     !.lcb.chans = SelectSeq(@, LAMBDA d : d # c),
                     !.ccb[c] = [NoCcb EXCEPT !.remote = k.remote, !.lid = k.lid, !.timer = k.timer]]
  IN IF ~k.used THEN s
     ELSE IF r.lcb.state = "connected" /\ r.lcb.chans = <<>> THEN NoDynamicCcbs(r) ELSE r

\* l2cu_release_ccb, of a control block that is not free already.
Release(s, c) ==
  LET k == s.ccb[c]
      r == [s EXCEPT !.free = Append(@, c),
                     !.user[c] = IF @.st \in {"untold", "refused"} THEN NoUser ELSE @,
                     !.lcb.chans = SelectSeq(@, LAMBDA d : d # c),
                     !.ccb[c] = [NoCcb EXCEPT !.remote = k.remote, !.lid = k.lid]]
  IN IF ~k.used THEN s
     ELSE IF r.lcb.state = "connected" /\ r.lcb.chans = <<>> THEN NoDynamicCcbs(r) ELSE r

\* Released, and the user told; a user that was never told of it included.
Drop(s, c, cb) == Release(Tell(s, c, cb), c)

ReleaseLcb(s) ==
  LET r == FoldLeft(Release, [s EXCEPT !.lcb.state = "released"], s.lcb.chans)
  IN [r EXCEPT !.lcb = NoLcb]

CreateConn(s) == Command([s EXCEPT !.lcb.state = "connecting", !.lcb.timer = TRUE], "create")

\* l2cu_disconnect_chnl.
DisconnectChnl(s, c) == Drop(DiscReqTo(s, c), c, "DisconnectInd")

-----------------------------------------------------------------------------
(* Opening a channel.                                                      *)

\* l2c_fcr_chk_chan_modes: ERTM needs a peer that is known to support it.
ChkChanModes(s, c) ==
  [s EXCEPT !.ccb[c].allowed = IF s.lcb.ext THEN @ ELSE @ \ {"ertm"}]

\* The connection request, once the peer's features are known.
StartConnect(s, c) ==
  LET r == ChkChanModes(s, c) IN
  IF r.ccb[c].allowed = {}
  THEN Drop(r, c, "ConnectCfmNeg")
  ELSE Timer(ConnectReqTo(r, c), c)

\* SEC_COMP of a channel opened here, in CST_CLOSED or CST_ORIG_W4_SEC_COMP.
SecCompOrig(s, c) ==
  LET r == Goto(s, c, "w4_l2cap_connect_rsp") IN
  IF r.lcb.w4info THEN r ELSE StartConnect(r, c)

\* SEC_COMP_NEG of such a channel; idle0 only from CST_ORIG_W4_SEC_COMP.
SecNegOrig(s, c) ==
  LET alone == s.ccb[c].state = "orig_w4_sec_comp" /\ s.lcb.chans = <<c>> IN
  Drop([s EXCEPT !.lcb.idle0 = @ \/ alone], c, "ConnectCfmNeg")

SecCompTerm(s, c) ==
  LET r == Goto(s, c, "w4_l2ca_connect_rsp") IN
  IF r.lcb.w4info
  THEN ConnectRspTo(r, c, "pending")
  ELSE Tell(Timer(r, c), c, "ConnectInd")

SecNegTerm(s, c) == Release(ConnectRspTo(s, c, "neg"), c)

\* btm_sec_l2cap_access_req: answered inside the call, or started.
AccessOrig(s, c) ==
  CASE s.grant = "ok" -> SecCompOrig(s, c)
    [] s.grant = "no" -> SecNegOrig(s, c)
    [] s.grant = "started" ->
         [s EXCEPT !.sec = @ \union {c}, !.ccb[c].state = "orig_w4_sec_comp"]

AccessTerm(s, c) ==
  CASE s.grant = "ok" -> SecCompTerm(s, c)
    [] s.grant = "no" -> SecNegTerm(s, c)
    [] s.grant = "started" -> ConnectRspTo([s EXCEPT !.sec = @ \union {c}], c, "pending")
    [] s.grant = "delay" -> Timer([s EXCEPT !.sec = @ \union {c}], c)

-----------------------------------------------------------------------------
(* Configuration.                                                          *)

\* l2c_fcr_process_peer_cfg_req: the verdict on the mode the peer asks for.
Verdict(k, mode) ==
  IF mode = "basic" /\ "basic" \notin k.allowed THEN "disconnect"
  ELSE IF mode = "basic" \/ mode = k.pref THEN "ok"
  ELSE IF k.rejected THEN "disconnect" ELSE "unacceptable"

\* Its effect; it also gives up waiting for the peer's features.
PeerCfg(s, c, mode) ==
  LET v == Verdict(s.ccb[c], mode) IN
  [s EXCEPT !.lcb.w4info = FALSE,
            !.ccb[c].peer = IF v = "ok" THEN mode ELSE @,
            !.ccb[c].rejected = @ \/ v = "unacceptable"]

\* Both directions configured: open, unless the two modes differ.
Finish(s, c) ==
  StopTimer([s EXCEPT !.ccb[c].state = "open", !.ccb[c].reconfig = TRUE], c)

Differ(k) == k.our # k.peer

\* l2c_fcr_renegotiate_chan, and the callback its caller makes when it fails:
\* also after it has disconnected the channel.
Renegotiate(s, c, m) ==
  LET k == s.ccb[c] IN
  IF ~m.fcr \/ k.reconfig \/ k.our = m.mode
  THEN Tell(s, c, "ConfigCfmNeg")
  ELSE IF k.our = "ertm" /\ "basic" \in k.allowed
  THEN Timer(ConfigReqTo([s EXCEPT !.ccb[c].our = "basic"], c), c)
  ELSE Tell(DisconnectChnl(s, c), c, "ConfigCfmNeg")

\* CONFIG_REQ of the peer in CST_CONFIG.
ConfigReqIn(s, c, m) ==
  LET v == Verdict(s.ccb[c], m.mode)
      r == PeerCfg(s, c, m.mode)
  IN CASE v = "ok" -> Tell(r, c, "ConfigInd")
       [] v = "disconnect" -> DisconnectChnl(r, c)
       [] v = "unacceptable" -> ConfigRspTo(r, c, "neg", TRUE, "basic")

\* The same in CST_OPEN: a reconfiguration, undone if it is unacceptable.
ReconfigReqIn(s, c, m) ==
  IF Verdict(s.ccb[c], m.mode) = "unacceptable"
  THEN StopTimer(ConfigReqIn(s, c, m), c)
  ELSE ConfigReqIn(Timer([s EXCEPT !.ccb[c].state = "config", !.ccb[c].ib = FALSE,
                                   !.ccb[c].ob = FALSE], c), c, m)

\* A variant of ConfigRspIn that does not compare the modes.
ConfigRspInUnchecked(s, c) ==
  LET r == [s EXCEPT !.ccb[c].ob = TRUE]
  IN Tell(IF r.ccb[c].ib THEN Finish(r, c) ELSE r, c, "ConfigCfm")

\* A positive CONFIG_RSP of the peer.
ConfigRspIn(s, c) ==
  LET r == [s EXCEPT !.ccb[c].ob = TRUE]
      k == r.ccb[c]
  IN IF k.ib /\ Differ(k)
     THEN DisconnectChnl(r, c)
     ELSE Tell(IF k.ib THEN Finish(r, c) ELSE r, c, "ConfigCfm")

\* The user's positive response, L2CEVT_L2CA_CONFIG_RSP.
ConfigRspOut(s, c) ==
  LET r == [s EXCEPT !.ccb[c].ib = TRUE]
      k == r.ccb[c]
  IN IF k.ob /\ Differ(k)
     THEN DisconnectChnl(r, c)
     ELSE ConfigRspTo(IF k.ob THEN Finish(r, c) ELSE r, c, "ok", TRUE, k.peer)

-----------------------------------------------------------------------------
(* The channel state machine: one operator per state, ev the event.        *)

SendDiscReq(s, c) == Timer(Goto(DiscReqTo(s, c), c, "w4_l2cap_disconnect_rsp"), c)

SendDiscRsp(s, c) == DiscRspTo(s, s.ccb[c].rid, c, s.ccb[c].remote)

\* A variant of PeerDiscReq that leaves the user all the time in the world.
PeerDiscReqUntimed(s, c) ==
  Tell(StopTimer(Goto(s, c, "w4_l2ca_disconnect_rsp"), c), c, "DisconnectIndAck")

PeerDiscReq(s, c) == Tell(Timer(Goto(s, c, "w4_l2ca_disconnect_rsp"), c), c, "DisconnectIndAck")

\* btm_sec_abort_access_req drops the request BTM works on, whoever made it,
\* and only while BTM authorizes or authenticates.
Abort(s) ==
  IF s.grant = "no" THEN s
  ELSE [Missed(s, s.sec) EXCEPT !.sec = {}]

Closed(s, c, ev) ==
  CASE ev.t = "lp_disc" -> Drop(s, c, "DisconnectInd")
    [] ev.t = "lp_connect_cfm" -> AccessOrig(Goto(s, c, "orig_w4_sec_comp"), c)
    [] ev.t = "lp_connect_cfm_neg" /\ ev.status # "exists" -> Drop(s, c, "ConnectCfmNeg")
    [] ev.t = "l2ca_connect_req" -> AccessOrig(s, c)
    [] ev.t = "sec_comp" -> SecCompOrig(s, c)
    [] ev.t = "sec_comp_neg" -> SecNegOrig(s, c)
    [] ev.t = "conn_req" -> AccessTerm([Goto(s, c, "term_w4_sec_comp") EXCEPT !.lcb.timer = FALSE], c)
    [] ev.t = "timeout" -> Drop(s, c, "ConnectCfmNeg")
    [] ev.t = "l2ca_disconnect_req" -> Release(s, c)
    [] OTHER -> s

OrigW4SecComp(s, c, ev) ==
  CASE ev.t = "lp_disc" -> Drop(s, c, "DisconnectInd")
    [] ev.t = "lp_connect_cfm" -> AccessOrig(s, c)
    [] ev.t = "sec_comp" -> SecCompOrig(s, c)
    [] ev.t = "sec_comp_neg" -> SecNegOrig(s, c)
    [] ev.t = "l2ca_disconnect_req" -> Release(Abort(s), c)
    [] OTHER -> s

TermW4SecComp(s, c, ev) ==
  CASE ev.t = "lp_disc" -> Release(Abort(s), c)
    [] ev.t = "sec_comp" -> SecCompTerm(s, c)
    [] ev.t = "sec_comp_neg" -> SecNegTerm(s, c)
    [] ev.t = "disc_req" -> Release(Abort(SendDiscRsp(s, c)), c)
    [] ev.t = "timeout" -> Command(s, "disconnect")
    [] OTHER -> s

W4L2capConnectRsp(s, c, ev) ==
  CASE ev.t = "lp_disc" /\ (s.ccb[c].noretry \/ ev.reason # "peer_user") ->
         Drop(s, c, "DisconnectInd")
    [] ev.t = "lp_disc" -> [s EXCEPT !.ccb[c].state = "closed", !.ccb[c].noretry = TRUE]
    [] ev.t = "conn_rsp" /\ ev.result = "ok" ->
         Tell(Timer([s EXCEPT !.ccb[c].remote = ev.dcid, !.ccb[c].state = "config"], c),
              c, "ConnectCfm")
    [] ev.t = "conn_rsp" /\ ev.result = "pending" ->
         Timer([s EXCEPT !.ccb[c].remote = ev.dcid], c)
    [] ev.t = "conn_rsp" -> Drop(s, c, "ConnectCfmNeg")
    [] ev.t = "timeout" -> Drop(s, c, "ConnectCfmNeg")
    [] ev.t = "l2ca_disconnect_req" ->
         IF s.ccb[c].remote # 0 THEN SendDiscReq(s, c) ELSE Release(s, c)
    [] ev.t = "info_rsp" -> StartConnect(s, c)
    [] OTHER -> s

W4L2caConnectRsp(s, c, ev) ==
  CASE ev.t = "lp_disc" -> Drop(s, c, "DisconnectInd")
    [] ev.t = "l2ca_connect_rsp" /\ ev.result = "ok" ->
         Timer(Goto(ConnectRspTo(s, c, "ok"), c, "config"), c)
    [] ev.t = "l2ca_connect_rsp" /\ ev.result = "pending" ->
         Timer(ConnectRspTo(s, c, "pending"), c)
    [] ev.t = "l2ca_connect_rsp" -> Release(ConnectRspTo(s, c, "neg"), c)
    [] ev.t = "timeout" -> Drop(ConnectRspTo(s, c, "neg"), c, "DisconnectInd")
    [] ev.t = "l2ca_disconnect_req" -> SendDiscReq(s, c)
    [] ev.t = "info_rsp" -> Tell(Timer(s, c), c, "ConnectInd")
    [] OTHER -> s

Config(s, c, ev) ==
  CASE ev.t = "lp_disc" -> Drop(s, c, "DisconnectInd")
    [] ev.t = "cfg_req" -> ConfigReqIn(s, c, ev)
    [] ev.t = "cfg_rsp" /\ ev.result = "ok" -> ConfigRspIn(s, c)
    [] ev.t = "cfg_rsp" -> Renegotiate(StopTimer(s, c), c, ev)
    [] ev.t = "disc_req" -> PeerDiscReq(s, c)
    [] ev.t = "l2ca_config_req" -> Timer(ConfigReqTo(s, c), c)
    [] ev.t = "l2ca_config_rsp" /\ ev.result = "ok" -> ConfigRspOut(s, c)
    [] ev.t = "l2ca_config_rsp" -> Timer(ConfigRspTo(s, c, "neg", FALSE, "basic"), c)
    [] ev.t = "l2ca_disconnect_req" -> SendDiscReq(s, c)
    [] ev.t = "timeout" -> DisconnectChnl(s, c)
    [] OTHER -> s

Open(s, c, ev) ==
  CASE ev.t = "lp_disc" -> Drop(s, c, "DisconnectInd")
    [] ev.t = "cfg_req" -> ReconfigReqIn(s, c, ev)
    [] ev.t = "disc_req" -> PeerDiscReq(s, c)
    [] ev.t = "l2ca_disconnect_req" -> SendDiscReq(s, c)
    [] OTHER -> s

\* A variant of W4L2capDisconnectRsp that passes on a request of the peer.
W4L2capDisconnectRspCrossed(s, c, ev) ==
  CASE ev.t = "disc_req" -> PeerDiscReq(s, c)
    [] ev.t \in {"disc_rsp", "lp_disc", "timeout"} -> Drop(s, c, "DisconnectCfm")
    [] OTHER -> s

W4L2capDisconnectRsp(s, c, ev) ==
  CASE ev.t = "disc_rsp" -> Drop(s, c, "DisconnectCfm")
    [] ev.t = "disc_req" -> Drop(SendDiscRsp(s, c), c, "DisconnectCfm")
    [] ev.t \in {"lp_disc", "timeout"} -> Drop(s, c, "DisconnectCfm")
    [] OTHER -> s

W4L2caDisconnectRsp(s, c, ev) ==
  CASE ev.t = "lp_disc" -> Drop(s, c, "DisconnectInd")
    [] ev.t = "timeout" -> Drop(SendDiscRsp(s, c), c, "DisconnectInd")
    [] ev.t \in {"l2ca_disconnect_req", "l2ca_disconnect_rsp"} -> Release(SendDiscRsp(s, c), c)
    [] OTHER -> s

\* l2c_csm_execute.
Execute(s, c, ev) ==
  LET state == s.ccb[c].state IN
  CASE state = "closed" -> Closed(s, c, ev)
    [] state = "orig_w4_sec_comp" -> OrigW4SecComp(s, c, ev)
    [] state = "term_w4_sec_comp" -> TermW4SecComp(s, c, ev)
    [] state = "w4_l2cap_connect_rsp" -> W4L2capConnectRsp(s, c, ev)
    [] state = "w4_l2ca_connect_rsp" -> W4L2caConnectRsp(s, c, ev)
    [] state = "config" -> Config(s, c, ev)
    [] state = "open" -> Open(s, c, ev)
    [] state = "w4_l2cap_disconnect_rsp" -> W4L2capDisconnectRsp(s, c, ev)
    [] state = "w4_l2ca_disconnect_rsp" -> W4L2caDisconnectRsp(s, c, ev)

\* Loops over the channels of the link that read the next channel first.
ExecuteAll(s, chans, ev) == FoldLeft(LAMBDA r, c : Execute(r, c, ev), s, chans)

\* Loops that read p_next_ccb after the handler: a channel it releases is at
\* the tail of the free list by then and has no next.
ExecuteWhileUsed(s, ev) ==
  LET step(r, c) == IF r.stop THEN [r EXCEPT !.s = Missed(@, {c})]
                    ELSE LET x == Execute(r.s, c, ev) IN [s |-> x, stop |-> ~x.ccb[c].used]
  IN FoldLeft(step, [s |-> s, stop |-> FALSE], s.lcb.chans).s

-----------------------------------------------------------------------------
(* The link: HCI events and its two timers.                                *)

ConnRequest(s) ==
  CASE s.lcb.state = "none" ->
         Command([AllocateLcb(s) EXCEPT !.lcb.state = "connecting", !.lcb.timer = TRUE], "accept")
    [] s.lcb.state = "connecting" -> Command(s, "accept")
    [] s.lcb.state = "disconnecting" -> Command(s, "reject")
    [] OTHER -> s

\* l2c_link_hci_disc_comp, and btm_sec_disconnected after it.
DiscComp(s, handle, reason) ==
  IF s.lcb.state = "none" \/ s.lcb.handle # handle THEN s
  ELSE LET down == [s EXCEPT !.lcb.state = "disconnecting"]
           told == SelectSeq(s.lcb.chans, LAMBDA c : c # s.lcb.pending)
           r == [ExecuteAll(down, told, [t |-> "lp_disc", reason |-> reason]) EXCEPT !.sec = {}]
       IN IF r.lcb.chans # <<>>
          THEN CreateConn([r EXCEPT !.lcb.pending = 0])
          ELSE ReleaseLcb(r)

ConnUp(s, handle) ==
  LET up == [s EXCEPT !.lcb.state = "connected", !.lcb.handle = handle]
      r == ExecuteWhileUsed([InfoReqTo(up, "ext") EXCEPT !.lcb.timer = FALSE],
                            [t |-> "lp_connect_cfm"])
  IN IF r.lcb.chans = <<>> THEN [r EXCEPT !.lcb.timer = TRUE] ELSE r

ConnFailed(s, status, handle) ==
  LET r == ExecuteAll([s EXCEPT !.lcb.state = "disconnecting", !.lcb.handle = handle],
                      s.lcb.chans, [t |-> "lp_connect_cfm_neg", status |-> status])
  IN IF r.lcb.chans = <<>> THEN ReleaseLcb(r)
     ELSE IF status = "exists" THEN [r EXCEPT !.lcb.state = "connecting"]
     ELSE CreateConn(r)

ConnComp(s, status, handle) ==
  CASE s.lcb.state = "connecting" /\ status = "ok" -> ConnUp(s, handle)
    [] s.lcb.state = "connecting" -> ConnFailed(s, status, handle)
    [] s.lcb.state # "none" /\ status # "ok" -> DiscComp(s, s.lcb.handle, status)
    [] OTHER -> s

\* A connected link without channels goes down; that BTM is too busy with
\* security to let it is left out.
LinkTimeout(s) ==
  IF s.lcb.state \in {"connecting", "disconnecting"}
  THEN ReleaseLcb(ExecuteAll([s EXCEPT !.lcb.pending = 0], s.lcb.chans,
                             [t |-> "lp_disc", reason |-> "none"]))
  ELSE IF s.lcb.chans = <<>> THEN Disconnect(s) ELSE s

InfoTimeout(s) ==
  LET waits == \E i \in DOMAIN s.lcb.chans :
                 s.ccb[s.lcb.chans[i]].state \in {"orig_w4_sec_comp", "term_w4_sec_comp"}
      r == [s EXCEPT !.lcb.w4info = FALSE]
  IN CASE ~s.lcb.w4info -> s
       [] s.lcb.w4info /\ waits -> [s EXCEPT !.lcb.infotimer = TRUE]
       [] s.lcb.w4info /\ ~waits /\ s.lcb.state = "disconnecting" -> r
       [] OTHER -> ExecuteWhileUsed(r, [t |-> "info_rsp"])

-----------------------------------------------------------------------------
(* The signalling commands (process_l2cap_cmd).  The command reject of an  *)
(* unknown CID carries CIDs of 0, which match no channel: it is left out.  *)

ConnReqIn(s, m) ==
  IF s.free = <<>>
  THEN Send(s, [t |-> "conn_rsp", id |-> m.id, dcid |-> 0, scid |-> m.scid, result |-> "neg"])
  ELSE LET c == Head(s.free)
           r == AllocateCcb(s)
       IN Execute([r EXCEPT !.ccb[c].rid = m.id, !.ccb[c].remote = m.scid,
                            !.user[c] = [NoUser EXCEPT !.st = "untold"]], c, m)

InfoRspIn(s, m) ==
  LET r == [s EXCEPT !.lcb.w4info = FALSE,
                     !.lcb.infotimer = IF s.lcb.w4info THEN FALSE ELSE @]
  IN IF m.type = "ext"
     THEN InfoReqTo([r EXCEPT !.lcb.ext = TRUE], "fixed")
     ELSE ExecuteWhileUsed(r, m)

ProcessCmd(s, m) ==
  LET known(c) == c \in Cids /\ s.ccb[c].used IN
  CASE m.t = "conn_req" -> ConnReqIn(s, m)
    [] m.t = "conn_rsp" ->
         IF known(m.scid) /\ s.ccb[m.scid].lid = m.id THEN Execute(s, m.scid, m) ELSE s
    [] m.t = "cfg_req" ->
         IF known(m.dcid) THEN Execute([s EXCEPT !.ccb[m.dcid].rid = m.id], m.dcid, m) ELSE s
    [] m.t = "cfg_rsp" ->
         IF known(m.scid) /\ s.ccb[m.scid].lid = m.id THEN Execute(s, m.scid, m) ELSE s
    [] m.t = "disc_req" ->
         IF ~known(m.dcid) THEN DiscRspTo(s, m.id, m.dcid, m.scid)
         ELSE IF s.ccb[m.dcid].remote # m.scid THEN s
         ELSE Execute([s EXCEPT !.ccb[m.dcid].rid = m.id], m.dcid, m)
    [] m.t = "disc_rsp" ->
         IF /\ known(m.scid) /\ s.ccb[m.scid].remote = m.dcid /\ s.ccb[m.scid].lid = m.id
         THEN Execute(s, m.scid, m) ELSE s
    [] m.t = "info_req" -> Send(s, [t |-> "info_rsp", id |-> m.id, type |-> m.type])
    [] m.t = "info_rsp" -> InfoRspIn(s, m)

\* What reaches the host: an HCI event, or a packet if its handle is known.
Process(s, p) ==
  CASE p.m.t = "conn_request" -> ConnRequest(s)
    [] p.m.t = "conn_comp" -> ConnComp(s, p.m.status, p.handle)
    [] p.m.t = "disc_comp" -> DiscComp(s, p.handle, p.m.reason)
    [] OTHER -> IF s.lcb.state # "none" /\ s.lcb.handle = p.handle THEN ProcessCmd(s, p.m) ELSE s

-----------------------------------------------------------------------------
(* The two controllers and the air between them (external).                *)

\* A state of the controllers: [wire, link, made, page].
ToHost(x, e, handle, m) == [x EXCEPT !.wire[e] = Append(@, [handle |-> handle, m |-> m])]

\* Host e accepts the page of its peer; a page of its own fails at that.
LinkUp(x, e) ==
  LET h == x.made + 1
      ok == [t |-> "conn_comp", status |-> "ok"]
      exists == [t |-> "conn_comp", status |-> "exists"]
      y == IF x.page[e] = "no" THEN x ELSE ToHost(x, e, 0, exists)
      z == [y EXCEPT !.link = h, !.made = h, !.page = [i \in End |-> "no"]]
  IN ToHost(ToHost(z, e, h, ok), Peer(e), h, ok)

LinkDown(x, reason) ==
  LET h == x.link
      m(e) == [t |-> "disc_comp", reason |-> reason[e]]
  IN ToHost(ToHost([x EXCEPT !.link = 0], "A", h, m("A")), "B", h, m("B"))

\* What host e hands to its controller.
FromHost(x, e, p) ==
  LET d == Peer(e) IN
  CASE p.m.t = "create" ->
         IF x.link # 0 THEN ToHost(x, e, 0, [t |-> "conn_comp", status |-> "exists"])
         ELSE [x EXCEPT !.page[e] = "paging"]
    [] p.m.t = "accept" -> IF x.page[d] = "offered" THEN LinkUp(x, e) ELSE x
    [] p.m.t = "reject" ->
         IF x.page[d] = "offered"
         THEN ToHost([x EXCEPT !.page[d] = "no"], d, 0, [t |-> "conn_comp", status |-> "fail"])
         ELSE x
    [] p.m.t = "disconnect" ->
         IF p.handle = x.link /\ x.link # 0
         THEN LinkDown(x, [i \in End |-> IF i = e THEN "local" ELSE "peer_user"])
         ELSE x
    [] OTHER -> IF p.handle = x.link THEN ToHost(x, d, p.handle, p.m) ELSE x

\* The end e, as the handlers take it; g answers its security requests.
EndOf(e, g) ==
  [lcb |-> lcb[e], ccb |-> ccb[e], free |-> free[e], sec |-> sec[e], user |-> user[e],
   odd |-> {}, grant |-> g, out |-> <<>>]

\* The step in which end e becomes s; queue is what is left of its own.
Becomes(e, s, queue) ==
  LET x == FoldLeft(LAMBDA y, p : FromHost(y, e, p),
                    [wire |-> [wire EXCEPT ![e] = queue], link |-> air.link,
                     made |-> air.made, page |-> air.page], s.out)
  IN /\ lcb' = [lcb EXCEPT ![e] = s.lcb]
     /\ ccb' = [ccb EXCEPT ![e] = s.ccb]
     /\ free' = [free EXCEPT ![e] = s.free]
     /\ sec' = [sec EXCEPT ![e] = s.sec]
     /\ user' = [user EXCEPT ![e] = s.user]
     /\ odd' = s.odd
     /\ wire' = x.wire
     /\ air' = [link |-> x.link, made |-> x.made, page |-> x.page]

Air(x) ==
  /\ wire' = x.wire
  /\ air' = [link |-> x.link, made |-> x.made, page |-> x.page]
  /\ odd' = {}
  /\ UNCHANGED <<lcb, ccb, free, sec, user>>

AirNow == [wire |-> wire, link |-> air.link, made |-> air.made, page |-> air.page]

\* A page reaches the other device, or runs into its timeout.
PageAnswered(e) ==
  /\ air.page[e] = "paging" /\ air.link = 0
  /\ Air(ToHost([AirNow EXCEPT !.page[e] = "offered"], Peer(e), 0, [t |-> "conn_request"]))
  /\ UNCHANGED load

PageFails(e) ==
  /\ air.page[e] = "paging" /\ load.pagefails > 0
  /\ load' = [load EXCEPT !.pagefails = @ - 1]
  /\ Air(ToHost([AirNow EXCEPT !.page[e] = "no"], e, 0, [t |-> "conn_comp", status |-> "fail"]))

\* The link is lost, and with it the packets of some of the ends.
LinkLost(lossy) ==
  /\ air.link # 0 /\ load.losses > 0
  /\ load' = [load EXCEPT !.losses = @ - 1]
  /\ LET kept(e) == SelectSeq(wire[e], LAMBDA p : p.m.t \in {"conn_request", "conn_comp", "disc_comp"})
         left == [e \in End |-> IF e \in lossy THEN kept(e) ELSE wire[e]]
     IN Air(LinkDown([AirNow EXCEPT !.wire = left], [e \in End |-> "timeout"]))

-----------------------------------------------------------------------------
(* The steps of an end.                                                    *)

\* How the security manager may answer in the step that handles p.
Grants(p) ==
  CASE p.m.t = "conn_req" -> load.security
    [] p.m.t = "conn_comp" -> load.security \ {"delay"}
    [] p.m.t = "disc_req" -> load.security \intersect {"ok", "no"}
    [] OTHER -> {"ok"}

Receive(e) ==
  /\ wire[e] # <<>>
  /\ \E g \in Grants(Head(wire[e])) :
       Becomes(e, Process(EndOf(e, g), Head(wire[e])), Tail(wire[e]))
  /\ UNCHANGED load

\* The security manager answers; SEC_RE_SEND_CMD has the same effects.
SecComp(e, c) ==
  /\ c \in sec[e]
  /\ \E ev \in {"sec_comp", "sec_comp_neg"} :
       LET s == [EndOf(e, "ok") EXCEPT !.sec = @ \ {c}] IN
       /\ ev = "sec_comp_neg" => "no" \in load.security
       /\ Becomes(e, IF s.ccb[c].used THEN Execute(s, c, [t |-> ev]) ELSE s, wire[e])
  /\ UNCHANGED load

\* A timer expires once nothing it could be waiting for is on its way, and
\* load.early times before that.
Quiet ==
  /\ \A e \in End : wire[e] = <<>> /\ air.page[e] = "no" /\ sec[e] = {}

Elapse ==
  \/ Quiet /\ UNCHANGED load
  \/ ~Quiet /\ load.early > 0 /\ load' = [load EXCEPT !.early = @ - 1]

ChannelTimer(e, c) ==
  /\ ccb[e][c].timer /\ Elapse
  /\ Becomes(e, Execute(StopTimer(EndOf(e, "ok"), c), c, [t |-> "timeout"]), wire[e])

LinkTimer(e) ==
  /\ lcb[e].timer /\ Elapse
  /\ Becomes(e, LinkTimeout([EndOf(e, "ok") EXCEPT !.lcb.timer = FALSE]), wire[e])

InfoTimer(e) ==
  /\ lcb[e].infotimer /\ Elapse
  /\ Becomes(e, InfoTimeout([EndOf(e, "ok") EXCEPT !.lcb.infotimer = FALSE]), wire[e])

\* L2CA_ErtmConnectReq.
ConnectReq(e) ==
  /\ load.connects[e] > 0
  /\ load' = [load EXCEPT !.connects[e] = @ - 1]
  /\ \E g \in load.security \ {"delay"} :
       LET s == EndOf(e, g)
           r == IF s.lcb.state = "none" THEN CreateConn(AllocateLcb(s)) ELSE s
           c == Head(s.free)
           a == [AllocateCcb(r) EXCEPT !.ccb[c].allowed = load.modes[e],
                                       !.ccb[c].pref = Preferred(load.modes[e]),
                                       !.user[c] = [NoUser EXCEPT !.st = "asked"]]
       IN Becomes(e, CASE s.free = <<>> -> r
                       [] a.lcb.state = "connected" -> Execute(a, c, [t |-> "l2ca_connect_req"])
                       [] a.lcb.state = "disconnecting" -> [a EXCEPT !.lcb.pending = c]
                       [] OTHER -> a, wire[e])

\* L2CA_ErtmConnectRsp, which also gives the modes of the accepting user.  It
\* fails if a disc_req has overwritten remote_id since ConnectInd; the users do
\* not look at what it returns.
ConnectRsp(e, c, result) ==
  /\ user[e][c].st = "offered"
  /\ LET s == EndOf(e, "ok")
         matches == s.ccb[c].rid = user[e][c].id
         u == CASE result = "ok" -> [NoUser EXCEPT !.st = "up"]
                [] result = "pending" -> user[e][c]
                [] result = "neg" -> IF matches THEN NoUser ELSE [NoUser EXCEPT !.st = "refused"]
         r == [s EXCEPT !.ccb[c].allowed = load.modes[e], !.ccb[c].pref = Preferred(load.modes[e]),
                        !.user[c] = u]
     IN Becomes(e, IF matches THEN Execute(r, c, [t |-> "l2ca_connect_rsp", result |-> result])
                   ELSE [s EXCEPT !.user[c] = u], wire[e])
  /\ UNCHANGED load

\* L2CA_ConfigReq, with l2c_fcr_adj_our_req_options.
ConfigReq(e, c) ==
  /\ user[e][c].st = "up" /\ ~user[e][c].asked
  /\ LET s == [EndOf(e, "ok") EXCEPT !.user[c].asked = TRUE]
         r == IF s.ccb[c].pref = "ertm" THEN ChkChanModes(s, c) ELSE s
         our == IF r.ccb[c].allowed = {"basic"} THEN "basic" ELSE r.ccb[c].pref
     IN Becomes(e, IF r.ccb[c].allowed = {} THEN DisconnectChnl(r, c)
                   ELSE Execute([r EXCEPT !.ccb[c].our = our], c, [t |-> "l2ca_config_req"]),
                wire[e])
  /\ UNCHANGED load

ConfigRsp(e, c, result) ==
  /\ user[e][c].st = "up" /\ user[e][c].owes
  /\ result = "ok" \/ load.rejects > 0
  /\ load' = [load EXCEPT !.rejects = IF result = "ok" THEN @ ELSE @ - 1]
  /\ LET s == [EndOf(e, "ok") EXCEPT !.user[c].owes = FALSE] IN
     Becomes(e, Execute(s, c, [t |-> "l2ca_config_rsp", result |-> result]), wire[e])

\* L2CA_DisconnectReq; the answer is DisconnectCfm if the channel is still there.
DisconnectReq(e, c) ==
  /\ user[e][c].st \in {"asked", "offered", "up"} /\ load.closes > 0
  /\ load' = [load EXCEPT !.closes = @ - 1]
  /\ \E g \in load.security \intersect {"ok", "no"} :
       LET s == EndOf(e, g)
           r == Execute(s, c, [t |-> "l2ca_disconnect_req"])
       IN Becomes(e, [r EXCEPT !.user[c] = IF r.ccb[c].used THEN [NoUser EXCEPT !.st = "closing"]
                                           ELSE NoUser], wire[e])

DisconnectRsp(e, c) ==
  /\ user[e][c].st = "acking"
  /\ LET s == [EndOf(e, "ok") EXCEPT !.user[c] = NoUser] IN
     Becomes(e, Execute(s, c, [t |-> "l2ca_disconnect_rsp"]), wire[e])
  /\ UNCHANGED load

-----------------------------------------------------------------------------
\* The control blocks that channels of other links leave to this one.
Pool(e) == {c \in Cids : c <= load.room[e]}

Init ==
  /\ load \in Workloads
  /\ lcb = [e \in End |-> NoLcb]
  /\ ccb = [e \in End |-> [c \in Cids |-> NoCcb]]
  /\ free = [e \in End |-> SetToSortSeq(Pool(e), <)]
  /\ sec = [e \in End |-> {}]
  /\ user = [e \in End |-> [c \in Cids |-> NoUser]]
  /\ odd = {}
  /\ wire = [e \in End |-> <<>>]
  /\ air = [link |-> 0, made |-> 0, page |-> [e \in End |-> "no"]]

\* What the stacks, the controllers and time do by themselves ...
System ==
  \E e \in End :
    \/ Receive(e) \/ PageAnswered(e) \/ LinkTimer(e) \/ InfoTimer(e)
    \/ \E c \in Cids : SecComp(e, c) \/ ChannelTimer(e, c)

\* ... and what users and the radio may do.
Next ==
  \/ System
  \/ \E e \in End :
       \/ ConnectReq(e) \/ PageFails(e)
       \/ \E c \in Cids :
            \/ \E result \in {"ok", "pending", "neg"} : ConnectRsp(e, c, result)
            \/ ConfigReq(e, c)
            \/ \E result \in {"ok", "neg"} : ConfigRsp(e, c, result)
            \/ DisconnectReq(e, c) \/ DisconnectRsp(e, c)
  \/ \E lossy \in SUBSET End : LinkLost(lossy)

Spec == Init /\ [][Next]_vars

-----------------------------------------------------------------------------
\* The control blocks of an end are partitioned: the free list and the link's
\* list hold each of them once, in one of the two.  A control block that is
\* free has no timer running and only a link in use has channels or timers.
\* l2cu_release_ccb and l2cu_enqueue_ccb keep it so although handlers release
\* a channel and go on, and although a release can take the link down with it.
ChannelTypeOK ==
  \A e \in End :
       /\ lcb[e].state \in {"none", "connecting", "connected", "disconnecting"}
       /\ LET all == lcb[e].chans \o free[e]
          IN Len(all) = Cardinality(Pool(e)) /\ ToSet(all) = Pool(e)
       /\ lcb[e].state = "none" => lcb[e] = NoLcb
       /\ lcb[e].pending # 0 => lcb[e].pending \in ToSet(lcb[e].chans)
       /\ \A c \in Cids :
            /\ ccb[e][c].used <=> c \in ToSet(lcb[e].chans)
            /\ ccb[e][c].timer => ccb[e][c].used

\* The layer above is told what it expects, in the order it expects it, and is
\* never left with a CID that is free: it knows of every channel in use, waits
\* for DisconnectCfm or owes an L2CA_DisconnectRsp exactly while the channel
\* does, and an open channel is one it has accepted.  The exceptions:
\* a second ConnectInd when INFO_RSP comes after w4_info_rsp was cleared, a
\* DisconnectInd for a channel that waited for INFO_RSP and was never
\* indicated, ConfigCfm after the DisconnectInd of a failed renegotiation, and
\* the DisconnectInd of a channel that the user refused when the peer had asked
\* to disconnect it, so that L2CA_ErtmConnectRsp kept it.
CallbackProtocol ==
  /\ odd \subseteq {<<"ConnectInd", "offered">>, <<"DisconnectInd", "untold">>,
                    <<"ConfigCfmNeg", "none">>, <<"DisconnectInd", "refused">>}
  /\ \A e \in End, c \in Cids :
       LET st == user[e][c].st IN
       /\ st # "none" <=> ccb[e][c].used
       /\ st = "acking" <=> ccb[e][c].state = "w4_l2ca_disconnect_rsp"
       /\ st = "closing" <=> ccb[e][c].state = "w4_l2cap_disconnect_rsp"
       /\ ccb[e][c].state = "open" => st = "up"

\* The channel at the other end names this one.
Paired(e, c) ==
  LET d == ccb[e][c].remote IN
  ccb[Peer(e)][d].used /\ ccb[Peer(e)][d].remote = c

\* Nobody waits for nothing: when no packet, event, page or security request
\* is on its way, a channel is free, is open to a channel that is open or
\* opening to it, or has a timer to end its wait - its own, the link's, or the
\* information timer of a link it waits for - or it is the user's turn after
\* ConfigCfm with an error, which stops the timer.  Channels that an event was
\* meant for and missed are excepted: they are the ones that hang.
NoChannelStranded ==
  Quiet =>
    \A e \in End, c \in Cids :
      LET k == ccb[e][c] IN
      \/ ~k.used \/ k.timer \/ k.missed
      \/ k.state = "open" /\ Paired(e, c)
      \/ lcb[e].state # "connected" /\ lcb[e].timer
      \/ /\ k.state \in {"w4_l2cap_connect_rsp", "w4_l2ca_connect_rsp"}
         /\ lcb[e].w4info /\ lcb[e].infotimer
      \/ k.state = "config" /\ user[e][c].st = "up" /\ ~user[e][c].asked

\* Two channels that are open to each other use the same mode, whatever was
\* proposed, refused and proposed again, and no two open channels of an end
\* lead to the same channel, though CIDs are reused and requests repeated.
OpenEndsAgree ==
  /\ \A c, d \in Cids :
       LET j == ccb["A"][c]
           k == ccb["B"][d]
       IN j.state = "open" /\ k.state = "open" /\ j.remote = d /\ k.remote = c
            => j.our = k.our
  /\ \A e \in End : \A c, d \in Cids :
       c # d /\ ccb[e][c].state = "open" /\ ccb[e][d].state = "open" =>
         ccb[e][c].remote # ccb[e][d].remote
=============================================================================
