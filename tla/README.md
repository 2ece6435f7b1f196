# A TLA+ model of bluedroid for Linux

Bluedroid is a Bluetooth host stack: a HAL interface for one client process, a
task that serves it (BTIF), a task that runs the profiles (BTA) and the protocol
stack (BTU), a small operating system layer that gives them tasks, mailboxes,
buffers and timers (GKI), and a library that moves HCI packets over a UART.
This directory models the parts where threads meet and the L2CAP and RFCOMM
protocols above them, checks them with TLC on small instances, and proves the
timers, the command flow and the HCI library's safety with TLAPS.

    client process          BTIF task            BTU task                HCI worker, UART reader
    --------------          ---------            --------                -----------------------
    bluetooth.c      --->   btif_core    --->    BTA (bta_sys, dm)
                                                 stack (rfcomm, l2cap, btm...)
                                                 btu_task, btu_hcif --->  tx_q -> H4 -> controller
                                                                    <---  rx -> internal commands
         all of them over GKI: GKI_wait, mailboxes, task timers driven by the timer thread

`PROJECT.json` lists the components, the runs with their properties, the source
lines of every definition, the mutations each property is tested with, the
hazards of the code and the theorems.

## Inventory

| Part | Source | Modelled in |
|---|---|---|
| HCI library: queue, worker, H4, internal commands | `hci/src/bt_hci_bdroid.c`, `hci_h4.c`, `utils.c` | `HciTransport` |
| low-power mode | `hci/src/lpm.c` | `Lpm` (used by `HciTransport`) |
| UART, vendor glue and libraries | `hci/src/userial.c`, `bt_hw.c`, `devices/` | in part, as the procedures and the event queue of `HciTransport` |
| GKI task timers and system tick | `gki/common/gki_time.c`, `gki/ulinux/gki_ulinux.c` | `GkiTimers`, `GkiTick` |
| GKI timer lists | `gki/common/gki_time.c` | `TimerList` |
| GKI tasks, events, mailboxes | `gki/ulinux/gki_ulinux.c`, `gki/common/gki_buffer.c` | in part, in `Lifecycle` |
| BTU task: timers | `stack/btu/btu_task.c`, `bta/sys/ptim.c` | `BtuTimers` |
| start and stop of the stack | `main/bte_main.c`, `btif/src/btif_core.c`, `bluetooth.c` | `Lifecycle` |
| BTA hardware state machine, enabling of the device manager | `bta/sys/bta_sys_main.c`, `bta/dm/bta_dm_act.c` | `Lifecycle` |
| BTU command flow, device start-up | `stack/btu/btu_hcif.c`, `stack/btm/btm_devctl.c` | `BtuCommands` |
| L2CAP channels and the life of a link | `stack/l2cap/l2c_csm.c`, `l2c_link.c`, `l2c_main.c`, `l2c_utils.c`, `l2c_api.c` | `L2capChannel` |
| L2CAP: the links share the controller's buffers | `stack/l2cap/l2c_link.c`, `l2c_utils.c` | `LinkSched` |
| L2CAP: enhanced retransmission, negotiation of the mode | `stack/l2cap/l2c_fcr.c` | `Ertm`, `L2capChannel` |
| RFCOMM: multiplexer, ports, credits | `stack/rfcomm/`, the received data of `btif/src/btif_sock_rfc.c` | `Rfcomm` |
| the rest of BTM, GATT, SMP, AVDTP, SDP, BNEP, MCAP | `stack/` | not yet (see the plan) |
| BTA and BTIF profiles, media task, audio HAL | `bta/`, `btif/`, `audio_a2dp_hw/`, `udrv/` | not yet |
| HCI command builders, SBC codec, configuration, logging, test client | `stack/hcic`, `embdrv`, `main`, `test` | no: formatting, numeric code, I/O |

## The modules

**`Lpm`, `HciTransport`, `MCHci`.** `Lpm` has the functions of `lpm.c` as operators
on the control block. `HciTransport` has the threads: the stack that calls
`transmit_buf`, `preload`, `postload`, `lpm` and `cleanup`; the controller with the
UART reader; the idle timer and its callback; and the worker. The worker's loop is
kept in the order of the code: it takes a snapshot of `ready_events` (`WakeUp`) and
then runs one handler after the other (`pc`), each of the received events, each
collection under the queue's lock and each packet sent being a step. The ring of
internal commands keeps its indices, and the callback of an internal command runs
before its entry is released, as in `internal_event_intercept`. `build`, chosen at
the start, says whether low-power mode is compiled in and which packets the stack
has. The firmware, SCO, buffer-size and sleep-mode procedures are sequences of
internal commands; answers to the firmware and sleep-mode commands may report
failure. The controller is external: it answers its commands in order, grants
credits for the room it has, and follows an event with no credits by a NOP.
`Subsequence` has the one helper of the worker's collection loop, `Filter`, as a
recursive function over the positions.

**`GkiTimers`, `TaskTimers`, `GkiTick`.** `GkiTimers` has `GKI_start_timer`,
`GKI_stop_timer` and `GKI_timer_update` on `OSTaskTmr*`, the countdown
`OSTicksTilExp`, `OSNumOrigTicks`, the inactivity delay and the tick.
`TaskTimers` says what they promise: a timer fires on its tick. `FiresOnTime` is
the refinement, with a timer's remaining time as its ticks minus those not yet
taken off. `GkiTick` splits the step that stops the tick at its unlocked reads
and writes.

**`TimerList`, `Deadlines`, `BtuTimers`, `MCBtuTimers`.** `TimerList` has the
difference lists of `gki_time.c` as operators. `BtuTimers` puts the list of the
stack and the list of BTA, with the BTU task's loop, over `GkiTimers`. Every
handler or callback may start and stop timers. `Deadlines` says what a list
promises, and `KeepsDeadlines` is the refinement, once for each list. The ages of
watched entries are history variables used only by `NotTooEarly` and
`TimersExpire`.

**`Lifecycle`, `Adapter`.** `Lifecycle` composes the HAL caller, the BTIF and BTU
tasks with their GKI events and mailboxes, the HCI library (off, loading, on), and
on the BTU task `bta_sys` with its state table and the enabling and disabling half
of `bta_dm`. A link, hardware errors, the disable timers and one property request of
the client provide the interference. BTM counts a link when it comes or goes
(`bta.link`); the device manager learns of it from the message
`BTA_DM_ACL_CHANGE_EVT` in the BTU task's mailbox, keeps its own list (`bta.listed`)
and counts BTM's links when it handles the message. `Adapter` is what the client
sees, and `AdapterReports` the refinement.

**`BtuCommands`.** The commands of the stack on the BTU task, with `hci_cmd_cb` as
the record `cb`: `cmd_xmit_q` (`xmit`), `cmd_cmpl_q` (`cmpl`), `cmd_window` and
the seconds left of `cmd_cmpl_timer`; `lower` is what was handed down and is not
answered, oldest first. `SendCmd` is `btu_hcif_send_cmd` with
`btu_hcif_store_cmd`; Command Complete, Command Status, the timeout and the
flush are actions over it. On top runs the start-up of `btm_devctl.c`: reset,
buffer size, version, features, each under the guard timer `devcb.reset_timer`.
The setup commands whose answers change nothing here are one opcode, `AUX`; the
other commands of the stack are those of `CompleteOps` and `StatusOps`. The
controller is external: it answers in order, grants a window, may lose a command
or answer after the timeout or after a reset was sent. `st`, `refused` and
`mixed` are history variables. The time between a command's handing down and the
controller is that of `HciTransport`, whose credits are not composed with this
window.

**`L2capChannel`, `MCL2capChannel`.** Connection-oriented channels between two
devices that run this code: the link from the page to the release, the nine
states of a channel, the signalling commands, the negotiation of basic mode or
ERTM, the timers of link, information request and channel, a reconnection on the
same block, and the calls of the layer above. All of L2CAP runs on the BTU task,
so an event is one step; inside it the handlers pass the end's record `s` along,
one operator per function of the code, and the order of their effects is kept.
The security manager and the controllers are external. A timer may fire once
nothing is on its way, and `load.early` times before that. `user`, `odd` and
`missed` are history variables: what the layer above knows, the callbacks it did
not expect, and the channels an event was meant for and did not reach.

**`Ertm`, `MCErtm`.** The two ends of an open channel in enhanced retransmission
mode over a link that keeps the order of frames and corrupts any of them. The
control block keeps the counters, flags and queues of `tL2C_FCRB` under their
names; sequence numbers are modulo `Modulo`. The handlers are those of
`l2c_fcr.c`: `l2c_fcr_proc_pdu` with its S- and I-frame branches, the REJ and
SREJ recovery, the monitor and acknowledgement timers, segmentation and
reassembly, and closing when the tries run out.

**`LinkSched`, `MCLinkSched`.** The links of one device over the controller's ACL
buffers: `l2c_link_adjust_allocation` with its quotas and its round robin,
`l2c_link_check_send_pkts`, `l2c_link_send_to_lower` with its segments, the
completed-packets event, the segments the HCI library hands back, the flow control
timer, and links that connect, fail, disconnect, time out or connect again. The
channels of a link share one queue, and a packet is its number of segments.
`passed` and `lost` are history variables: the code has declined to look at the
link again, and the buffers that are missing from the window. The controller is
external: it drops the packets of a connection that ends without reporting them.

**`Rfcomm`, `MCRfcomm`.** RFCOMM between two devices that run this code, over
L2CAP channels that keep the order of frames. The multiplexer of the other device
is the record `mcb` (`tRFC_MCB`), a port the record `port[i]` (`tPORT`); there is
one operator per event of the two state machines, which selects by state as the
functions of `rfc_mx_fsm.c` and `rfc_port_fsm.c` do, and one per function of the
port emulation entity around them. An event of the BTU task is one step. The socket
of a port is flushed by the socket thread, with `slot_lock` held but not serialized
with the stack: `PORT_FlowControl` reads `credit_rx` in `AppReady` and
`port_flow_control_peer` writes it in `AppReadyEnds`; in between the BTU task does
whatever does not need the lock, or is already past it. L2CAP is reduced to what
its interface does (`l2c_api.c`: connection, configuration, disconnection, data and
congestion of a channel); `L2capChannel` has the rest and the two are not composed.
BTM works on one access request at a time; others wait in `sec_pending_q` and are
submitted again when it is done. An abort drops the request BTM works on; where BTM
is then, authenticating or authorizing, is a setting of the workload. The users open
servers and clients of one server channel, write, read, stop the flow, purge and
close, each at any time the users of this tree would. A timer runs out once nothing
is under way, or `load.early` times before that. `up`, `neg`, `lost`, `raced`,
`stopped`, `cut` and `load.late` are history variables: what the user was told last,
that the parameters of the port were negotiated, the credits of data the socket
refused, that the socket thread has overwritten a credit count, that an answer
has stopped the timer of a port the peer closed, that the port's access request was
dropped or left waiting, and that a timer was early.

Operators whose comment begins "Variant:" are plausible wrong versions of the
definition that follows them. No specification uses them; they serve to show
that the properties would notice.

## The runs

| Run | Module, configuration | Result | States |
|---|---|---|---|
| `hci` | `MCHci`, `MCHci.cfg` | holds | 458,476 |
| `hci_credits` | `MCHci`, `MCHciCredits.cfg` | violated | |
| `btu_timers` | `MCBtuTimers`, `MCBtuTimers.cfg` | holds | 102,996 |
| `gki_tick` | `GkiTick`, `MCGkiTick.cfg` | violated | |
| `btu_commands` | `BtuCommands`, `MCCommands.cfg` | holds | 239,520 |
| `btu_status` | `BtuCommands`, `MCCommandsStatus.cfg` | violated | |
| `lifecycle` | `Lifecycle`, `MCLifecycle.cfg` | holds | 118,008 |
| `lifecycle_trigger` | `Lifecycle`, `MCLifecycleTrigger.cfg` | violated | |
| `l2cap` | `MCL2capChannel`, `MCL2capChannel.cfg` | holds | 1,174,907 |
| `ertm` | `MCErtm`, `MCErtm.cfg` | holds | 139,848 |
| `link_sched` | `MCLinkSched`, `MCLinkSched.cfg` | holds | 190,824 |
| `rfcomm` | `MCRfcomm`, `MCRfcomm.cfg` | holds | 903,885 |

* `hci`: the ring of internal commands lists exactly the unanswered ones in the
  order of their answers (`RingMatches`), what stays queued when the worker sleeps
  is commands without credits that the next credits resume (`NothingForgotten`),
  the wake line is where `lpm.c` believes it is (`PinMatchesState`), a wait for
  the idle timeout is never lost (`SleepNotForgotten`), every command is answered
  (`CommandsAnswered`), the procedures report (`ProceduresReport`) and shutdown
  ends (`CleanupReturns`). The last three are stated as "from some point on", which
  says the same of things that happen once. Deadlock is not checked: after
  shutdown the library stops.
* `btu_timers`: the tick runs while a timer does (`TickRuns`), timers fire on
  their tick (`FiresOnTime`), the lists are well formed and `last_ticks` is their sum
  (`ListsExact`), each entry keeps its own deadline (`KeepsDeadlines`),
  expires no earlier than the coalescing of events explains (`NotTooEarly`), and
  does expire (`TimersExpire`).
* `btu_commands`: a copy that waits for an answer is under the timer
  (`StoredAreTimed`); commands wait only for the window, except after a timeout
  that finds no copy, which opens the window and returns, and then the guard timer
  runs (`NothingHeldBack`); an unanswered request of the stack is in a queue until
  a Command Status has met another command's copy (`RequestsTracked`); no answer
  is made up for a setup command during start-up (`SetupNotFaked`); start-up goes
  on or is tried again (`SetupProgresses`); a request is answered, made up or
  thrown away (`RequestsReported`). The last two name what the code does not
  cover: a failed READ_LOCAL_FEATURES stops the guard timer and nothing is tried
  again, and each command that is sent restarts the timer all copies share, so that
  a request is reported only when the others pause. Nothing is said of the guard
  timer of a device that is ready: on a slow controller the answers of two start-up
  sequences interleave, the first to end makes the device ready and the other starts
  the timer again, which `btm_devctl.c:866` stops "to avoid accidental timeout".
  Deadlock is not checked: after
  two timeouts in a row the process kills itself.
* `lifecycle`: off means joined and closed, on means everything runs
  (`StateIsTrue`); the disable timer is never wiped while it is in the list
  (`TimerNotWiped`); requests and reports alternate (`AdapterReports`); turning on
  and off (`RequestsAnswered`) and cleaning up (`CleanupEnds`) end. The last two say
  under which conditions. The conditions are the races of the code, and without them
  TLC finds a behaviour that hangs: the trigger that is mixed with another event,
  the HCI library that is ready before `GKI_create_task`, the first `GKI_wait` of
  `btu_task` that drops the shutdown event, `btif_shutdown_pending` that is set too
  late, and a link that is left up while the adapter turns off (`LeftUp`, see
  below). Deadlock is not checked: after cleanup, or once the process is killed, the
  system stops.
* `l2cap`: the control blocks are partitioned between the free list and the link
  (`ChannelTypeOK`), the layer above is told what it expects in the order it
  expects it (`CallbackProtocol`), no channel waits for nothing
  (`NoChannelStranded`), and channels that are open to each other agree on the
  mode and on their CIDs (`OpenEndsAgree`). `NoChannelStranded` stands for
  liveness: whoever waits has a packet, an event or a timer to wait for. Deadlock
  is not checked: the workload ends. The same holds of the next three.
* `ertm`: queues and counters stay within the window (`ErtmTypeOK`), SDUs are
  delivered whole, in order and once (`DeliveredInOrder`), the channel closes only
  when the tries are used up (`ClosesOnlyOnTries`), and everything written is
  delivered and acknowledged or the channel closes (`TransferResolves`), except
  for two stalls listed below.
* `link_sched`: every buffer of the controller is accounted for, and the counts the
  code compares with its quotas cover what the links have in the controller
  (`WindowAccounted`); what is written to a link is sent
  (`DataIsSent`), except in the five ways named by `Stranded`. With any one of
  the exceptions removed TLC finds a behaviour that needs it.
* `rfcomm`: credits are neither made nor lost between the two ends of a connection,
  whatever is read, held, purged and closed, unless the socket thread meets the BTU
  task on the same port (`CreditsConserved`), and data does not
  stay queued when the receiver waits for it (`NoStall`); the ports and the table of
  their multiplexer are two records of one fact, also when both devices connect at
  once and the DLCIs change (`PortsIndexed`); a connection the user was told is up
  is up, or on its way down, unless the timer that ends it was stopped (`UpIsTrue`);
  and when all is settled the ends agree on
  which ports are open and nothing is kept without one (`EndsAgree`), but for the
  five kinds of ports it names. `NoStall` and `EndsAgree` stand for liveness: they
  speak of states in which nothing is under way and no timer runs. A timer that
  runs out early closes ports without telling the peer; what follows is left out of
  the properties that relate the two ends, or a port and its user (`load.late`).

What these runs except is what the code does; it is worth knowing:

* `bta_dm_acl_change` asks BTM for the number of links when the message about one
  that went down is handled (`bta_dm_act.c:3348`). When a peer has connected again by
  then, `bta_dm_disable` starts no timer, and the disable waits for as long as that
  link is up. A link whose message is still queued when the disable timer fires is not
  on `device_list` either, and is not closed (`bta_dm_act.c:506`).

* Loops over the channels of a link that read `p_next_ccb` after the handler
  (`l2c_link.c:217`) stop early when the handler releases the channel: the
  channels behind it miss the event and hang.
* `l2c_fcr_process_peer_cfg_req` clears `w4_info_rsp` (`l2c_fcr.c:2158`); the
  answer, when it comes, makes a second connect indication or connection request.
  A channel that waited for it may be reported disconnected without having been
  indicated, and a failed renegotiation confirms after it has disconnected.
* A channel the user refuses when the peer has already asked to disconnect it stays:
  the identifier has changed, `L2CA_ErtmConnectRsp` returns at `l2c_api.c:376`, and
  the user gets a disconnect indication for a channel it has refused.
* Aborting security for one channel drops the request of another one.
* ERTM: with a REJ or SREJ lost in both directions neither end polls, since
  `l2c_fcr_proc_tout` (`l2c_fcr.c:881`) neither sends nor restarts its timer; and
  `L2CA_FlowControl` during `wait_ack` sends nothing, so that the peer is not told
  that the end is ready again.
* `l2cu_release_lcb` does not give the window back what the ended connection had in
  the controller, unless it was the last; then the window is set to all buffers,
  also those a connection still holds whose block the timeout released.
* The two places that restart a link after the quotas were readjusted
  (`l2c_link.c:771`, `l2c_link.c:1237`) look at the link's own queue only: a link
  with data in its channels and room in its quota is passed over. Entering the round
  robin with data does not set `check_round_robin`, and `l2c_link_hci_conn_comp`
  stops the timer that its own request may have started (`l2c_link.c:215`).
* Links that leave the round robin stay in `round_robin_unacked`, and a block that
  connects again keeps `sent_not_acked` and `partial_segment_being_sent`.
* RFCOMM: a client opened while the peer sets the multiplexer up is never started.
  `port_open_continue` says "When it enters RFC_MX_STATE_CONNECTED, it will check
  any openning ports" (`port_rfc.c:89`); `PORT_StartInd` (`port_rfc.c:261`) does
  not.
* RFCOMM: a server whose client goes away between PN and SABME keeps `p_mcb`, also
  of a released multiplexer, and is not found again; one removed while access is
  checked (`rfc_port_fsm.c:270`) is opened all the same, without a user.
* RFCOMM: data a socket refuses is queued, and when it is flushed no credit is
  given for it (`btif_sock_rfc.c:870`): each refusal costs the peer one credit.
* RFCOMM: that flush is made on the socket thread, with the comment "need a jv flow
  control api to serialize the call" (`btif_sock_rfc.c:871`). A frame the BTU task
  takes in between the read and the write of `credit_rx` (`port_utils.c:494-513`) is
  forgotten, and from then on the two ends differ by a credit.
* RFCOMM: the answer to an MSC command stops the timer that a DISC with unread data
  has started (`rfc_port_fsm.c:751`). It takes congestion, which delays the answer,
  and a quick close. The user keeps the connection for as long as the multiplexer is
  up, which another port may be the reason for.
* RFCOMM: `btm_sec_abort_access_req` (`btm_sec.c:2694`) drops the request BTM works
  on when any port of the device is closed. If BTM was authorizing, the requests
  that wait behind it stay too, since `BTM_DeviceAuthorized` returns
  (`btm_sec.c:971`); the end of an authentication submits them again.

The violated runs are findings:

* `hci_credits`: the worker tests the credits while it collects packets and
  spends them while it sends; with a command of the stack and one of the library
  in the same pass the count goes below zero, against the comment at
  `bt_hci_bdroid.c:428`.
* `gki_tick`: the unlocked stop of the system tick races with a timer's start,
  and the timer is left without a tick, against the comment at
  `gki_ulinux.c:568`.
* `btu_status`: `btu_hcif_command_status_evt` frees the oldest copy even when it is
  that of another command (`btu_hcif.c:1406`), while
  `btu_hcif_command_complete_evt` says why it must not do so (`btu_hcif.c:1148`).
* `lifecycle_trigger`: `event == BT_EVT_TRIGGER_STACK_INIT` at `btif_core.c:292`
  loses the trigger when a property request is in the mailbox, and the adapter
  stays in ENABLING, against the comment at `btu_task.c:193`. The run has the
  fairness of the other.

### Bounds

* `hci`: one command and one ACL packet of the stack, one firmware and one SCO
  command, a controller with one slot (the usual number), a ring of two. The
  interesting cases all occur: commands held back, two commands in one pass, NOPs,
  the ring wrapping around, failure of the firmware, shutdown in the middle of each.
  Two is the most the procedures use at once, a callback issuing the next command
  before its own is released.
  The build with low-power mode has one segment that goes back to L2CAP; the mode is
  switched on and off once, the requests to sleep and the timer are not bounded.
* `btu_timers`: two stack entries with timeouts of 0, 1 and 3 seconds of two ticks
  and one BTA entry of two ticks with a period of one; the inactivity delay is two
  ticks. Ages are told apart up to two ticks (`MaxAge`), enough for the bounds
  of `NotTooEarly`. A timer callback starts a timer for 0 at most once in a pass
  (`zero`), since the callbacks that do so work off a queue.
* `btu_commands`: one command of either kind besides the setup commands, a window
  of one, timeouts of 3, 2 and 1 seconds in the place of 8, 4 and 2 (they satisfy
  `GuardAssumption` with equality), two timeouts to the end of the process as in
  the code. `MaxHeld` bounds the commands under way: the stack issues none at
  `MaxHeld - 1`, time and resets wait at `MaxHeld`; it is three, enough for two
  interleaved start-up sequences. The proofs have none of these bounds on the
  commands, the window and the timeouts.
* `lifecycle`: no constants. One link, one property request in the mailbox at a
  time, one hardware error in flight, at most two messages about links in the mailbox
  (`MaxChanges`), enough for a link that goes down and up before the device manager
  looks; the adapter is turned on and off without a bound.

* `l2cap`: two control blocks at each end and twelve workloads, each with what one
  part of the code has to cope with: a lost link, a timer that is early, modes
  that agree, differ or are refused, each answer of security, a pool that runs
  out, and links that both ends open at once.
* `ertm`: four sequence numbers, a window of two, two tries, two held
  acknowledgements. The numbers wrap around in the third workload. `TxWin` is at
  most half of `Modulo`: every window of this tree is (1, 10, 20, or the quotient of
  the sizes plus one, of 64); TLC finds an SDU delivered twice with a window of
  `Modulo - 1`.
* `link_sched`: three links over two buffers (round robin) of which one or two are
  up (quotas), at most one of high priority, packets of one or two segments.
* `rfcomm`: two ports at each device, one server channel, three channel identifiers,
  a window of four credits given back when one is left, three at the start, transmit
  queues of three; up to five writes, so that a sender runs out of credits and is
  woken. Twenty-two workloads, each with what one part of the code has to cope with:
  holds, purges, congestion, refusals of a socket, connections closed by either end,
  refused or lost and opened again, closed under congestion, and both devices
  connecting at once, with access checked in both directions. The queue of received
  data never exceeds its limit, since there are no more credits than that.

### Fairness

Weak fairness on the worker, the tasks, the timer thread and the timer callbacks:
each is a thread that is runnable when its step is enabled, scheduled by Linux.
The controller answers the commands it holds and sends its NOP, and closes a link
that was told to close, and in `BtuCommands` it answers or loses each command and
opens its window again: the HCI specification requires it, and without it the
stack waits for ever by design. A call of the HAL that has begun goes on. No
fairness is assumed of the client, of peers, of packets to send or of requests to
sleep. The disable timer of `Lifecycle` has strong fairness: each link that goes down
restarts it, and a peer that connects and goes within its second, for ever, would
starve it. In `Ertm` frames arrive or are lost, timers that run fire, the controller
frees its buffers, and a user that stopped the flow takes data again; nothing
says that a frame ever arrives intact. In `LinkSched` the controller sends or
drops what it holds, the HCI library hands segments back and timers fire. There
fairness is written out (infinitely often idle or infinitely often served), which
is weak fairness with the guards that enable the actions in the place of ENABLED.
`L2capChannel` and `Rfcomm` assume no fairness and state no liveness.

## What is proved

`GkiTimersProofs`, for every set of timers and durations, from
`TimersAssumption` (durations are between 1 and `MaxTicks`, `StopDelay` is at
least 2 and `MaxInt` exceeds twice `MaxTicks` by more than 2):

* `TimersInvariant`: `TimersSpec => []TimersInv`. `TickRuns` and
  `NoTimerOverdue` are not inductive by themselves. `TimersInv` adds that
  `system_tick_running` implies the tick, that the inactivity delay runs only
  with it, that a delay about to end leaves nothing to be updated, and that the
  countdown is -1 only when the tick is stopped with no countdown set. The last
  two are what excludes a stale countdown after the tick was stopped and started.
* `TickRunsAlways`, `NeverOverdue`: consequences.
* `TimersFireOnTime`: `TimersSpec => FiresOnTime`, step by step: a tick that
  only counts down, a tick that updates, a start and a stop each map to the
  abstract step.

`BtuTimersProofs`, for every choice of entries, timeouts and periods that
`BtuAssumption` allows, over lists of any length:

* `BtuUsesTimers` (every step of `BtuTimers` is a step of `GkiTimers` or leaves it
  alone), and so `BtuTickRuns` and `BtuTimersFireOnTime`.
* `BtuInvariant`: `BtuSpec => []BtuInv`. `ListInv` says that the lists are timer
  lists (`IsTimerList`), `DrivenInv` that the GKI timer of a list with entries runs
  and is continuous, `AgeInv` how the age of an entry is related to the units taken
  off it. For the list of the stack an entry with `gone` units taken off, `w` events
  on their way and `l` ticks left of the GKI timer is older than
  `(gone + w - 2) * Period - l`: the two are the events that may have been waiting
  when it was started. For the list of BTA the age and the ticks counted before the
  start cover what was taken off and what has been counted since.
* `ListsStayExact` (`ListsExact`), `ExpiresNotTooEarly` (the action property
  `NotTooEarly`) and `ListsKeepDeadlines` (the refinement `KeepsDeadlines`, each step
  mapped to a step of `Deadlines` or a stutter) follow from it. An update of the BTA
  list by no ticks is a stutter, and a callback of one list is the end of a callback
  for the other.

They rest on the second part of `GkiTimersProofs`: what each operation of
`gki_time.c` makes of a list of any length, stated with the running sums of the
differences. `Total` is the only solution of its recursion (`TotalIsSum`), so that a
list is known by its entries and sums: a new entry, one taken out and an update by
`k` units each give sums that are easily compared (`InsertedList`, `RemovedList`,
`UpdatedList`), whatever the code does to the differences to get there.

`HciTransportProofs`, for every batch size, ring of at least two slots, number of
firmware commands and of slots of the controller and every set of builds, from
`TransportAssumption`:

* `TransportInvariant`: `Spec => []TransportInv`. `RingMatches` needs `RingInv`: the
  ring is large enough because at most one command of the preload and postload
  procedures is asked for or in flight (`LoadTokens`), and a sleep mode command
  exactly while a request for the mode is in progress. Without that bound the ring
  could overflow, since `hci_h4_send_int_cmd` refuses only when it holds more than
  its size (`hci_h4.c:992`). `PinMatchesState` needs `SleepInv`: a sleep mode command
  that was sent has woken the device, which stays awake until the answer. `PassInv`
  says where the worker is among the bits of its snapshot.
* `RingListsInFlight` (`RingMatches`), `PinAgrees` (`PinMatchesState`) and
  `SleepIsRemembered` (`SleepNotForgotten`): its consequences.
* `QueueIsServed`: `Spec /\ []QueueFits => []NothingForgotten`, with `ResumeInv`.
  `QueueFits` (no more packets are queued than one pass collects, `MaxBatch`, 64 in
  the code) cannot be left out: a pass whose batch is full leaves the rest of the
  queue and does not signal itself, so that it waits for the next packet
  (`bt_hci_bdroid.c:423`).

`HciTransportFacts` has the lemmas about the queues and about `Filter`, the elements
of a sequence that lie in a set: the internal commands in flight, as one sequence
through the receive queue, the controller, the batch and the transmit queue, stay
the same when a packet or an event moves, gain one at the end when a command is
issued and lose the first when its answer is read.

`SequenceFacts` has the inductions these and `LinkSchedProofs` rest on. They are
stated for a set of numbers or of sequences that is closed under the step
(`NatInduct`, `SeqInduct`), with which a property of all of them is proved by
forming the set of those that have it, and for functions defined by recursion
(`RecursiveFcn`).

`BtuCommandsProofs`, for every set of commands, every window and all timeouts, from
`CommandsAssumption` and `GuardAssumption` (the command timeout is at least the
longest guard and a reply timeout together; 8 against 4 + 2 in the code):

* `CmdInvariant`: `CmdSpec => []CmdInv`. None of the invariants of the run is
  inductive alone. `StaleTimerGuarded` is added for `NothingHeldBack`: the flush
  leaves the timer running with no copy, and only under the guard timer.
  `GuardFirst` is added for `SetupNotFaked`: while a reset is awaited the command
  timer of a setup command is ahead of the guard by a whole reply timeout, since the
  end of the reset starts the guard again and leaves the command timer alone. The
  argument is the same for every handler: `Flows` says what any number of calls of
  `btu_hcif_send_cmd` make of a control block (`SendFlows`, `FlowsTwice`),
  `SetupMove` how a handler moves the start-up (`HdlFlows`), and `HandlerKeeps`
  and `HandlerTracks` conclude.
* `CmdTypesKept`, `CopiesAreTimed`, `NoneHeldBack`, `RequestsStayTracked`,
  `SetupNeverFaked`: its consequences, the invariants of `btu_commands`.

`LinkSchedProofs`, for every number of links and of buffers, every quota of the high
priority links and every workload, from `SchedAssumption` (the three are positive):

* `SchedInvariant`: `Spec => []SchedInv`. `WindowExact` is not inductive. `SchedInv`
  is `Good(Now, k)`, with `k` the buffers that neither an ended connection nor the
  ghost `lost` accounts for: the window and the packets in the controller make up
  `k`; the blocks have their types, so that the window is never below zero; a link
  that is free or connecting has nothing in the controller; every block counts at
  least its packets there; at most one link has high priority; and, with two
  buffers or more, `round_robin_unacked` covers the links without a quota.
* `WindowIsExact` (`WindowExact`, for any number of buffers) and `WindowIsAccounted`
  (`WindowAccounted`, from `NumBufs > 1`): its consequences.

The argument follows the calls. `Good` is a property of the record the handlers pass
along, so it is shown once of each function and cited by every action that calls it:
what one packet does (`SendToLowerSends`, `SendsGood`), one turn and the loops over
packets and links (`DrainGood`, `ServeAllGood`, by `RecursiveFcn` and induction),
then `CheckSendPktsGood`; what `l2c_link_adjust_allocation` does (`QuotasAreGood`:
if anybody is left without a quota, the round robin has one, so that
`AssignAllKeeps` adds to the count what a link has outstanding when it loses its
quota); and what an event changes in one block (`EditGood`, `ReportedGood`). Sums
over the links are compared by `TotalPoint`: two that differ at one link differ by
what that link adds.

The hypothesis `NumBufs > 1` came out of the proof. With a single buffer a link of
high priority gets the quota 0 as soon as there is another link (`l2c_link.c:701`),
while the other's quota is 1 and `round_robin_unacked` is cleared (`l2c_link.c:721`);
the packets the first has outstanding are added to no count (`l2c_link.c:742`). TLC
shows it in a few steps when `NumBufs` is 1. No comment or test of the repository
speaks of a controller with one buffer.

TLC has been run on the strengthened invariants `BtuInv`, `TransportInv` and
`SchedInv` as well, on the instances of `btu_timers`, `hci` and `link_sched`.

Only model-checked: the life cycle, whose model has no constants, so that its run is
exhaustive up to `MaxChanges`; the channels of L2CAP, ERTM and RFCOMM; and all
liveness (`DataIsSent` among it), since fairness and ENABLED are out of the prover's
reach. The violated properties are not theorems, of course: `CreditsNotOverdrawn`
fails, and `TransportInv` lets the credits be negative.

## What is not modelled

* Buffer pools: allocation never fails. The error paths that follow a failed
  `GKI_getbuf` are left out.
* The bytes: HCI packet formats, H4 framing, ACL reassembly.
* `LPM_WAKE_DEVICE`: nothing calls `bte_main_lpm_wake_bt_device`.
* The quick timer list (`TIMER_2`), which works like the one of `TIMER_0`, and the
  callers of `btu_start_timer` on other tasks.
* In `BtuCommands`: a device reset asked for while one is under way (only leaving
  test mode can do so), LE start-up (the build has no LE), and the answers of
  setup commands beyond success and failure.
* In `Lifecycle`: DUT mode, profiles beyond the messages they add, more than one link,
  the notices to the client that a link came or went, and BTM's busy level.
* In `GkiTimers` the update of the timers is one step, as the comment in
  `gki_time.c:445` assumes; `GkiTick` drops the assumption for the stop of the
  tick only.
* In L2CAP: LE and connectionless data, which are not compiled in
  (`bt_target.h:1428`, `bt_target.h:1335`); role switches before a connection,
  bonding, echo, fixed channels, packets held for a link that is not up yet,
  command reject, split or pending configurations, options other than the mode,
  a user's reconfiguration of an open channel, and calls of the layer above from
  inside a callback.
* In `Ertm`: streaming mode, the flushing of `link_xmit_data_q` and the computation
  of the timeouts. In `LinkSched`: the order of the channels of a link, congestion
  callbacks and park mode; that a link without channels is closed by the same timer
  is the separate action `Disconnect`. The three L2CAP models are not composed.
* In `Rfcomm`: flow control of TS 07.10, which a peer without credits would need;
  RPN, RLS, TEST and NSC messages, `PORT_SetState`, `PORT_Control` and the events of
  the port callback; malformed frames; a released multiplexer block that is given
  out again while a port still points to it; a port whose multiplexer is released in
  the middle of a flush (`rfc_send_credit` would use a null pointer; the model sends
  nothing); the flush overtaking the BTU task in the middle of its own update of
  `credit_rx`, which makes credits as the modelled order does; an L2CAP
  configuration that fails; more than one server channel and more than one peer.

Hazards that no property covers, beside those `PROJECT.json` lists with a note: more
than 64 packets in one pass of the worker (`bt_hci_bdroid.c:423`), which the windows
above keep out of reach and `QueueIsServed` assumes away; a Command Status for an
internal command, which `internal_event_intercept` would not recognise
(`hci_h4.c:301`; the commands in use are answered by Command Complete); a
`GKI_stop_timer` in the middle of `GKI_timer_update` (`gki_time.c:476`); a list's
timer started from another task (`btu_task.c:553`); a second link beside the first
during the disable (`bta_dm_act.c:500`); an empty buffer pool (`gki_buffer.c:412`);
and what a failed enable leaves running (`btif_core.c:612`), which `bta_dm_enable`
never reports here.

## Plan

1. AVDTP stream and SMP state tables, and the queue of GATT requests.
2. Compositions: `Rfcomm` over `L2capChannel`, `Ertm` over `LinkSched`; the window
   of `BtuCommands` with the credits of `HciTransport`.
3. Deeper GKI: the update loop split, buffer pools; proofs of `Ertm`'s counters and
   of the credits of `Rfcomm`.
