----------------------------- MODULE Lifecycle -----------------------------
(***************************************************************************)
(* Turning the adapter on and off: the caller of the HAL interface, the    *)
(* BTIF and BTU tasks with their GKI events and mailboxes, the worker of   *)
(* the HCI library, and on the BTU task the device manager (bta_dm) and    *)
(* the hardware state machine (bta_sys) of BTA.                            *)
(*                                                                         *)
(* GKI_destroy_task and GKI_shutdown mark a task dead, clear its mailbox   *)
(* events and send the shutdown event in one step: a task that wakes up in *)
(* between is told to shut down by GKI_wait itself.  Buffers do not run    *)
(* out.  Messages of profiles and of the user's requests are one each;     *)
(* those that only tell the client of a link, and those of BTM's busy      *)
(* level, are left out: a property request in the mailbox stands for them. *)
(***************************************************************************)
EXTENDS Naturals, Sequences, Functions

Tasks == {"BTU", "BTIF"}

\* A bound: no link comes up with this many BTA_DM_ACL_CHANGE_EVT in the mailbox.
MaxChanges == 2

VARIABLES core,   \* btif_core_state
          told,   \* the last adapter_state_changed_cb
          pend,   \* btif_shutdown_pending
          hal,    \* where the HAL caller's thread is; "closed" after cleanup of an enabled adapter,
                  \* "gone" after any other, "killed" with the process
          gki,    \* "up" from GKI_init to GKI_shutdown
          rdy,    \* OSRdyTbl
          evt,    \* OSWaitEvt
          mbox,   \* mailbox 2 of BTU (BTA messages), mailbox 1 of BTIF
          pc,     \* where each task's thread is
          seen,   \* the events GKI_wait returned to it
          hc,     \* the HCI library: "off", "preload" or "on"
          bta     \* bta_sys_cb and bta_dm_cb, and what BTM does for them (see BtaOff)

halVars  == <<core, told, pend, hal, gki>>
taskVars == <<rdy, evt, mbox, pc, seen>>
vars     == <<halVars, taskVars, hc, bta>>

\* bta_sys_cb: state, sys_hw_module_active, sys_hw_cback, reg[BTA_ID_DM];
\* bta_dm_cb: is_bta_dm_active, disabling, p_sec_cback set, disable_timer for "links"
\* (bta_dm_disable_timer_cback) or "down" (bta_dm_disable_conn_down_timer_cback),
\* the peer of the link on device_list;
\* BTM: dev "down", "reset" (initialising), "name" (reading it) or "up", an ACL link.
BtaOff ==
    [state |-> "OFF", active |-> FALSE, hwcb |-> FALSE, reg |-> FALSE,
     dmActive |-> FALSE, disabling |-> FALSE, seccb |-> FALSE, timer |-> "none",
     listed |-> FALSE, dev |-> "down", link |-> "none"]

\* After init(): btif_init_bluetooth has started the BTIF task.
Init ==
    /\ core = "DISABLED" /\ told = "OFF" /\ pend = 0 /\ hal = "idle" /\ gki = "up"
    /\ rdy = [t \in Tasks |-> IF t = "BTIF" THEN "READY" ELSE "DEAD"]
    /\ evt = [t \in Tasks |-> {}] /\ seen = [t \in Tasks |-> {}]
    /\ mbox = [t \in Tasks |-> <<>>]
    /\ pc = [t \in Tasks |-> IF t = "BTIF" THEN "wait" ELSE "none"]
    /\ hc = "off" /\ bta = BtaOff

-----------------------------------------------------------------------------
(* GKI                                                                     *)

\* GKI_send_msg of the messages out[t] to each task t, whose events and mailbox
\* are e[t] and q[t]: those for a dead task are freed.
GKI_send_msg(e, q, out) ==
    LET Gets(t) == rdy[t] # "DEAD" /\ out[t] # <<>>
    IN  /\ evt'  = [t \in Tasks |-> IF Gets(t) THEN e[t] \cup {"MBOX"} ELSE e[t]]
        /\ mbox' = [t \in Tasks |-> IF Gets(t) THEN q[t] \o out[t] ELSE q[t]]

To(t, ms) == [u \in Tasks |-> IF u = t THEN ms ELSE <<>>]
Nothing   == To("BTU", <<>>)

\* GKI_create_task.
GKI_create_task(t, start) ==
    /\ rdy' = [rdy EXCEPT ![t] = "READY"] /\ evt' = [evt EXCEPT ![t] = {}]
    /\ pc' = [pc EXCEPT ![t] = start]

\* Variant: the mailbox events are cleared, the shutdown event is not sent.
StoppedSilently(e) == e \ {"MBOX", "HCI"}

\* GKI_destroy_task, and GKI_shutdown for one task, up to pthread_join.
Stopped(e) == (e \ {"MBOX", "HCI"}) \cup {"SHUTDOWN"}

\* GKI_wait(0xFFFF, 0) returns S.  If the thread had to wait, the events of
\* non-empty mailboxes are added, and a dead task is told to shut down.
GKI_wait(t, S) ==
    /\ evt[t] # {}
    /\ \/ S = evt[t]
       \/ S = IF rdy[t] = "DEAD" THEN {"SHUTDOWN"}
              ELSE evt[t] \cup (IF mbox[t] = <<>> THEN {} ELSE {"MBOX"})
    /\ seen' = [seen EXCEPT ![t] = S]

\* Where a task goes from the loop's head, and once its mailbox is empty.
LoopEnd(S) == IF "SHUTDOWN" \in S THEN "exit" ELSE "wait"

-----------------------------------------------------------------------------
(* The HAL interface                                                       *)

\* Variant: only an adapter that is on is refused.
EnableUnlessOn ==
    /\ hal = "idle" /\ core # "ENABLED"
    /\ core' = "ENABLING" /\ hal' = "create" /\ hc' = "preload"
    /\ UNCHANGED <<told, pend, gki, taskVars, bta>>

\* enable: btif_enable_bluetooth, bte_main_enable up to bt_hc_if->preload.
Enable ==
    /\ hal = "idle" /\ core = "DISABLED"
    /\ core' = "ENABLING" /\ hal' = "create" /\ hc' = "preload"
    /\ UNCHANGED <<told, pend, gki, taskVars, bta>>

\* The rest of bte_main_enable: GKI_create_task(BTU_TASK) and GKI_run.
CreateBtu ==
    /\ hal = "create" /\ hal' = "idle"
    /\ GKI_create_task("BTU", "first")
    /\ UNCHANGED <<core, told, pend, gki, mbox, seen, hc, bta>>

\* btif_disable_bluetooth.
StartDisable ==
    /\ core' = "DISABLING" /\ GKI_send_msg(evt, mbox, To("BTU", <<"DM_API_DISABLE">>))
    /\ UNCHANGED <<told, pend, gki, rdy, pc, seen, hc, bta>>

Disable == hal = "idle" /\ core = "ENABLED" /\ StartDisable /\ UNCHANGED hal

\* get_adapter_property for the address or the name, allowed in every state.
Query ==
    /\ hal = "idle" /\ mbox["BTIF"] = <<>>
    /\ GKI_send_msg(evt, mbox, To("BTIF", <<"STORAGE">>))
    /\ UNCHANGED <<halVars, rdy, pc, seen, hc, bta>>

\* cleanup: btif_shutdown_bluetooth of an enabled adapter first disables it.
CleanupEnabled == hal = "idle" /\ core = "ENABLED" /\ StartDisable /\ hal' = "pending"

SetPending ==
    /\ hal = "pending" /\ hal' = "closed" /\ pend' = 1
    /\ UNCHANGED <<core, told, gki, taskVars, hc, bta>>

\* cleanup otherwise: GKI_destroy_task(BTIF_TASK), then GKI_shutdown.
Cleanup ==
    /\ hal = "idle" /\ core # "ENABLED"
    /\ hal' = "join_btif" /\ pend' = 0
    /\ rdy' = [rdy EXCEPT !["BTIF"] = "DEAD"]
    /\ evt' = [evt EXCEPT !["BTIF"] = Stopped(@)]
    /\ UNCHANGED <<core, told, gki, mbox, pc, seen, hc, bta>>

BtifJoined ==
    /\ hal = "join_btif" /\ pc["BTIF"] = "exit"
    /\ IF rdy["BTU"] = "DEAD"
       THEN hal' = "gone" /\ gki' = "down" /\ UNCHANGED <<rdy, evt>>
       ELSE /\ hal' = "join_btu" /\ UNCHANGED gki
            /\ rdy' = [rdy EXCEPT !["BTU"] = "DEAD"]
            /\ evt' = [evt EXCEPT !["BTU"] = Stopped(@)]
    /\ UNCHANGED <<core, told, pend, mbox, pc, seen, hc, bta>>

ShutdownJoined ==
    /\ hal = "join_btu" /\ pc["BTU"] = "exit" /\ hal' = "gone" /\ gki' = "down"
    /\ UNCHANGED <<core, told, pend, taskVars, hc, bta>>

\* preload_cb, on the worker of the HCI library.
PreloadDone ==
    /\ hc = "preload" /\ hc' = "on"
    /\ evt' = [evt EXCEPT !["BTU"] = @ \cup {"HCI"}]
    /\ UNCHANGED <<halVars, rdy, mbox, pc, seen, bta>>

-----------------------------------------------------------------------------
(* BTA on the BTU task.  A handler maps <<bta, messages to BTU, to BTIF>>. *)

Set(h, f, v) == <<[h[1] EXCEPT ![f] = v], h[2], h[3]>>
ToBtu(h, m)  == <<h[1], Append(h[2], m), h[3]>>
ToBtif(h, m) == <<h[1], h[2], Append(h[3], m)>>
DmEvent(h, m) == IF h[1].seccb THEN ToBtif(h, m) ELSE h     \* p_sec_cback

\* bta_dm_sys_hw_cback.  BTA_SYS_HW_ON_EVT goes on to read the local name.
HwOn(h)    == IF h[1].hwcb
              THEN <<[h[1] EXCEPT !.dmActive = TRUE, !.disabling = FALSE, !.timer = "none",
                                  !.listed = FALSE, !.dev = "name"], h[2], h[3]>>
              ELSE h
HwOff(h)   == IF h[1].hwcb
              THEN LET e == DmEvent(h, "DISABLE")
                   IN  <<[e[1] EXCEPT !.dmActive = FALSE, !.disabling = FALSE, !.seccb = FALSE,
                                      !.timer = "none", !.listed = FALSE, !.hwcb = FALSE], e[2], e[3]>>
              ELSE h
HwError(h) == IF h[1].active /\ h[1].hwcb THEN DmEvent(h, "HW_ERROR") ELSE h

\* bta_sys_hw_api_enable, bta_sys_hw_api_disable: the call-outs answer at once.
HwApiEnable(h) ==
    IF ~h[1].active /\ h[1].state # "ON"
    THEN ToBtu(Set(h, "active", TRUE), "SYS_EVT_ENABLED")
    ELSE HwOn(Set(h, "active", TRUE))
HwApiDisable(h) == ToBtu(Set(Set(h, "active", FALSE), "state", "STOPPING"), "SYS_EVT_DISABLED")

\* btm_acl_removed: BTM counts the link no more, and bta_dm_bl_change_cback posts
\* BTA_DM_ACL_CHANGE_EVT.
AclRemoved(h) == IF h[1].link = "none" THEN h ELSE ToBtu(Set(h, "link", "none"), "ACL_DOWN")

\* BTM_DeviceReset: flush the links, end a pending read of the name, reset.
DeviceReset(h) ==
    LET e == AclRemoved(h)
    IN  Set(IF h[1].dev = "name" THEN DmEvent(e, "ENABLE_OK") ELSE e, "dev", "reset")

\* bta_sys_hw_evt_enabled.
HwEvtEnabled(h) == DeviceReset(h)

\* bta_sys_st_tbl: by state and event, the actions and the next state.
SysTable ==
    [OFF      |-> [SYS_API_ENABLE        |-> <<"API_ENABLE", "IGNORE", "STARTING">>,
                   SYS_EVT_ENABLED       |-> <<"IGNORE", "IGNORE", "STARTING">>,
                   SYS_EVT_STACK_ENABLED |-> <<"IGNORE", "IGNORE", "ON">>,
                   SYS_API_DISABLE       |-> <<"EVT_DISABLED", "IGNORE", "OFF">>,
                   SYS_EVT_DISABLED      |-> <<"IGNORE", "IGNORE", "OFF">>,
                   SYS_ERROR             |-> <<"IGNORE", "IGNORE", "OFF">>],
     STARTING |-> [SYS_API_ENABLE        |-> <<"IGNORE", "IGNORE", "STARTING">>,
                   SYS_EVT_ENABLED       |-> <<"EVT_ENABLED", "IGNORE", "STARTING">>,
                   SYS_EVT_STACK_ENABLED |-> <<"STACK_ENABLED", "IGNORE", "ON">>,
                   SYS_API_DISABLE       |-> <<"IGNORE", "IGNORE", "STOPPING">>,
                   SYS_EVT_DISABLED      |-> <<"EVT_DISABLED", "API_ENABLE", "STARTING">>,
                   SYS_ERROR             |-> <<"ERROR", "IGNORE", "ON">>],
     ON       |-> [SYS_API_ENABLE        |-> <<"API_ENABLE", "IGNORE", "ON">>,
                   SYS_EVT_ENABLED       |-> <<"IGNORE", "IGNORE", "ON">>,
                   SYS_EVT_STACK_ENABLED |-> <<"IGNORE", "IGNORE", "ON">>,
                   SYS_API_DISABLE       |-> <<"API_DISABLE", "IGNORE", "ON">>,
                   SYS_EVT_DISABLED      |-> <<"ERROR", "IGNORE", "ON">>,
                   SYS_ERROR             |-> <<"ERROR", "IGNORE", "ON">>],
     STOPPING |-> [SYS_API_ENABLE        |-> <<"IGNORE", "IGNORE", "STARTING">>,
                   SYS_EVT_ENABLED       |-> <<"EVT_ENABLED", "IGNORE", "STOPPING">>,
                   SYS_EVT_STACK_ENABLED |-> <<"STACK_ENABLED", "API_DISABLE", "STOPPING">>,
                   SYS_API_DISABLE       |-> <<"IGNORE", "IGNORE", "STOPPING">>,
                   SYS_EVT_DISABLED      |-> <<"EVT_DISABLED", "IGNORE", "OFF">>,
                   SYS_ERROR             |-> <<"API_DISABLE", "IGNORE", "STOPPING">>]]

SysAction(a, h) ==
    CASE a = "API_ENABLE"    -> HwApiEnable(h)
      [] a = "EVT_ENABLED"   -> HwEvtEnabled(h)
      [] a = "STACK_ENABLED" -> HwOn(h)
      [] a = "API_DISABLE"   -> HwApiDisable(h)
      [] a = "EVT_DISABLED"  -> HwOff(h)
      [] a = "ERROR"         -> HwError(h)
      [] OTHER               -> h

\* bta_sys_sm_execute.
SysExecute(m, h) ==
    LET row == SysTable[h[1].state][m]
    IN  SysAction(row[2], SysAction(row[1], Set(h, "state", row[3])))

\* bta_dm_enable.
DmEnable(h) ==
    IF h[1].dmActive THEN ToBtif(h, "ENABLE_FAIL")
    ELSE ToBtu(<<[h[1] EXCEPT !.hwcb = TRUE, !.seccb = TRUE, !.dmActive = TRUE], h[2], h[3]>>,
               "SYS_API_ENABLE")

\* bta_dm_disable: wait for the links to go, or BTA_DISABLE_DELAY.
DmDisable(h) ==
    Set(Set(h, "disabling", TRUE), "timer", IF h[1].link = "none" THEN "down" ELSE "links")

\* Variant: the timer is not started for the last link.
AclChangeNoTimer(up, h) == Set(h, "listed", up)

\* bta_dm_acl_change, when BTA_DM_ACL_CHANGE_EVT is handled: keep device_list; if
\* BTM has no link by now, give the profiles a second.
AclChange(up, h) ==
    LET e    == Set(h, "listed", up)
        last == ~up /\ h[1].disabling /\ h[1].link = "none"
    IN  IF last THEN Set(e, "timer", "down") ELSE e

\* bta_sys_event: a message for a subsystem that is not registered is freed.
SysEvent(m, h) ==
    CASE m = "DM_API_ENABLE"  -> IF h[1].reg THEN DmEnable(h) ELSE h
      [] m = "DM_API_DISABLE" -> IF h[1].reg THEN DmDisable(h) ELSE h
      [] m = "ACL_UP"         -> IF h[1].reg THEN AclChange(TRUE, h) ELSE h
      [] m = "ACL_DOWN"       -> IF h[1].reg THEN AclChange(FALSE, h) ELSE h
      [] m = "SERVICE"        -> h
      [] OTHER                -> SysExecute(m, h)

\* btm_remove_acl of every device on device_list, if BTM has a link.
RemoveListed(h) ==
    IF h[1].listed /\ h[1].link # "none" THEN Set(h, "link", "closing") ELSE h

\* Variant: disabling is not reset.
DisableTimeoutStillOn(h) ==
    LET e == Set(h, "timer", "none")
    IN  IF h[1].timer = "down" THEN ToBtu(Set(e, "hwcb", TRUE), "SYS_API_DISABLE")
        ELSE IF h[1].link # "none" THEN RemoveListed(e) ELSE DmEvent(e, "DISABLE")

\* bta_dm_disable_timer_cback and bta_dm_disable_conn_down_timer_cback.
DisableTimeout(h) ==
    LET e == Set(h, "timer", "none")
    IN  IF h[1].timer = "down"
        THEN Set(ToBtu(Set(e, "hwcb", TRUE), "SYS_API_DISABLE"), "disabling", FALSE)
        ELSE IF h[1].link # "none" THEN RemoveListed(e)
        ELSE DmEvent(Set(e, "disabling", FALSE), "DISABLE")

\* btu_hcif_hardware_error_evt: report the device down, and reset it if it was up.
HardwareError(h) ==
    LET e == ToBtu(h, "SYS_ERROR")
    IN  IF h[1].dev \in {"name", "up"} THEN DeviceReset(e) ELSE e

\* Run handler h on the BTU task, with q as the mailboxes.
Handle(q, h) ==
    /\ bta' = h[1] /\ GKI_send_msg(evt, q, [BTU |-> h[2], BTIF |-> h[3]])
    /\ UNCHANGED <<halVars, rdy, seen, hc>>

-----------------------------------------------------------------------------
(* The BTU task                                                            *)

\* The first GKI_wait, for whatever event; bta_sys_init and the other
\* initialisations; the trigger for the BTIF task.
BtuStarts ==
    /\ pc["BTU"] = "first" /\ \E S \in SUBSET {"HCI", "MBOX", "SHUTDOWN"} : GKI_wait("BTU", S)
    /\ bta' = [BtaOff EXCEPT !.dmActive = bta.dmActive, !.disabling = bta.disabling,
                             !.seccb = bta.seccb, !.listed = bta.listed]
    /\ evt' = [BTU |-> {}, BTIF |-> evt["BTIF"] \cup {"TRIGGER"}]
    /\ pc' = [pc EXCEPT !["BTU"] = "wait"]
    /\ UNCHANGED <<halVars, rdy, mbox, hc>>

BtuWaits ==
    /\ pc["BTU"] = "wait" /\ \E S \in SUBSET {"HCI", "MBOX", "SHUTDOWN"} : GKI_wait("BTU", S)
    /\ evt' = [evt EXCEPT !["BTU"] = {}]
    /\ pc' = [pc EXCEPT !["BTU"] = IF "MBOX" \in seen'["BTU"] THEN "mbox" ELSE LoopEnd(seen'["BTU"])]
    /\ UNCHANGED <<halVars, rdy, mbox, hc, bta>>

\* One round of the while loop over mailbox 2.
BtuReads ==
    /\ pc["BTU"] = "mbox"
    /\ IF mbox["BTU"] = <<>>
       THEN /\ pc' = [pc EXCEPT !["BTU"] = LoopEnd(seen["BTU"])]
            /\ UNCHANGED <<halVars, rdy, evt, mbox, seen, hc, bta>>
       ELSE /\ Handle([mbox EXCEPT !["BTU"] = Tail(@)],
                      SysEvent(Head(mbox["BTU"]), <<bta, <<>>, <<>>>>))
            /\ UNCHANGED pc

\* HCI events and timer events, each a pass of the loop of its own.
BtuPass(h) == pc["BTU"] = "wait" /\ Handle(mbox, h) /\ UNCHANGED pc

\* The controller has answered the commands of btm_dev_reset, or sent its name.
CtrlAnswers ==
    /\ hc = "on"
    /\ \/ bta.dev = "reset"
          /\ BtuPass(ToBtu(Set(<<bta, <<>>, <<>>>>, "dev", "up"), "SYS_EVT_STACK_ENABLED"))
       \/ bta.dev = "name"
          /\ BtuPass(DmEvent(Set(<<bta, <<>>, <<>>>>, "dev", "up"), "ENABLE_OK"))

\* A hardware error; the next one when this one has been dealt with.
CtrlFails ==
    /\ hc = "on" /\ \A t \in Tasks : Range(mbox[t]) \cap {"SYS_ERROR", "HW_ERROR"} = {}
    /\ BtuPass(HardwareError(<<bta, <<>>, <<>>>>))

AclChangeEvt(m) == m \in {"ACL_UP", "ACL_DOWN"}

\* btm_establish_continue and btm_acl_removed: BTM counts its links at once, and
\* posts BTA_DM_ACL_CHANGE_EVT for the device manager.
LinkUp ==
    /\ hc = "on" /\ bta.dev = "up" /\ bta.link = "none"
    /\ Len(SelectSeq(mbox["BTU"], AclChangeEvt)) < MaxChanges
    /\ BtuPass(ToBtu(Set(<<bta, <<>>, <<>>>>, "link", "up"), "ACL_UP"))

LinkDown == hc = "on" /\ bta.link # "none" /\ BtuPass(AclRemoved(<<bta, <<>>, <<>>>>))

DisableTimer == bta.timer # "none" /\ BtuPass(DisableTimeout(<<bta, <<>>, <<>>>>))

-----------------------------------------------------------------------------
(* The BTIF task                                                           *)

\* BTA_EnableBluetooth, when the trigger is all that GKI_wait returned.
EnableBta(e) ==
    IF bta.disabling THEN evt' = e /\ UNCHANGED <<mbox, bta>>
    ELSE /\ bta' = [bta EXCEPT !.dmActive = FALSE, !.seccb = FALSE, !.timer = "none",
                                 !.listed = FALSE, !.reg = TRUE]
         /\ GKI_send_msg(e, mbox, To("BTU", <<"DM_API_ENABLE">>))

BtifWaits ==
    LET e == [evt EXCEPT !["BTIF"] = {}]
    IN  /\ pc["BTIF"] = "wait"
        /\ \E S \in SUBSET {"TRIGGER", "MBOX", "SHUTDOWN"} :
              /\ GKI_wait("BTIF", S)
              /\ IF S = {"TRIGGER"} THEN EnableBta(e) ELSE evt' = e /\ UNCHANGED <<mbox, bta>>
              /\ pc' = [pc EXCEPT !["BTIF"] = IF "SHUTDOWN" \in S THEN "exit"
                                              ELSE IF "MBOX" \in S THEN "mbox" ELSE "wait"]
        /\ UNCHANGED <<halVars, rdy, hc>>

Reads(m) == pc["BTIF"] = "mbox" /\ mbox["BTIF"] # <<>> /\ Head(mbox["BTIF"]) = m
Rest     == [mbox EXCEPT !["BTIF"] = Tail(@)]

BtifMboxEmpty ==
    /\ pc["BTIF"] = "mbox" /\ mbox["BTIF"] = <<>> /\ pc' = [pc EXCEPT !["BTIF"] = "wait"]
    /\ UNCHANGED <<halVars, rdy, evt, mbox, seen, hc, bta>>

\* execute_storage_request reads the stored property.
StorageRequest ==
    /\ Reads("STORAGE") /\ mbox' = Rest
    /\ UNCHANGED <<halVars, rdy, evt, pc, seen, hc, bta>>

\* BTA_DM_ENABLE_EVT: start the services, btif_enable_bluetooth_evt.
EnableEvt ==
    /\ \E ok \in {TRUE, FALSE} :
          /\ Reads(IF ok THEN "ENABLE_OK" ELSE "ENABLE_FAIL")
          /\ core' = IF ok THEN "ENABLED" ELSE "DISABLED"
          /\ told' = IF ok THEN "ON" ELSE "OFF"
    /\ GKI_send_msg(evt, Rest, To("BTU", <<"SERVICE">>))
    /\ UNCHANGED <<pend, hal, gki, rdy, pc, seen, hc, bta>>

\* Variant: the HCI library is not cleaned up.
DisableEvtKeepsHc ==
    /\ Reads("DISABLE")
    /\ mbox' = [Rest EXCEPT !["BTU"] = Append(@, "SERVICE")]
    /\ rdy' = [rdy EXCEPT !["BTU"] = "DEAD"]
    /\ evt' = [evt EXCEPT !["BTU"] = Stopped(@)]
    /\ pc' = [pc EXCEPT !["BTIF"] = "join"]
    /\ UNCHANGED <<halVars, seen, hc, bta>>

\* BTA_DM_DISABLE_EVT: stop the services, btif_disable_bluetooth_evt up to the
\* pthread_join in GKI_destroy_task(BTU_TASK).
DisableEvt ==
    /\ Reads("DISABLE")
    /\ mbox' = [Rest EXCEPT !["BTU"] = Append(@, "SERVICE")]
    /\ hc' = "off" /\ rdy' = [rdy EXCEPT !["BTU"] = "DEAD"]
    /\ evt' = [evt EXCEPT !["BTU"] = Stopped(@)]
    /\ pc' = [pc EXCEPT !["BTIF"] = "join"]
    /\ UNCHANGED <<halVars, seen, bta>>

\* The rest of it; a pending shutdown destroys the BTIF task, in its own context.
BtuJoined ==
    /\ pc["BTIF"] = "join" /\ pc["BTU"] = "exit"
    /\ core' = "DISABLED" /\ told' = "OFF"
    /\ pc' = [BTU |-> "none", BTIF |-> "mbox"]
    /\ IF pend = 1
       THEN /\ pend' = 0 /\ gki' = "down" /\ rdy' = [rdy EXCEPT !["BTIF"] = "DEAD"]
            /\ evt' = [evt EXCEPT !["BTIF"] = Stopped(@)]
       ELSE UNCHANGED <<pend, gki, rdy, evt>>
    /\ UNCHANGED <<hal, mbox, seen, hc, bta>>

\* BTA_DM_HW_ERROR_EVT: kill the process, to be restarted.
KillProcess ==
    /\ Reads("HW_ERROR") /\ hal' = "killed"
    /\ UNCHANGED <<core, told, pend, gki, taskVars, hc, bta>>

-----------------------------------------------------------------------------

HalCaller == \/ Enable \/ CreateBtu \/ Disable \/ Query \/ CleanupEnabled \/ SetPending
             \/ Cleanup \/ BtifJoined \/ ShutdownJoined
Btu  == BtuStarts \/ BtuWaits \/ BtuReads
Btif == \/ BtifWaits \/ BtifMboxEmpty \/ StorageRequest \/ EnableEvt \/ DisableEvt \/ BtuJoined
        \/ KillProcess

Next ==
    /\ hal # "killed"
    /\ HalCaller \/ PreloadDone \/ Btu \/ CtrlAnswers \/ CtrlFails \/ LinkUp \/ LinkDown
       \/ DisableTimer \/ Btif

\* The threads run, a call of the HAL caller goes on, the controller answers and
\* closes a link it is told to, and timers fire.  Nobody has to call the HAL,
\* and peers need not connect or go; but no peer comes and goes within a second
\* for ever, each time before the restarted disable timer fires.
Fairness ==
    /\ WF_vars(hal # "killed" /\ (CreateBtu \/ SetPending \/ BtifJoined \/ ShutdownJoined))
    /\ WF_vars(hal # "killed" /\ PreloadDone) /\ WF_vars(hal # "killed" /\ Btu) /\ WF_vars(hal # "killed" /\ Btif)
    /\ WF_vars(hal # "killed" /\ CtrlAnswers) /\ SF_vars(hal # "killed" /\ DisableTimer)
    /\ WF_vars(hal # "killed" /\ LinkDown /\ bta.link = "closing")

Spec == Init /\ [][Next]_vars /\ Fairness

-----------------------------------------------------------------------------
(* Properties                                                              *)

\* The adapter is being cleaned up without being turned off first, or is killed.
Closing == hal \in {"join_btif", "join_btu", "gone", "killed"}

\* The adapter is off only when the HCI library is down and the BTU task's thread
\* is joined, so that bte_main_enable never starts a second one, and it is on
\* only with both running and BTA's hardware state and device manager on.
StateIsTrue ==
    /\ core = "DISABLED" => hc = "off" /\ pc["BTU"] = "none" /\ rdy["BTU"] = "DEAD"
    /\ core = "ENABLED" /\ ~Closing =>
          /\ hc = "on" /\ rdy["BTU"] = "READY" /\ pc["BTU"] \in {"wait", "mbox"}
          /\ bta.state = "ON" /\ bta.dmActive /\ bta.seccb

\* The disable timer is part of bta_dm_cb, which is cleared when the hardware
\* goes on or off and by BTA_EnableBluetooth: it is not running then, or the
\* timer list would keep an entry that was wiped.
TimerNotWiped == [][bta.timer # "none" /\ bta'.timer = "none" => DisableTimer]_vars

A == INSTANCE Adapter WITH btu <- IF pc["BTU"] = "none" THEN "none" ELSE "up"

\* Requests and reports alternate as Adapter says, whatever the threads do.
AdapterReports == A!Spec

\* The trigger shares BTIF's events with another one, or will when GKI_wait looks
\* at the mailbox.
TriggerShared == "TRIGGER" \in evt["BTIF"] /\ (evt["BTIF"] # {"TRIGGER"} \/ mbox["BTIF"] # <<>>)

\* The HCI library is ready before GKI_create_task clears the task's events.
ReadyEarly == hal = "create" /\ "HCI" \in evt["BTU"]

\* While the adapter turns off, a link is up that no timer will close: when the
\* disable timer fired, the link's BTA_DM_ACL_CHANGE_EVT had not yet put it on
\* device_list, or it replaced the closed link before the device manager had
\* counted the links.
LeftUp == bta.disabling /\ bta.timer = "none" /\ bta.link = "up"

\* A request of the client is answered.  Turning the adapter on ends, unless
\* the trigger is mixed with another event or the HCI library is ready before
\* the BTU task exists.  Turning it off ends, whether or not a link is up and
\* has to be closed, unless one is left up time and again.
RequestsAnswered ==
    /\ []~TriggerShared /\ []~ReadyEarly =>
           (core = "ENABLING" ~> core # "ENABLING" \/ Closing)
    /\ <>[]~LeftUp => (core = "DISABLING" ~> core = "DISABLED" \/ Closing)

\* cleanup ends.  That of an adapter that is not enabled returns, once the BTU
\* task has passed its first GKI_wait; that of an enabled one shuts GKI down,
\* unless the adapter is off before btif_shutdown_pending is set or links are
\* left up.
CleanupEnds ==
    /\ hal = "join_btif" /\ pc["BTU"] # "first" ~> hal \in {"gone", "killed"}
    /\ [](hal = "pending" => core # "DISABLED") /\ <>[]~LeftUp =>
           (hal = "closed" ~> gki = "down" \/ hal = "killed")

\* btu_task: "Send a startup evt message to BTIF_TASK to kickstart the init
\* procedure": a trigger sent while the adapter turns on starts BTA.
TriggerKickstarts ==
    "TRIGGER" \in evt["BTIF"] /\ core = "ENABLING" ~> bta.reg \/ Closing

=============================================================================
