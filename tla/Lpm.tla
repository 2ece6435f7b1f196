-------------------------------- MODULE Lpm --------------------------------
(***************************************************************************)
(* Low-power mode: the control block bt_lpm_cb and the functions of lpm.c, *)
(* as operators from one control block to the next.  They run on the       *)
(* worker thread (module HciTransport), except the idle timer's callback.  *)
(*                                                                         *)
(*   state    "DISABLED", "ENABLED", "ENABLING" or "DISABLING"             *)
(*   wake     wake_state: "DEASSERTED", "W4_TX_DONE", "W4_TIMEOUT" or      *)
(*            "ASSERTED"                                                   *)
(*   no_tx    no_tx_data                                                   *)
(*   timeout  whether timeout_ms is non-zero                               *)
(*   timer    the POSIX timer is armed                                     *)
(*   pin      the wake line as the vendor library last set it              *)
(*   hal      lpm_enabled of bte_main.c, set by lpm_cb                     *)
(***************************************************************************)
EXTENDS Integers

LpmBlocks == [state : {"DISABLED", "ENABLED", "ENABLING", "DISABLING"},
              wake : {"DEASSERTED", "W4_TX_DONE", "W4_TIMEOUT", "ASSERTED"},
              no_tx : BOOLEAN, timeout : BOOLEAN, timer : BOOLEAN, pin : BOOLEAN, hal : BOOLEAN]

\* lpm_init: memset, then the vendor library supplies the idle timeout.
LpmInit == [state |-> "DISABLED", wake |-> "DEASSERTED", no_tx |-> FALSE,
            timeout |-> TRUE, timer |-> FALSE, pin |-> TRUE, hal |-> FALSE]

\* A zero it_value disarms the timer, so a zero timeout_ms never fires.
StartIdleTimer(l) == IF l.state = "ENABLED" THEN [l EXCEPT !.timer = l.timeout] ELSE l
StopIdleTimer(l)  == [l EXCEPT !.timer = FALSE]

LpmTxDone(l, done) ==
    LET l1 == [l EXCEPT !.no_tx = done]
    IN  IF l.wake = "W4_TX_DONE" /\ done
        THEN StartIdleTimer([l1 EXCEPT !.wake = "W4_TIMEOUT"])
        ELSE l1

\* Variant: a device that is awake already is not marked so again.
LpmWakeAssertOnce(l) ==
    LpmTxDone(IF l.state # "DISABLED"
              THEN [StopIdleTimer(l) EXCEPT !.pin = TRUE,
                                            !.wake = IF @ = "DEASSERTED" THEN "ASSERTED" ELSE @]
              ELSE l, FALSE)

LpmWakeAssert(l) ==
    LpmTxDone(IF l.state # "DISABLED"
              THEN [StopIdleTimer(l) EXCEPT !.pin = TRUE, !.wake = "ASSERTED"]
              ELSE l, FALSE)

LpmAllowSleep(l) ==
    IF l.state = "ENABLED" /\ l.wake = "ASSERTED"
    THEN IF l.no_tx THEN StartIdleTimer([l EXCEPT !.wake = "W4_TIMEOUT"])
                    ELSE [l EXCEPT !.wake = "W4_TX_DONE"]
    ELSE l

\* Variant: wake_state is not set when the line goes down.
LpmWakeDeassertOnlyLine(l) ==
    IF l.state = "ENABLED" /\ l.no_tx THEN [l EXCEPT !.pin = FALSE] ELSE l

LpmWakeDeassert(l) ==
    IF l.state = "ENABLED" /\ l.no_tx
    THEN [l EXCEPT !.pin = FALSE, !.wake = "DEASSERTED"]
    ELSE l

\* lpm_enable asks the vendor library unless a request is in progress; a
\* request for the mode already reached is reported and then repeated.
LpmBusy(l) == l.state \notin {"DISABLED", "ENABLED"}
LpmEnable(l, on) ==
    [l EXCEPT !.state = IF on THEN "ENABLING" ELSE "DISABLING",
              !.hal = IF on = (l.state = "ENABLED") THEN on ELSE @]

\* lpm_vnd_cback: the new mode is reported; on DISABLED the timer is deleted
\* and the whole block, timeout_ms included, is cleared.
LpmVndCback(l, ok) ==
    LET on == ok = (l.state = "ENABLING")
    IN  IF on THEN [l EXCEPT !.state = "ENABLED", !.hal = TRUE]
        ELSE [state |-> "DISABLED", wake |-> "DEASSERTED", no_tx |-> FALSE,
              timeout |-> FALSE, timer |-> FALSE, pin |-> l.pin, hal |-> FALSE]

\* lpm_idle_timeout: the callback thread tests the block before signalling.
LpmIdleDue(l) == l.state = "ENABLED" /\ l.wake = "W4_TIMEOUT"
=============================================================================
