------------------------------ MODULE GkiTick ------------------------------
(***************************************************************************)
(* GkiTimers with GKI_timer_update as it runs in this build: on a thread   *)
(* of its own, which does not take the mutex of GKI_disable (GKI_TIMER_-   *)
(* LIST_NOPREEMPT is FALSE).  The step that stops the system tick is split *)
(* at its reads and writes; GKI_start_timer and GKI_stop_timer run whole,  *)
(* as they do under that mutex, between any two of them.                   *)
(***************************************************************************)
EXTENDS GkiTimers

VARIABLE th  \* where the timer thread is in GKI_timer_update

TickInit == TimersInit /\ th = "sleep"

\* The inactivity delay has been read and runs out with this tick.
DelayRunsOut ==
    /\ th = "sleep" /\ tick = "RUN" /\ tilstop = 1 /\ exp' = exp - 1 /\ th' = "not_running"
    /\ UNCHANGED <<tmr, reload, orig, tilstop, running, tick, fired>>

\* system_tick_running = FALSE, before the callback is called.
NotRunning ==
    /\ th = "not_running" /\ running' = FALSE /\ th' = "stop_tick"
    /\ UNCHANGED <<tmr, reload, exp, orig, tilstop, tick, fired>>

\* gki_system_tick_start_stop_cback(FALSE).
StopTick ==
    /\ th = "stop_tick" /\ tick' = "STOP" /\ th' = "clear_delay"
    /\ UNCHANGED <<tmr, reload, exp, orig, tilstop, running, fired>>

\* OSTicksTilStop = 0, and GKI_timer_update returns.
ClearDelay ==
    /\ th = "clear_delay" /\ tilstop' = 0 /\ th' = "sleep"
    /\ UNCHANGED <<tmr, reload, exp, orig, running, tick, fired>>

\* Any other tick.
OtherTick == th = "sleep" /\ tick = "RUN" /\ TickUpdates /\ UNCHANGED th

StartOrStop ==
    /\ \E s \in Slots : GKI_stop_timer(s) \/ \E n \in Durations : GKI_start_timer(s, n, 0)
    /\ UNCHANGED th

TickNext == DelayRunsOut \/ NotRunning \/ StopTick \/ ClearDelay \/ OtherTick \/ StartOrStop

TickSpec == TickInit /\ [][TickNext]_<<timerVars, th>>

\* The callback that stops the tick changes no_timer_suspend without the mutex:
\* "this can lead to a race condition. however as we only read this variable in
\* the timer loop we should be fine with this approach".  That is so if a timer
\* never runs, once the timer thread is done, with the tick stopped.
TimerHasTick == th = "sleep" /\ (\E s \in Slots : tmr[s] > 0) => tick = "RUN"
=============================================================================
