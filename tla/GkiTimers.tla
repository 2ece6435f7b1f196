----------------------------- MODULE GkiTimers -----------------------------
(***************************************************************************)
(* The task timers of gki_time.c and the system tick that drives them.     *)
(* The ticks of each timer are brought up to date only when the first of   *)
(* them is due: exp counts down to that moment, orig is what it was set    *)
(* from, so orig - exp ticks are still to be taken off every timer.  With  *)
(* no timer running the tick is stopped after an inactivity delay.         *)
(*                                                                         *)
(* Each call is one step, as gki_time.c assumes of GKI_timer_update ("this *)
(* function cannot be preempted (typical)"); module GkiTick drops that.    *)
(***************************************************************************)
EXTENDS Integers

CONSTANTS Slots,      \* the timers: a task and a timer number each
          Durations,  \* tick counts GKI_start_timer is called with
          MaxTicks,   \* the largest of them
          StopDelay,  \* GKI_DELAY_STOP_SYS_TICK
          MaxInt      \* GKI_MAX_INT32

ASSUME TimersAssumption ==
    /\ MaxTicks \in Nat /\ Durations \subseteq 1 .. MaxTicks
    /\ StopDelay \in Nat /\ StopDelay > 1
    /\ MaxInt \in Nat /\ MaxInt > 2 * MaxTicks + 2

VARIABLES tmr,      \* OSTaskTmr0..2
          reload,   \* OSTaskTmr0R..2R
          exp,      \* OSTicksTilExp
          orig,     \* OSNumOrigTicks
          tilstop,  \* OSTicksTilStop
          running,  \* system_tick_running
          tick,     \* no_timer_suspend: GKI_TIMER_TICK_RUN_COND or _STOP_COND
          fired     \* timer bits set in OSWaitEvt of the timer's task

tickVars  == <<exp, orig, tilstop, running, tick>>
timerVars == <<tmr, reload, tickVars, fired>>

TimersInit ==
    /\ tmr = [s \in Slots |-> 0] /\ reload = [s \in Slots |-> 0]
    /\ exp = 0 /\ orig = 0 /\ tilstop = 0 /\ running = FALSE /\ tick = "RUN" /\ fired = {}

IsTimerRunning(t) == \E s \in Slots : t[s] # 0

\* Variant: the inactivity delay is left running.
RestartTickKeepsDelay ==
    IF IsTimerRunning(tmr) THEN UNCHANGED <<tilstop, running, tick>>
    ELSE /\ UNCHANGED tilstop
         /\ IF tilstop = 0 THEN running' = TRUE /\ tick' = "RUN" ELSE UNCHANGED <<running, tick>>

\* gki_system_tick_start_stop_cback and the inactivity delay, as GKI_start_timer
\* uses them when no timer is running.
RestartTick ==
    IF IsTimerRunning(tmr) THEN UNCHANGED <<tilstop, running, tick>>
    ELSE /\ tilstop' = 0
         /\ IF tilstop = 0 THEN running' = TRUE /\ tick' = "RUN"
                           ELSE UNCHANGED <<running, tick>>

\* Variant: the ticks since the last update are not carried over.
AdjustTimerCountAfresh(n) ==
    IF orig = 0 \/ (n < exp /\ exp > 0) THEN orig' = n /\ exp' = n ELSE UNCHANGED <<orig, exp>>

\* gki_adjust_timer_count.
AdjustTimerCount(n) ==
    IF orig = 0 \/ (n < exp /\ exp > 0)
    THEN orig' = (orig - exp) + n /\ exp' = n
    ELSE UNCHANGED <<orig, exp>>

\* The ticks since the last update are added, up to the largest INT32.
Stretched(n) == IF MaxInt - (orig - exp) > n THEN n + (orig - exp) ELSE MaxInt

GKI_start_timer(s, n, r) ==
    /\ RestartTick
    /\ tmr' = [tmr EXCEPT ![s] = Stretched(n)] /\ reload' = [reload EXCEPT ![s] = r]
    /\ AdjustTimerCount(n)
    /\ UNCHANGED fired

GKI_stop_timer(s) ==
    /\ tmr' = [tmr EXCEPT ![s] = 0] /\ reload' = [reload EXCEPT ![s] = 0]
    /\ tilstop' = IF ~IsTimerRunning(tmr') /\ running = TRUE /\ tilstop = 0 THEN StopDelay ELSE tilstop
    /\ UNCHANGED <<exp, orig, running, tick, fired>>

\* The loop of GKI_timer_update over the timers, d ticks after the last one.
Expired(d)  == {s \in Slots : tmr[s] > 0 /\ tmr[s] - d <= 0}
\* Variant: a continuous timer is not reloaded.
AdvancedOnce(d) == [s \in Slots |-> IF s \in Expired(d) THEN 0
                                    ELSE IF tmr[s] > 0 THEN tmr[s] - d ELSE tmr[s]]

Advanced(d) == [s \in Slots |-> IF s \in Expired(d) THEN reload[s]
                                ELSE IF tmr[s] > 0 THEN tmr[s] - d ELSE tmr[s]]
IsNextExpiration(t, m) ==
    \/ m = 0 /\ \A s \in Slots : t[s] <= 0
    \/ /\ \E s \in Slots : t[s] > 0 /\ t[s] = m
       /\ \A s \in Slots : t[s] > 0 => m <= t[s]
UpdateTimers(d) ==
    /\ tmr' = Advanced(d) /\ fired' = fired \cup Expired(d) /\ UNCHANGED reload
    /\ \E m \in {0} \cup {tmr'[s] : s \in Slots} :
           IsNextExpiration(tmr', m) /\ exp' = m /\ orig' = m

\* GKI_timer_update(1): the inactivity delay runs out and the tick is stopped.
TickStops ==
    /\ tilstop = 1 /\ tilstop' = 0 /\ running' = FALSE /\ tick' = "STOP" /\ exp' = exp - 1
    /\ UNCHANGED <<tmr, reload, orig, fired>>

\* GKI_timer_update(1): the timers are updated when the first one is due.
TickUpdates ==
    /\ tilstop # 1 /\ tilstop' = IF tilstop > 0 THEN tilstop - 1 ELSE 0
    /\ IF exp > 1 THEN exp' = exp - 1 /\ UNCHANGED <<tmr, reload, orig, fired>>
                  ELSE UpdateTimers(orig - (exp - 1))
    /\ UNCHANGED <<running, tick>>

GKI_timer_update == tick = "RUN" /\ (TickStops \/ TickUpdates)

\* GKI_wait of a task returns the events of its timers and clears them.
TakeEvents(S) == fired' = fired \ S /\ UNCHANGED <<tmr, reload, tickVars>>

TimersNext ==
    \/ \E s \in Slots, n \in Durations : GKI_start_timer(s, n, 0) \/ GKI_start_timer(s, n, n)
    \/ \E s \in Slots : GKI_stop_timer(s)
    \/ \E S \in SUBSET fired : TakeEvents(S)
    \/ GKI_timer_update

TimersSpec == TimersInit /\ [][TimersNext]_timerVars

-----------------------------------------------------------------------------
(* Properties.                                                             *)

\* The types of the C variables, with the bounds that keep the additions of
\* GKI_start_timer clear of GKI_MAX_INT32.
TimersTypeOK ==
    /\ tmr \in [Slots -> 0 .. 2 * MaxTicks + 2] /\ reload \in [Slots -> 0 .. MaxTicks]
    /\ exp \in -1 .. MaxTicks /\ orig \in 0 .. MaxTicks + 1 /\ exp <= orig
    /\ \A s \in Slots : tmr[s] - (orig - exp) <= MaxTicks
    /\ tilstop \in 0 .. StopDelay /\ running \in BOOLEAN /\ tick \in {"RUN", "STOP"}
    /\ fired \subseteq Slots

\* While a timer runs the system tick runs, and the inactivity delay that
\* would stop it does not: GKI_start_timer either restarts the tick or clears
\* the delay, whatever stops, expiries and earlier delays came before.
TickRuns == (\E s \in Slots : tmr[s] > 0) => tick = "RUN" /\ tilstop = 0

\* No running timer is overdue, and the update is due no later than the first
\* of them: a countdown is set, what is to be taken off a timer is less than its
\* ticks, and while exp counts down orig does not pass any timer's ticks.
NoTimerOverdue ==
    \A s \in Slots : tmr[s] > 0 =>
        /\ orig > 0 /\ orig - exp < tmr[s]
        /\ exp > 0 => orig <= tmr[s]

\* The strengthening that makes the two invariants above inductive: the delay
\* runs only while system_tick_running, which is set only with the tick, and
\* when it ends nothing is left to be updated.
TimersInv ==
    /\ TimersTypeOK /\ TickRuns /\ NoTimerOverdue
    /\ running = TRUE => tick = "RUN"
    /\ tilstop > 0 => running = TRUE
    /\ tilstop = 1 => exp > 0 \/ orig = 0
    /\ exp = -1 => orig = 0 /\ tick = "STOP"

\* The timers as their users see them.
Left == [s \in Slots |-> IF tmr[s] > 0 THEN tmr[s] - (orig - exp) ELSE 0]
Promise == INSTANCE TaskTimers WITH left <- Left, again <- reload

\* The lazily updated counts implement timers that fire exactly on their tick.
FiresOnTime == Promise!Spec
=============================================================================
