-------------------------- MODULE GkiTimersProofs --------------------------
(***************************************************************************)
(* GkiTimers for any set of timers, any durations and any inactivity       *)
(* delay: the tick runs while a timer does, no timer becomes overdue, and  *)
(* the lazily updated counts implement the abstract timers of TaskTimers.  *)
(* Then the operations on timer lists, for lists of any length: what they  *)
(* do to the time each entry has to go, and that they keep last_ticks the  *)
(* sum of the ticks.                                                       *)
(***************************************************************************)
EXTENDS GkiTimers, TimerList, SequenceFacts

\* The control block gki_timers_init leaves satisfies the invariant.
LEMMA InitInv == TimersInit => TimersInv
<1> SUFFICES ASSUME TimersInit PROVE TimersInv
  OBVIOUS
<1>1. /\ tmr = [s \in Slots |-> 0] /\ reload = [s \in Slots |-> 0]
      /\ exp = 0 /\ orig = 0 /\ tilstop = 0 /\ running \in BOOLEAN /\ tick \in {"RUN", "STOP"}
      /\ fired \subseteq Slots
  BY Zenon DEF TimersInit
<1>2. tmr \in [Slots -> 0 .. 2 * MaxTicks + 2] /\ reload \in [Slots -> 0 .. MaxTicks]
  BY <1>1, TimersAssumption
<1>3. exp \in -1 .. MaxTicks /\ orig \in 0 .. MaxTicks + 1 /\ exp <= orig /\ tilstop \in 0 .. StopDelay
  BY <1>1, TimersAssumption
<1>4. exp = 0 /\ orig = 0 /\ tilstop = 0 /\ running = FALSE /\ \A s \in Slots : tmr[s] = 0
  BY DEF TimersInit
<1>5. ASSUME NEW s \in Slots PROVE tmr[s] - (orig - exp) <= MaxTicks
  <2>1. tmr[s] = 0 /\ orig = 0 /\ exp = 0
    BY <1>4
  <2>2. QED
    BY <2>1, TimersAssumption
<1>6. TimersTypeOK
  BY <1>1, <1>2, <1>3, <1>5 DEF TimersTypeOK
<1>7. TickRuns /\ NoTimerOverdue
  BY <1>4 DEF TickRuns, NoTimerOverdue
<1>8. QED
  BY <1>4, <1>6, <1>7 DEF TimersInv

\* GKI_start_timer never saturates: the counts stay far from GKI_MAX_INT32.
LEMMA StretchedExact ==
  ASSUME TimersInv, NEW n \in Durations
  PROVE  /\ Stretched(n) = n + (orig - exp)
         /\ Stretched(n) \in 1 .. 2 * MaxTicks + 2
         /\ n \in 1 .. MaxTicks
  BY TimersAssumption DEF TimersInv, TimersTypeOK, Stretched

\* GKI_start_timer, one-shot or continuous, preserves the invariant.
LEMMA StartInv ==
  ASSUME TimersInv, NEW s \in Slots, NEW n \in Durations, NEW r \in {0, n},
         GKI_start_timer(s, n, r)
  PROVE  TimersInv'
<1>1. /\ tmr' = [tmr EXCEPT ![s] = n + (orig - exp)]
      /\ n + (orig - exp) \in 1 .. 2 * MaxTicks + 2
      /\ n \in 1 .. MaxTicks /\ r \in 0 .. MaxTicks
  <2>1. /\ Stretched(n) = n + (orig - exp)
        /\ Stretched(n) \in 1 .. 2 * MaxTicks + 2
        /\ n \in 1 .. MaxTicks
    BY StretchedExact
  <2>2. tmr' = [tmr EXCEPT ![s] = Stretched(n)]
    BY DEF GKI_start_timer
  <2>3. QED
    BY <2>1, <2>2, TimersAssumption
<1>2. tick' = "RUN" /\ tilstop' = 0 /\ running' \in BOOLEAN
  <2>0. RestartTick
    BY DEF GKI_start_timer
  <2>1. CASE IsTimerRunning(tmr)
    <3>1. \E x \in Slots : tmr[x] > 0
      BY <2>1 DEF IsTimerRunning, TimersInv, TimersTypeOK
    <3>2. tick = "RUN" /\ tilstop = 0 /\ running \in BOOLEAN
      BY <3>1 DEF TimersInv, TickRuns, TimersTypeOK
    <3>3. QED
      BY <2>0, <2>1, <3>2 DEF RestartTick
  <2>2. CASE ~IsTimerRunning(tmr) /\ tilstop = 0
    BY <2>0, <2>2 DEF RestartTick
  <2>3. CASE ~IsTimerRunning(tmr) /\ tilstop # 0
    <3>1. tilstop > 0
      BY <2>3 DEF TimersInv, TimersTypeOK
    <3>2. tick = "RUN" /\ running = TRUE
      BY <3>1 DEF TimersInv
    <3>3. QED
      BY <2>0, <2>3, <3>2 DEF RestartTick
  <2>4. QED
    BY <2>1, <2>2, <2>3
<1>3. /\ exp' \in 0 .. MaxTicks /\ orig' \in 0 .. MaxTicks + 1 /\ exp' <= orig'
      /\ orig' - exp' = orig - exp
      /\ exp' > 0 => orig' <= n + (orig - exp)
      /\ exp' > 0 /\ exp > 0 => orig' <= orig
      /\ exp' > 0 /\ exp <= 0 => orig = 0
      /\ orig' > 0 /\ orig \in Int /\ exp \in Int
  BY <1>1, TimersAssumption DEF GKI_start_timer, AdjustTimerCount, TimersInv, TimersTypeOK
<1>4. TimersTypeOK'
  <2>1. tmr' \in [Slots -> 0 .. 2 * MaxTicks + 2] /\ reload' \in [Slots -> 0 .. MaxTicks]
    BY <1>1, TimersAssumption DEF GKI_start_timer, TimersInv, TimersTypeOK
  <2>2. ASSUME NEW x \in Slots PROVE tmr'[x] - (orig - exp) <= MaxTicks
    BY <1>1, TimersAssumption DEF TimersInv, TimersTypeOK
  <2>3. orig' - exp' = orig - exp
    BY <1>3, Zenon
  <2>4. \A x \in Slots : tmr'[x] - (orig' - exp') <= MaxTicks
    BY <2>2, <2>3
  <2>5. tilstop' \in 0 .. StopDelay /\ fired' \subseteq Slots
    BY <1>2, TimersAssumption DEF GKI_start_timer, TimersInv, TimersTypeOK
  <2>6. exp' \in -1 .. MaxTicks /\ orig' \in 0 .. MaxTicks + 1 /\ exp' <= orig'
    BY <1>3, TimersAssumption
  <2>7. QED
    BY <1>2, <2>1, <2>4, <2>5, <2>6 DEF TimersTypeOK
<1>5. NoTimerOverdue'
  <2>1. SUFFICES ASSUME NEW x \in Slots, tmr'[x] > 0
                 PROVE  orig' > 0 /\ orig' - exp' < tmr'[x] /\ (exp' > 0 => orig' <= tmr'[x])
    BY DEF NoTimerOverdue
  <2>2. CASE x = s
    <3>1. tmr'[x] = n + (orig - exp)
      BY <1>1, <2>2 DEF TimersInv, TimersTypeOK
    <3>2. n \in Int /\ n > 0
      BY <1>1, TimersAssumption
    <3>3. orig \in Int /\ exp \in Int
      BY <1>3
    <3>4. orig' - exp' = orig - exp
      BY <1>3, Zenon
    <3>5. orig' - exp' < n + (orig - exp)
      BY <3>2, <3>3, <3>4
    <3>6. orig' > 0 /\ (exp' > 0 => orig' <= n + (orig - exp))
      BY <1>3
    <3>7. QED
      BY <3>1, <3>5, <3>6
  <2>3. CASE x # s
    <3>1. tmr'[x] = tmr[x] /\ tmr[x] > 0 /\ tmr[x] \in Int
      BY <1>1, <2>1, <2>3 DEF TimersInv, TimersTypeOK
    <3>2. orig > 0 /\ orig - exp < tmr[x] /\ (exp > 0 => orig <= tmr[x])
      BY <3>1 DEF TimersInv, NoTimerOverdue
    <3>3. {orig, exp, orig', exp'} \subseteq Int
      BY <1>3, TimersAssumption
    <3>4. orig' - exp' = orig - exp
      BY <1>3, Zenon
    <3>5. orig' - exp' < tmr[x]
      BY <3>2, <3>4
    <3>6. ASSUME exp' > 0 PROVE orig' <= tmr[x]
      <4>1. exp > 0
        BY <1>3, <3>2, <3>3, <3>6
      <4>2. orig' <= orig
        BY <1>3, <3>6, <4>1
      <4>3. orig <= tmr[x]
        BY <3>2, <4>1
      <4>4. QED
        BY <3>1, <3>3, <4>2, <4>3
    <3>7. orig' > 0
      BY <1>3
    <3>8. QED
      BY <3>1, <3>5, <3>6, <3>7
  <2>4. QED
    BY <2>2, <2>3
<1>6. QED
  BY <1>2, <1>3, <1>4, <1>5 DEF TimersInv, TickRuns

\* GKI_stop_timer preserves the invariant.
LEMMA StopInv ==
  ASSUME TimersInv, NEW s \in Slots, GKI_stop_timer(s)
  PROVE  TimersInv'
<1>1. /\ tmr' = [tmr EXCEPT ![s] = 0] /\ reload' = [reload EXCEPT ![s] = 0]
      /\ exp' = exp /\ orig' = orig /\ running' = running /\ tick' = tick /\ fired' = fired
  BY DEF GKI_stop_timer
<1>2. \/ tilstop' = tilstop
      \/ tilstop' = StopDelay /\ running = TRUE /\ tilstop = 0 /\ \A x \in Slots : tmr'[x] = 0
  BY DEF GKI_stop_timer, IsTimerRunning
<1>3. TimersTypeOK'
  <2>1. \A x \in Slots : tmr'[x] - (orig' - exp') <= MaxTicks
    BY <1>1, TimersAssumption DEF TimersInv, TimersTypeOK
  <2>2. QED
    BY <1>1, <1>2, <2>1, TimersAssumption DEF TimersInv, TimersTypeOK
<1>4. \A x \in Slots : tmr'[x] > 0 => tmr'[x] = tmr[x]
  BY <1>1 DEF TimersInv, TimersTypeOK
<1>5. NoTimerOverdue'
  BY <1>1, <1>4 DEF TimersInv, NoTimerOverdue
<1>6. TickRuns'
  <2>1. SUFFICES ASSUME NEW x \in Slots, tmr'[x] > 0
                 PROVE  tick' = "RUN" /\ tilstop' = 0
    BY DEF TickRuns
  <2>2. tick = "RUN" /\ tilstop = 0
    BY <1>4, <2>1 DEF TimersInv, TickRuns
  <2>3. ~(\A y \in Slots : tmr'[y] = 0)
    BY <2>1
  <2>4. QED
    BY <1>1, <1>2, <2>2, <2>3
<1>7. QED
  <2>1. running' = TRUE => tick' = "RUN"
    BY <1>1 DEF TimersInv
  <2>2. tilstop' > 0 => running' = TRUE
    BY <1>1, <1>2 DEF TimersInv
  <2>3. tilstop' = 1 => exp' > 0 \/ orig' = 0
    BY <1>1, <1>2, TimersAssumption DEF TimersInv
  <2>4. exp' = -1 => orig' = 0 /\ tick' = "STOP"
    BY <1>1 DEF TimersInv
  <2>5. QED
    BY <1>3, <1>5, <1>6, <2>1, <2>2, <2>3, <2>4 DEF TimersInv

\* While the inactivity delay runs no timer does.
LEMMA DelayMeansIdle ==
  ASSUME TimersInv, tilstop > 0
  PROVE  \A s \in Slots : tmr[s] = 0
<1>1. ASSUME NEW s \in Slots, tmr[s] > 0 PROVE FALSE
  <2>1. tilstop = 0
    BY <1>1 DEF TimersInv, TickRuns
  <2>2. QED
    BY <2>1
<1>2. ASSUME NEW s \in Slots PROVE tmr[s] = 0
  <2>1. tmr[s] \in 0 .. 2 * MaxTicks + 2
    BY DEF TimersInv, TimersTypeOK
  <2>2. QED
    BY <1>1, <2>1, TimersAssumption
<1>3. QED
  BY <1>2, Zenon

\* The tick that ends the inactivity delay preserves the invariant.
LEMMA TickStopsInv ==
  ASSUME TimersInv, tick = "RUN", TickStops
  PROVE  TimersInv'
<1>1. /\ tilstop = 1 /\ tilstop' = 0 /\ running' = FALSE /\ tick' = "STOP" /\ exp' = exp - 1
      /\ tmr' = tmr /\ reload' = reload /\ orig' = orig /\ fired' = fired
  BY DEF TickStops
<1>2. exp \in 0 .. MaxTicks /\ orig \in 0 .. MaxTicks + 1 /\ exp <= orig
  BY TimersAssumption DEF TimersInv, TimersTypeOK
<1>3. \A s \in Slots : tmr'[s] = 0
  BY <1>1, DelayMeansIdle
<1>4. TimersTypeOK'
  <2>1. ASSUME NEW s \in Slots PROVE tmr'[s] - (orig' - exp') <= MaxTicks
    <3>1. tmr'[s] = 0 /\ orig' = orig /\ exp' = exp - 1
      BY <1>1, <1>3
    <3>2. QED
      BY <1>2, <3>1, TimersAssumption
  <2>2. exp' \in -1 .. MaxTicks /\ exp' <= orig'
    BY <1>1, <1>2, TimersAssumption
  <2>3. running' \in BOOLEAN /\ tick' \in {"RUN", "STOP"}
    BY <1>1, Zenon
  <2>4. /\ tmr' \in [Slots -> 0 .. 2 * MaxTicks + 2] /\ reload' \in [Slots -> 0 .. MaxTicks]
        /\ orig' \in 0 .. MaxTicks + 1 /\ fired' \subseteq Slots
    BY <1>1 DEF TimersInv, TimersTypeOK
  <2>5. tilstop' = 0 /\ tilstop' \in 0 .. StopDelay
    BY <1>1, TimersAssumption
  <2>6. QED
    BY <2>1, <2>2, <2>3, <2>4, <2>5 DEF TimersTypeOK
<1>5. TickRuns' /\ NoTimerOverdue'
  BY <1>3 DEF TickRuns, NoTimerOverdue
<1>6. exp' = -1 => orig' = 0
  BY <1>1, <1>2 DEF TimersInv
<1>7. QED
  BY <1>1, <1>4, <1>5, <1>6 DEF TimersInv

\* What the update finds: it is one tick later than the counts say, every
\* running timer has at least that many ticks, and exactly those with no more
\* expire.
LEMMA UpdateDue ==
  ASSUME TimersInv, tick = "RUN", ~(exp > 1)
  PROVE  /\ orig - (exp - 1) = (orig - exp) + 1
         /\ orig - (exp - 1) \in 1 .. MaxTicks + 2
         /\ \A s \in Slots : tmr[s] > 0 => orig - (exp - 1) <= tmr[s]
<1>1. exp \in 0 .. 1 /\ orig \in 0 .. MaxTicks + 1 /\ exp <= orig
  BY TimersAssumption DEF TimersInv, TimersTypeOK
<1>2. ASSUME NEW s \in Slots, tmr[s] > 0 PROVE orig - (exp - 1) <= tmr[s]
  <2>1. tmr[s] \in Int
    BY DEF TimersInv, TimersTypeOK
  <2>2. orig - exp < tmr[s] /\ (exp > 0 => orig <= tmr[s])
    BY <1>2 DEF TimersInv, NoTimerOverdue
  <2>3. QED
    BY <1>1, <2>1, <2>2, TimersAssumption
<1>3. QED
  BY <1>1, <1>2, TimersAssumption

\* The timers after an update: the ticks of each, and which of them fire.
LEMMA AdvancedTimers ==
  ASSUME TimersInv, tick = "RUN", ~(exp > 1), NEW s \in Slots
  PROVE  LET d == orig - (exp - 1)
         IN  /\ Advanced(d)[s] \in 0 .. MaxTicks
             /\ s \in Expired(d) <=> tmr[s] = d
             /\ tmr[s] = d => Advanced(d)[s] = reload[s]
             /\ tmr[s] > 0 /\ tmr[s] # d => tmr[s] > d /\ Advanced(d)[s] = tmr[s] - d
             /\ tmr[s] = 0 => Advanced(d)[s] = 0
<1> DEFINE d == orig - (exp - 1)
<1>1. d \in 1 .. MaxTicks + 2 /\ (tmr[s] > 0 => d <= tmr[s])
  BY UpdateDue
<1>2. tmr[s] \in 0 .. 2 * MaxTicks + 2 /\ reload[s] \in 0 .. MaxTicks
  BY DEF TimersInv, TimersTypeOK
<1>3. tmr[s] - d < MaxTicks
  <2>1. d = (orig - exp) + 1
    BY UpdateDue
  <2>2. tmr[s] - (orig - exp) <= MaxTicks /\ orig \in Int /\ exp \in Int
    BY DEF TimersInv, TimersTypeOK
  <2>3. QED
    BY <1>2, <2>1, <2>2, TimersAssumption
<1> HIDE DEF d
<1>4. s \in Expired(d) <=> tmr[s] = d
  BY <1>1, <1>2, TimersAssumption DEF Expired
<1>5. Advanced(d)[s] = IF tmr[s] = d THEN reload[s] ELSE IF tmr[s] > 0 THEN tmr[s] - d ELSE tmr[s]
  BY <1>4 DEF Advanced
<1>6. QED
  BY <1>1, <1>2, <1>3, <1>4, <1>5, TimersAssumption DEF d

\* A tick before the first timer is due only counts, and preserves the
\* invariant.
LEMMA TickCountsInv ==
  ASSUME TimersInv, tick = "RUN", TickUpdates, exp > 1
  PROVE  TimersInv'
<1>1. /\ exp' = exp - 1 /\ running' = running /\ tick' = tick
      /\ tmr' = tmr /\ reload' = reload /\ orig' = orig /\ fired' = fired
  BY DEF TickUpdates
<1>2. tilstop' \in 0 .. StopDelay /\ (tilstop' > 0 => tilstop > 0)
  BY TimersAssumption DEF TickUpdates, TimersInv, TimersTypeOK
<1>3. exp \in 2 .. MaxTicks /\ orig \in 0 .. MaxTicks + 1 /\ exp <= orig
  BY TimersAssumption DEF TimersInv, TimersTypeOK
<1>4. exp' \in 1 .. MaxTicks /\ exp' <= orig' /\ exp' \in -1 .. MaxTicks
  BY <1>1, <1>3, TimersAssumption
<1>5. ASSUME NEW s \in Slots
      PROVE  /\ tmr'[s] - (orig' - exp') <= MaxTicks
             /\ tmr'[s] > 0 => orig' > 0 /\ orig' - exp' < tmr'[s] /\ orig' <= tmr'[s]
  <2>1. tmr[s] \in 0 .. 2 * MaxTicks + 2 /\ tmr[s] - (orig - exp) <= MaxTicks
    BY DEF TimersInv, TimersTypeOK
  <2>2. tmr[s] > 0 => orig <= tmr[s]
    BY <1>3, TimersAssumption DEF TimersInv, NoTimerOverdue
  <2>3. QED
    BY <1>1, <1>3, <2>1, <2>2, TimersAssumption
<1>6. TimersTypeOK'
  <2>1. /\ tmr' \in [Slots -> 0 .. 2 * MaxTicks + 2] /\ reload' \in [Slots -> 0 .. MaxTicks]
        /\ orig' \in 0 .. MaxTicks + 1 /\ fired' \subseteq Slots
        /\ running' \in BOOLEAN /\ tick' \in {"RUN", "STOP"}
    BY <1>1 DEF TimersInv, TimersTypeOK
  <2>2. QED
    BY <1>2, <1>4, <1>5, <2>1 DEF TimersTypeOK
<1>7. NoTimerOverdue'
  BY <1>5 DEF NoTimerOverdue
<1>8. TickRuns'
  <2>1. ASSUME NEW s \in Slots, tmr'[s] > 0 PROVE tilstop' = 0
    <3>1. tilstop = 0
      BY <1>1, <2>1 DEF TimersInv, TickRuns
    <3>2. QED
      BY <1>2, <3>1, TimersAssumption
  <2>2. QED
    BY <1>1, <2>1 DEF TickRuns
<1>9. tilstop' > 0 => running' = TRUE
  BY <1>1, <1>2 DEF TimersInv
<1>10. exp' > 0 /\ exp' # -1
  BY <1>4, TimersAssumption
<1>11. QED
  BY <1>1, <1>6, <1>7, <1>8, <1>9, <1>10 DEF TimersInv

\* The tick at which the first timer is due updates all of them, and preserves
\* the invariant.
LEMMA TickUpdatesInv ==
  ASSUME TimersInv, tick = "RUN", TickUpdates, ~(exp > 1)
  PROVE  TimersInv'
<1> DEFINE d == orig - (exp - 1)
<1>1. /\ tmr' = Advanced(d) /\ fired' = fired \cup Expired(d) /\ reload' = reload
      /\ running' = running /\ tick' = tick
  BY DEF TickUpdates, UpdateTimers
<1>2. PICK m \in {0} \cup {tmr'[s] : s \in Slots} :
          IsNextExpiration(tmr', m) /\ exp' = m /\ orig' = m
  BY DEF TickUpdates, UpdateTimers
<1>3. tilstop' \in 0 .. StopDelay /\ (tilstop' > 0 => tilstop > 0)
  BY TimersAssumption DEF TickUpdates, TimersInv, TimersTypeOK
<1>4. \A s \in Slots : tmr'[s] \in 0 .. MaxTicks /\ (tmr[s] = 0 => tmr'[s] = 0)
  BY <1>1, AdvancedTimers
<1>5. tmr' \in [Slots -> 0 .. 2 * MaxTicks + 2]
  <2>1. tmr' = [s \in Slots |-> tmr'[s]]
    BY <1>1 DEF Advanced
  <2>2. \A s \in Slots : tmr'[s] \in 0 .. 2 * MaxTicks + 2
    BY <1>4, TimersAssumption
  <2>3. QED
    BY <2>1, <2>2
<1>6. m \in 0 .. MaxTicks
  BY <1>4, TimersAssumption
<1>7. ASSUME NEW s \in Slots, tmr'[s] > 0
      PROVE  m > 0 /\ m <= tmr'[s] /\ tilstop' = 0
  <2>1. m > 0 /\ m <= tmr'[s]
    <3>1. ~(tmr'[s] <= 0)
      BY <1>4, <1>7, TimersAssumption
    <3>2. QED
      BY <1>2, <1>7, <3>1 DEF IsNextExpiration
  <2>2. tmr[s] > 0
    <3>1. tmr[s] # 0
      BY <1>4, <1>7
    <3>2. QED
      BY <3>1, TimersAssumption DEF TimersInv, TimersTypeOK
  <2>3. tilstop = 0
    BY <2>2 DEF TimersInv, TickRuns
  <2>4. tilstop' = 0
    BY <1>3, <2>3, TimersAssumption
  <2>5. QED
    BY <2>1, <2>4
<1>8. TimersTypeOK'
  <2>1. /\ reload' \in [Slots -> 0 .. MaxTicks] /\ fired' \subseteq Slots
        /\ running' \in BOOLEAN /\ tick' \in {"RUN", "STOP"}
    BY <1>1 DEF TimersInv, TimersTypeOK, Expired
  <2>2. exp' \in -1 .. MaxTicks /\ orig' \in 0 .. MaxTicks + 1 /\ exp' <= orig'
    BY <1>2, <1>6, TimersAssumption
  <2>3. ASSUME NEW s \in Slots PROVE tmr'[s] - (orig' - exp') <= MaxTicks
    BY <1>2, <1>4, <1>6, TimersAssumption
  <2>4. QED
    BY <1>3, <1>5, <2>1, <2>2, <2>3 DEF TimersTypeOK
<1>9. TickRuns'
  BY <1>1, <1>7 DEF TickRuns
<1>10. NoTimerOverdue'
  <2>1. ASSUME NEW s \in Slots, tmr'[s] > 0
        PROVE  orig' > 0 /\ orig' - exp' < tmr'[s] /\ (exp' > 0 => orig' <= tmr'[s])
    <3>1. m > 0 /\ m <= tmr'[s] /\ m \in Int /\ tmr'[s] \in Int
      BY <1>4, <1>6, <1>7, <2>1, TimersAssumption
    <3>2. QED
      BY <1>2, <3>1
  <2>2. QED
    BY <2>1 DEF NoTimerOverdue
<1>11. (exp' > 0 \/ orig' = 0) /\ exp' # -1
  BY <1>2, <1>6, TimersAssumption
<1>12. tilstop' > 0 => running' = TRUE
  BY <1>1, <1>3 DEF TimersInv
<1>13. QED
  BY <1>1, <1>8, <1>9, <1>10, <1>11, <1>12 DEF TimersInv

\* Every step of the timers preserves the invariant.
LEMMA StepInv == TimersInv /\ [TimersNext]_timerVars => TimersInv'
<1> SUFFICES ASSUME TimersInv, [TimersNext]_timerVars PROVE TimersInv'
  OBVIOUS
<1>1. ASSUME NEW s \in Slots, NEW n \in Durations, GKI_start_timer(s, n, 0) \/ GKI_start_timer(s, n, n)
      PROVE  TimersInv'
  BY <1>1, StartInv
<1>2. ASSUME NEW s \in Slots, GKI_stop_timer(s) PROVE TimersInv'
  BY <1>2, StopInv
<1>3. ASSUME NEW S \in SUBSET fired, TakeEvents(S) PROVE TimersInv'
  <2>1. /\ tmr' = tmr /\ reload' = reload /\ exp' = exp /\ orig' = orig /\ tilstop' = tilstop
        /\ running' = running /\ tick' = tick /\ fired' \subseteq fired
    BY <1>3 DEF TakeEvents, tickVars
  <2>2. QED
    BY <2>1 DEF TimersInv, TimersTypeOK, TickRuns, NoTimerOverdue
<1>4. ASSUME GKI_timer_update PROVE TimersInv'
  BY <1>4, TickStopsInv, TickCountsInv, TickUpdatesInv DEF GKI_timer_update
<1>5. ASSUME UNCHANGED timerVars PROVE TimersInv'
  BY <1>5 DEF timerVars, tickVars, TimersInv, TimersTypeOK, TickRuns, NoTimerOverdue
<1>6. QED
  BY <1>1, <1>2, <1>3, <1>4, <1>5 DEF TimersNext

\* TimersInv, and with it the type invariant, holds of every behaviour.
THEOREM TimersInvariant == TimersSpec => []TimersInv
  BY InitInv, StepInv, PTL DEF TimersSpec

\* While a timer runs the tick runs and is not about to be stopped.
THEOREM TickRunsAlways == TimersSpec => []TickRuns
<1>1. TimersInv => TickRuns
  BY DEF TimersInv
<1>2. QED
  BY <1>1, TimersInvariant, PTL

\* No timer is ever overdue.
THEOREM NeverOverdue == TimersSpec => []NoTimerOverdue
<1>1. TimersInv => NoTimerOverdue
  BY DEF TimersInv
<1>2. QED
  BY <1>1, TimersInvariant, PTL

-----------------------------------------------------------------------------
(* The refinement of TaskTimers.                                           *)

\* GKI_start_timer sets the abstract timer to its duration and leaves the
\* others alone, however many ticks have gone by since the last update.
LEMMA StartMaps ==
  ASSUME TimersInv, NEW s \in Slots, NEW n \in Durations, NEW r \in {0, n},
         GKI_start_timer(s, n, r)
  PROVE  Promise!Start(s, n, r)
<1>1. Stretched(n) = n + (orig - exp) /\ n \in 1 .. MaxTicks
  BY StretchedExact
<1>2. orig \in Int /\ exp \in Int /\ orig - exp >= 0
  BY TimersAssumption DEF TimersInv, TimersTypeOK
<1>3. orig' - exp' = orig - exp
  <2>1. AdjustTimerCount(n)
    BY DEF GKI_start_timer
  <2>2. CASE UNCHANGED <<orig, exp>>
    BY <2>2
  <2>3. CASE orig' = (orig - exp) + n /\ exp' = n
    BY <1>1, <1>2, <2>3, TimersAssumption
  <2>4. QED
    BY <2>1, <2>2, <2>3 DEF AdjustTimerCount
<1>4. tmr' = [tmr EXCEPT ![s] = n + (orig - exp)]
  BY <1>1 DEF GKI_start_timer
<1>5. ASSUME NEW x \in Slots PROVE Left'[x] = [Left EXCEPT ![s] = n][x]
  <2>1. tmr'[x] = IF x = s THEN n + (orig - exp) ELSE tmr[x]
    BY <1>4 DEF TimersInv, TimersTypeOK
  <2>2. Left'[x] = IF tmr'[x] > 0 THEN tmr'[x] - (orig - exp) ELSE 0
    BY <1>3 DEF Left
  <2>3. CASE x = s
    <3>1. tmr'[x] > 0 /\ tmr'[x] - (orig - exp) = n
      BY <1>1, <1>2, <2>1, <2>3, TimersAssumption
    <3>2. QED
      BY <2>2, <2>3, <3>1 DEF Left
  <2>4. CASE x # s
    BY <2>1, <2>2, <2>4 DEF Left
  <2>5. QED
    BY <2>3, <2>4
<1>6. Left' = [Left EXCEPT ![s] = n]
  BY <1>5, Zenon DEF Left
<1>7. QED
  BY <1>6 DEF Promise!Start, GKI_start_timer

\* GKI_stop_timer stops the abstract timer and no other.
LEMMA StopMaps ==
  ASSUME TimersInv, NEW s \in Slots, GKI_stop_timer(s)
  PROVE  Promise!Stop(s)
<1>1. tmr' = [tmr EXCEPT ![s] = 0] /\ orig' = orig /\ exp' = exp
  BY DEF GKI_stop_timer
<1>2. Left' = [Left EXCEPT ![s] = 0]
  <2>1. ASSUME NEW x \in Slots PROVE Left'[x] = [Left EXCEPT ![s] = 0][x]
    <3>1. tmr'[x] = IF x = s THEN 0 ELSE tmr[x]
      BY <1>1 DEF TimersInv, TimersTypeOK
    <3>2. QED
      BY <1>1, <3>1 DEF Left
  <2>2. QED
    BY <2>1, Zenon DEF Left
<1>3. QED
  BY <1>2 DEF Promise!Stop, GKI_stop_timer

\* A tick that only counts takes one tick off every running timer, none of
\* which is due.
LEMMA TickCountsMaps ==
  ASSUME TimersInv, tick = "RUN", TickUpdates, exp > 1
  PROVE  Promise!Tick
<1>1. exp' = exp - 1 /\ tmr' = tmr /\ reload' = reload /\ orig' = orig /\ fired' = fired
  BY DEF TickUpdates
<1>2. orig \in Int /\ exp \in Int
  BY TimersAssumption DEF TimersInv, TimersTypeOK
<1>3. ASSUME NEW s \in Slots
      PROVE  /\ Left[s] # 1
             /\ Left'[s] = IF Left[s] > 1 THEN Left[s] - 1 ELSE IF Left[s] = 1 THEN reload[s] ELSE 0
  <2>1. tmr[s] \in Int /\ (tmr[s] > 0 => orig <= tmr[s])
    BY <1>2 DEF TimersInv, TimersTypeOK, NoTimerOverdue
  <2>2. /\ Left[s] = IF tmr[s] > 0 THEN tmr[s] - (orig - exp) ELSE 0
        /\ Left'[s] = IF tmr[s] > 0 THEN tmr[s] - (orig - (exp - 1)) ELSE 0
    BY <1>1 DEF Left
  <2>3. QED
    BY <1>2, <2>1, <2>2
<1>4. Left' = [s \in Slots |-> IF Left[s] > 1 THEN Left[s] - 1
                              ELSE IF Left[s] = 1 THEN reload[s] ELSE 0]
  BY <1>3 DEF Left
<1>5. {s \in Slots : Left[s] = 1} = {}
  BY <1>3
<1>6. QED
  BY <1>1, <1>4, <1>5 DEF Promise!Tick

\* The updating tick fires exactly the timers with one tick left, restarts the
\* continuous ones among them and takes one tick off the others.
LEMMA TickUpdatesMaps ==
  ASSUME TimersInv, tick = "RUN", TickUpdates, ~(exp > 1)
  PROVE  Promise!Tick
<1> DEFINE d == orig - (exp - 1)
<1>1. tmr' = Advanced(d) /\ fired' = fired \cup Expired(d) /\ reload' = reload
  BY DEF TickUpdates, UpdateTimers
<1>2. orig' = exp' /\ exp' \in Int
  <2>1. orig' = exp'
    BY DEF TickUpdates, UpdateTimers
  <2>2. TimersInv'
    BY TickUpdatesInv
  <2>3. exp' \in -1 .. MaxTicks
    BY <2>2 DEF TimersInv, TimersTypeOK
  <2>4. QED
    BY <2>1, <2>3, TimersAssumption
<1>3. orig \in Int /\ exp \in Int /\ d = (orig - exp) + 1
  BY UpdateDue, TimersAssumption DEF TimersInv, TimersTypeOK
<1>4. ASSUME NEW s \in Slots
      PROVE  /\ s \in Expired(d) <=> Left[s] = 1
             /\ Left'[s] = IF Left[s] > 1 THEN Left[s] - 1 ELSE IF Left[s] = 1 THEN reload[s] ELSE 0
  <2>1. /\ Advanced(d)[s] \in 0 .. MaxTicks
        /\ s \in Expired(d) <=> tmr[s] = d
        /\ tmr[s] = d => Advanced(d)[s] = reload[s]
        /\ tmr[s] > 0 /\ tmr[s] # d => tmr[s] > d /\ Advanced(d)[s] = tmr[s] - d
        /\ tmr[s] = 0 => Advanced(d)[s] = 0
    BY AdvancedTimers
  <2>2. tmr[s] \in Nat /\ d > 0
    BY UpdateDue, TimersAssumption DEF TimersInv, TimersTypeOK
  <2>3. Left[s] = IF tmr[s] > 0 THEN tmr[s] - (orig - exp) ELSE 0
    BY DEF Left
  <2>4. Left'[s] = Advanced(d)[s]
    <3>1. Left'[s] = IF Advanced(d)[s] > 0 THEN Advanced(d)[s] - (orig' - exp') ELSE 0
      BY <1>1 DEF Left
    <3>2. QED
      BY <1>2, <2>1, <3>1, TimersAssumption
  <2> HIDE DEF d
  <2>5. CASE tmr[s] = d
    BY <1>3, <2>1, <2>2, <2>3, <2>4, <2>5
  <2>6. CASE tmr[s] > 0 /\ tmr[s] # d
    BY <1>3, <2>1, <2>2, <2>3, <2>4, <2>6
  <2>7. CASE tmr[s] = 0
    BY <1>3, <2>1, <2>2, <2>3, <2>4, <2>7
  <2>8. QED
    BY <2>2, <2>5, <2>6, <2>7
<1>5. Left' = [s \in Slots |-> IF Left[s] > 1 THEN Left[s] - 1
                              ELSE IF Left[s] = 1 THEN reload[s] ELSE 0]
  BY <1>4 DEF Left
<1>6. Expired(d) = {s \in Slots : Left[s] = 1}
  BY <1>4 DEF Expired
<1>7. QED
  BY <1>1, <1>5, <1>6 DEF Promise!Tick

\* Every step of the timers is a step of the abstract timers or a stutter.
LEMMA StepMaps == TimersInv /\ [TimersNext]_timerVars => [Promise!Next]_(Promise!vars)
<1> SUFFICES ASSUME TimersInv, [TimersNext]_timerVars PROVE [Promise!Next]_(Promise!vars)
  OBVIOUS
<1>1. ASSUME NEW s \in Slots, NEW n \in Durations, GKI_start_timer(s, n, 0) \/ GKI_start_timer(s, n, n)
      PROVE  Promise!Next
  BY <1>1, StartMaps DEF Promise!Next
<1>2. ASSUME NEW s \in Slots, GKI_stop_timer(s) PROVE Promise!Next
  BY <1>2, StopMaps DEF Promise!Next
<1>3. ASSUME NEW S \in SUBSET fired, TakeEvents(S) PROVE Promise!Next
  BY <1>3 DEF TakeEvents, tickVars, Left, Promise!Take, Promise!Next
<1>4. ASSUME tick = "RUN", TickStops PROVE UNCHANGED Promise!vars
  <2>1. \A s \in Slots : tmr[s] = 0
    BY <1>4, DelayMeansIdle DEF TickStops
  <2>2. tmr' = tmr /\ reload' = reload /\ fired' = fired
    BY <1>4 DEF TickStops
  <2>3. \A s \in Slots : Left[s] = 0 /\ Left'[s] = 0
    BY <2>1, <2>2 DEF Left
  <2>4. Left' = Left
    BY <2>3 DEF Left
  <2>5. QED
    BY <2>2, <2>4 DEF Promise!vars
<1>5. ASSUME tick = "RUN", TickUpdates PROVE Promise!Next
  BY <1>5, TickCountsMaps, TickUpdatesMaps DEF Promise!Next
<1>6. ASSUME UNCHANGED timerVars PROVE UNCHANGED Promise!vars
  BY <1>6 DEF timerVars, tickVars, Promise!vars, Left
<1>7. QED
  BY <1>1, <1>2, <1>3, <1>4, <1>5, <1>6 DEF TimersNext, GKI_timer_update

\* The lazily updated counts of gki_time.c implement timers that fire exactly
\* on their tick, for every set of timers and every duration.
THEOREM TimersFireOnTime == TimersSpec => FiresOnTime
<1>1. TimersInit => Promise!Init
  BY DEF TimersInit, Left, Promise!Init
<1>2. QED
  BY <1>1, StepMaps, TimersInvariant, PTL DEF TimersSpec, FiresOnTime, Promise!Spec
-----------------------------------------------------------------------------
\* The entries of a list (TIMER_LIST_ENT).
EntriesOf(E) == [id : E, ticks : Nat]

\* What a timer list is made of (TIMER_LIST_Q).
ListsOf(E) == [q : Seq(EntriesOf(E)), last : Nat]

\* f is the running sum of the ticks of q, from the front on.
IsSum(f, q) ==
    /\ f \in [0 .. Len(q) -> Int] /\ f[0] = 0
    /\ \A i \in 1 .. Len(q) : f[i] = f[i - 1] + q[i].ticks

\* The recursion of Total has one solution, the running sum.
LEMMA TotalIsSum ==
  ASSUME NEW q, Len(q) \in Nat, \A i \in 1 .. Len(q) : q[i].ticks \in Int, NEW f, IsSum(f, q),
         NEW i \in 0 .. Len(q)
  PROVE  Total(q, i) = f[i]
PROOF
  <1>1. PICK n \in Nat : n = Len(q)
    OBVIOUS
  <1>2. f \in [0 .. n -> Int] /\ f[0] = 0 /\ \A j \in 1 .. n : f[j] = f[j - 1] + q[j].ticks
    BY <1>1, Zenon DEF IsSum
  <1> DEFINE Sums(h) == h = [j \in 0 .. n |-> IF j = 0 THEN 0 ELSE h[j - 1] + q[j].ticks]
             k == CHOOSE h : Sums(h)
  <1>3. f = [j \in 0 .. n |-> IF j = 0 THEN 0 ELSE f[j - 1] + q[j].ticks]
    BY <1>2
  <1>4. Sums(k)
    BY <1>3, Zenon
  <1>5. Total(q, i) = k[i]
    BY <1>1 DEF Total
  <1> HIDE DEF k
  <1>6. k[0] = 0 /\ \A j \in 1 .. n : k[j] = k[j - 1] + q[j].ticks
    BY <1>4
  <1> DEFINE Q == {j \in Nat : j <= n => k[j] = f[j]}
  <1>7. 0 \in Q
    BY <1>2, <1>6
  <1>8. ASSUME NEW j \in Nat, j \in Q PROVE j + 1 \in Q
    <2> SUFFICES ASSUME j + 1 <= n PROVE k[j + 1] = f[j + 1]
      OBVIOUS
    <2>1. k[j] = f[j] /\ j + 1 \in 1 .. n /\ (j + 1) - 1 = j
      BY <1>8
    <2> QED BY <1>2, <1>6, <2>1
  <1>9. Nat \subseteq Q
    <2> HIDE DEF Q
    <2> QED BY <1>7, <1>8, NatInduct
  <1> QED BY <1>1, <1>5, <1>9

\* Every list has a running sum.
LEMMA SumExists ==
  ASSUME NEW q, Len(q) \in Nat, \A i \in 1 .. Len(q) : q[i].ticks \in Int
  PROVE  \E f : IsSum(f, q)
PROOF
  <1>1. PICK n \in Nat : n = Len(q)
    OBVIOUS
  <1> DEFINE g == [p \in (1 .. n) \X Int |-> p[2] + q[p[1]].ticks]
  <1>2. g \in [(1 .. n) \X Int -> Int]
    BY <1>1
  <1>3. \A i \in 1 .. n, x \in Int : g[<<i, x>>] = x + q[i].ticks
    OBVIOUS
  <1> HIDE DEF g
  <1>4. PICK f : IsRecursive(f, n, Int, 0, g)
    <2> DEFINE S == Int
               b == 0
    <2>1. b \in S /\ g \in [(1 .. n) \X S -> S]
      BY <1>2
    <2> HIDE DEF S, b
    <2>2. \E f : IsRecursive(f, n, S, b, g)
      BY <2>1, RecursiveFcn, Zenon
    <2> QED BY <2>2, Zenon DEF S, b
  <1>5. f \in [0 .. n -> Int] /\ f[0] = 0 /\ \A i \in 1 .. n : f[i] = g[<<i, f[i - 1]>>]
    BY <1>4 DEF IsRecursive
  <1>6. ASSUME NEW i \in 1 .. n PROVE f[i] = f[i - 1] + q[i].ticks
    <2>1. f[i - 1] \in Int
      BY <1>5
    <2>2. f[i] = g[<<i, f[i - 1]>>]
      BY <1>5
    <2> QED BY <1>3, <2>1, <2>2
  <1> QED BY <1>1, <1>5, <1>6 DEF IsSum

\* The sum as gki_time.c walks it: nothing before the first entry, then the
\* ticks of one entry after the other, none of them negative.
LEMMA TotalSteps ==
  ASSUME NEW E, NEW q \in Seq(EntriesOf(E))
  PROVE  /\ Total(q, 0) = 0
         /\ \A i \in 1 .. Len(q) : Total(q, i) = Total(q, i - 1) + q[i].ticks
         /\ \A i \in 0 .. Len(q) : Total(q, i) \in Nat
PROOF
  <1>1. PICK n \in Nat : n = Len(q)
    OBVIOUS
  <1>2. \A i \in 1 .. n : q[i].ticks \in Nat
    <2>1. \A i \in 1 .. n : q[i] \in EntriesOf(E)
      BY <1>1
    <2> QED BY <2>1 DEF EntriesOf
  <1>3. PICK f : IsSum(f, q)
    BY <1>1, <1>2, SumExists
  <1>4. f \in [0 .. n -> Int] /\ f[0] = 0 /\ \A j \in 1 .. n : f[j] = f[j - 1] + q[j].ticks
    BY <1>1, <1>3 DEF IsSum
  <1>5. \A i \in 0 .. n : Total(q, i) = f[i]
    BY <1>1, <1>2, <1>3, TotalIsSum
  <1> DEFINE Q == {j \in Nat : j <= n => f[j] \in Nat}
  <1>6. 0 \in Q
    BY <1>4
  <1>7. ASSUME NEW j \in Nat, j \in Q PROVE j + 1 \in Q
    <2> SUFFICES ASSUME j + 1 <= n PROVE f[j + 1] \in Nat
      OBVIOUS
    <2>1. f[j] \in Nat /\ j + 1 \in 1 .. n /\ (j + 1) - 1 = j
      BY <1>7
    <2>2. f[j + 1] = f[j] + q[j + 1].ticks
      BY <1>4, <2>1
    <2> QED BY <1>2, <2>1, <2>2
  <1>8. Nat \subseteq Q
    <2> HIDE DEF Q
    <2> QED BY <1>6, <1>7, NatInduct
  <1>9. \A i \in 0 .. n : f[i] \in Nat
    BY <1>8
  <1>10. \A i \in 1 .. n : f[i] = f[i - 1] + q[i].ticks /\ i \in 0 .. n /\ i - 1 \in 0 .. n
    BY <1>4
  <1> QED BY <1>1, <1>4, <1>5, <1>9, <1>10

-----------------------------------------------------------------------------
(* Lists.                                                                  *)

\* A timer list as the sequence of its entries.
LEMMA ListFacts ==
  ASSUME NEW E, NEW l, IsTimerList(l, E)
  PROVE  /\ l.q \in Seq(EntriesOf(E)) /\ Len(l.q) \in Nat /\ l.last \in Nat
         /\ \A i \in 1 .. Len(l.q) : l.q[i] \in EntriesOf(E)
         /\ \A i \in 1 .. Len(l.q) : l.q[i].id \in E /\ l.q[i].ticks \in Nat
         /\ \A i, j \in 1 .. Len(l.q) : l.q[i].id = l.q[j].id => i = j
         /\ l.last = Total(l.q, Len(l.q))
PROOF
  <1>1. l.q \in Seq(EntriesOf(E)) /\ l.last \in Nat
    BY DEF IsTimerList, EntriesOf
  <1>2. Len(l.q) \in Nat
    BY <1>1
  <1>3. \A i \in 1 .. Len(l.q) : l.q[i] \in EntriesOf(E)
    BY <1>1
  <1>4. \A i \in 1 .. Len(l.q) : l.q[i].id \in E /\ l.q[i].ticks \in Nat
    BY <1>3 DEF EntriesOf
  <1> QED BY <1>1, <1>2, <1>3, <1>4 DEF IsTimerList

\* GKI_get_remaining_ticks finds an entry by its address: the sum up to it.
LEMMA RemainingAt ==
  ASSUME NEW E, NEW l, IsTimerList(l, E), NEW i \in 1 .. Len(l.q)
  PROVE  l.q[i].id \in IdsOf(l) /\ Remaining(l, l.q[i].id) = Total(l.q, i)
PROOF
  <1> DEFINE t == l.q[i].id
             c == CHOOSE j \in 1 .. Len(l.q) : l.q[j].id = t
  <1>1. t \in IdsOf(l)
    BY DEF IdsOf
  <1>2. c \in 1 .. Len(l.q) /\ l.q[c].id = t
    OBVIOUS
  <1>3. Remaining(l, t) = Total(l.q, c)
    BY <1>1 DEF Remaining
  <1> HIDE DEF c
  <1>4. c = i
    BY <1>2, ListFacts
  <1> QED BY <1>1, <1>3, <1>4

\* Every entry of a list is at some place of it.
LEMMA PlaceOf ==
  ASSUME NEW l, NEW t \in IdsOf(l)
  PROVE  \E i \in 1 .. Len(l.q) : l.q[i].id = t
PROOF
  BY DEF IdsOf

\* The entries of a list are entries of its queue.
LEMMA ListIds ==
  ASSUME NEW E, NEW l, IsTimerList(l, E)
  PROVE  IdsOf(l) \subseteq E
PROOF
  BY ListFacts DEF IdsOf

\* The empty list.
LEMMA EmptyIsList ==
  ASSUME NEW E
  PROVE  IsTimerList(EmptyList, E) /\ IdsOf(EmptyList) = {}
PROOF
  <1>1. EmptyList.q = <<>> /\ EmptyList.last = 0 /\ <<>> \in Seq(EntriesOf(E)) /\ Len(<<>>) = 0
    BY DEF EmptyList
  <1>2. Total(<<>>, 0) = 0
    BY <1>1, TotalSteps, Zenon
  <1>3. EmptyList \in [q : Seq(EntriesOf(E)), last : Nat]
    BY <1>1 DEF EmptyList
  <1> QED BY <1>1, <1>2, <1>3 DEF IsTimerList, IdsOf, EntriesOf

\* No entry is at two places of the list.
Distinct(q) == \A i, j \in 1 .. Len(q) : q[i].id = q[j].id => i = j

\* A list whose sums are f, with its entries distinct and last_ticks the last of
\* the sums, is a timer list, and f has the times to go of its entries.
LEMMA ListBuilt ==
  ASSUME NEW E, NEW l \in ListsOf(E), NEW f, IsSum(f, l.q), Distinct(l.q),
         l.last = f[Len(l.q)]
  PROVE  /\ IsTimerList(l, E)
         /\ \A i \in 1 .. Len(l.q) : Total(l.q, i) = f[i]
PROOF
  <1>1. l.q \in Seq(EntriesOf(E))
    BY DEF ListsOf
  <1>2. Len(l.q) \in Nat
    BY <1>1
  <1>3. \A i \in 1 .. Len(l.q) : l.q[i] \in EntriesOf(E)
    BY <1>1
  <1>4. \A i \in 1 .. Len(l.q) : l.q[i].ticks \in Int
    BY <1>3 DEF EntriesOf
  <1>5. \A i \in 0 .. Len(l.q) : Total(l.q, i) = f[i]
    BY <1>2, <1>4, TotalIsSum
  <1>6. l.last = Total(l.q, Len(l.q))
    BY <1>2, <1>5
  <1>7. l \in [q : Seq([id : E, ticks : Nat]), last : Nat]
    BY DEF EntriesOf, ListsOf
  <1>8. IsTimerList(l, E)
    BY <1>6, <1>7 DEF IsTimerList, Distinct
  <1> QED BY <1>2, <1>5, <1>8

\* The places of a list after the i-th one has been inserted: where the entry
\* now at place j was before.
Before(i, j) == IF j < i THEN j ELSE j - 1

\* List m is l with t put in at place i; f has the sums of m.
Inserts(l, m, i, t, f) ==
    /\ f \in [0 .. Len(l.q) + 1 -> Int] /\ f[0] = 0 /\ m.last = f[Len(m.q)]
    /\ Len(m.q) = Len(l.q) + 1
    /\ \A j \in 1 .. Len(m.q) :
           /\ m.q[j].id = IF j = i THEN t ELSE l.q[Before(i, j)].id
           /\ f[j] = f[j - 1] + m.q[j].ticks
           /\ j # i => f[j] = Total(l.q, Before(i, j))

\* An entry put in at place i, with time n to go, leaves the times of the others
\* alone: list m has the entries of l and t, each with its own sum.
LEMMA InsertedList ==
  ASSUME NEW E, NEW l, IsTimerList(l, E), NEW t \in E, t \notin IdsOf(l), NEW n \in Nat,
         NEW i \in 1 .. Len(l.q) + 1, NEW m \in ListsOf(E), NEW f, Inserts(l, m, i, t, f), f[i] = n
  PROVE  /\ IsTimerList(m, E) /\ IdsOf(m) = IdsOf(l) \cup {t}
         /\ Remaining(m, t) = n
         /\ \A u \in IdsOf(l) : Remaining(m, u) = Remaining(l, u)
PROOF
  <1> USE DEF Inserts
  <1> DEFINE N == Len(l.q)
  <1>1. N \in Nat /\ Len(m.q) = N + 1 /\ i \in 1 .. N + 1
    BY ListFacts
  <1>2. \A j \in 1 .. N : l.q[j].id # t
    BY DEF IdsOf
  <1>3. \A j \in 1 .. N + 1 : j # i => Before(i, j) \in 1 .. N
    BY <1>1 DEF Before
  <1>4. \A j, k \in 1 .. N + 1 : j # i /\ k # i /\ Before(i, j) = Before(i, k) => j = k
    BY <1>1 DEF Before
  <1>5. \A j, k \in 1 .. N : l.q[j].id = l.q[k].id => j = k
    BY ListFacts
  <1>6. IsSum(f, m.q)
    BY <1>1 DEF IsSum
  <1> HIDE DEF N
  <1>7. \A j, k \in 1 .. N + 1 : m.q[j].id = m.q[k].id => j = k
    <2> SUFFICES ASSUME NEW j \in 1 .. N + 1, NEW k \in 1 .. N + 1, m.q[j].id = m.q[k].id
                 PROVE  j = k
      OBVIOUS
    <2>1. m.q[j].id = (IF j = i THEN t ELSE l.q[Before(i, j)].id)
      BY <1>1, Zenon
    <2>2. m.q[k].id = (IF k = i THEN t ELSE l.q[Before(i, k)].id)
      BY <1>1
    <2> QED BY <2>1, <2>2, <1>2, <1>3, <1>4, <1>5, Zenon
  <1>8. IsTimerList(m, E) /\ \A j \in 1 .. N + 1 : Total(m.q, j) = f[j]
    <2>1. Distinct(m.q)
      BY <1>1, <1>7, Zenon DEF Distinct
    <2>2. IsTimerList(m, E) /\ \A j \in 1 .. Len(m.q) : Total(m.q, j) = f[j]
      BY <1>6, <2>1, ListBuilt
    <2> QED BY <1>1, <2>2
  <1>9. m.q[i].id = t /\ Total(m.q, i) = n
    BY <1>1, <1>8
  <1>10. t \in IdsOf(m) /\ Remaining(m, t) = n
    BY <1>1, <1>8, <1>9, RemainingAt
  <1>11. ASSUME NEW u \in IdsOf(l) PROVE u \in IdsOf(m) /\ Remaining(m, u) = Remaining(l, u)
    <2>1. PICK k \in 1 .. N : l.q[k].id = u
      BY PlaceOf DEF N
    <2>2. PICK j \in 1 .. N + 1 : j # i /\ Before(i, j) = k
      <3>1. CASE k < i
        <4>1. k \in 1 .. N + 1 /\ k # i /\ Before(i, k) = k
          BY <1>1, <3>1 DEF Before
        <4> QED BY <4>1
      <3>2. CASE ~(k < i)
        <4>1. k + 1 \in 1 .. N + 1 /\ k + 1 # i /\ Before(i, k + 1) = k
          BY <1>1, <3>2 DEF Before
        <4> QED BY <4>1
      <3> QED BY <3>1, <3>2
    <2>3. m.q[j].id = u /\ f[j] = Total(l.q, k)
      BY <1>1, <2>1, <2>2, Zenon
    <2>4. Total(m.q, j) = Total(l.q, k)
      BY <1>8, <2>3
    <2>5. u \in IdsOf(m) /\ Remaining(m, u) = Total(m.q, j)
      BY <1>1, <1>8, <2>3, RemainingAt, Zenon
    <2>6. Remaining(l, u) = Total(l.q, k)
      BY <2>1, RemainingAt DEF N
    <2> QED BY <2>4, <2>5, <2>6
  <1>12. IdsOf(m) \subseteq IdsOf(l) \cup {t}
    <2> SUFFICES ASSUME NEW u \in IdsOf(m), u # t PROVE u \in IdsOf(l)
      OBVIOUS
    <2>1. PICK j \in 1 .. N + 1 : m.q[j].id = u
      BY <1>1, PlaceOf
    <2>2. j # i /\ l.q[Before(i, j)].id = u
      BY <1>1, <2>1, Zenon
    <2>3. Before(i, j) \in 1 .. N
      BY <1>3, <2>2
    <2> QED BY <2>2, <2>3, Zenon DEF IdsOf, N
  <1> QED BY <1>8, <1>10, <1>11, <1>12

\* The places of a list after the i-th one has been taken out.
Behind(i, j) == IF j < i THEN j ELSE j + 1

\* List m is l with place i taken out; f has the sums of m.
TakesOut(l, m, i, f) ==
    /\ f \in [0 .. Len(l.q) - 1 -> Int] /\ f[0] = 0 /\ m.last = f[Len(m.q)]
    /\ Len(m.q) = Len(l.q) - 1
    /\ \A j \in 1 .. Len(m.q) :
           /\ m.q[j].id = l.q[Behind(i, j)].id
           /\ f[j] = f[j - 1] + m.q[j].ticks
           /\ f[j] = Total(l.q, Behind(i, j))

\* The entry at place i taken out leaves the times of the others alone.
LEMMA RemovedList ==
  ASSUME NEW E, NEW l, IsTimerList(l, E), NEW i \in 1 .. Len(l.q), NEW m \in ListsOf(E),
         NEW f, TakesOut(l, m, i, f)
  PROVE  /\ IsTimerList(m, E) /\ IdsOf(m) = IdsOf(l) \ {l.q[i].id}
         /\ \A u \in IdsOf(m) : Remaining(m, u) = Remaining(l, u)
PROOF
  <1> USE DEF TakesOut
  <1> DEFINE N == Len(l.q)
             M == N - 1
             t == l.q[i].id
  <1>1. N \in Nat /\ M \in Nat /\ Len(m.q) = M /\ N = M + 1 /\ i \in 1 .. N
    BY ListFacts
  <1>2. \A j, k \in 1 .. N : l.q[j].id = l.q[k].id => j = k
    BY ListFacts
  <1>3. \A j \in 1 .. M : Behind(i, j) \in 1 .. N /\ Behind(i, j) # i
    BY <1>1 DEF Behind
  <1>4. \A j, k \in 1 .. M : Behind(i, j) = Behind(i, k) => j = k
    BY <1>1 DEF Behind
  <1>5. IsSum(f, m.q)
    BY <1>1 DEF IsSum
  <1>6. \A j \in 1 .. M : m.q[j].id = l.q[Behind(i, j)].id /\ f[j] = Total(l.q, Behind(i, j))
    BY <1>1
  <1> HIDE DEF N, M
  <1>7. Distinct(m.q)
    <2> SUFFICES ASSUME NEW j \in 1 .. M, NEW k \in 1 .. M, m.q[j].id = m.q[k].id PROVE j = k
      BY <1>1 DEF Distinct
    <2>1. l.q[Behind(i, j)].id = l.q[Behind(i, k)].id
      BY <1>6
    <2>2. Behind(i, j) = Behind(i, k)
      BY <1>2, <1>3, <2>1, Zenon
    <2> QED BY <1>4, <2>2
  <1>8. IsTimerList(m, E) /\ \A j \in 1 .. Len(m.q) : Total(m.q, j) = f[j]
    BY <1>5, <1>7, ListBuilt, Zenon
  <1>9. ASSUME NEW u \in IdsOf(m) PROVE u \in IdsOf(l) \ {t} /\ Remaining(m, u) = Remaining(l, u)
    <2>1. PICK j \in 1 .. M : m.q[j].id = u
      BY <1>1, PlaceOf
    <2>2. PICK k \in 1 .. N : k = Behind(i, j) /\ k # i
      BY <1>3
    <2>3. l.q[k].id = u /\ f[j] = Total(l.q, k)
      BY <1>6, <2>1, <2>2
    <2>4. u # t
      BY <1>1, <1>2, <2>2, <2>3, Zenon
    <2>5. u \in IdsOf(l) /\ Remaining(l, u) = Total(l.q, k)
      BY <2>3, RemainingAt DEF N
    <2>6. Remaining(m, u) = Total(m.q, j)
      BY <1>1, <1>8, <2>1, RemainingAt
    <2>7. Total(m.q, j) = Total(l.q, k)
      BY <1>1, <1>8, <2>3
    <2> QED BY <2>4, <2>5, <2>6, <2>7
  <1>10. ASSUME NEW u \in IdsOf(l), u # t PROVE u \in IdsOf(m)
    <2>1. PICK k \in 1 .. N : l.q[k].id = u
      BY PlaceOf DEF N
    <2>2. PICK j \in 1 .. M : Behind(i, j) = k
      <3>1. CASE k < i
        <4>1. k \in 1 .. M /\ Behind(i, k) = k
          BY <1>1, <3>1 DEF Behind
        <4> QED BY <4>1
      <3>2. CASE ~(k < i)
        <4>1. k - 1 \in 1 .. M /\ Behind(i, k - 1) = k
          BY <1>1, <1>10, <2>1, <3>2 DEF Behind
        <4> QED BY <4>1
      <3> QED BY <3>1, <3>2
    <2>3. m.q[j].id = u
      BY <1>6, <2>1, <2>2
    <2> QED BY <1>1, <2>3 DEF IdsOf
  <1> QED BY <1>8, <1>9, <1>10

\* Time taken off: list m has the entries of l in their places, and x of the
\* time to go of one is what is left of it.
LEMMA UpdatedList ==
  ASSUME NEW E, NEW l, IsTimerList(l, E), NEW k \in Nat, NEW m \in ListsOf(E),
         Len(m.q) = Len(l.q), m.last = Positive(l.last - k),
         \A j \in 1 .. Len(l.q) :
             /\ m.q[j].id = l.q[j].id
             /\ m.q[j].ticks = Positive(l.q[j].ticks - Positive(k - Total(l.q, j - 1)))
  PROVE  /\ IsTimerList(m, E) /\ IdsOf(m) = IdsOf(l)
         /\ \A u \in IdsOf(l) : Remaining(m, u) = Positive(Remaining(l, u) - k)
PROOF
  <1> DEFINE N == Len(l.q)
             T(j) == Total(l.q, j)
             f == [j \in 0 .. N |-> Positive(T(j) - k)]
  <1>1. N \in Nat /\ l.q \in Seq(EntriesOf(E)) /\ l.last = T(N)
    BY ListFacts
  <1>2. T(0) = 0 /\ (\A j \in 0 .. N : T(j) \in Nat) /\ \A j \in 1 .. N : T(j) = T(j - 1) + l.q[j].ticks
    BY <1>1, TotalSteps
  <1>3. \A j \in 1 .. N : l.q[j].ticks \in Nat
    BY ListFacts, Zenon
  <1>4. \A i, j \in 1 .. N : l.q[i].id = l.q[j].id => i = j
    BY ListFacts
  <1> HIDE DEF N, T
  <1>5. f \in [0 .. N -> Int] /\ f[0] = 0
    BY <1>1, <1>2 DEF Positive
  <1>6. ASSUME NEW j \in 1 .. N PROVE f[j] = f[j - 1] + m.q[j].ticks
    <2>1. j \in 0 .. N /\ j - 1 \in 0 .. N
      BY <1>1
    <2>2. f[j] = Positive(T(j) - k) /\ f[j - 1] = Positive(T(j - 1) - k)
      BY <2>1
    <2>3. m.q[j].ticks = Positive(l.q[j].ticks - Positive(k - T(j - 1)))
      BY DEF N, T
    <2>4. T(j) = T(j - 1) + l.q[j].ticks /\ T(j - 1) \in Nat /\ T(j) \in Nat /\ l.q[j].ticks \in Nat
      BY <1>2, <1>3, <2>1
    <2> QED BY <2>2, <2>3, <2>4, SMTT(20) DEF Positive
  <1>7. IsSum(f, m.q)
    BY <1>5, <1>6, Zenon DEF IsSum, N
  <1>8. m.last = f[Len(m.q)]
    <2>1. f[N] = Positive(T(N) - k)
      BY <1>1
    <2> QED BY <1>1, <2>1 DEF N
  <1>9. Distinct(m.q)
    BY <1>4 DEF Distinct, N
  <1> HIDE DEF f
  <1>10. IsTimerList(m, E) /\ \A j \in 1 .. Len(m.q) : Total(m.q, j) = f[j]
    BY <1>7, <1>8, <1>9, ListBuilt
  <1>11. \A j \in 1 .. N : f[j] = Positive(T(j) - k)
    BY <1>1 DEF f
  <1>12. IdsOf(m) = IdsOf(l)
    BY Zenon DEF IdsOf
  <1>13. ASSUME NEW u \in IdsOf(l) PROVE Remaining(m, u) = Positive(Remaining(l, u) - k)
    <2>1. PICK j \in 1 .. Len(l.q) : l.q[j].id = u
      BY PlaceOf
    <2>2. Remaining(l, u) = T(j)
      BY <2>1, RemainingAt DEF T
    <2>3. Remaining(m, u) = Total(m.q, j)
      BY <1>10, <2>1, RemainingAt
    <2>4. Total(m.q, j) = Positive(T(j) - k)
      BY <1>10, <1>11 DEF N
    <2> QED BY <2>2, <2>3, <2>4
  <1> QED BY <1>10, <1>12, <1>13

-----------------------------------------------------------------------------
(* The operations.                                                         *)

\* A sequence r has the elements of s, and e at place i.
HasInserted(r, X, s, i, e) ==
    /\ r \in Seq(X) /\ Len(r) = Len(s) + 1
    /\ \A j \in 1 .. Len(s) + 1 : r[j] = IF j = i THEN e ELSE s[Before(i, j)]

\* The elements of a sequence with one inserted.
LEMMA InsertElements ==
  ASSUME NEW X, NEW s \in Seq(X), NEW i \in 1 .. Len(s), NEW e \in X
  PROVE  HasInserted(InsertAt(s, i, e), X, s, i, e)
PROOF
  <1>1. Len(s) \in Nat /\ \A j \in 1 .. Len(s) : s[j] \in X
    OBVIOUS
  <1> DEFINE n == Len(s)
             a == SubSeq(s, 1, i - 1)
             b == SubSeq(s, i, n)
             m == <<e>>
  <1>2. i \in Int /\ i - 1 \in Int /\ n \in Int /\ 1 <= i /\ i <= n
    BY <1>1
  <1>3. a \in Seq(X) /\ Len(a) = i - 1 /\ \A j \in 1 .. i - 1 : a[j] = s[j]
    BY <1>1, <1>2
  <1>4. b \in Seq(X) /\ Len(b) = n - i + 1 /\ \A j \in 1 .. n - i + 1 : b[j] = s[i + j - 1]
    BY <1>1, <1>2
  <1>5. m \in Seq(X) /\ Len(m) = 1 /\ m[1] = e
    OBVIOUS
  <1>6. InsertAt(s, i, e) = (a \o m) \o b
    BY DEF InsertAt
  <1> HIDE DEF a, b, m, n
  <1>7. /\ a \o m \in Seq(X) /\ Len(a \o m) = Len(a) + Len(m)
        /\ \A j \in 1 .. Len(a) + Len(m) : (a \o m)[j] = IF j <= Len(a) THEN a[j] ELSE m[j - Len(a)]
    BY <1>3, <1>5, Joined, Zenon
  <1> DEFINE c == a \o m
  <1>8. c \in Seq(X) /\ Len(c) = i /\ \A j \in 1 .. i : c[j] = IF j = i THEN e ELSE s[j]
    BY <1>2, <1>3, <1>5, <1>7
  <1> HIDE DEF c
  <1>9. /\ c \o b \in Seq(X) /\ Len(c \o b) = Len(c) + Len(b)
        /\ \A j \in 1 .. Len(c) + Len(b) : (c \o b)[j] = IF j <= Len(c) THEN c[j] ELSE b[j - Len(c)]
    BY <1>4, <1>8, Joined, Zenon
  <1> DEFINE d == c \o b
  <1>10. d \in Seq(X) /\ Len(d) = n + 1
    BY <1>2, <1>4, <1>8, <1>9
  <1>11. ASSUME NEW j \in 1 .. n + 1 PROVE d[j] = IF j = i THEN e ELSE s[Before(i, j)]
    <2>1. j \in 1 .. Len(c) + Len(b) /\ Len(c) = i
      BY <1>2, <1>4, <1>8
    <2>2. CASE j <= i
      <3>1. d[j] = c[j]
        BY <1>9, <2>1, <2>2
      <3> QED BY <1>8, <2>2, <3>1 DEF Before
    <2>3. CASE ~(j <= i)
      <3>1. d[j] = b[j - i]
        BY <1>9, <2>1, <2>3
      <3>2. j - i \in 1 .. n - i + 1 /\ i + (j - i) - 1 = j - 1
        BY <1>2, <2>3
      <3>3. b[j - i] = s[j - 1]
        BY <1>4, <3>2
      <3>4. j # i /\ Before(i, j) = j - 1
        BY <1>2, <2>3 DEF Before
      <3> QED BY <3>1, <3>3, <3>4
    <2> QED BY <2>2, <2>3, Zenon
  <1>12. HasInserted(d, X, s, i, e)
    <2> HIDE DEF d
    <2> QED BY <1>10, <1>11, Zenon DEF HasInserted, n
  <1> QED BY <1>6, <1>12, Zenon DEF c

\* The elements of a sequence with one removed.
LEMMA RemoveElements ==
  ASSUME NEW X, NEW s \in Seq(X), NEW i \in 1 .. Len(s)
  PROVE  /\ RemoveAt(s, i) \in Seq(X) /\ Len(RemoveAt(s, i)) = Len(s) - 1
         /\ \A j \in 1 .. Len(s) - 1 : RemoveAt(s, i)[j] = s[Behind(i, j)]
PROOF
  <1>1. Len(s) \in Nat /\ \A j \in 1 .. Len(s) : s[j] \in X
    OBVIOUS
  <1> DEFINE n == Len(s)
             a == SubSeq(s, 1, i - 1)
             b == SubSeq(s, i + 1, n)
  <1>2. i \in Int /\ i - 1 \in Int /\ i + 1 \in Int /\ n \in Int /\ 1 <= i /\ i <= n
    BY <1>1
  <1>3. a \in Seq(X) /\ Len(a) = i - 1 /\ \A j \in 1 .. i - 1 : a[j] = s[j]
    BY <1>1, <1>2
  <1>4. b \in Seq(X) /\ Len(b) = n - i /\ \A j \in 1 .. n - i : b[j] = s[i + j]
    BY <1>1, <1>2
  <1>5. RemoveAt(s, i) = a \o b
    BY DEF RemoveAt
  <1> HIDE DEF a, b, n
  <1>6. /\ a \o b \in Seq(X) /\ Len(a \o b) = Len(a) + Len(b)
        /\ \A j \in 1 .. Len(a) + Len(b) : (a \o b)[j] = IF j <= Len(a) THEN a[j] ELSE b[j - Len(a)]
    BY <1>3, <1>4, Joined, Zenon
  <1> DEFINE d == a \o b
  <1>7. d \in Seq(X) /\ Len(d) = n - 1
    BY <1>2, <1>3, <1>4, <1>6
  <1>8. ASSUME NEW j \in 1 .. n - 1 PROVE d[j] = s[Behind(i, j)]
    <2>1. j \in 1 .. Len(a) + Len(b) /\ Len(a) = i - 1
      BY <1>2, <1>3, <1>4
    <2>2. CASE j < i
      <3>1. d[j] = a[j]
        BY <1>2, <1>6, <2>1, <2>2
      <3> QED BY <1>2, <1>3, <2>2, <3>1 DEF Behind
    <2>3. CASE ~(j < i)
      <3>1. d[j] = b[j - (i - 1)]
        BY <1>2, <1>6, <2>1, <2>3
      <3>2. j - (i - 1) \in 1 .. n - i /\ i + (j - (i - 1)) = j + 1
        BY <1>2, <2>3
      <3>3. b[j - (i - 1)] = s[j + 1]
        BY <1>4, <3>2, Zenon
      <3> QED BY <2>3, <3>1, <3>3 DEF Behind
    <2> QED BY <2>2, <2>3, Zenon
  <1> QED BY <1>5, <1>7, <1>8 DEF n

\* GKI_update_timer_list takes k units off the time to go of every entry, down
\* to 0, in whatever way they are spread over the differences.
LEMMA UpdateKeeps ==
  ASSUME NEW E, NEW l, IsTimerList(l, E), NEW k \in Nat
  PROVE  /\ IsTimerList(UpdateList(l, k), E) /\ IdsOf(UpdateList(l, k)) = IdsOf(l)
         /\ \A u \in IdsOf(l) : Remaining(UpdateList(l, k), u) = Positive(Remaining(l, u) - k)
         /\ UpdateList(l, k).q = <<>> <=> l.q = <<>>
PROOF
  <1> DEFINE N == Len(l.q)
             X == EntriesOf(E)
             left(j) == Positive(l.q[j].ticks - Positive(k - Total(l.q, j - 1)))
             p == [j \in 1 .. N |-> [l.q[j] EXCEPT !.ticks = left(j)]]
             m == UpdateList(l, k)
  <1>1. N \in Nat /\ l.q \in Seq(X) /\ l.last \in Nat /\ \A j \in 1 .. N : l.q[j] \in X
    BY ListFacts
  <1>2. m.q = p /\ m.last = Positive(l.last - k) /\ m = [q |-> p, last |-> Positive(l.last - k)]
    BY DEF UpdateList
  <1>3. \A j \in 0 .. N : Total(l.q, j) \in Nat
    BY <1>1, TotalSteps
  <1>4. \A j \in 1 .. N : l.q[j].ticks \in Nat
    BY ListFacts
  <1>5. \A j \in 1 .. N : left(j) \in Nat
    <2> SUFFICES ASSUME NEW j \in 1 .. N PROVE left(j) \in Nat
      OBVIOUS
    <2>1. l.q[j].ticks \in Nat /\ Total(l.q, j - 1) \in Nat
      BY <1>1, <1>3, <1>4
    <2> QED BY <2>1 DEF Positive
  <1> HIDE DEF left, m
  <1>6. \A j \in 1 .. N : p[j] \in X /\ p[j].id = l.q[j].id /\ p[j].ticks = left(j)
    BY <1>1, <1>5, Zenon DEF EntriesOf
  <1>7. p \in [1 .. N -> X]
    BY <1>6, Zenon
  <1> HIDE DEF p, N, X
  <1>8. p \in Seq(X) /\ Len(p) = N
    <2>1. p \in Seq(X)
      BY <1>1, <1>7
    <2>2. Len(p) \in Nat /\ 1 .. Len(p) = 1 .. N
      BY <1>7, <2>1
    <2> QED BY <1>1, <2>1, <2>2
  <1>9. m \in ListsOf(E)
    BY <1>1, <1>2, <1>8 DEF ListsOf, Positive, X
  <1>10. /\ Len(m.q) = Len(l.q) /\ m.last = Positive(l.last - k)
    BY <1>2, <1>8 DEF N
  <1>11. \A j \in 1 .. Len(l.q) :
            /\ m.q[j].id = l.q[j].id
            /\ m.q[j].ticks = Positive(l.q[j].ticks - Positive(k - Total(l.q, j - 1)))
    BY <1>2, <1>6 DEF N, left
  <1>12. m.q = <<>> <=> l.q = <<>>
    BY <1>1, <1>2, <1>8 DEF N
  <1> QED BY <1>9, <1>10, <1>11, <1>12, UpdatedList DEF m

\* GKI_remove_from_timer_list takes the entry off the list and leaves the time
\* to go of every other one as it was.
LEMMA RemoveKeeps ==
  ASSUME NEW E, NEW l, IsTimerList(l, E), NEW t
  PROVE  /\ IsTimerList(RemoveEntry(l, t), E) /\ IdsOf(RemoveEntry(l, t)) = IdsOf(l) \ {t}
         /\ \A u \in IdsOf(l) \ {t} : Remaining(RemoveEntry(l, t), u) = Remaining(l, u)
PROOF
  <1>1. CASE t \notin IdsOf(l)
    BY <1>1 DEF RemoveEntry
  <1>2. CASE t \in IdsOf(l)
    <2> DEFINE N == Len(l.q)
               X == EntriesOf(E)
               T(j) == Total(l.q, j)
               i == CHOOSE k \in 1 .. Len(l.q) : l.q[k].id = t
               m == RemoveEntry(l, t)
               f == [j \in 0 .. N - 1 |-> T(Behind(i, j))]
    <2>1. i \in 1 .. N /\ l.q[i].id = t
      BY <1>2, PlaceOf
    <2>0. m = IF i < N
              THEN [l EXCEPT !.q = RemoveAt([l.q EXCEPT ![i + 1].ticks = @ + l.q[i].ticks], i)]
              ELSE [q |-> RemoveAt(l.q, i), last |-> l.last - l.q[i].ticks]
      BY <1>2 DEF RemoveEntry
    <2> HIDE DEF i, m
    <2>2. N \in Nat /\ l.q \in Seq(X) /\ l.last \in Nat /\ l.last = T(N)
      BY ListFacts
    <2>3. \A j \in 1 .. N : l.q[j] \in X /\ l.q[j].ticks \in Nat
      BY ListFacts
    <2>4. T(0) = 0 /\ (\A j \in 0 .. N : T(j) \in Nat) /\ \A j \in 1 .. N : T(j) = T(j - 1) + l.q[j].ticks
      BY <2>2, TotalSteps
    <2>5. CASE i < N
      <3> DEFINE v == l.q[i + 1].ticks + l.q[i].ticks
                 e == [l.q[i + 1] EXCEPT !.ticks = v]
                 p == [l.q EXCEPT ![i + 1] = e]
      <3>1. i + 1 \in 1 .. N /\ v \in Nat
        BY <2>1, <2>2, <2>3, <2>5, SMTT(20)
      <3>2. m = [l EXCEPT !.q = RemoveAt(p, i)]
        BY <2>0, <2>5
      <3>3. e \in X /\ e.id = l.q[i + 1].id /\ e.ticks = v
        <4> HIDE DEF v
        <4> QED BY <2>3, <3>1 DEF EntriesOf
      <3> HIDE DEF v, e, X
      <3>4. p \in Seq(X) /\ Len(p) = N /\ \A j \in 1 .. N : p[j] = IF j = i + 1 THEN e ELSE l.q[j]
        BY <2>2, <3>1, <3>3
      <3> HIDE DEF p, N
      <3>5. RemoveAt(p, i) \in Seq(X) /\ Len(RemoveAt(p, i)) = N - 1 /\ \A j \in 1 .. N - 1 : RemoveAt(p, i)[j] = p[Behind(i, j)]
        BY <2>1, <3>4, RemoveElements, Zenon
      <3>6. m.q = RemoveAt(p, i) /\ m.last = l.last /\ m \in ListsOf(E)
        BY <2>2, <3>2, <3>5, Zenon DEF ListsOf, X, IsTimerList
      <3>7. \A j \in 1 .. N - 1 : m.q[j] = IF j = i THEN e ELSE l.q[Behind(i, j)]
        <4> SUFFICES ASSUME NEW j \in 1 .. N - 1 PROVE m.q[j] = IF j = i THEN e ELSE l.q[Behind(i, j)]
          OBVIOUS
        <4>1. Behind(i, j) \in 1 .. N /\ (Behind(i, j) = i + 1 <=> j = i)
          BY <2>1, <2>2 DEF Behind
        <4> QED BY <3>4, <3>5, <3>6, <4>1
      <3>8. f \in [0 .. N - 1 -> Int] /\ f[0] = 0 /\ f[N - 1] = T(N)
        <4> HIDE DEF T
        <4>1. \A j \in 0 .. N - 1 : Behind(i, j) \in 0 .. N
          BY <2>1, <2>2 DEF Behind
        <4>2. Behind(i, 0) = 0 /\ Behind(i, N - 1) = N /\ 0 \in 0 .. N - 1 /\ N - 1 \in 0 .. N - 1
          BY <2>1, <2>2, <2>5 DEF Behind
        <4> QED BY <2>4, <4>1, <4>2
      <3>9. ASSUME NEW j \in 1 .. N - 1
            PROVE  /\ m.q[j].id = l.q[Behind(i, j)].id /\ f[j] = T(Behind(i, j))
                   /\ f[j] = f[j - 1] + m.q[j].ticks
        <4> HIDE DEF T
        <4>1. j \in 0 .. N - 1 /\ j - 1 \in 0 .. N - 1
          BY <2>2
        <4>2. f[j] = T(Behind(i, j)) /\ f[j - 1] = T(Behind(i, j - 1))
          BY <4>1
        <4> HIDE DEF f
        <4>3. CASE j < i
          <5>1. Behind(i, j) = j /\ Behind(i, j - 1) = j - 1 /\ j # i /\ j \in 1 .. N
            BY <2>1, <2>2, <4>3 DEF Behind
          <5>2. m.q[j] = l.q[j]
            BY <3>7, <5>1
          <5>3. T(j) = T(j - 1) + l.q[j].ticks
            BY <2>4, <5>1
          <5> QED BY <4>2, <5>1, <5>2, <5>3
        <4>4. CASE j = i
          <5>1. Behind(i, j) = i + 1 /\ Behind(i, j - 1) = i - 1 /\ i \in 1 .. N /\ i + 1 \in 1 .. N
            BY <2>1, <2>2, <4>4 DEF Behind
          <5>2. m.q[j] = e
            BY <3>7, <4>4
          <5>3. T(i) = T(i - 1) + l.q[i].ticks /\ T(i + 1) = T(i) + l.q[i + 1].ticks
            BY <2>4, <5>1
          <5>4. T(i - 1) \in Nat /\ l.q[i].ticks \in Nat /\ l.q[i + 1].ticks \in Nat
            <6>1. i - 1 \in 0 .. N
              BY <2>2, <5>1
            <6> QED BY <2>3, <2>4, <5>1, <6>1
          <5>5. T(i + 1) = T(i - 1) + v
            BY <5>3, <5>4 DEF v
          <5> QED BY <3>3, <4>2, <5>1, <5>2, <5>5
        <4>5. CASE j > i
          <5>1. Behind(i, j) = j + 1 /\ Behind(i, j - 1) = j /\ j # i /\ j + 1 \in 1 .. N /\ (j + 1) - 1 = j
            BY <2>1, <2>2, <4>5 DEF Behind
          <5>2. m.q[j] = l.q[j + 1]
            BY <3>7, <5>1
          <5>3. T(j + 1) = T(j) + l.q[j + 1].ticks
            BY <2>4, <5>1
          <5> QED BY <4>2, <5>1, <5>2, <5>3
        <4>6. j < i \/ j = i \/ j > i
          BY <2>1, <2>2
        <4> QED BY <4>3, <4>4, <4>5, <4>6
      <3> HIDE DEF f
      <3>10. Len(m.q) = Len(l.q) - 1 /\ m.last = f[Len(m.q)] /\ f \in [0 .. Len(l.q) - 1 -> Int]
        BY <2>2, <3>5, <3>6, <3>8, Zenon DEF N
      <3>11. \A j \in 1 .. Len(m.q) : /\ m.q[j].id = l.q[Behind(i, j)].id
                                     /\ f[j] = f[j - 1] + m.q[j].ticks
                                     /\ f[j] = Total(l.q, Behind(i, j))
        BY <3>5, <3>6, <3>9
      <3>12. TakesOut(l, m, i, f) /\ i \in 1 .. Len(l.q)
        BY <2>1, <3>8, <3>10, <3>11, Zenon DEF N, TakesOut
      <3>13. /\ IsTimerList(m, E) /\ IdsOf(m) = IdsOf(l) \ {l.q[i].id}
             /\ \A u \in IdsOf(m) : Remaining(m, u) = Remaining(l, u)
        BY <3>6, <3>12, RemovedList
      <3> QED BY <2>1, <3>13 DEF m
    <2>6. CASE i = N
      <3>1. m = [q |-> RemoveAt(l.q, i), last |-> l.last - l.q[i].ticks]
        <4>1. ~(i < N)
          BY <2>2, <2>6
        <4> QED BY <2>0, <4>1
      <3> HIDE DEF X, N
      <3>2. RemoveAt(l.q, i) \in Seq(X) /\ Len(RemoveAt(l.q, i)) = N - 1 /\ \A j \in 1 .. N - 1 : RemoveAt(l.q, i)[j] = l.q[Behind(i, j)]
        BY <2>1, <2>2, RemoveElements, Zenon DEF N
      <3>3. l.last - l.q[i].ticks = T(N - 1) /\ T(N - 1) \in Nat
        <4> HIDE DEF T
        <4>1. T(N) = T(N - 1) + l.q[N].ticks /\ T(N - 1) \in Nat /\ l.q[N].ticks \in Nat
          BY <2>1, <2>2, <2>3, <2>4, <2>6, SMTT(20)
        <4> QED BY <2>2, <2>6, <4>1
      <3>4. m.q = RemoveAt(l.q, i) /\ m.last = T(N - 1) /\ m \in ListsOf(E)
        BY <3>1, <3>2, <3>3, Zenon DEF ListsOf, X
      <3>5. f \in [0 .. N - 1 -> Int] /\ f[0] = 0 /\ f[N - 1] = T(N - 1) /\ \A j \in 0 .. N - 1 : f[j] = T(j)
        <4> HIDE DEF T
        <4>1. \A j \in 0 .. N - 1 : Behind(i, j) = j /\ j \in 0 .. N
          BY <2>1, <2>2, <2>6 DEF Behind
        <4>2. 0 \in 0 .. N - 1 /\ N - 1 \in 0 .. N - 1
          BY <2>1, <2>2
        <4> QED BY <2>4, <4>1, <4>2
      <3>6. ASSUME NEW j \in 1 .. N - 1
            PROVE  /\ m.q[j].id = l.q[Behind(i, j)].id /\ f[j] = T(Behind(i, j))
                   /\ f[j] = f[j - 1] + m.q[j].ticks
        <4> HIDE DEF T, f
        <4>1. j \in 0 .. N - 1 /\ j - 1 \in 0 .. N - 1 /\ j \in 1 .. N /\ Behind(i, j) = j
          BY <2>1, <2>2, <2>6 DEF Behind
        <4>2. f[j] = T(j) /\ f[j - 1] = T(j - 1)
          BY <3>5, <4>1
        <4>3. m.q[j] = l.q[j]
          BY <3>2, <3>4, <4>1
        <4>4. T(j) = T(j - 1) + l.q[j].ticks
          BY <2>4, <4>1
        <4> QED BY <4>1, <4>2, <4>3, <4>4
      <3> HIDE DEF f
      <3>10. Len(m.q) = Len(l.q) - 1 /\ m.last = f[Len(m.q)] /\ f \in [0 .. Len(l.q) - 1 -> Int]
        BY <3>2, <3>4, <3>5, Zenon DEF N
      <3>11. \A j \in 1 .. Len(m.q) : /\ m.q[j].id = l.q[Behind(i, j)].id
                                     /\ f[j] = f[j - 1] + m.q[j].ticks
                                     /\ f[j] = Total(l.q, Behind(i, j))
        BY <3>2, <3>4, <3>6, Zenon
      <3>12. TakesOut(l, m, i, f) /\ i \in 1 .. Len(l.q)
        BY <2>1, <3>5, <3>10, <3>11, Zenon DEF N, TakesOut
      <3>13. /\ IsTimerList(m, E) /\ IdsOf(m) = IdsOf(l) \ {l.q[i].id}
             /\ \A u \in IdsOf(m) : Remaining(m, u) = Remaining(l, u)
        BY <3>4, <3>12, RemovedList
      <3> QED BY <2>1, <3>13 DEF m
    <2>7. i < N \/ i = N
      BY <2>1, <2>2
    <2> QED BY <2>5, <2>6, <2>7
  <1> QED BY <1>1, <1>2

\* The place GKI_add_to_timer_list looks for exists when the new entry expires
\* before the last one: the first entry whose expiry is not before n.
LEMMA AddPlace ==
  ASSUME NEW E, NEW l, IsTimerList(l, E), NEW n \in Nat, n < l.last
  PROVE  \E k \in 1 .. Len(l.q) :
             /\ n - Total(l.q, k - 1) <= l.q[k].ticks
             /\ \A j \in 1 .. k - 1 : n - Total(l.q, j - 1) > l.q[j].ticks
PROOF
  <1> DEFINE N == Len(l.q)
             T(j) == Total(l.q, j)
             K == {k \in 1 .. N : n <= T(k)}
  <1>1. N \in Nat /\ l.q \in Seq(EntriesOf(E)) /\ l.last = T(N)
    BY ListFacts
  <1>2. T(0) = 0 /\ (\A j \in 0 .. N : T(j) \in Nat) /\ \A j \in 1 .. N : T(j) = T(j - 1) + l.q[j].ticks
    BY <1>1, TotalSteps
  <1>3. \A j \in 1 .. N : l.q[j].ticks \in Nat
    BY ListFacts
  <1> HIDE DEF N, T
  <1>4. \A j \in 1 .. N : n <= T(j) <=> n - T(j - 1) <= l.q[j].ticks
    <2> SUFFICES ASSUME NEW j \in 1 .. N PROVE n <= T(j) <=> n - T(j - 1) <= l.q[j].ticks
      OBVIOUS
    <2>1. T(j - 1) \in Nat /\ l.q[j].ticks \in Nat /\ T(j) = T(j - 1) + l.q[j].ticks
      BY <1>1, <1>2, <1>3
    <2> QED BY <2>1
  <1>5. K \subseteq Nat /\ K # {}
    <2>1. N # 0 /\ n <= T(N)
      BY <1>1, <1>2
    <2>2. N \in K
      BY <1>1, <2>1
    <2> QED BY <2>2
  <1>6. PICK k \in K : \A j \in K : k <= j
    BY <1>5, LeastNatural, Zenon
  <1>7. k \in 1 .. N /\ n - T(k - 1) <= l.q[k].ticks
    BY <1>4
  <1>8. ASSUME NEW j \in 1 .. k - 1 PROVE n - T(j - 1) > l.q[j].ticks
    <2>1. j \in 1 .. N /\ ~(k <= j)
      BY <1>1, <1>7
    <2>2. j \notin K
      BY <1>6, <2>1
    <2>3. ~(n - T(j - 1) <= l.q[j].ticks)
      BY <1>4, <2>1, <2>2
    <2>4. T(j - 1) \in Nat /\ l.q[j].ticks \in Nat
      BY <1>1, <1>2, <1>3, <2>1, SMTT(20)
    <2> QED BY <2>3, <2>4
  <1> QED BY <1>7, <1>8, Zenon DEF N, T

\* GKI_add_to_timer_list gives the new entry n units to go and leaves the time
\* of every other one as it was, wherever its place is.
LEMMA AddKeeps ==
  ASSUME NEW E, NEW l, IsTimerList(l, E), NEW t \in E, t \notin IdsOf(l), NEW n \in Nat
  PROVE  /\ IsTimerList(AddEntry(l, t, n), E) /\ IdsOf(AddEntry(l, t, n)) = IdsOf(l) \cup {t}
         /\ Remaining(AddEntry(l, t, n), t) = n
         /\ \A u \in IdsOf(l) : Remaining(AddEntry(l, t, n), u) = Remaining(l, u)
PROOF
  <1> DEFINE N == Len(l.q)
             X == EntriesOf(E)
             T(j) == Total(l.q, j)
             m == AddEntry(l, t, n)
  <1>1. N \in Nat /\ l.q \in Seq(X) /\ l.last \in Nat /\ l.last = T(N)
    BY ListFacts
  <1>2. \A j \in 1 .. N : l.q[j] \in X /\ l.q[j].ticks \in Nat
    BY ListFacts
  <1>3. T(0) = 0 /\ (\A j \in 0 .. N : T(j) \in Nat) /\ \A j \in 1 .. N : T(j) = T(j - 1) + l.q[j].ticks
    BY <1>1, TotalSteps
  <1>4. CASE n >= l.last
    <2> DEFINE v == n - l.last
               e == [id |-> t, ticks |-> v]
               f == [j \in 0 .. N + 1 |-> IF j = N + 1 THEN n ELSE T(j)]
    <2>1. v \in Nat /\ n = T(N) + v
      <3>1. PICK z \in Nat : z = l.last /\ z = T(N) /\ n >= z
        BY <1>1, <1>4, Zenon
      <3>2. \A a \in Nat, b \in Nat : a >= b => a - b \in Nat /\ a = b + (a - b)
        OBVIOUS
      <3>3. n - z \in Nat /\ n = z + (n - z)
        BY <3>1, <3>2, Zenon
      <3> QED BY <3>1, <3>3, Zenon
    <2>2. m = [q |-> Append(l.q, e), last |-> n]
      BY <1>4 DEF AddEntry
    <2> HIDE DEF v, m
    <2>3. e \in X /\ e.id = t /\ e.ticks = v
      BY <2>1 DEF EntriesOf
    <2> HIDE DEF e, X, N
    <2>4. /\ Append(l.q, e) \in Seq(X) /\ Len(Append(l.q, e)) = N + 1 /\ Append(l.q, e)[N + 1] = e
          /\ \A j \in 1 .. N : Append(l.q, e)[j] = l.q[j]
      BY <1>1, <2>3 DEF N
    <2>5. m.q = Append(l.q, e) /\ m.last = n /\ m \in ListsOf(E)
      BY <2>2, <2>4 DEF ListsOf, X
    <2> HIDE DEF T
    <2>6. f \in [0 .. N + 1 -> Int] /\ f[0] = 0 /\ f[N + 1] = n /\ \A j \in 0 .. N : f[j] = T(j)
      <3>1. \A j \in 0 .. N : j # N + 1 /\ j \in 0 .. N + 1
        BY <1>1
      <3>2. 0 \in 0 .. N /\ N + 1 \in 0 .. N + 1 /\ \A j \in 0 .. N + 1 : j = N + 1 \/ j \in 0 .. N
        BY <1>1
      <3> QED BY <1>3, <3>1, <3>2
    <2> HIDE DEF f
    <2>7. ASSUME NEW j \in 1 .. N + 1
          PROVE  /\ m.q[j].id = IF j = N + 1 THEN t ELSE l.q[Before(N + 1, j)].id
                 /\ f[j] = f[j - 1] + m.q[j].ticks
                 /\ j # N + 1 => f[j] = T(Before(N + 1, j))
      <3>1. CASE j = N + 1
        <4>1. j - 1 = N /\ N \in 0 .. N
          BY <1>1, <3>1
        <4>2. m.q[j] = e /\ f[j] = n /\ f[j - 1] = T(N)
          BY <2>4, <2>5, <2>6, <3>1, <4>1
        <4> QED BY <2>1, <2>3, <3>1, <4>2
      <3>2. CASE j # N + 1
        <4>1. j \in 1 .. N /\ j \in 0 .. N /\ j - 1 \in 0 .. N /\ Before(N + 1, j) = j
          BY <1>1, <3>2 DEF Before
        <4>2. m.q[j] = l.q[j] /\ f[j] = T(j) /\ f[j - 1] = T(j - 1)
          BY <2>4, <2>5, <2>6, <4>1
        <4>3. T(j) = T(j - 1) + l.q[j].ticks
          BY <1>3, <4>1
        <4> QED BY <3>2, <4>1, <4>2, <4>3
      <3> QED BY <3>1, <3>2
    <2>8. Inserts(l, m, N + 1, t, f)
      <3>1. Len(m.q) = N + 1 /\ m.last = f[Len(m.q)]
        BY <2>4, <2>5, <2>6
      <3> QED BY <2>6, <2>7, <3>1 DEF Inserts, N, T
    <2>9. N + 1 \in 1 .. Len(l.q) + 1
      BY <1>1 DEF N
    <2>10. /\ IsTimerList(m, E) /\ IdsOf(m) = IdsOf(l) \cup {t} /\ Remaining(m, t) = n
           /\ \A u \in IdsOf(l) : Remaining(m, u) = Remaining(l, u)
      <3> DEFINE i == N + 1
      <3>1. i \in 1 .. Len(l.q) + 1 /\ Inserts(l, m, i, t, f) /\ f[i] = n
        BY <2>6, <2>8, <2>9
      <3> HIDE DEF i
      <3> QED BY <2>5, <3>1, InsertedList
    <2> QED BY <2>10 DEF m
  <1>5. CASE n < l.last
    <2> DEFINE i == CHOOSE k \in 1 .. Len(l.q) :
                        /\ n - Total(l.q, k - 1) <= l.q[k].ticks
                        /\ \A j \in 1 .. k - 1 : n - Total(l.q, j - 1) > l.q[j].ticks
               v == n - T(i - 1)
               w == l.q[i].ticks - v
               e == [id |-> t, ticks |-> v]
               d == [l.q[i] EXCEPT !.ticks = w]
               p == [l.q EXCEPT ![i] = d]
               f == [j \in 0 .. N + 1 |-> IF j = i THEN n ELSE T(Before(i, j))]
    <2>1. i \in 1 .. N /\ n - T(i - 1) <= l.q[i].ticks /\ \A j \in 1 .. i - 1 : n - T(j - 1) > l.q[j].ticks
      BY <1>5, AddPlace, Zenon
    <2>2. m = [l EXCEPT !.q = InsertAt([l.q EXCEPT ![i].ticks = @ - (n - Total(l.q, i - 1))], i,
                                      [id |-> t, ticks |-> n - Total(l.q, i - 1)])]
      <3>1. ~(n >= l.last)
        BY <1>1, <1>5
      <3> QED BY <3>1, Zenon DEF AddEntry
    <2> HIDE DEF i, m
    <2>3. m = [l EXCEPT !.q = InsertAt(p, i, e)]
      BY <2>2
    <2>4. T(i - 1) \in Nat /\ l.q[i].ticks \in Nat /\ T(i) = T(i - 1) + l.q[i].ticks /\ i - 1 \in 0 .. N
      <3>1. i - 1 \in 0 .. N
        BY <1>1, <2>1
      <3> QED BY <1>2, <1>3, <2>1, <3>1
    <2>5. v \in Nat
      <3>1. CASE i = 1
        <4>1. T(i - 1) = 0
          BY <1>3, <3>1
        <4> QED BY <4>1
      <3>2. CASE i # 1
        <4>1. i - 1 \in 1 .. i - 1 /\ i - 1 \in 1 .. N /\ (i - 1) - 1 \in 0 .. N
          BY <1>1, <2>1, <3>2
        <4>2. n - T((i - 1) - 1) > l.q[i - 1].ticks
          BY <2>1, <4>1
        <4>3. T(i - 1) = T((i - 1) - 1) + l.q[i - 1].ticks /\ T((i - 1) - 1) \in Nat /\ l.q[i - 1].ticks \in Nat
          BY <1>2, <1>3, <4>1
        <4> HIDE DEF T
        <4> QED BY <4>2, <4>3
      <3> QED BY <3>1, <3>2
    <2>6. w \in Nat /\ n = T(i - 1) + v /\ T(i) = n + w
      <3> HIDE DEF T
      <3> QED BY <2>1, <2>4
    <2>7. e \in X /\ e.id = t /\ e.ticks = v
      <3> HIDE DEF v
      <3> QED BY <2>5 DEF EntriesOf
    <2>8. d \in X /\ d.id = l.q[i].id /\ d.ticks = w
      <3> HIDE DEF w
      <3> QED BY <1>2, <2>1, <2>6 DEF EntriesOf
    <2> HIDE DEF v, w, e, d, X
    <2>9. p \in Seq(X) /\ Len(p) = N /\ \A j \in 1 .. N : p[j] = IF j = i THEN d ELSE l.q[j]
      BY <1>1, <2>1, <2>8
    <2> HIDE DEF p, N, T
    <2>10. /\ InsertAt(p, i, e) \in Seq(X) /\ Len(InsertAt(p, i, e)) = N + 1
           /\ \A j \in 1 .. N + 1 : InsertAt(p, i, e)[j] = IF j = i THEN e ELSE p[Before(i, j)]
      <3>1. p \in Seq(X) /\ i \in 1 .. Len(p) /\ e \in X
        BY <2>1, <2>7, <2>9
      <3>2. HasInserted(InsertAt(p, i, e), X, p, i, e)
        BY <3>1, InsertElements, Zenon
      <3> QED BY <2>9, <3>2, Zenon DEF HasInserted
    <2>11. m.q = InsertAt(p, i, e) /\ m.last = l.last /\ m \in ListsOf(E)
      BY <1>1, <2>3, <2>10 DEF ListsOf, X, IsTimerList
    <2>12. f \in [0 .. N + 1 -> Int] /\ f[0] = 0 /\ f[N + 1] = T(N) /\ f[i] = n
      <3>1. \A j \in 0 .. N + 1 : j # i => Before(i, j) \in 0 .. N
        BY <1>1, <2>1 DEF Before
      <3>2. /\ Before(i, 0) = 0 /\ Before(i, N + 1) = N /\ 0 \in 0 .. N + 1 /\ N + 1 \in 0 .. N + 1
            /\ i \in 0 .. N + 1 /\ 0 # i /\ N + 1 # i
        BY <1>1, <2>1 DEF Before
      <3> QED BY <1>3, <3>1, <3>2
    <2>13. \A j \in 0 .. N + 1 : j # i => f[j] = T(Before(i, j))
      OBVIOUS
    <2> HIDE DEF f
    <2>14. ASSUME NEW j \in 1 .. N + 1
           PROVE  /\ m.q[j].id = IF j = i THEN t ELSE l.q[Before(i, j)].id
                  /\ f[j] = f[j - 1] + m.q[j].ticks
                  /\ j # i => f[j] = T(Before(i, j))
      <3>0. j \in 0 .. N + 1 /\ j - 1 \in 0 .. N + 1
        BY <1>1
      <3>1. CASE j = i
        <4>1. j - 1 # i /\ Before(i, j - 1) = i - 1
          BY <1>1, <3>1 DEF Before
        <4>2. m.q[j] = e /\ f[j] = n /\ f[j - 1] = T(i - 1)
          BY <2>10, <2>11, <2>12, <2>13, <3>0, <3>1, <4>1
        <4> QED BY <2>6, <2>7, <3>1, <4>2
      <3>2. CASE j = i + 1
        <4>1. Before(i, j) = i /\ j - 1 = i /\ j # i /\ i \in 1 .. N
          BY <1>1, <2>1, <3>2 DEF Before
        <4>2. m.q[j] = d /\ f[j] = T(i) /\ f[j - 1] = n
          BY <2>9, <2>10, <2>11, <2>12, <2>13, <3>0, <4>1, SMTT(20)
        <4> QED BY <2>6, <2>8, <4>1, <4>2
      <3>3. CASE j # i /\ j # i + 1
        <4>1. Before(i, j) # i /\ Before(i, j) \in 1 .. N /\ j - 1 # i /\ Before(i, j - 1) = Before(i, j) - 1
          BY <1>1, <2>1, <3>3 DEF Before
        <4>2. m.q[j] = l.q[Before(i, j)] /\ f[j] = T(Before(i, j)) /\ f[j - 1] = T(Before(i, j) - 1)
          BY <2>9, <2>10, <2>11, <2>13, <3>0, <3>3, <4>1
        <4>3. T(Before(i, j)) = T(Before(i, j) - 1) + l.q[Before(i, j)].ticks
          BY <1>3, <4>1
        <4> QED BY <3>3, <4>2, <4>3
      <3> QED BY <3>1, <3>2, <3>3
    <2>15. Inserts(l, m, i, t, f)
      <3>1. Len(m.q) = N + 1 /\ m.last = f[Len(m.q)]
        BY <1>1, <2>10, <2>11, <2>12
      <3> QED BY <2>12, <2>14, <3>1, Zenon DEF Inserts, N, T
    <2>16. i \in 1 .. Len(l.q) + 1
      BY <1>1, <2>1 DEF N
    <2>17. /\ IsTimerList(m, E) /\ IdsOf(m) = IdsOf(l) \cup {t} /\ Remaining(m, t) = n
           /\ \A u \in IdsOf(l) : Remaining(m, u) = Remaining(l, u)
      <3>1. m \in ListsOf(E) /\ f[i] = n
        BY <2>11, <2>12
      <3> QED BY <2>15, <2>16, <3>1, InsertedList
    <2> QED BY <2>17 DEF m
  <1>6. n >= l.last \/ n < l.last
    BY <1>1
  <1> QED BY <1>4, <1>5, <1>6

\* A list with an entry on it is not empty.
LEMMA ListNotEmpty ==
  ASSUME NEW E, NEW l, IsTimerList(l, E)
  PROVE  l.q = <<>> <=> IdsOf(l) = {}
PROOF
  <1>1. l.q \in Seq(EntriesOf(E)) /\ Len(l.q) \in Nat
    BY ListFacts
  <1>2. l.q # <<>> <=> Len(l.q) # 0
    BY <1>1
  <1>3. Len(l.q) # 0 <=> 1 \in 1 .. Len(l.q)
    BY <1>1
  <1>4. 1 \in 1 .. Len(l.q) => IdsOf(l) # {}
    BY Zenon DEF IdsOf
  <1>5. Len(l.q) = 0 => IdsOf(l) = {}
    BY DEF IdsOf
  <1> QED BY <1>2, <1>3, <1>4, <1>5

\* The time to go of an entry is not negative.
LEMMA RemainingType ==
  ASSUME NEW E, NEW l, IsTimerList(l, E), NEW t \in IdsOf(l)
  PROVE  Remaining(l, t) \in Nat /\ t \in E
PROOF
  <1>1. PICK i \in 1 .. Len(l.q) : l.q[i].id = t
    BY PlaceOf
  <1>2. Remaining(l, t) = Total(l.q, i)
    BY <1>1, RemainingAt
  <1>3. l.q \in Seq(EntriesOf(E)) /\ Len(l.q) \in Nat /\ t \in E
    BY <1>1, ListFacts
  <1>4. i \in 0 .. Len(l.q)
    BY <1>3
  <1> QED BY <1>2, <1>3, <1>4, TotalSteps

\* The entry GKI_timer_queue finds expired at the front has no time to go.
LEMMA HeadDue ==
  ASSUME NEW E, NEW l, IsTimerList(l, E), HeadExpired(l)
  PROVE  Head(l.q).id \in IdsOf(l) /\ Remaining(l, Head(l.q).id) = 0
PROOF
  <1>1. l.q \in Seq(EntriesOf(E)) /\ Len(l.q) \in Nat /\ l.q # <<>>
    BY ListFacts DEF HeadExpired
  <1>2. 1 \in 1 .. Len(l.q)
    BY <1>1
  <1>3. Head(l.q) = l.q[1]
    BY <1>1
  <1>4. l.q[1].ticks = 0
    <2>1. l.q[1].ticks \in Nat
      BY <1>2, ListFacts
    <2>2. l.q[1].ticks <= 0
      BY <1>3 DEF HeadExpired
    <2> QED BY <2>1, <2>2
  <1>5. Total(l.q, 1) = 0
    <2>1. Total(l.q, 1) = Total(l.q, 1 - 1) + l.q[1].ticks /\ Total(l.q, 0) = 0
      BY <1>1, <1>2, TotalSteps, Zenon
    <2> QED BY <1>4, <2>1
  <1> QED BY <1>2, <1>3, <1>5, RemainingAt, Zenon

\* Starting a timer, whether it was on the list or not: it has n units to go,
\* the others what they had.
LEMMA SetKeeps ==
  ASSUME NEW E, NEW l, IsTimerList(l, E), NEW t \in E, NEW n \in Nat
  PROVE  LET m == AddEntry(RemoveEntry(l, t), t, n)
         IN  /\ IsTimerList(m, E) /\ IdsOf(m) = IdsOf(l) \cup {t} /\ m.q # <<>>
             /\ Remaining(m, t) = n
             /\ \A u \in IdsOf(l) \ {t} : Remaining(m, u) = Remaining(l, u)
PROOF
  <1> DEFINE r == RemoveEntry(l, t)
             m == AddEntry(r, t, n)
  <1>1. /\ IsTimerList(r, E) /\ IdsOf(r) = IdsOf(l) \ {t}
        /\ \A u \in IdsOf(l) \ {t} : Remaining(r, u) = Remaining(l, u)
    BY RemoveKeeps
  <1> HIDE DEF r
  <1>2. t \notin IdsOf(r)
    BY <1>1
  <1>3. /\ IsTimerList(m, E) /\ IdsOf(m) = IdsOf(r) \cup {t} /\ Remaining(m, t) = n
        /\ \A u \in IdsOf(r) : Remaining(m, u) = Remaining(r, u)
    BY <1>1, <1>2, AddKeeps
  <1>4. m.q # <<>>
    BY <1>3, ListNotEmpty
  <1> HIDE DEF m
  <1>5. IdsOf(m) = IdsOf(l) \cup {t}
    BY <1>1, <1>3
  <1>6. \A u \in IdsOf(l) \ {t} : Remaining(m, u) = Remaining(l, u)
    BY <1>1, <1>3
  <1> QED BY <1>3, <1>4, <1>5, <1>6 DEF m, r

\* The abstract times after each of the operations.
LEMMA TimesSet ==
  ASSUME NEW E, NEW l, IsTimerList(l, E), NEW t \in E, NEW n \in Nat
  PROVE  TimesOf(AddEntry(RemoveEntry(l, t), t, n), E) = [TimesOf(l, E) EXCEPT ![t] = n]
PROOF
  <1> DEFINE m == AddEntry(RemoveEntry(l, t), t, n)
  <1>1. /\ IdsOf(m) = IdsOf(l) \cup {t} /\ Remaining(m, t) = n
        /\ \A u \in IdsOf(l) \ {t} : Remaining(m, u) = Remaining(l, u)
    BY SetKeeps
  <1> HIDE DEF m
  <1>2. TimesOf(m, E) = [TimesOf(l, E) EXCEPT ![t] = n]
    BY <1>1, Zenon DEF TimesOf
  <1> QED BY <1>2, Zenon DEF m

\* Stopping a timer, and removing an expired one.
LEMMA TimesCancel ==
  ASSUME NEW E, NEW l, IsTimerList(l, E), NEW t \in E
  PROVE  TimesOf(RemoveEntry(l, t), E) = [TimesOf(l, E) EXCEPT ![t] = -1]
PROOF
  <1> DEFINE m == RemoveEntry(l, t)
  <1>1. /\ IdsOf(m) = IdsOf(l) \ {t}
        /\ \A u \in IdsOf(l) \ {t} : Remaining(m, u) = Remaining(l, u)
    BY RemoveKeeps
  <1> HIDE DEF m
  <1>2. TimesOf(m, E) = [TimesOf(l, E) EXCEPT ![t] = -1]
    BY <1>1, Zenon DEF TimesOf
  <1> QED BY <1>2 DEF m

\* Taking k units off the list.
LEMMA TimesAdvance ==
  ASSUME NEW E, NEW l, IsTimerList(l, E), NEW k \in Nat
  PROVE  TimesOf(UpdateList(l, k), E) =
             [t \in E |-> IF TimesOf(l, E)[t] > k THEN TimesOf(l, E)[t] - k
                          ELSE IF TimesOf(l, E)[t] >= 0 THEN 0 ELSE -1]
PROOF
  <1> DEFINE m == UpdateList(l, k)
             x == TimesOf(l, E)
  <1>1. IdsOf(m) = IdsOf(l) /\ \A u \in IdsOf(l) : Remaining(m, u) = Positive(Remaining(l, u) - k)
    BY UpdateKeeps
  <1>2. \A u \in IdsOf(l) : Remaining(l, u) \in Nat
    BY RemainingType
  <1> HIDE DEF m
  <1>3. ASSUME NEW t \in E
        PROVE  TimesOf(m, E)[t] = IF x[t] > k THEN x[t] - k ELSE IF x[t] >= 0 THEN 0 ELSE -1
    <2>1. CASE t \in IdsOf(l)
      <3>1. TimesOf(m, E)[t] = Positive(Remaining(l, t) - k) /\ x[t] = Remaining(l, t)
        BY <1>1, <2>1 DEF TimesOf
      <3>2. Remaining(l, t) \in Nat
        BY <1>2, <2>1
      <3> HIDE DEF x
      <3> QED BY <3>1, <3>2 DEF Positive
    <2>2. CASE t \notin IdsOf(l)
      <3>1. TimesOf(m, E)[t] = -1 /\ x[t] = -1
        BY <1>1, <2>2 DEF TimesOf
      <3> HIDE DEF x
      <3> QED BY <3>1
    <2> QED BY <2>1, <2>2
  <1>4. TimesOf(m, E) = [t \in E |-> TimesOf(m, E)[t]]
    BY DEF TimesOf
  <1> HIDE DEF x
  <1>5. TimesOf(m, E) = [t \in E |-> IF x[t] > k THEN x[t] - k ELSE IF x[t] >= 0 THEN 0 ELSE -1]
    BY <1>3, <1>4
  <1> QED BY <1>5 DEF m, x
=============================================================================
