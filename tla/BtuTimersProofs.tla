-------------------------- MODULE BtuTimersProofs --------------------------
(***************************************************************************)
(* The BTU task uses the GKI timers as GkiTimers says they are used, so    *)
(* what is proved there holds of the composition.  Its two lists are timer *)
(* lists, for any number of entries, implement deadlines, and expire an    *)
(* entry no earlier than the events waiting at its start allow.            *)
(***************************************************************************)
EXTENDS BtuTimers, GkiTimersProofs

\* Every step of the BTU task and of the tick is a call of the GKI timers or
\* leaves them alone.
LEMMA BtuStepIsTimersStep == [BtuNext]_btuVars => [TimersNext]_timerVars
<1> SUFFICES ASSUME [BtuNext]_btuVars PROVE [TimersNext]_timerVars
  OBVIOUS
<1>1. ASSUME NEW s \in Slots, GKI_stop_timer(s) \/ UNCHANGED timerVars PROVE [TimersNext]_timerVars
  BY <1>1 DEF TimersNext
<1>2. ASSUME NEW s \in Slots, NEW t, NEW n, StartTimer(s, t, n) PROVE [TimersNext]_timerVars
  <2>1. Period[s] \in Durations
    BY BtuAssumption
  <2>2. GKI_start_timer(s, Period[s], Period[s]) \/ UNCHANGED timerVars
    BY <1>2 DEF StartTimer
  <2>3. QED
    BY <2>1, <2>2 DEF TimersNext
<1>3. ASSUME NEW s \in Slots, NEW t, StopTimer(s, t) PROVE [TimersNext]_timerVars
  BY <1>1, <1>3 DEF StopTimer, StopIfEmpty
<1>4. ASSUME WaitReturns PROVE [TimersNext]_timerVars
  BY <1>4 DEF WaitReturns, TimersNext
<1>5. ASSUME NEW s \in Slots, UpdateEvent(s) \/ ExpireEntry(s) \/ ListDone(s)
      PROVE  [TimersNext]_timerVars
  BY <1>1, <1>5 DEF UpdateEvent, ExpireEntry, ListDone, StopIfEmpty
<1>6. ASSUME Tick PROVE [TimersNext]_timerVars
  BY <1>6 DEF Tick, TimersNext
<1>7. ASSUME UNCHANGED btuVars PROVE UNCHANGED timerVars
  BY <1>7 DEF btuVars
<1>8. QED
  BY <1>2, <1>3, <1>4, <1>5, <1>6, <1>7 DEF BtuNext, Calls, Task

\* The composition implements the GKI timers' specification.
THEOREM BtuUsesTimers == BtuSpec => TimersSpec
<1>1. BtuInit => TimersInit
  BY DEF BtuInit
<1>2. QED
  BY <1>1, BtuStepIsTimersStep, PTL DEF BtuSpec, TimersSpec

\* While the list of the stack or of BTA has its GKI timer running, the system
\* tick runs and is not about to be stopped.
THEOREM BtuTickRuns == BtuSpec => []TickRuns
  BY BtuUsesTimers, TickRunsAlways, PTL

\* The GKI timers of the lists fire exactly on their tick.
THEOREM BtuTimersFireOnTime == BtuSpec => FiresOnTime
  BY BtuUsesTimers, TimersFireOnTime, PTL

-----------------------------------------------------------------------------
(* The lists.                                                              *)

\* The constants: timeouts are naturals, a period is a duration of the GKI
\* timers, and no entry is on both lists or named as the other users of timers.
LEMMA BtuConstants ==
  /\ Slots = {Stack, Bta} /\ Stack # Bta /\ "loop" \notin Slots
  /\ MaxAge \in Nat /\ 1 <= MaxAge
  /\ \A s \in Slots : /\ Period[s] \in Durations /\ Period[s] \in Nat /\ Period[s] >= 1
                      /\ \A n \in Timeouts[s] : n \in Nat
                      /\ "msg" \notin Entries[s] /\ "none" \notin Entries[s]
  /\ \A s, x \in Slots : \A t \in Entries[s] : t \in Entries[x] => s = x
<1>1. Slots = {Stack, Bta} /\ Stack # Bta /\ "loop" \notin Slots
  BY BtuAssumption DEF Stack, Bta
<1>2. MaxAge \in Nat /\ 1 <= MaxAge
  BY BtuAssumption
<1>3. \A s \in Slots : Period[s] \in Durations /\ Period[s] \in Nat /\ Period[s] >= 1
  BY BtuAssumption, TimersAssumption
<1>4. \A s \in Slots : "msg" \notin Entries[s] /\ "none" \notin Entries[s]
  BY BtuAssumption
<1>5. \A s \in Slots : \A n \in Timeouts[s] : n \in Nat
  BY BtuAssumption, <1>1, <1>2
<1>6. \A s, x \in Slots : \A t \in Entries[s] : t \in Entries[x] => s = x
  BY BtuAssumption, <1>1
<1>7. QED
  BY <1>1, <1>2, <1>3, <1>4, <1>5, <1>6

\* A step that changes one list leaves the other alone.
LEMMA OneList ==
  ASSUME ListInv, NEW s \in Slots, NEW l, IsTimerList(l, Entries[s]), list' = [list EXCEPT ![s] = l]
  PROVE  /\ DOMAIN list' = Slots /\ \A x \in Slots : IsTimerList(list'[x], Entries[x])
         /\ list'[s] = l /\ \A x \in Slots : x # s => list'[x] = list[x]
<1>1. DOMAIN list = Slots /\ \A x \in Slots : IsTimerList(list[x], Entries[x])
  BY DEF ListInv
<1>2. DOMAIN list' = Slots /\ list'[s] = l /\ \A x \in Slots : x # s => list'[x] = list[x]
  BY <1>1
<1>3. ASSUME NEW x \in Slots PROVE IsTimerList(list'[x], Entries[x])
  BY <1>1, <1>2
<1>4. QED
  BY <1>2, <1>3

\* What a call or an event does to the list it is about, which has that result
\* as a timer list again.
LEMMA ListResults ==
  ASSUME ListInv, NEW s \in Slots
  PROVE  /\ IsTimerList(list[s], Entries[s])
         /\ \A t : IsTimerList(RemoveEntry(list[s], t), Entries[s])
         /\ \A t \in Entries[s], n \in Timeouts[s] :
                IsTimerList(AddEntry(RemoveEntry(list[s], t), t, n), Entries[s])
         /\ \A k \in Nat : IsTimerList(UpdateList(list[s], k), Entries[s])
<1>1. IsTimerList(list[s], Entries[s])
  BY DEF ListInv
<1>2. ASSUME NEW t PROVE IsTimerList(RemoveEntry(list[s], t), Entries[s])
  BY <1>1, RemoveKeeps
<1>3. ASSUME NEW t \in Entries[s], NEW n \in Timeouts[s]
      PROVE  IsTimerList(AddEntry(RemoveEntry(list[s], t), t, n), Entries[s])
  <2>1. n \in Nat
    BY BtuConstants
  <2>2. QED
    BY <1>1, <2>1, SetKeeps
<1>4. ASSUME NEW k \in Nat PROVE IsTimerList(UpdateList(list[s], k), Entries[s])
  BY <1>1, UpdateKeeps
<1>5. QED
  BY <1>1, <1>2, <1>3, <1>4

\* The units an event takes off its list.
Units(s) == IF s = Stack THEN 1 ELSE since

\* Every step leaves timer lists, and the task where its callbacks can be.
LEMMA ListStep ==
  ASSUME TimersTypeOK, ListInv, [BtuNext]_btuVars
  PROVE  ListInv'
<1> DEFINE Times == [n : Nat, age : 0 .. MaxAge, skip : 0 .. MaxAge]
<1>0. /\ since \in 0 .. MaxAge /\ got \subseteq Slots /\ pc \in Slots \cup {"loop"}
      /\ (pc = "loop" => call = "msg") /\ set \in [Watched -> Times]
      /\ DOMAIN list = Slots /\ \A s \in Slots : IsTimerList(list[s], Entries[s])
  BY DEF ListInv
<1>1. MaxAge \in Nat /\ 0 \in 0 .. MaxAge /\ NotSet \in Times
  BY BtuConstants DEF NotSet
<1>2. ASSUME NEW s \in Slots, NEW t \in Entries[s], NEW n \in Timeouts[s], StartTimer(s, t, n)
      PROVE  ListInv'
  <2>1. list' = [list EXCEPT ![s] = AddEntry(RemoveEntry(list[s], t), t, n)]
    BY <1>2 DEF StartTimer
  <2>2. DOMAIN list' = Slots /\ \A x \in Slots : IsTimerList(list'[x], Entries[x])
    BY <2>1, ListResults, OneList, Zenon
  <2>3. since' \in 0 .. MaxAge
    BY <1>0, <1>1, <1>2 DEF StartTimer
  <2>4. n \in Nat
    BY BtuConstants
  <2>5. set' \in [Watched -> Times]
    <3> DEFINE r == [n |-> n, age |-> 0, skip |-> IF s = Bta THEN since' ELSE 0]
    <3>1. r \in Times
      BY <1>1, <2>3, <2>4
    <3>2. set' = IF t \in Watched THEN [set EXCEPT ![t] = r] ELSE set
      BY <1>2 DEF StartTimer
    <3> HIDE DEF r, Times
    <3>3. QED
      BY <1>0, <3>1, <3>2
  <2>6. got' = got /\ pc' = pc /\ call' = call
    BY <1>2 DEF StartTimer
  <2>7. QED
    BY <1>0, <2>2, <2>3, <2>5, <2>6 DEF ListInv
<1>3. ASSUME NEW t, Forget(t) PROVE set' \in [Watched -> Times]
  <2> HIDE DEF Times
  <2>1. QED
    BY <1>0, <1>1, <1>3 DEF Forget
<1>4. ASSUME NEW s \in Slots, NEW t \in Entries[s], StopTimer(s, t) PROVE ListInv'
  <2>1. list' = [list EXCEPT ![s] = RemoveEntry(list[s], t)] /\ Forget(t)
    BY <1>4 DEF StopTimer
  <2>2. DOMAIN list' = Slots /\ \A x \in Slots : IsTimerList(list'[x], Entries[x])
    BY <2>1, ListResults, OneList, Zenon
  <2>3. since' = since /\ got' = got /\ pc' = pc /\ call' = call
    BY <1>4 DEF StopTimer
  <2>4. set' \in [Watched -> Times]
    BY <1>3, <2>1
  <2>5. QED
    BY <1>0, <2>2, <2>3, <2>4 DEF ListInv
<1>5. ASSUME WaitReturns PROVE ListInv'
  <2>1. got' = fired /\ UNCHANGED <<list, since, pc, call, set>>
    BY <1>5 DEF WaitReturns
  <2>2. fired \subseteq Slots
    BY DEF TimersTypeOK
  <2>3. QED
    BY <1>0, <2>1, <2>2 DEF ListInv
<1>6. ASSUME NEW s \in Slots, UpdateEvent(s) PROVE ListInv'
  <2>1. list' = [list EXCEPT ![s] = UpdateList(list[s], Units(s))]
    BY <1>6 DEF UpdateEvent, Units
  <2>2. Units(s) \in Nat
    BY <1>0, <1>1 DEF Units
  <2>3. DOMAIN list' = Slots /\ \A x \in Slots : IsTimerList(list'[x], Entries[x])
    <3>1. IsTimerList(UpdateList(list[s], Units(s)), Entries[s])
      BY <2>2, ListResults
    <3>2. QED
      BY <2>1, <3>1, OneList, Zenon
  <2>4. since' \in 0 .. MaxAge /\ got' \subseteq Slots /\ pc' = s /\ set' = set
    BY <1>0, <1>1, <1>6 DEF UpdateEvent
  <2>5. s # "loop"
    BY BtuConstants
  <2>6. QED
    BY <1>0, <2>3, <2>4, <2>5 DEF ListInv
<1>7. ASSUME NEW s \in Slots, ExpireEntry(s) PROVE ListInv'
  <2> DEFINE t == Head(list[s].q).id
  <2>1. list' = [list EXCEPT ![s] = RemoveEntry(list[s], t)] /\ Forget(t)
    BY <1>7 DEF ExpireEntry
  <2>2. DOMAIN list' = Slots /\ \A x \in Slots : IsTimerList(list'[x], Entries[x])
    BY <2>1, ListResults, OneList, Zenon
  <2>3. since' = since /\ got' = got /\ pc' = s
    BY <1>7 DEF ExpireEntry
  <2>4. set' \in [Watched -> Times] /\ s # "loop"
    BY <1>3, <2>1, BtuConstants
  <2>5. QED
    BY <1>0, <2>2, <2>3, <2>4 DEF ListInv
<1>8. ASSUME NEW s \in Slots, ListDone(s) PROVE ListInv'
  <2>1. UNCHANGED <<list, since, got, set>> /\ pc' = "loop" /\ call' = "msg"
    BY <1>8 DEF ListDone
  <2>2. QED
    BY <1>0, <2>1 DEF ListInv
<1>9. ASSUME Tick PROVE ListInv'
  <2>1. UNCHANGED <<list, got, pc, call>>
    BY <1>9 DEF Tick
  <2>2. \A a \in 0 .. MaxAge : Older(a) \in 0 .. MaxAge
    BY <1>1 DEF Older
  <2>3. since' \in 0 .. MaxAge
    BY <1>0, <1>1, <1>9, <2>2 DEF Tick
  <2>4. set' \in [Watched -> Times]
    <3>1. \A r \in Times : [r EXCEPT !.age = Older(r.age)] \in Times
      BY <2>2
    <3>2. set' = [t \in Watched |-> IF \E s \in Slots : t \in IdsOf(list[s])
                                   THEN [set[t] EXCEPT !.age = Older(set[t].age)] ELSE set[t]]
      BY <1>9 DEF Tick
    <3> HIDE DEF Times
    <3>3. QED
      BY <1>0, <3>1, <3>2
  <2>5. QED
    BY <1>0, <2>1, <2>3, <2>4 DEF ListInv
<1>10. ASSUME UNCHANGED btuVars PROVE ListInv'
  BY <1>10 DEF btuVars, listVars, ListInv
<1>11. QED
  BY <1>2, <1>4, <1>5, <1>6, <1>7, <1>8, <1>9, <1>10 DEF BtuNext, Calls, Task

-----------------------------------------------------------------------------
(* The GKI timers behind the lists.                                        *)

\* A tick takes one tick off every running timer and fires those with one left;
\* a tick that stops the system tick finds none running.
LEMMA TickOfTimers ==
  ASSUME TimersInv, GKI_timer_update
  PROVE  \/ Promise!Tick
         \/ Left' = Left /\ reload' = reload /\ fired' = fired /\ \A s \in Slots : Left[s] = 0
<1>1. CASE TickUpdates
  BY <1>1, TickCountsMaps, TickUpdatesMaps DEF GKI_timer_update
<1>2. CASE TickStops
  <2>1. \A s \in Slots : tmr[s] = 0
    BY <1>2, DelayMeansIdle DEF TickStops
  <2>2. tmr' = tmr /\ reload' = reload /\ fired' = fired
    BY <1>2 DEF TickStops
  <2>3. \A s \in Slots : Left[s] = 0 /\ Left'[s] = 0
    BY <2>1, <2>2 DEF Left
  <2>4. Left' = Left
    BY <2>3 DEF Left
  <2>5. QED
    BY <2>2, <2>3, <2>4
<1>3. QED
  BY <1>1, <1>2 DEF GKI_timer_update

\* Nothing happens to the timers.
LEMMA TimersSame ==
  ASSUME UNCHANGED timerVars
  PROVE  Left' = Left /\ reload' = reload /\ fired' = fired
  BY DEF timerVars, tickVars, Left

\* Starting a timer of a list: the GKI timer of an empty list is started, and
\* nothing else happens to the GKI timers.
LEMMA StartDrives ==
  ASSUME TimersInv, NEW s \in Slots, NEW t, NEW n, StartTimer(s, t, n)
  PROVE  /\ fired' = fired
         /\ \A x \in Slots : x # s \/ list[s].q # <<>> => Left'[x] = Left[x] /\ reload'[x] = reload[x]
         /\ list[s].q = <<>> => Left'[s] = Period[s] /\ reload'[s] = Period[s]
<1>1. CASE list[s].q = <<>>
  <2>1. GKI_start_timer(s, Period[s], Period[s])
    BY <1>1 DEF StartTimer
  <2>2. Promise!Start(s, Period[s], Period[s])
    BY <2>1, StartMaps, BtuConstants
  <2>3. Left' = [Left EXCEPT ![s] = Period[s]] /\ reload' = [reload EXCEPT ![s] = Period[s]] /\ fired' = fired
    BY <2>2 DEF Promise!Start
  <2>4. DOMAIN Left = Slots /\ DOMAIN reload = Slots
    BY DEF Left, TimersInv, TimersTypeOK
  <2>5. QED
    BY <1>1, <2>3, <2>4
<1>2. CASE list[s].q # <<>>
  <2>1. UNCHANGED timerVars
    BY <1>2 DEF StartTimer
  <2>2. QED
    BY <1>2, <2>1, TimersSame
<1>3. QED
  BY <1>1, <1>2

\* A list that is left empty has its GKI timer stopped, and nothing else happens
\* to the GKI timers.
LEMMA StopDrives ==
  ASSUME TimersInv, NEW s \in Slots, StopIfEmpty(s)
  PROVE  /\ fired' = fired
         /\ \A x \in Slots : x # s \/ list'[s].q # <<>> => Left'[x] = Left[x] /\ reload'[x] = reload[x]
<1>1. CASE list'[s].q = <<>>
  <2>1. Promise!Stop(s)
    BY <1>1, StopMaps DEF StopIfEmpty
  <2>2. Left' = [Left EXCEPT ![s] = 0] /\ reload' = [reload EXCEPT ![s] = 0] /\ fired' = fired
    BY <2>1 DEF Promise!Stop
  <2>3. DOMAIN Left = Slots /\ DOMAIN reload = Slots
    BY DEF Left, TimersInv, TimersTypeOK
  <2>4. QED
    BY <1>1, <2>2, <2>3
<1>2. CASE list'[s].q # <<>>
  <2>1. UNCHANGED timerVars
    BY <1>2 DEF StopIfEmpty
  <2>2. QED
    BY <1>2, <2>1, TimersSame
<1>3. QED
  BY <1>1, <1>2

\* Removing an entry does not make an empty list longer.
LEMMA RemoveFromSome ==
  ASSUME NEW E, NEW l, IsTimerList(l, E), NEW t, RemoveEntry(l, t).q # <<>>
  PROVE  l.q # <<>>
<1>1. IsTimerList(RemoveEntry(l, t), E) /\ IdsOf(RemoveEntry(l, t)) = IdsOf(l) \ {t}
  BY RemoveKeeps
<1>2. IdsOf(RemoveEntry(l, t)) # {}
  BY <1>1, ListNotEmpty
<1>3. QED
  BY <1>1, <1>2, ListNotEmpty

\* The timer of one list is running and continuous if the list has entries.
Driven(s) == list[s].q # <<>> => Left[s] \in 1 .. Period[s] /\ reload[s] = Period[s]

\* It stays so while list and timer are left alone, or the list only shrinks.
LEMMA DrivenKept ==
  ASSUME NEW s \in Slots, Driven(s), list'[s].q # <<>> => list[s].q # <<>>,
         list'[s].q # <<>> => Left'[s] = Left[s] /\ reload'[s] = reload[s]
  PROVE  Driven(s)'
  BY DEF Driven

\* Every step keeps the GKI timer of a list with entries running.
LEMMA DrivenStep ==
  ASSUME TimersInv, ListInv, DrivenInv, [BtuNext]_btuVars
  PROVE  DrivenInv'
<1>0. \A s \in Slots : Driven(s) /\ IsTimerList(list[s], Entries[s])
  BY DEF DrivenInv, Driven, ListInv
<1> SUFFICES ASSUME NEW x \in Slots PROVE Driven(x)'
  BY DEF DrivenInv, Driven
<1>1. ASSUME NEW s \in Slots, NEW t \in Entries[s], NEW n \in Timeouts[s], StartTimer(s, t, n)
      PROVE  Driven(x)'
  <2>1. list' = [list EXCEPT ![s] = AddEntry(RemoveEntry(list[s], t), t, n)]
    BY <1>1 DEF StartTimer
  <2>2. \A y \in Slots : y # s => list'[y] = list[y]
    BY <2>1, ListResults, OneList, Zenon
  <2>3. /\ \A y \in Slots : y # s \/ list[s].q # <<>> => Left'[y] = Left[y] /\ reload'[y] = reload[y]
        /\ list[s].q = <<>> => Left'[s] = Period[s] /\ reload'[s] = Period[s]
    BY <1>1, StartDrives, Zenon
  <2>4. CASE x # s
    BY <1>0, <2>2, <2>3, <2>4, DrivenKept, Zenon
  <2>5. CASE x = s /\ list[s].q # <<>>
    BY <1>0, <2>3, <2>5, DrivenKept
  <2>6. CASE x = s /\ list[s].q = <<>>
    BY <2>3, <2>6, BtuConstants DEF Driven
  <2>7. QED
    BY <2>4, <2>5, <2>6, Zenon
<1>2. ASSUME NEW s \in Slots, NEW t, list' = [list EXCEPT ![s] = RemoveEntry(list[s], t)]
      PROVE  list'[x].q # <<>> => list[x].q # <<>>
  <2>1. list'[s] = RemoveEntry(list[s], t) /\ \A y \in Slots : y # s => list'[y] = list[y]
    BY <1>2, ListResults, OneList, Zenon
  <2>2. QED
    BY <1>0, <2>1, RemoveFromSome
<1>3. ASSUME NEW s \in Slots, NEW t \in Entries[s], StopTimer(s, t) PROVE Driven(x)'
  <2>1. list'[x].q # <<>> => list[x].q # <<>>
    BY <1>2, <1>3, Zenon DEF StopTimer
  <2>2. x # s \/ list'[s].q # <<>> => Left'[x] = Left[x] /\ reload'[x] = reload[x]
    BY <1>3, StopDrives DEF StopTimer
  <2>3. QED
    BY <1>0, <2>1, <2>2, DrivenKept
<1>4. ASSUME WaitReturns PROVE Driven(x)'
  <2>1. list' = list /\ Left' = Left /\ reload' = reload
    BY <1>4 DEF WaitReturns, TakeEvents, tickVars, Left
  <2>2. QED
    BY <1>0, <2>1, DrivenKept
<1>5. ASSUME NEW s \in Slots, UpdateEvent(s) PROVE Driven(x)'
  <2>1. list' = [list EXCEPT ![s] = UpdateList(list[s], Units(s))] /\ UNCHANGED timerVars
    BY <1>5 DEF UpdateEvent, Units
  <2>2. Units(s) \in Nat
    BY BtuConstants DEF Units, ListInv
  <2>3. IsTimerList(UpdateList(list[s], Units(s)), Entries[s])
    BY <2>2, ListResults
  <2>4. list'[s] = UpdateList(list[s], Units(s)) /\ \A y \in Slots : y # s => list'[y] = list[y]
    BY <2>1, <2>3, OneList, Zenon
  <2>5. UpdateList(list[s], Units(s)).q = <<>> <=> list[s].q = <<>>
    BY <1>0, <2>2, UpdateKeeps, Zenon
  <2>6. Left' = Left /\ reload' = reload
    BY <2>1, TimersSame
  <2>7. list'[x].q # <<>> => list[x].q # <<>>
    BY <2>4, <2>5
  <2>8. QED
    BY <1>0, <2>6, <2>7, DrivenKept
<1>6. ASSUME NEW s \in Slots, ExpireEntry(s) PROVE Driven(x)'
  <2>1. list'[x].q # <<>> => list[x].q # <<>>
    BY <1>2, <1>6, Zenon DEF ExpireEntry
  <2>2. Left' = Left /\ reload' = reload
    BY <1>6, TimersSame DEF ExpireEntry
  <2>3. QED
    BY <1>0, <2>1, <2>2, DrivenKept
<1>7. ASSUME NEW s \in Slots, ListDone(s) PROVE Driven(x)'
  <2>1. list' = list
    BY <1>7 DEF ListDone
  <2>2. x # s \/ list'[s].q # <<>> => Left'[x] = Left[x] /\ reload'[x] = reload[x]
    BY <1>7, StopDrives DEF ListDone
  <2>3. QED
    BY <1>0, <2>1, <2>2, DrivenKept
<1>8. ASSUME Tick PROVE Driven(x)'
  <2>1. list' = list /\ GKI_timer_update
    BY <1>8 DEF Tick
  <2>2. CASE Promise!Tick
    <3>1. Left'[x] = IF Left[x] > 1 THEN Left[x] - 1 ELSE IF Left[x] = 1 THEN reload[x] ELSE 0
      BY <2>2 DEF Promise!Tick
    <3>2. reload' = reload /\ Period[x] \in Nat /\ Period[x] >= 1
      BY <2>2, BtuConstants DEF Promise!Tick
    <3>3. list[x].q # <<>> => Left[x] \in 1 .. Period[x] /\ reload[x] = Period[x]
      BY <1>0 DEF Driven
    <3>4. list[x].q # <<>> => Left'[x] \in 1 .. Period[x]
      BY <3>1, <3>2, <3>3
    <3>5. QED
      BY <2>1, <3>2, <3>3, <3>4 DEF Driven
  <2>3. CASE Left' = Left /\ reload' = reload
    BY <1>0, <2>1, <2>3, DrivenKept
  <2>4. QED
    BY <2>1, <2>2, <2>3, TickOfTimers
<1>9. ASSUME UNCHANGED btuVars PROVE Driven(x)'
  <2>1. list' = list /\ UNCHANGED timerVars
    BY <1>9 DEF btuVars, listVars
  <2>2. QED
    BY <1>0, <2>1, TimersSame, DrivenKept
<1>10. QED
  BY <1>1, <1>3, <1>4, <1>5, <1>6, <1>7, <1>8, <1>9, Zenon DEF BtuNext, Calls, Task

-----------------------------------------------------------------------------
(* The age of the entries.                                                 *)

\* Whole periods.
LEMMA PeriodsGrow ==
  ASSUME NEW a \in Int, NEW b \in Int, NEW P \in Nat, a <= b
  PROVE  a * P \in Int /\ b * P \in Int /\ a * P <= b * P
  OBVIOUS

\* The whole periods that a fired GKI timer adds.
LEMMA OnePeriodMore ==
  ASSUME NEW a \in Int, NEW P \in Nat
  PROVE  (a + 1) * P = a * P + P
  OBVIOUS

\* What a list knows of the age of an entry e with r units to go, when w events
\* wait, the GKI timer has l ticks left and c have gone by since the last update.
Late(s, e, r, w, l, c) ==
    \/ e.age = MaxAge
    \/ s = Stack /\ e.age + l > (e.n - r + w - 2) * Period[s]
    \/ s = Bta /\ e.age + e.skip >= e.n - r + c

\* The invariant about the ages is this of the present and of the next state.
LEMMA AgedIsLate ==
  ASSUME NEW s, NEW t
  PROVE  /\ Aged(s, t) <=> /\ set[t].n \in Timeouts[s]
                           /\ Late(s, set[t], Remaining(list[s], t), Waiting(s), Left[s], since)
         /\ Aged(s, t)' <=> /\ set'[t].n \in Timeouts[s]
                            /\ Late(s, set'[t], Remaining(list'[s], t), Waiting(s)', Left'[s], since')
  BY Zenon DEF Aged, Late

\* A step that leaves the time of an entry, its list's events and timer alone.
LEMMA AgedKept ==
  ASSUME NEW s, NEW t, Aged(s, t), set'[t] = set[t],
         Remaining(list'[s], t) = Remaining(list[s], t),
         s = Stack => Waiting(s)' = Waiting(s) /\ Left'[s] = Left[s],
         s = Bta => since' = since
  PROVE  Aged(s, t)'
<1>1. set[t].n \in Timeouts[s] /\ Late(s, set[t], Remaining(list[s], t), Waiting(s), Left[s], since)
  BY AgedIsLate
<1>2. Late(s, set'[t], Remaining(list'[s], t), Waiting(s)', Left'[s], since')
  BY <1>1 DEF Late
<1>3. QED
  BY <1>1, <1>2, AgedIsLate, Zenon

\* An entry that has just been started has no age, and at most two events wait.
LEMMA StartIsLate ==
  ASSUME NEW s \in Slots, NEW e, NEW w \in 0 .. 2, NEW l, NEW c \in Nat, e.n \in Nat, e.age = 0,
         s = Stack => l \in 1 .. Period[s], s = Bta => e.skip = c
  PROVE  Late(s, e, e.n, w, l, c)
<1>1. CASE s = Stack
  <2> DEFINE k == e.n - e.n + w - 2
             P == Period[s]
  <2>1. k \in Int /\ k <= 0 /\ P \in Nat /\ l \in Nat /\ l >= 1
    BY <1>1, BtuConstants
  <2>2. 0 * P = 0
    BY <2>1
  <2> HIDE DEF k, P
  <2>3. k * P <= 0 * P /\ k * P \in Int
    BY <2>1, PeriodsGrow
  <2>4. e.age + l > k * P
    BY <2>1, <2>2, <2>3
  <2>5. QED
    BY <1>1, <2>4 DEF Late, k, P
<1>2. CASE s = Bta
  BY <1>2 DEF Late
<1>3. QED
  BY <1>1, <1>2, BtuConstants

\* An event taken off a list: no more units than it, or the ticks, stand for.
LEMMA UpdateIsLate ==
  ASSUME NEW s \in Slots, NEW e, e.n \in Nat, e.age \in Nat, e.skip \in Nat,
         NEW r \in Nat, NEW w \in Nat, NEW l \in Nat, NEW c \in Nat, Late(s, e, r, w, l, c),
         NEW q \in Nat, q >= r - (IF s = Stack THEN 1 ELSE c), NEW v \in Int, v = w - 1
  PROVE  Late(s, e, q, v, l, IF s = Bta THEN 0 ELSE c)
<1>1. CASE e.age = MaxAge
  BY <1>1 DEF Late
<1>2. CASE s = Stack /\ e.age + l > (e.n - r + w - 2) * Period[s]
  <2> DEFINE k == e.n - r + w - 2
             j == e.n - q + v - 2
             P == Period[s]
  <2>1. k \in Int /\ j \in Int /\ j <= k /\ P \in Nat
    BY <1>2, BtuConstants
  <2>2. e.age + l > k * P
    BY <1>2
  <2> HIDE DEF k, j, P
  <2>3. j * P <= k * P /\ k * P \in Int /\ j * P \in Int
    BY <2>1, PeriodsGrow
  <2>4. e.age + l > j * P
    BY <2>2, <2>3
  <2>5. QED
    BY <1>2, <2>4 DEF Late, j, P
<1>3. CASE s = Bta /\ e.age + e.skip >= e.n - r + c
  BY <1>3, BtuConstants DEF Late
<1>4. QED
  BY <1>1, <1>2, <1>3 DEF Late

\* A tick: the entry is older, and the timer has one tick less or has fired.
LEMMA TickIsLate ==
  ASSUME NEW s \in Slots, NEW e, e.n \in Nat, e.age \in 0 .. MaxAge, e.skip \in Nat,
         NEW r \in Nat, NEW w \in Nat, NEW l \in Nat, NEW c \in Nat, Late(s, e, r, w, l, c),
         NEW f, f.n = e.n, f.skip = e.skip, f.age = Older(e.age),
         NEW v \in Nat, NEW m \in Nat, NEW d \in Nat, d <= c + 1,
         s = Stack => \/ l > 1 /\ m = l - 1 /\ v <= w
                      \/ l = 1 /\ m = Period[s] /\ v <= w + 1
  PROVE  Late(s, f, r, v, m, d)
<1>1. CASE f.age = MaxAge
  BY <1>1 DEF Late
<1>2. CASE f.age # MaxAge
  <2>1. f.age = e.age + 1 /\ e.age # MaxAge /\ e.age \in Nat
    BY <1>2, BtuConstants DEF Older
  <2>2. CASE s = Stack
    <3> DEFINE k == e.n - r + w - 2
               j == f.n - r + v - 2
               P == Period[s]
    <3>1. k \in Int /\ j \in Int /\ k + 1 \in Int /\ P \in Nat
      BY <2>2, BtuConstants
    <3>2. e.age + l > k * P
      BY <2>1, <2>2, BtuConstants DEF Late
    <3>3. \/ l > 1 /\ m = l - 1 /\ j <= k
          \/ l = 1 /\ m = P /\ j <= k + 1
      BY <2>2
    <3> HIDE DEF k, j, P
    <3>4. k * P \in Int /\ j * P \in Int
      BY <3>1, PeriodsGrow
    <3>5. ASSUME l > 1, m = l - 1, j <= k PROVE f.age + m > j * P
      <4>1. j * P <= k * P
        BY <3>1, <3>5, PeriodsGrow
      <4>2. QED
        BY <2>1, <3>2, <3>4, <3>5, <4>1
    <3>6. ASSUME l = 1, m = P, j <= k + 1 PROVE f.age + m > j * P
      <4>1. j * P <= (k + 1) * P
        BY <3>1, <3>6, PeriodsGrow
      <4>2. (k + 1) * P = k * P + P
        BY <3>1, OnePeriodMore
      <4>3. j * P <= k * P + P
        BY <4>1, <4>2
      <4>4. QED
        BY <2>1, <3>1, <3>2, <3>4, <3>6, <4>3
    <3>7. f.age + m > j * P
      BY <3>3, <3>5, <3>6
    <3>8. QED
      BY <2>2, <3>7 DEF Late, j, P
  <2>3. CASE s = Bta
    <3>1. e.age + e.skip >= e.n - r + c
      BY <2>1, <2>3, BtuConstants DEF Late
    <3>2. f.age + f.skip >= f.n - r + d
      BY <2>1, <3>1
    <3>3. QED
      BY <2>3, <3>2 DEF Late
  <2>4. QED
    BY <2>2, <2>3, BtuConstants, Zenon
<1>3. QED
  BY <1>1, <1>2

\* How many events can wait.
LEMMA WaitingRange == ASSUME NEW s PROVE Waiting(s) \in 0 .. 2 /\ Waiting(s)' \in 0 .. 2
<1>1. Waiting(s) \in 0 .. 2
  BY DEF Waiting
<1>2. Waiting(s)' \in 0 .. 2
  BY DEF Waiting
<1>3. QED
  BY <1>1, <1>2

\* Starting a timer: the entry is new, and the others of its list have the GKI
\* timer running already.
LEMMA StartAges ==
  ASSUME TimersInv, ListInv, ListInv', AgeInv, DrivenInv',
         NEW s \in Slots, NEW t \in Entries[s], NEW n \in Timeouts[s], StartTimer(s, t, n)
  PROVE  AgeInv'
<1> DEFINE m == AddEntry(RemoveEntry(list[s], t), t, n)
<1>1. n \in Nat /\ IsTimerList(list[s], Entries[s])
  BY BtuConstants, Zenon DEF ListInv
<1>2. /\ IsTimerList(m, Entries[s]) /\ IdsOf(m) = IdsOf(list[s]) \cup {t} /\ m.q # <<>>
      /\ Remaining(m, t) = n
      /\ \A u \in IdsOf(list[s]) \ {t} : Remaining(m, u) = Remaining(list[s], u)
  <2>1. PICK l : l = list[s]
    OBVIOUS
  <2>2. IsTimerList(l, Entries[s])
    BY <1>1, <2>1, Zenon
  <2>3. QED
    BY <1>1, <2>1, <2>2, SetKeeps
<1>3. list' = [list EXCEPT ![s] = m]
  BY Zenon DEF StartTimer
<1> HIDE DEF m
<1>4. list'[s] = m /\ \A y \in Slots : y # s => list'[y] = list[y]
  BY <1>2, <1>3, OneList, Zenon
<1>5. fired' = fired /\ \A y \in Slots : y # s \/ list[s].q # <<>> => Left'[y] = Left[y]
  BY StartDrives, Zenon
<1>6. got' = got
  BY Zenon DEF StartTimer
<1>7. ASSUME NEW y PROVE Waiting(y)' = Waiting(y)
  BY <1>5, <1>6, Zenon DEF Waiting
<1>8. \A y \in Slots : y # s \/ list[s].q # <<>> => (y = Bta => since' = since)
  BY Zenon DEF StartTimer
<1>9. DOMAIN set = Watched
  BY DEF ListInv
<1>10. \A u \in Watched : u # t => set'[u] = set[u]
  BY <1>9 DEF StartTimer
<1> SUFFICES ASSUME NEW x \in Slots, NEW u \in Watched, u \in IdsOf(list'[x]) PROVE Aged(x, u)'
  BY DEF AgeInv
<1>11. CASE x = s /\ u = t
  <2> DEFINE e == set'[t]
  <2>1. e = [n |-> n, age |-> 0, skip |-> IF s = Bta THEN since' ELSE 0]
    BY <1>9, <1>11, Zenon DEF StartTimer
  <2>2. e.n = n /\ e.age = 0 /\ (s = Bta => e.skip = since')
    BY <2>1
  <2>3. since' \in Nat
    BY BtuConstants DEF ListInv
  <2>4. Left'[s] \in 1 .. Period[s]
    BY <1>2, <1>4, Zenon DEF DrivenInv
  <2> HIDE DEF e
  <2>5. Late(s, e, n, Waiting(s)', Left'[s], since')
    BY <1>1, <2>2, <2>3, <2>4, WaitingRange, StartIsLate, Zenon
  <2>6. QED
    BY <1>2, <1>4, <1>11, <2>2, <2>5, AgedIsLate, Zenon DEF e
<1>12. CASE x = s /\ u # t
  <2>1. u \in IdsOf(list[s]) /\ Remaining(list'[s], u) = Remaining(list[s], u)
    BY <1>2, <1>4, <1>12, Zenon
  <2>2. list[s].q # <<>>
    BY <1>1, <2>1, ListNotEmpty, Zenon
  <2>3. Aged(s, u)
    BY <2>1, Zenon DEF AgeInv
  <2>4. QED
    BY <1>5, <1>7, <1>8, <1>10, <1>12, <2>1, <2>2, <2>3, AgedKept, Zenon
<1>13. CASE x # s
  <2>1. list'[x] = list[x] /\ Aged(x, u)
    BY <1>4, <1>13, Zenon DEF AgeInv
  <2>2. u # t
    <3>1. u \in Entries[x]
      BY <2>1, ListIds, Zenon DEF ListInv
    <3>2. QED
      BY <1>13, <3>1, BtuConstants, Zenon
  <2>3. QED
    BY <1>5, <1>7, <1>8, <1>10, <1>13, <2>1, <2>2, AgedKept, Zenon
<1>14. QED
  BY <1>11, <1>12, <1>13, Zenon

\* Taking an entry off its list, by a stop or because it has expired.
LEMMA RemoveAges ==
  ASSUME ListInv, AgeInv, NEW s \in Slots, NEW t \in Entries[s],
         list' = [list EXCEPT ![s] = RemoveEntry(list[s], t)], Forget(t), since' = since,
         got' = got, fired' = fired,
         \A y \in Slots : y # s \/ list'[s].q # <<>> => Left'[y] = Left[y]
  PROVE  AgeInv'
<1> DEFINE m == RemoveEntry(list[s], t)
<1>1. IsTimerList(list[s], Entries[s])
  BY Zenon DEF ListInv
<1>2. /\ IsTimerList(m, Entries[s]) /\ IdsOf(m) = IdsOf(list[s]) \ {t}
      /\ \A u \in IdsOf(list[s]) \ {t} : Remaining(m, u) = Remaining(list[s], u)
  BY <1>1, RemoveKeeps
<1>3. list' = [list EXCEPT ![s] = m]
  OBVIOUS
<1> HIDE DEF m
<1>4. list'[s] = m /\ \A y \in Slots : y # s => list'[y] = list[y]
  BY <1>2, <1>3, OneList, Zenon
<1>5. ASSUME NEW y PROVE Waiting(y)' = Waiting(y)
  BY Zenon DEF Waiting
<1>6. DOMAIN set = Watched
  BY DEF ListInv
<1>7. \A u \in Watched : u # t => set'[u] = set[u]
  BY <1>6, Zenon DEF Forget
<1> SUFFICES ASSUME NEW x \in Slots, NEW u \in Watched, u \in IdsOf(list'[x]) PROVE Aged(x, u)'
  BY Zenon DEF AgeInv
<1>8. CASE x = s
  <2>1. u \in IdsOf(list[s]) /\ u # t /\ Remaining(list'[s], u) = Remaining(list[s], u)
    BY <1>2, <1>4, <1>8, Zenon
  <2>2. list'[s].q # <<>>
    BY <1>2, <1>4, <1>8, ListNotEmpty, Zenon
  <2>3. Aged(s, u)
    BY <2>1, Zenon DEF AgeInv
  <2>4. QED
    BY <1>5, <1>7, <1>8, <2>1, <2>2, <2>3, AgedKept, Zenon
<1>9. CASE x # s
  <2>1. list'[x] = list[x] /\ Aged(x, u)
    BY <1>4, <1>9, Zenon DEF AgeInv
  <2>2. u # t
    <3>1. u \in Entries[x]
      BY <2>1, ListIds, Zenon DEF ListInv
    <3>2. QED
      BY <1>9, <3>1, BtuConstants, Zenon
  <2>3. QED
    BY <1>5, <1>7, <1>9, <2>1, <2>2, AgedKept, Zenon
<1>10. QED
  BY <1>8, <1>9, Zenon

\* What is recorded of an entry on a list.
LEMMA Recorded ==
  ASSUME TimersInv, ListInv, DrivenInv, NEW s \in Slots, NEW t \in Watched, t \in IdsOf(list[s])
  PROVE  /\ set[t].n \in Nat /\ set[t].age \in 0 .. MaxAge /\ set[t].age \in Nat
         /\ set[t].skip \in Nat /\ since \in Nat
         /\ Remaining(list[s], t) \in Nat /\ Waiting(s) \in Nat
         /\ Left[s] \in 1 .. Period[s] /\ Left[s] \in Nat /\ reload[s] = Period[s]
         /\ list[s].q # <<>>
<1>1. set[t] \in [n : Nat, age : 0 .. MaxAge, skip : 0 .. MaxAge] /\ since \in 0 .. MaxAge
  BY DEF ListInv
<1>2. set[t].n \in Nat /\ set[t].age \in 0 .. MaxAge /\ set[t].skip \in 0 .. MaxAge
  BY <1>1, Zenon
<1>3. set[t].age \in Nat /\ set[t].skip \in Nat /\ since \in Nat
  BY <1>1, <1>2, BtuConstants
<1>4. IsTimerList(list[s], Entries[s])
  BY DEF ListInv
<1>5. Remaining(list[s], t) \in Nat
  BY <1>4, RemainingType, Zenon
<1>6. list[s].q # <<>>
  BY <1>4, ListNotEmpty
<1>7. Left[s] \in 1 .. Period[s] /\ reload[s] = Period[s]
  BY <1>6 DEF DrivenInv
<1>8. Left[s] \in Nat /\ Waiting(s) \in Nat
  BY <1>7, BtuConstants, WaitingRange
<1>9. QED
  BY <1>2, <1>3, <1>5, <1>6, <1>7, <1>8, Zenon

\* An event takes its unit, or the ticks since the last one, off its list.
LEMMA UpdateAges ==
  ASSUME TimersInv, ListInv, DrivenInv, AgeInv, NEW s \in Slots, UpdateEvent(s)
  PROVE  AgeInv'
<1> DEFINE m == UpdateList(list[s], Units(s))
<1>1. IsTimerList(list[s], Entries[s]) /\ Units(s) \in Nat
  BY BtuConstants, SMTT(20) DEF ListInv, Units
<1>2. /\ IsTimerList(m, Entries[s]) /\ IdsOf(m) = IdsOf(list[s])
      /\ \A u \in IdsOf(list[s]) : Remaining(m, u) = Positive(Remaining(list[s], u) - Units(s))
  BY <1>1, UpdateKeeps
<1>3. list' = [list EXCEPT ![s] = m]
  BY DEF UpdateEvent, Units
<1> HIDE DEF m
<1>4. list'[s] = m /\ \A y \in Slots : y # s => list'[y] = list[y]
  BY <1>2, <1>3, OneList, Zenon
<1>5. Left' = Left /\ fired' = fired
  BY TimersSame DEF UpdateEvent
<1>6. s \in got /\ got' = got \ {s} /\ set' = set /\ since' = IF s = Bta THEN 0 ELSE since
  BY DEF UpdateEvent
<1>7. Waiting(s)' = Waiting(s) - 1
  <2>1. s \notin got'
    BY <1>6
  <2>2. QED
    BY <1>5, <1>6, <2>1 DEF Waiting
<1>8. ASSUME NEW y, y # s PROVE Waiting(y)' = Waiting(y)
  <2>1. y \in got' <=> y \in got
    BY <1>6, <1>8
  <2>2. QED
    BY <1>5, <2>1 DEF Waiting
<1> SUFFICES ASSUME NEW x \in Slots, NEW u \in Watched, u \in IdsOf(list'[x]) PROVE Aged(x, u)'
  BY Zenon DEF AgeInv
<1>9. CASE x = s
  <2> DEFINE e == set[u]
             r == Remaining(list[s], u)
             q == Remaining(list'[s], u)
             w == Waiting(s)
             v == Waiting(s)'
             l == Left[s]
  <2>1. u \in IdsOf(list[s]) /\ q = Positive(r - Units(s))
    BY <1>2, <1>4, <1>9, Zenon
  <2>2. e.n \in Nat /\ e.age \in Nat /\ e.skip \in Nat /\ since \in Nat /\ r \in Nat /\ w \in Nat /\ l \in Nat
    BY <2>1, Recorded, SMTT(20)
  <2>3. e.n \in Timeouts[s] /\ Late(s, e, r, w, l, since)
    <3>1. Aged(s, u)
      BY <2>1, Zenon DEF AgeInv
    <3>2. QED
      BY <3>1, AgedIsLate, Zenon
  <2>4. q \in Nat /\ q >= r - (IF s = Stack THEN 1 ELSE since)
    <3> HIDE DEF r, q
    <3>1. QED
      BY <2>1, <2>2 DEF Positive, Units
  <2>5. v \in Int /\ v = w - 1
    BY <1>7, <2>2
  <2>6. set'[u] = e /\ Left'[s] = l
    BY <1>5, <1>6, Zenon
  <2> HIDE DEF e, r, q, w, v, l
  <2>7. Late(s, e, q, v, l, IF s = Bta THEN 0 ELSE since)
    BY <2>2, <2>3, <2>4, <2>5, UpdateIsLate, Zenon
  <2>8. Late(s, set'[u], q, v, Left'[s], since')
    BY <1>6, <2>6, <2>7, Zenon
  <2>9. set'[u].n \in Timeouts[s]
    BY <2>3, <2>6, Zenon
  <2>10. QED
    BY <1>9, <2>8, <2>9, AgedIsLate, Zenon DEF q, v
<1>10. CASE x # s
  <2>1. list'[x] = list[x] /\ Aged(x, u)
    BY <1>4, <1>10 DEF AgeInv
  <2>2. x = Bta => since' = since
    BY <1>6, <1>10, SMTT(20)
  <2>3. QED
    BY <1>5, <1>6, <1>8, <1>10, <2>1, <2>2, AgedKept, Zenon
<1>11. QED
  BY <1>9, <1>10, Zenon

\* The system tick makes every entry on a list older.
LEMMA TickAges ==
  ASSUME TimersInv, ListInv, ListInv', DrivenInv, DrivenInv', AgeInv, Tick
  PROVE  AgeInv'
<1>1. list' = list /\ got' = got /\ since' = (IF list[Bta].q = <<>> THEN 0 ELSE Older(since))
  BY DEF Tick
<1>2. \A t \in Watched : (\E s \in Slots : t \in IdsOf(list[s])) => set'[t] = [set[t] EXCEPT !.age = Older(@)]
  BY DEF Tick
<1> SUFFICES ASSUME NEW s \in Slots, NEW t \in Watched, t \in IdsOf(list'[s]) PROVE Aged(s, t)'
  BY DEF AgeInv
<1> DEFINE e == set[t]
           f == set'[t]
           r == Remaining(list[s], t)
           w == Waiting(s)
           v == Waiting(s)'
           l == Left[s]
           m == Left'[s]
<1>3. t \in IdsOf(list[s])
  BY <1>1, Zenon
<1>4. /\ e.n \in Nat /\ e.age \in 0 .. MaxAge /\ e.skip \in Nat /\ since \in Nat /\ r \in Nat
      /\ w \in Nat /\ l \in Nat /\ l >= 1 /\ reload[s] = Period[s] /\ list[s].q # <<>>
  BY <1>3, Recorded, BtuConstants, SMTT(30)
<1>5. m \in Nat
  BY <1>1, <1>4, BtuConstants DEF DrivenInv
<1>6. v \in Nat
  BY WaitingRange
<1>7. since' \in Nat /\ since' <= since + 1
  BY <1>1, <1>4, BtuConstants DEF Older
<1>8. f.n = e.n /\ f.skip = e.skip /\ f.age = Older(e.age)
  <2>1. e \in [n : Nat, age : 0 .. MaxAge, skip : 0 .. MaxAge] /\ f = [e EXCEPT !.age = Older(@)]
    BY <1>2, <1>3 DEF ListInv
  <2> HIDE DEF e, f
  <2>2. QED
    BY <2>1
<1>9. \/ l > 1 /\ m = l - 1 /\ v <= w
      \/ l = 1 /\ m = Period[s] /\ v <= w + 1
  <2>1. CASE Promise!Tick
    <3>1. m = IF l > 1 THEN l - 1 ELSE IF l = 1 THEN reload[s] ELSE 0
      BY <2>1 DEF Promise!Tick
    <3>2. s \in fired' <=> s \in fired \/ l = 1
      BY <2>1, Zenon DEF Promise!Tick
    <3>3. CASE l > 1
      <4>1. s \in fired' <=> s \in fired
        BY <3>2, <3>3, SMTT(20)
      <4>2. v = w
        BY <1>1, <4>1, Zenon DEF Waiting
      <4>3. QED
        BY <1>4, <3>1, <3>3, <4>2
    <3>4. CASE l = 1
      <4>1. v <= w + 1
        BY <1>1, <3>2, <3>4, SMTT(20) DEF Waiting
      <4>2. QED
        BY <1>4, <3>1, <3>4, <4>1, SMTT(20)
    <3>5. QED
      BY <1>4, <3>3, <3>4, SMTT(20)
  <2>2. CASE \A y \in Slots : Left[y] = 0
    BY <1>4, <2>2, SMTT(20)
  <2>3. QED
    BY <2>1, <2>2, TickOfTimers, Zenon DEF Tick
<1>10. e.n \in Timeouts[s] /\ Late(s, e, r, w, l, since)
  BY <1>3, AgedIsLate, Zenon DEF AgeInv
<1>11. Remaining(list'[s], t) = r
  BY <1>1
<1> HIDE DEF e, f, r, w, v, l, m
<1>12. Late(s, f, r, v, m, since')
  BY <1>4, <1>5, <1>6, <1>7, <1>8, <1>9, <1>10, TickIsLate, Zenon
<1>13. f.n \in Timeouts[s]
  BY <1>8, <1>10, Zenon
<1>14. QED
  BY <1>11, <1>12, <1>13, AgedIsLate, Zenon DEF f, v, m

\* Every step keeps the ages in step with the time taken off.
LEMMA AgeStep ==
  ASSUME TimersInv, ListInv, ListInv', DrivenInv, DrivenInv', AgeInv, [BtuNext]_btuVars
  PROVE  AgeInv'
<1>1. ASSUME NEW s \in Slots, NEW t \in Entries[s], NEW n \in Timeouts[s], StartTimer(s, t, n)
      PROVE  AgeInv'
  BY <1>1, StartAges, Zenon
<1>2. ASSUME NEW s \in Slots, NEW t \in Entries[s], StopTimer(s, t) PROVE AgeInv'
  <2>1. list' = [list EXCEPT ![s] = RemoveEntry(list[s], t)] /\ Forget(t) /\ since' = since /\ got' = got
    BY <1>2, SMTT(20) DEF StopTimer
  <2>2. fired' = fired /\ \A y \in Slots : y # s \/ list'[s].q # <<>> => Left'[y] = Left[y]
    BY <1>2, StopDrives, Zenon DEF StopTimer
  <2>3. QED
    BY <2>1, <2>2, RemoveAges, Zenon
<1>3. ASSUME list' = list, set' = set, since' = since, \A y \in Slots : Waiting(y)' = Waiting(y),
             \A y \in Slots : list[y].q # <<>> => Left'[y] = Left[y]
      PROVE  AgeInv'
  <2> SUFFICES ASSUME NEW x \in Slots, NEW u \in Watched, u \in IdsOf(list'[x]) PROVE Aged(x, u)'
    BY Zenon DEF AgeInv
  <2>1. Aged(x, u) /\ u \in IdsOf(list[x])
    BY <1>3, Zenon DEF AgeInv
  <2>2. list[x].q # <<>>
    BY <2>1, ListNotEmpty, Zenon DEF ListInv
  <2>3. QED
    BY <1>3, <2>1, <2>2, AgedKept, Zenon
<1>4. ASSUME WaitReturns PROVE AgeInv'
  <2>1. list' = list /\ set' = set /\ since' = since /\ Left' = Left
    BY <1>4 DEF WaitReturns, TakeEvents, tickVars, Left
  <2>2. got = {} /\ got' = fired /\ fired' = {}
    BY <1>4 DEF WaitReturns, TakeEvents
  <2>3. \A y \in Slots : Waiting(y)' = Waiting(y)
    BY <2>2 DEF Waiting
  <2>4. QED
    BY <1>3, <2>1, <2>3, Zenon
<1>5. ASSUME NEW s \in Slots, UpdateEvent(s) PROVE AgeInv'
  BY <1>5, UpdateAges
<1>6. ASSUME NEW s \in Slots, ExpireEntry(s) PROVE AgeInv'
  <2> DEFINE t == Head(list[s].q).id
  <2>1. IsTimerList(list[s], Entries[s]) /\ HeadExpired(list[s])
    BY <1>6, Zenon DEF ExpireEntry, ListInv
  <2>2. t \in Entries[s]
    BY <2>1, HeadDue, ListIds, Zenon
  <2>3. list' = [list EXCEPT ![s] = RemoveEntry(list[s], t)] /\ Forget(t) /\ since' = since /\ got' = got
    BY <1>6 DEF ExpireEntry
  <2>4. fired' = fired /\ Left' = Left
    BY <1>6, TimersSame, Zenon DEF ExpireEntry
  <2> HIDE DEF t
  <2>5. QED
    BY <2>2, <2>3, <2>4, RemoveAges, Zenon
<1>7. ASSUME NEW s \in Slots, ListDone(s) PROVE AgeInv'
  <2>1. list' = list /\ set' = set /\ since' = since /\ got' = got
    BY <1>7, Zenon DEF ListDone
  <2>2. fired' = fired /\ \A y \in Slots : y # s \/ list'[s].q # <<>> => Left'[y] = Left[y]
    BY <1>7, StopDrives, Zenon DEF ListDone
  <2>3. \A y \in Slots : Waiting(y)' = Waiting(y)
    BY <2>1, <2>2 DEF Waiting
  <2>4. QED
    BY <1>3, <2>1, <2>2, <2>3, Zenon
<1>8. ASSUME Tick PROVE AgeInv'
  BY <1>8, TickAges, Zenon
<1>9. ASSUME UNCHANGED btuVars PROVE AgeInv'
  <2>1. list' = list /\ set' = set /\ since' = since /\ got' = got /\ UNCHANGED timerVars
    BY <1>9 DEF btuVars, listVars
  <2>2. Left' = Left /\ fired' = fired
    BY <2>1, TimersSame
  <2>3. \A y \in Slots : Waiting(y)' = Waiting(y)
    BY <2>1, <2>2 DEF Waiting
  <2>4. QED
    BY <1>3, <2>1, <2>2, <2>3, Zenon
<1>10. QED
  BY <1>1, <1>2, <1>4, <1>5, <1>6, <1>7, <1>8, <1>9, Zenon DEF BtuNext, Calls, Task

-----------------------------------------------------------------------------
(* The theorems about the lists.                                           *)

\* Initially the lists are empty.
LEMMA BtuInitInv == BtuInit => BtuInv
<1> SUFFICES ASSUME BtuInit PROVE BtuInv
  OBVIOUS
<1>1. TimersInv
  BY InitInv DEF BtuInit
<1>2. \A s \in Slots : list[s] = EmptyList /\ IsTimerList(list[s], Entries[s]) /\ IdsOf(list[s]) = {}
  BY EmptyIsList, Zenon DEF BtuInit
<1>3. NotSet \in [n : Nat, age : 0 .. MaxAge, skip : 0 .. MaxAge] /\ 0 \in 0 .. MaxAge
  BY BtuConstants DEF NotSet
<1>4. ListInv
  BY <1>2, <1>3, Zenon DEF BtuInit, ListInv
<1>5. DrivenInv
  BY <1>2, SMTT(20) DEF DrivenInv, EmptyList
<1>6. AgeInv
  BY <1>2 DEF AgeInv
<1>7. QED
  BY <1>1, <1>4, <1>5, <1>6 DEF BtuInv

\* The strengthening is an invariant of the BTU task's timers: the lists are
\* exact, their GKI timers run, and the ages are in step.
THEOREM BtuInvariant == BtuSpec => []BtuInv
<1>1. ASSUME BtuInv, [BtuNext]_btuVars PROVE BtuInv'
  <2>1. TimersInv /\ ListInv /\ DrivenInv /\ AgeInv /\ TimersTypeOK
    BY <1>1 DEF BtuInv, TimersInv
  <2>2. TimersInv'
    BY <1>1, <2>1, BtuStepIsTimersStep, StepInv
  <2>3. ListInv'
    BY <1>1, <2>1, ListStep
  <2>4. DrivenInv'
    BY <1>1, <2>1, DrivenStep
  <2>5. AgeInv'
    BY <1>1, <2>1, <2>3, <2>4, AgeStep
  <2>6. QED
    BY <2>2, <2>3, <2>4, <2>5, Zenon DEF BtuInv
<1>2. QED
  BY <1>1, BtuInitInv, PTL DEF BtuSpec

\* The lists are exact in every reachable state: an entry is on the list of its
\* queue, once, and last_ticks is the sum of the ticks.
THEOREM ListsStayExact == BtuSpec => []ListsExact
<1>1. ASSUME BtuInv PROVE ListsExact
  <2>1. \A s \in Slots : IsTimerList(list[s], Entries[s])
    BY <1>1, Zenon DEF BtuInv, ListInv
  <2>2. ASSUME NEW s \in Slots PROVE IdsOf(list[s]) \subseteq Entries[s]
    BY <2>1, ListIds, Zenon
  <2>3. QED
    BY <2>1, <2>2, Zenon DEF ListsExact, IsTimerList
<1>2. QED
  BY <1>1, BtuInvariant, PTL

\* An entry about to expire has the age its timeout asks for, but for what the
\* list could not know of when it was started.
LEMMA ExpiredIsOld ==
  ASSUME BtuInv, NEW s \in Slots, NEW t \in Watched, ExpireEntry(s), call' = t
  PROVE  /\ s = Stack => set[t].age > (set[t].n - 3) * Period[Stack]
         /\ s = Bta => set[t].age + set[t].skip >= set[t].n
<1> DEFINE n == set[t].n
           age == set[t].age
           P == Period[Stack]
<1>1. TimersInv /\ ListInv /\ DrivenInv /\ AgeInv /\ IsTimerList(list[s], Entries[s])
  BY Zenon DEF BtuInv, ListInv
<1>2. t \in IdsOf(list[s]) /\ Remaining(list[s], t) = 0
  BY <1>1, HeadDue, SMTT(20) DEF ExpireEntry
<1>3. /\ n \in Nat /\ age \in 0 .. MaxAge /\ age \in Nat /\ set[t].skip \in Nat /\ since \in Nat
      /\ Waiting(s) \in Nat /\ Left[s] \in 1 .. Period[s]
  BY <1>1, <1>2, Recorded, Zenon
<1>4. n \in Timeouts[s] /\ Late(s, set[t], 0, Waiting(s), Left[s], since)
  BY <1>1, <1>2, AgedIsLate, Zenon DEF AgeInv
<1>5. CASE s = Stack
  <2>1. P \in Nat /\ n - 3 \in Int
    BY <1>3, <1>5, BtuConstants, SMTT(20)
  <2>2. CASE age = MaxAge
    BY <1>4, <1>5, <2>2, BtuAssumption, BtuConstants, Zenon
  <2>3. CASE age + Left[s] > (n - 0 + Waiting(s) - 2) * P
    <3> DEFINE k == n - 0 + Waiting(s) - 2
               j == n - 3
    <3>1. k \in Int /\ j \in Int /\ j + 1 \in Int /\ j + 1 <= k
      BY <1>3
    <3> HIDE DEF k, j, P, n, age
    <3>2. (j + 1) * P <= k * P /\ k * P \in Int /\ j * P \in Int
      BY <2>1, <3>1, PeriodsGrow
    <3>3. (j + 1) * P = j * P + P
      BY <2>1, <3>1, OnePeriodMore, Zenon
    <3>4. age + Left[s] > k * P /\ Left[s] \in Nat /\ Left[s] <= P
      BY <1>3, <1>5, <2>1, <2>3 DEF k, P
    <3>5. j * P + P <= k * P
      BY <3>2, <3>3, Zenon
    <3>6. age > j * P
      BY <1>3, <2>1, <3>2, <3>4, <3>5, SMTT(20)
    <3>7. QED
      BY <1>5, <3>6, BtuConstants, Zenon DEF j, P, n, age
  <2>4. QED
    BY <1>4, <1>5, <2>2, <2>3, BtuConstants, Zenon DEF Late
<1>6. CASE s = Bta
  <2>1. CASE age = MaxAge
    <3>1. n \in 0 .. MaxAge
      BY <1>4, <1>6, BtuAssumption, Zenon
    <3>2. QED
      BY <1>3, <1>6, <2>1, <3>1, BtuConstants, SMTT(20)
  <2>2. CASE age + set[t].skip >= n - 0 + since
    BY <1>3, <1>6, <2>2, BtuConstants
  <2>3. QED
    BY <1>4, <1>6, <2>1, <2>2, BtuConstants, Zenon DEF Late
<1>7. QED
  BY <1>5, <1>6, BtuConstants, SMTT(20)

\* No timer of the stack or of BTA expires earlier than the events that may wait
\* and the ticks not yet taken off explain, for every period and timeout.
THEOREM ExpiresNotTooEarly == BtuSpec => NotTooEarly
<1>1. ASSUME BtuInv
      PROVE  [\A t \in Watched :
                /\ ExpireEntry(Stack) /\ call' = t => set[t].age > (set[t].n - 3) * Period[Stack]
                /\ ExpireEntry(Bta) /\ call' = t   => set[t].age + set[t].skip >= set[t].n]_btuVars
  <2>1. Stack \in Slots /\ Bta \in Slots
    BY BtuConstants, Zenon
  <2>2. ASSUME NEW t \in Watched
        PROVE  /\ ExpireEntry(Stack) /\ call' = t => set[t].age > (set[t].n - 3) * Period[Stack]
               /\ ExpireEntry(Bta) /\ call' = t   => set[t].age + set[t].skip >= set[t].n
    BY <1>1, <2>1, ExpiredIsOld, Zenon
  <2>3. QED
    BY <2>2, Zenon
<1>2. QED
  BY <1>1, BtuInvariant, PTL DEF NotTooEarly

-----------------------------------------------------------------------------
(* The lists implement deadlines.                                          *)

\* What a step may do to the times and the callback of list s: the disjuncts of
\* Deadlines!Next, and a stutter.
Moves(s) ==
    \/ Rem(s)' = Rem(s) /\ CallOf(s)' = CallOf(s)
    \/ \E t \in Entries[s], n \in Timeouts[s] :
           Rem(s)' = [Rem(s) EXCEPT ![t] = n] /\ CallOf(s)' = CallOf(s)
    \/ \E t \in Entries[s] : Rem(s)' = [Rem(s) EXCEPT ![t] = -1] /\ CallOf(s)' = CallOf(s)
    \/ \E t \in Entries[s] : /\ Rem(s)[t] = 0 /\ Rem(s)' = [Rem(s) EXCEPT ![t] = -1]
                             /\ CallOf(s)' = t
    \/ \E k \in 1 .. MaxAge :
           /\ Rem(s)' = [t \in Entries[s] |-> IF Rem(s)[t] > k THEN Rem(s)[t] - k
                                              ELSE IF Rem(s)[t] >= 0 THEN 0 ELSE -1]
           /\ CallOf(s)' = CallOf(s)
    \/ CallOf(s)' = "none" /\ Rem(s)' = Rem(s)

\* A list that is left alone, with the callback left alone or over.
LEMMA MovesNot ==
  ASSUME NEW s, list'[s] = list[s], CallOf(s)' = CallOf(s) \/ CallOf(s)' = "none"
  PROVE  Moves(s)
<1>1. Rem(s)' = Rem(s)
  BY DEF Rem
<1>2. QED
  BY <1>1 DEF Moves

\* Updating a list by nothing changes no time.
LEMMA TimesAdvanceZero ==
  ASSUME NEW E, NEW l, IsTimerList(l, E)
  PROVE  TimesOf(UpdateList(l, 0), E) = TimesOf(l, E)
<1>1. 0 \in Nat
  BY Zenon
<1>2. IdsOf(UpdateList(l, 0)) = IdsOf(l)
      /\ \A u \in IdsOf(l) : Remaining(UpdateList(l, 0), u) = Positive(Remaining(l, u) - 0)
  BY <1>1, UpdateKeeps
<1>3. \A u \in IdsOf(l) : Remaining(l, u) \in Nat
  BY RemainingType
<1>4. \A u \in IdsOf(l) : Positive(Remaining(l, u) - 0) = Remaining(l, u)
  BY <1>3 DEF Positive
<1> DEFINE m == UpdateList(l, 0)
<1>5. IdsOf(m) = IdsOf(l) /\ \A u \in IdsOf(l) : Remaining(m, u) = Remaining(l, u)
  BY <1>2, <1>4
<1> HIDE DEF m
<1>6. TimesOf(m, E) = TimesOf(l, E)
  BY <1>5, SMTT(20) DEF TimesOf
<1>7. QED
  BY <1>6 DEF m

\* Every step is, for each list, a step of the deadlines or a stutter.
LEMMA BtuMoves ==
  ASSUME ListInv, [BtuNext]_btuVars, NEW x \in Slots
  PROVE  Moves(x)
<1>0. \A s \in Slots : IsTimerList(list[s], Entries[s])
  BY Zenon DEF ListInv
<1>1. ASSUME NEW s \in Slots, NEW t \in Entries[s], NEW n \in Timeouts[s], StartTimer(s, t, n)
      PROVE  Moves(x)
  <2>1. list' = [list EXCEPT ![s] = AddEntry(RemoveEntry(list[s], t), t, n)] /\ call' = call
    BY <1>1 DEF StartTimer
  <2>2. list'[s] = AddEntry(RemoveEntry(list[s], t), t, n) /\ \A y \in Slots : y # s => list'[y] = list[y]
    BY <2>1, ListResults, OneList, Zenon
  <2>3. CallOf(x)' = CallOf(x)
    BY <2>1, Zenon DEF CallOf
  <2>4. n \in Nat
    BY BtuConstants, Zenon
  <2>5. TimesOf(AddEntry(RemoveEntry(list[s], t), t, n), Entries[s]) =
            [TimesOf(list[s], Entries[s]) EXCEPT ![t] = n]
    BY <1>0, <2>4, TimesSet, SMTT(20)
  <2>6. Rem(s)' = [Rem(s) EXCEPT ![t] = n]
    BY <2>2, <2>5, Zenon DEF Rem
  <2>7. CASE x = s
    BY <2>3, <2>6, <2>7, Zenon DEF Moves
  <2>8. CASE x # s
    BY <2>2, <2>3, <2>8, MovesNot, Zenon
  <2>9. QED
    BY <2>7, <2>8, Zenon
<1>2. ASSUME NEW s \in Slots, NEW t \in Entries[s], list' = [list EXCEPT ![s] = RemoveEntry(list[s], t)]
      PROVE  Rem(s)' = [Rem(s) EXCEPT ![t] = -1] /\ \A y \in Slots : y # s => list'[y] = list[y]
  <2>1. list'[s] = RemoveEntry(list[s], t) /\ \A y \in Slots : y # s => list'[y] = list[y]
    BY <1>2, ListResults, OneList, Zenon
  <2>2. TimesOf(RemoveEntry(list[s], t), Entries[s]) = [TimesOf(list[s], Entries[s]) EXCEPT ![t] = -1]
    BY <1>0, TimesCancel, Zenon
  <2>3. Rem(s)' = [Rem(s) EXCEPT ![t] = -1]
    BY <2>1, <2>2 DEF Rem
  <2>4. QED
    BY <2>1, <2>3
<1>3. ASSUME NEW s \in Slots, NEW t \in Entries[s], StopTimer(s, t) PROVE Moves(x)
  <2>1. list' = [list EXCEPT ![s] = RemoveEntry(list[s], t)] /\ call' = call
    BY <1>3 DEF StopTimer
  <2>2. Rem(s)' = [Rem(s) EXCEPT ![t] = -1] /\ \A y \in Slots : y # s => list'[y] = list[y]
    BY <1>2, <2>1, Zenon
  <2>3. CallOf(x)' = CallOf(x)
    BY <2>1, Zenon DEF CallOf
  <2>4. CASE x = s
    BY <2>2, <2>3, <2>4, Zenon DEF Moves
  <2>5. CASE x # s
    BY <2>2, <2>3, <2>5, MovesNot, Zenon
  <2>6. QED
    BY <2>4, <2>5, Zenon
<1>4. ASSUME NEW s \in Slots, UpdateEvent(s) PROVE Moves(x)
  <2>1. list' = [list EXCEPT ![s] = UpdateList(list[s], Units(s))] /\ call' = "none" /\ call = "msg"
    BY <1>4, Zenon DEF UpdateEvent, Units, ListInv
  <2>2. Units(s) \in 0 .. MaxAge /\ Units(s) \in Nat
    BY BtuConstants, SMTT(30) DEF Units, ListInv
  <2>3. list'[s] = UpdateList(list[s], Units(s)) /\ \A y \in Slots : y # s => list'[y] = list[y]
    BY <2>1, <2>2, ListResults, OneList, Zenon
  <2>4. CallOf(x)' = CallOf(x)
    BY <2>1, BtuConstants, Zenon DEF CallOf
  <2>5. CASE x = s /\ Units(s) = 0
    <3>1. TimesOf(UpdateList(list[s], 0), Entries[s]) = TimesOf(list[s], Entries[s])
      BY <1>0, TimesAdvanceZero, Zenon
    <3>2. Rem(s)' = Rem(s)
      BY <2>3, <2>5, <3>1, Zenon DEF Rem
    <3>3. QED
      BY <2>4, <2>5, <3>2, Zenon DEF Moves
  <2>6. CASE x = s /\ Units(s) # 0
    <3> DEFINE k == Units(s)
    <3>1. k \in 1 .. MaxAge /\ k \in Nat
      BY <2>2, <2>6
    <3>2. list'[s] = UpdateList(list[s], k)
      BY <2>3, Zenon
    <3> HIDE DEF k
    <3>3. TimesOf(UpdateList(list[s], k), Entries[s]) =
             [t \in Entries[s] |-> IF TimesOf(list[s], Entries[s])[t] > k THEN TimesOf(list[s], Entries[s])[t] - k
                                   ELSE IF TimesOf(list[s], Entries[s])[t] >= 0 THEN 0 ELSE -1]
      BY <1>0, <3>1, TimesAdvance, SMTT(20)
    <3>4. Rem(s)' = [t \in Entries[s] |-> IF Rem(s)[t] > k THEN Rem(s)[t] - k
                                          ELSE IF Rem(s)[t] >= 0 THEN 0 ELSE -1]
      BY <3>2, <3>3, Zenon DEF Rem
    <3>5. QED
      BY <2>4, <2>6, <3>1, <3>4, Zenon DEF Moves
  <2>7. CASE x # s
    BY <2>3, <2>4, <2>7, MovesNot, Zenon
  <2>8. QED
    BY <2>5, <2>6, <2>7, Zenon
<1>5. ASSUME NEW s \in Slots, ExpireEntry(s) PROVE Moves(x)
  <2> DEFINE t == Head(list[s].q).id
  <2>1. t \in IdsOf(list[s]) /\ Remaining(list[s], t) = 0
    BY <1>0, <1>5, HeadDue, Zenon DEF ExpireEntry
  <2>2. list' = [list EXCEPT ![s] = RemoveEntry(list[s], t)] /\ call' = t
    BY <1>5, Zenon DEF ExpireEntry
  <2> HIDE DEF t
  <2>3. t \in Entries[s]
    BY <1>0, <2>1, ListIds
  <2>4. Rem(s)' = [Rem(s) EXCEPT ![t] = -1] /\ \A y \in Slots : y # s => list'[y] = list[y]
    BY <1>2, <2>2, <2>3, Zenon
  <2>5. CASE x = s
    <3>1. Rem(s)[t] = 0
      BY <2>1, <2>3 DEF Rem, TimesOf
    <3>2. CallOf(s)' = t
      BY <2>2, <2>3, Zenon DEF CallOf
    <3>3. QED
      BY <2>3, <2>4, <2>5, <3>1, <3>2, Zenon DEF Moves
  <2>6. CASE x # s
    <3>1. CallOf(x)' = "none"
      BY <2>2, <2>3, <2>6, BtuConstants DEF CallOf
    <3>2. QED
      BY <2>4, <2>6, <3>1, MovesNot, Zenon
  <2>7. QED
    BY <2>5, <2>6
<1>6. ASSUME NEW s \in Slots, ListDone(s) PROVE Moves(x)
  <2>1. list' = list /\ call' = "msg"
    BY <1>6, Zenon DEF ListDone
  <2>2. CallOf(x)' = "none"
    BY <2>1, BtuConstants DEF CallOf
  <2>3. QED
    BY <2>1, <2>2, MovesNot
<1>7. ASSUME WaitReturns \/ Tick \/ UNCHANGED btuVars PROVE Moves(x)
  <2>1. list' = list /\ call' = call
    BY <1>7 DEF WaitReturns, Tick, btuVars, listVars
  <2>2. CallOf(x)' = CallOf(x)
    BY <2>1 DEF CallOf
  <2>3. QED
    BY <2>1, <2>2, MovesNot
<1>8. QED
  BY <1>1, <1>3, <1>4, <1>5, <1>6, <1>7, Zenon DEF BtuNext, Calls, Task

\* Both lists, as differences with their last_ticks, implement entries that each
\* have a deadline of their own.
THEOREM ListsKeepDeadlines == BtuSpec => KeepsDeadlines
<1>1. Stack \in Slots /\ Bta \in Slots
  BY BtuConstants
<1>2. ASSUME BtuInit, NEW s \in Slots
      PROVE  Rem(s) = [t \in Entries[s] |-> -1] /\ CallOf(s) = "none"
  <2>1. list[s] = EmptyList /\ IdsOf(list[s]) = {}
    BY <1>2, EmptyIsList DEF BtuInit
  <2>2. call = "msg"
    BY <1>2 DEF BtuInit
  <2>3. QED
    BY <2>1, <2>2, BtuConstants DEF Rem, TimesOf, CallOf
<1>3. BtuInit => StackList!Init /\ BtaList!Init
  BY <1>1, <1>2 DEF StackList!Init, BtaList!Init
<1>4. ASSUME BtuInv, [BtuNext]_btuVars PROVE [StackList!Next]_(StackList!vars)
  <2>1. Moves(Stack)
    BY <1>1, <1>4, BtuMoves DEF BtuInv
  <2>2. QED
    BY <2>1, Zenon DEF Moves, StackList!Next, StackList!vars, StackList!Set, StackList!Cancel,
                       StackList!Expire, StackList!Advance, StackList!Return
<1>5. ASSUME BtuInv, [BtuNext]_btuVars PROVE [BtaList!Next]_(BtaList!vars)
  <2>1. Moves(Bta)
    BY <1>1, <1>5, BtuMoves DEF BtuInv
  <2>2. QED
    BY <2>1, Zenon DEF Moves, BtaList!Next, BtaList!vars, BtaList!Set, BtaList!Cancel,
                       BtaList!Expire, BtaList!Advance, BtaList!Return
<1>6. QED
  BY <1>3, <1>4, <1>5, BtuInvariant, PTL DEF BtuSpec, KeepsDeadlines, StackList!Spec, BtaList!Spec
=============================================================================
