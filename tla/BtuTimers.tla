----------------------------- MODULE BtuTimers -----------------------------
(***************************************************************************)
(* The BTU task's two timer lists, one of the stack (btu_task.c, driven by *)
(* TIMER_0 once a second) and one of BTA (ptim.c, driven by TIMER_1), over *)
(* the GKI timers of GkiTimers.  A list counts from the events of its GKI  *)
(* timer, which wait until the task is back in GKI_wait and do not add up. *)
(* Timers are started and stopped by the task's own message handlers and   *)
(* timer callbacks.                                                        *)
(***************************************************************************)
EXTENDS GkiTimers, TimerList

CONSTANTS Entries,   \* [Slots -> sets of TIMER_LIST_ENTs]
          Timeouts,  \* [Slots -> sets of timeouts], seconds for TIMER_0, ticks for TIMER_1
          Period,    \* [Slots -> ticks]: GKI_SECS_TO_TICKS(1), GKI_MS_TO_TICKS(period)
          Watched,   \* entries whose age is recorded
          MaxAge     \* largest age that is told apart

Stack == "TIMER_0"
Bta   == "TIMER_1"

ASSUME BtuAssumption ==
    /\ Slots = {Stack, Bta} /\ Durations = {Period[s] : s \in Slots}
    /\ Entries[Stack] \cap Entries[Bta] = {} /\ Watched \subseteq UNION {Entries[s] : s \in Slots}
    /\ \A s \in Slots : {"msg", "none"} \cap Entries[s] = {}
    /\ MaxAge \in Nat \ {0} /\ Timeouts[Bta] \subseteq 0 .. MaxAge
    /\ \A n \in Timeouts[Stack] : n \in Nat /\ (n - 3) * Period[Stack] < MaxAge

VARIABLES list,   \* timer_queue of btu_cb and of the BTA protocol timers
          since,  \* GKI_get_tick_count() - last_gki_ticks of the BTA list, at most MaxAge;
                  \* not counted while the list is empty: starting a timer sets it again
          got,    \* events GKI_wait returned, not yet handled
          pc,     \* the timer event being handled, or "loop"
          call,   \* the code that may start timers: "msg", a timer's callback, or "none"
          zero,   \* a timer callback has started a timer for 0
          set     \* for each watched entry: its timeout, age in ticks and since at its start

listVars == <<list, since, got, pc, call, zero, set>>
btuVars  == <<timerVars, listVars>>

NotSet == [n |-> 0, age |-> 0, skip |-> 0]

BtuInit ==
    /\ TimersInit /\ list = [s \in Slots |-> EmptyList] /\ since = 0 /\ got = {}
    /\ pc = "loop" /\ call = "msg" /\ zero = FALSE /\ set = [t \in Watched |-> NotSet]

-----------------------------------------------------------------------------

\* btu_start_timer and ptim_start_timer, on the BTU task.  Timer callbacks that
\* start a timer for 0 work off a queue, so they do not do it for ever: the
\* model allows it once in each run of a list.
StartTimer(s, t, n) ==
    /\ call # "none"
    /\ IF pc = "loop" \/ n > 0 THEN UNCHANGED zero ELSE ~zero /\ zero' = TRUE
    /\ IF list[s].q = <<>>
       THEN /\ GKI_start_timer(s, Period[s], Period[s])
            /\ since' = IF s = Bta THEN 0 ELSE since
       ELSE UNCHANGED <<timerVars, since>>
    /\ list' = [list EXCEPT ![s] = AddEntry(RemoveEntry(@, t), t, n)]
    /\ set' = IF t \in Watched
              THEN [set EXCEPT ![t] = [n |-> n, age |-> 0, skip |-> IF s = Bta THEN since' ELSE 0]]
              ELSE set
    /\ UNCHANGED <<got, pc, call>>

\* A list that has become empty stops its GKI timer.
StopIfEmpty(s) == IF list'[s].q = <<>> THEN GKI_stop_timer(s) ELSE UNCHANGED timerVars

Forget(t) == set' = IF t \in Watched THEN [set EXCEPT ![t] = NotSet] ELSE set

\* btu_stop_timer and ptim_stop_timer.
StopTimer(s, t) ==
    /\ call # "none"
    /\ list' = [list EXCEPT ![s] = RemoveEntry(@, t)] /\ StopIfEmpty(s) /\ Forget(t)
    /\ UNCHANGED <<since, got, pc, call, zero>>

\* GKI_wait returns all events of the task at once.
WaitReturns ==
    /\ pc = "loop" /\ got = {} /\ fired # {}
    /\ got' = fired /\ TakeEvents(fired)
    /\ UNCHANGED <<list, since, pc, call, zero, set>>

\* Variant: the ticks of the last update are counted again in the next.
UpdateEventAgain(s) ==
    /\ pc = "loop" /\ s \in got /\ (s = Bta => Stack \notin got)
    /\ got' = got \ {s} /\ pc' = s /\ call' = "none" /\ zero' = FALSE
    /\ list' = [list EXCEPT ![s] = UpdateList(@, IF s = Stack THEN 1 ELSE since)]
    /\ UNCHANGED <<since, timerVars, set>>

\* TIMER_0_EVT_MASK, before TIMER_1_EVT_MASK: the list is updated by one unit,
\* the BTA list by the ticks since its last update.
UpdateEvent(s) ==
    /\ pc = "loop" /\ s \in got /\ (s = Bta => Stack \notin got)
    /\ got' = got \ {s} /\ pc' = s /\ call' = "none" /\ zero' = FALSE
    /\ list' = [list EXCEPT ![s] = UpdateList(@, IF s = Stack THEN 1 ELSE since)]
    /\ since' = IF s = Bta THEN 0 ELSE since
    /\ UNCHANGED <<timerVars, set>>

\* The first entry has expired: it is removed and its callback called.
ExpireEntry(s) ==
    /\ pc = s /\ HeadExpired(list[s])
    /\ LET t == Head(list[s].q).id
       IN  list' = [list EXCEPT ![s] = RemoveEntry(@, t)] /\ call' = t /\ Forget(t)
    /\ UNCHANGED <<timerVars, since, got, pc, zero>>

ListDone(s) ==
    /\ pc = s /\ ~HeadExpired(list[s]) /\ pc' = "loop" /\ call' = "msg" /\ zero' = FALSE
    /\ UNCHANGED list /\ StopIfEmpty(s)
    /\ UNCHANGED <<since, got, set>>

\* The system tick, and what it does to the times that are recorded.
Older(n) == IF n < MaxAge THEN n + 1 ELSE n
Tick ==
    /\ GKI_timer_update
    /\ since' = IF list[Bta].q = <<>> THEN 0 ELSE Older(since)
    /\ set' = [t \in Watched |-> IF \E s \in Slots : t \in IdsOf(list[s])
                                 THEN [set[t] EXCEPT !.age = Older(@)] ELSE set[t]]
    /\ UNCHANGED <<list, got, pc, call, zero>>

Calls == \E s \in Slots : \E t \in Entries[s] :
             StopTimer(s, t) \/ \E n \in Timeouts[s] : StartTimer(s, t, n)
Task  == WaitReturns \/ \E s \in Slots : UpdateEvent(s) \/ ExpireEntry(s) \/ ListDone(s)

BtuNext == Calls \/ Task \/ Tick

\* The timer thread and the BTU task run; whether handlers start and stop
\* timers is their own choice.
BtuSpec == BtuInit /\ [][BtuNext]_btuVars /\ WF_btuVars(Tick) /\ WF_btuVars(Task)

-----------------------------------------------------------------------------
(* Properties.                                                             *)

\* An entry is on the list of its own queue, once, and last_ticks is the sum of
\* the ticks of the entries.  GKI_add_to_timer_list relies on it: with a larger
\* one its search for the place of a new entry runs off the end of the list,
\* with a smaller one it appends out of order.
ListsExact ==
    \A s \in Slots : /\ IdsOf(list[s]) \subseteq Entries[s]
                     /\ \A i, j \in 1 .. Len(list[s].q) : list[s].q[i].id = list[s].q[j].id => i = j
                     /\ list[s].last = Total(list[s].q, Len(list[s].q))

\* The difference lists implement entries with deadlines of their own.
Rem(s)      == TimesOf(list[s], Entries[s])
CallOf(s)   == IF call \in Entries[s] THEN call ELSE "none"
StackList == INSTANCE Deadlines WITH Entries <- Entries[Stack], Timeouts <- Timeouts[Stack],
                 MaxUnits <- MaxAge, None <- "none", rem <- Rem(Stack), call <- CallOf(Stack)
BtaList   == INSTANCE Deadlines WITH Entries <- Entries[Bta], Timeouts <- Timeouts[Bta],
                 MaxUnits <- MaxAge, None <- "none", rem <- Rem(Bta), call <- CallOf(Bta)
KeepsDeadlines == StackList!Spec /\ BtaList!Spec

\* How early a timer may expire.  An entry of the stack's list started for n
\* seconds has seen more than n - 3 of them: one event may have been returned by
\* GKI_wait and not yet handled, another be waiting, and the third follow at
\* once.  An entry of the BTA list expires too early by no more than the ticks
\* that had gone by, when it was started, since the last update of the list.
NotTooEarly ==
    [][\A t \in Watched :
          /\ ExpireEntry(Stack) /\ call' = t => set[t].age > (set[t].n - 3) * Period[Stack]
          /\ ExpireEntry(Bta) /\ call' = t   => set[t].age + set[t].skip >= set[t].n]_btuVars

\* The strengthening that makes the properties above inductive.  The lists are
\* timer lists; the task is in its loop only with no callback running; the GKI
\* timer of a list that is not empty runs, and is continuous.
ListInv ==
    /\ DOMAIN list = Slots /\ \A s \in Slots : IsTimerList(list[s], Entries[s])
    /\ since \in 0 .. MaxAge /\ got \subseteq Slots
    /\ pc \in Slots \cup {"loop"} /\ (pc = "loop" => call = "msg")
    /\ set \in [Watched -> [n : Nat, age : 0 .. MaxAge, skip : 0 .. MaxAge]]
DrivenInv ==
    \A s \in Slots : list[s].q # <<>> => Left[s] \in 1 .. Period[s] /\ reload[s] = Period[s]

\* The age of an entry, as far as it is told apart, against the time taken off
\* it.  The stack's list: each second taken off, but for two events that may
\* have been waiting at the start, is a full period of TIMER_0, and the next
\* has begun.  The BTA list: the ticks taken off are those counted since the
\* update before the start.
Waiting(s) == (IF s \in got THEN 1 ELSE 0) + (IF s \in fired THEN 1 ELSE 0)
Aged(s, t) ==
    LET gone == set[t].n - Remaining(list[s], t)
    IN  /\ set[t].n \in Timeouts[s]
        /\ \/ set[t].age = MaxAge
           \/ s = Stack /\ set[t].age + Left[s] > (gone + Waiting(s) - 2) * Period[s]
           \/ s = Bta /\ set[t].age + set[t].skip >= gone + since
AgeInv == \A s \in Slots : \A t \in Watched \cap IdsOf(list[s]) : Aged(s, t)

BtuInv == TimersInv /\ ListInv /\ DrivenInv /\ AgeInv

\* A timer that is started is stopped, started again or expires: the tick, the
\* GKI timer, the event and the list cannot all wait for one another.
TimersExpire ==
    \A s \in Slots : \A t \in Entries[s] \cap Watched :
        t \in IdsOf(list[s]) /\ set[t].age > 0 ~> t \notin IdsOf(list[s]) \/ set[t].age = 0
=============================================================================
