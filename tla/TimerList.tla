----------------------------- MODULE TimerList -----------------------------
(***************************************************************************)
(* The timer lists of gki_time.c (TIMER_LIST_Q), as operators from one     *)
(* list to the next.  A list l keeps its entries in expiry order: the      *)
(* ticks of an entry count from the expiry of the entry before it, and     *)
(* l.last (last_ticks) is the time to the expiry of the last one.          *)
(***************************************************************************)
EXTENDS Integers, Sequences

EmptyList == [q |-> <<>>, last |-> 0]

IdsOf(l) == {l.q[i].id : i \in 1 .. Len(l.q)}

\* Time to the expiry of the i-th entry; GKI_get_remaining_ticks walks the same sum.
Total(q, i) ==
    LET pre[k \in 0 .. Len(q)] == IF k = 0 THEN 0 ELSE pre[k - 1] + q[k].ticks
    IN  pre[i]
Remaining(l, t) ==
    IF t \in IdsOf(l) THEN Total(l.q, CHOOSE i \in 1 .. Len(l.q) : l.q[i].id = t) ELSE 0

\* The time to go of each entry, -1 for one that is not on the list.
TimesOf(l, E) == [t \in E |-> IF t \in IdsOf(l) THEN Remaining(l, t) ELSE -1]

\* An entry linked in as the i-th, and the i-th unlinked.
InsertAt(q, i, e) == SubSeq(q, 1, i - 1) \o <<e>> \o SubSeq(q, i, Len(q))
RemoveAt(q, i)    == SubSeq(q, 1, i - 1) \o SubSeq(q, i + 1, Len(q))

Positive(n) == IF n > 0 THEN n ELSE 0

\* Variant: the entry behind the new one goes on counting from the one before.
AddEntryShifts(l, t, n) ==
    IF n >= l.last
    THEN [q |-> Append(l.q, [id |-> t, ticks |-> n - l.last]), last |-> n]
    ELSE LET Rest(i) == n - Total(l.q, i - 1)
             i == CHOOSE k \in 1 .. Len(l.q) : /\ Rest(k) <= l.q[k].ticks
                                               /\ \A j \in 1 .. k - 1 : Rest(j) > l.q[j].ticks
         IN  [l EXCEPT !.q = InsertAt(@, i, [id |-> t, ticks |-> Rest(i)])]

\* GKI_add_to_timer_list: behind the last entry if it expires no sooner, else in
\* front of the first entry whose ticks the rest of n does not exceed, which
\* then counts from the new one.
AddEntry(l, t, n) ==
    IF n >= l.last
    THEN [q |-> Append(l.q, [id |-> t, ticks |-> n - l.last]), last |-> n]
    ELSE LET Rest(i) == n - Total(l.q, i - 1)
             i == CHOOSE k \in 1 .. Len(l.q) : /\ Rest(k) <= l.q[k].ticks
                                               /\ \A j \in 1 .. k - 1 : Rest(j) > l.q[j].ticks
         IN  [l EXCEPT !.q = InsertAt([l.q EXCEPT ![i].ticks = @ - Rest(i)], i,
                                      [id |-> t, ticks |-> Rest(i)])]

\* Variant: last_ticks is not adjusted when the last entry goes.
RemoveEntryKeepsLast(l, t) ==
    IF t \notin IdsOf(l) THEN l
    ELSE LET i == CHOOSE k \in 1 .. Len(l.q) : l.q[k].id = t
         IN  IF i < Len(l.q)
             THEN [l EXCEPT !.q = RemoveAt([l.q EXCEPT ![i + 1].ticks = @ + l.q[i].ticks], i)]
             ELSE [l EXCEPT !.q = RemoveAt(@, i)]

\* GKI_remove_from_timer_list: the next entry, or last_ticks, takes up the ticks.
RemoveEntry(l, t) ==
    IF t \notin IdsOf(l) THEN l
    ELSE LET i == CHOOSE k \in 1 .. Len(l.q) : l.q[k].id = t
         IN  IF i < Len(l.q)
             THEN [l EXCEPT !.q = RemoveAt([l.q EXCEPT ![i + 1].ticks = @ + l.q[i].ticks], i)]
             ELSE [q |-> RemoveAt(l.q, i), last |-> l.last - l.q[i].ticks]

\* GKI_update_timer_list: k units are taken off the entries from the front on,
\* each passing on what it did not use; an expired entry stays at 0.
UpdateList(l, k) ==
    [q |-> [i \in 1 .. Len(l.q) |->
               [l.q[i] EXCEPT !.ticks = Positive(@ - Positive(k - Total(l.q, i - 1)))]],
     last |-> Positive(l.last - k)]

\* What the operations rely on and keep: no entry is on the list twice, no
\* ticks are negative, and last_ticks is the sum of them all.
IsTimerList(l, E) ==
    /\ l \in [q : Seq([id : E, ticks : Nat]), last : Nat]
    /\ \A i, j \in 1 .. Len(l.q) : l.q[i].id = l.q[j].id => i = j
    /\ l.last = Total(l.q, Len(l.q))

HeadExpired(l) == l.q # <<>> /\ Head(l.q).ticks <= 0
=============================================================================
