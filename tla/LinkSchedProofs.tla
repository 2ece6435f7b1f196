--------------------------- MODULE LinkSchedProofs ---------------------------
(***************************************************************************)
(* The accounts l2c_link.c keeps of the controller's buffers are right,    *)
(* for every number of links and of buffers and every workload.            *)
(***************************************************************************)
EXTENDS LinkSched, SequenceFacts

-----------------------------------------------------------------------------
(* Recursion and sums.                                                     *)

\* A function that satisfies a recursion over 0 .. n whose step stays in S has
\* its values in S.
LEMMA Iterates ==
  ASSUME NEW S, NEW n \in Nat, NEW k, k[0] \in S,
         \A i \in 1 .. n : k[i - 1] \in S => k[i] \in S
  PROVE  \A i \in 0 .. n : k[i] \in S
PROOF
  <1> DEFINE Q == {i \in Nat : i <= n => k[i] \in S}
  <1>1. 0 \in Q
    OBVIOUS
  <1>2. ASSUME NEW i \in Nat, i \in Q PROVE i + 1 \in Q
    <2> SUFFICES ASSUME i + 1 <= n PROVE k[i + 1] \in S
      OBVIOUS
    <2>1. i + 1 \in 1 .. n /\ (i + 1) - 1 = i /\ k[i] \in S
      BY <1>2
    <2> QED BY <2>1
  <1>3. Nat \subseteq Q
    <2> HIDE DEF Q
    <2> QED BY <1>1, <1>2, NatInduct
  <1> QED BY <1>3

\* What a link adds to the sum over S.
Part(f, S, l) == IF l \in S THEN f[l] ELSE 0

\* The running sum over the links, from the first block on.
IsTotal(g, f, S) ==
    /\ g \in [0 .. MaxLinks -> Nat] /\ g[0] = 0
    /\ \A l \in Pool : g[l] = g[l - 1] + Part(f, S, l)

\* Total is the last value of the running sum.
LEMMA TotalDef ==
  ASSUME NEW f \in [Pool -> Nat], NEW S
  PROVE  \E g : IsTotal(g, f, S) /\ Total(f, S) = g[MaxLinks]
PROOF
  <1>1. PICK n \in Nat : n = MaxLinks
    BY SchedAssumption
  <1>2. Pool = 1 .. n
    BY <1>1 DEF Pool
  <1> DEFINE w == [l \in 1 .. n |-> Part(f, S, l)]
             g == [p \in (1 .. n) \X Nat |-> p[2] + w[p[1]]]
  <1>3. w \in [1 .. n -> Nat]
    BY <1>2 DEF Part
  <1>4. g \in [(1 .. n) \X Nat -> Nat]
    BY <1>3
  <1>5. \A i \in 1 .. n, x \in Nat : g[<<i, x>>] = x + w[i]
    OBVIOUS
  <1>6. \A i \in 1 .. n : w[i] = IF i \in S THEN f[i] ELSE 0
    BY DEF Part
  <1> HIDE DEF g, w
  <1>7. PICK h : IsRecursive(h, n, Nat, 0, g)
    <2> DEFINE V == Nat
               b == 0
    <2>1. b \in V /\ g \in [(1 .. n) \X V -> V]
      BY <1>4
    <2> HIDE DEF V, b
    <2>2. \E h : IsRecursive(h, n, V, b, g)
      BY <2>1, RecursiveFcn, Zenon
    <2> QED BY <2>2, Zenon DEF V, b
  <1>8. h \in [0 .. n -> Nat] /\ h[0] = 0 /\ \A i \in 1 .. n : h[i] = g[<<i, h[i - 1]>>]
    BY <1>7 DEF IsRecursive
  <1>9. \A i \in 1 .. n : h[i] = h[i - 1] + w[i]
    <2> SUFFICES ASSUME NEW i \in 1 .. n PROVE h[i] = h[i - 1] + w[i]
      OBVIOUS
    <2>1. h[i - 1] \in Nat /\ h[i] = g[<<i, h[i - 1]>>]
      BY <1>8
    <2> QED BY <1>5, <2>1
  <1> DEFINE Sums(k) == k = [l \in 0 .. n |-> IF l = 0 THEN 0 ELSE k[l - 1] + (IF l \in S THEN f[l] ELSE 0)]
             k == CHOOSE x : Sums(x)
  <1>10. h = [l \in 0 .. n |-> IF l = 0 THEN 0 ELSE h[l - 1] + (IF l \in S THEN f[l] ELSE 0)]
    BY <1>6, <1>8, <1>9
  <1>11. Sums(k)
    BY <1>10, Zenon
  <1>12. Total(f, S) = k[n]
    BY <1>1 DEF Total
  <1> HIDE DEF k
  <1>13. k[0] = 0 /\ \A i \in 1 .. n : k[i] = k[i - 1] + w[i]
    BY <1>6, <1>11
  <1>14. \A i \in 0 .. n : k[i] \in Nat
    <2>1. k[0] \in Nat /\ \A i \in 1 .. n : k[i - 1] \in Nat => k[i] \in Nat
      BY <1>3, <1>13
    <2> DEFINE V == Nat
    <2>2. k[0] \in V /\ \A i \in 1 .. n : k[i - 1] \in V => k[i] \in V
      BY <2>1
    <2> HIDE DEF V
    <2>3. \A i \in 0 .. n : k[i] \in V
      BY <2>2, Iterates
    <2> QED BY <2>3 DEF V
  <1>15. k \in [0 .. n -> Nat]
    BY <1>11, <1>14
  <1>16. \A l \in 1 .. n : k[l] = k[l - 1] + Part(f, S, l)
    BY <1>6, <1>13 DEF Part
  <1>17. IsTotal(k, f, S)
    BY <1>1, <1>2, <1>13, <1>15, <1>16 DEF IsTotal
  <1> QED BY <1>1, <1>12, <1>17

\* Two sums in which every other link than l adds the same.
DifferAt(f, S, g, T, l) == \A m \in Pool : m # l => Part(f, S, m) = Part(g, T, m)

\* When two sums differ at one link only, their values differ by what that link
\* adds to each.
LEMMA TotalPoint ==
  ASSUME NEW f \in [Pool -> Nat], NEW g \in [Pool -> Nat], NEW S, NEW T, NEW l \in Pool,
         DifferAt(f, S, g, T, l)
  PROVE  /\ Total(f, S) \in Nat /\ Total(g, T) \in Nat
         /\ Part(f, S, l) \in Nat /\ Part(g, T, l) \in Nat
         /\ Total(g, T) = Total(f, S) - Part(f, S, l) + Part(g, T, l)
         /\ Part(f, S, l) <= Total(f, S)
PROOF
  <1>1. PICK n \in Nat : n = MaxLinks /\ n > 0 /\ Pool = 1 .. n
    BY SchedAssumption DEF Pool
  <1>2. PICK a : IsTotal(a, f, S) /\ Total(f, S) = a[n]
    BY <1>1, TotalDef
  <1>3. PICK c : IsTotal(c, g, T) /\ Total(g, T) = c[n]
    BY <1>1, TotalDef
  <1>4. a \in [0 .. n -> Nat] /\ a[0] = 0 /\ \A m \in 1 .. n : a[m] = a[m - 1] + Part(f, S, m)
    BY <1>1, <1>2, Zenon DEF IsTotal
  <1>5. c \in [0 .. n -> Nat] /\ c[0] = 0 /\ \A m \in 1 .. n : c[m] = c[m - 1] + Part(g, T, m)
    BY <1>1, <1>3, Zenon DEF IsTotal
  <1>6. \A m \in Pool : Part(f, S, m) \in Nat /\ Part(g, T, m) \in Nat
    BY DEF Part
  <1> DEFINE x == Part(f, S, l)
             y == Part(g, T, l)
             Q == {m \in Nat : m <= n => IF m < l THEN c[m] = a[m] ELSE c[m] = a[m] - x + y /\ x <= a[m]}
  <1>7. x \in Nat /\ y \in Nat /\ l \in 1 .. n
    BY <1>1, <1>6
  <1>8. 0 \in Q
    BY <1>4, <1>5, <1>7
  <1>9. ASSUME NEW m \in Nat, m \in Q PROVE m + 1 \in Q
    <2> SUFFICES ASSUME m + 1 <= n
                 PROVE  IF m + 1 < l THEN c[m + 1] = a[m + 1]
                        ELSE c[m + 1] = a[m + 1] - x + y /\ x <= a[m + 1]
      OBVIOUS
    <2>1. m + 1 \in 1 .. n /\ (m + 1) - 1 = m /\ m \in 0 .. n
      OBVIOUS
    <2>2. a[m + 1] = a[m] + Part(f, S, m + 1) /\ c[m + 1] = c[m] + Part(g, T, m + 1)
      BY <1>4, <1>5, <2>1
    <2>3. a[m] \in Nat /\ c[m] \in Nat
      BY <1>4, <1>5, <2>1
    <2>4. IF m < l THEN c[m] = a[m] ELSE c[m] = a[m] - x + y /\ x <= a[m]
      BY <1>9
    <2>5. m + 1 # l => Part(f, S, m + 1) = Part(g, T, m + 1)
      BY <1>1, <2>1 DEF DifferAt
    <2>6. Part(f, S, m + 1) \in Nat /\ Part(g, T, m + 1) \in Nat
      BY <1>1, <1>6, <2>1
    <2>7. m + 1 = l => Part(f, S, m + 1) = x /\ Part(g, T, m + 1) = y
      OBVIOUS
    <2> HIDE DEF x, y
    <2> QED BY <1>7, <2>2, <2>3, <2>4, <2>5, <2>6, <2>7
  <1>10. Nat \subseteq Q
    <2> HIDE DEF Q
    <2> QED BY <1>8, <1>9, NatInduct
  <1>11. c[n] = a[n] - x + y /\ x <= a[n]
    BY <1>7, <1>10
  <1> QED BY <1>2, <1>3, <1>4, <1>5, <1>7, <1>11

\* A sum to which no link adds anything is 0.
LEMMA TotalZero ==
  ASSUME NEW f \in [Pool -> Nat], NEW S, \A m \in Pool : Part(f, S, m) = 0
  PROVE  Total(f, S) = 0
PROOF
  <1>1. PICK n \in Nat : n = MaxLinks /\ Pool = 1 .. n
    BY SchedAssumption DEF Pool
  <1>2. PICK a : IsTotal(a, f, S) /\ Total(f, S) = a[n]
    BY <1>1, TotalDef
  <1>3. a[0] = 0 /\ \A m \in 1 .. n : a[m] = a[m - 1] + 0
    BY <1>1, <1>2 DEF IsTotal
  <1> DEFINE V == {0}
  <1>4. a[0] \in V /\ \A m \in 1 .. n : a[m - 1] \in V => a[m] \in V
    BY <1>3
  <1>5. \A m \in 0 .. n : a[m] \in V
    <2> HIDE DEF V
    <2> QED BY <1>4, Iterates, Zenon
  <1> QED BY <1>2, <1>5

\* Counting the links of a set.
LEMMA CountFacts ==
  ASSUME NEW S \in SUBSET Pool
  PROVE  /\ Count(S) \in Nat /\ (S # {} => Count(S) > 0)
         /\ \A l \in Pool : S = {l} => Count(S) = 1
PROOF
  <1> DEFINE one == [l \in Pool |-> 1]
  <1>1. one \in [Pool -> Nat] /\ \A T : \A l \in Pool : Part(one, T, l) = IF l \in T THEN 1 ELSE 0
    BY DEF Part
  <1>2. Count(S) = Total(one, S)
    BY DEF Count
  <1> HIDE DEF one
  <1>3. ASSUME NEW l \in Pool PROVE Count(S) \in Nat /\ Part(one, S, l) <= Count(S)
    <2>1. DifferAt(one, S, one, S, l)
      BY DEF DifferAt
    <2> QED BY <1>1, <1>2, <2>1, TotalPoint
  <1>4. Count(S) \in Nat
    <2>1. 1 \in Pool
      BY SchedAssumption DEF Pool
    <2> QED BY <1>3, <2>1, Zenon
  <1>5. S # {} => Count(S) > 0
    BY <1>1, <1>3, <1>4
  <1>6. ASSUME NEW l \in Pool, S = {l} PROVE Count(S) = 1
    <2>1. Total(one, {}) = 0
      BY <1>1, TotalZero
    <2>2. DifferAt(one, {}, one, S, l)
      BY <1>1, <1>6 DEF DifferAt
    <2>3. Total(one, S) = Total(one, {}) - Part(one, {}, l) + Part(one, S, l)
      BY <1>1, <2>2, TotalPoint
    <2>4. Part(one, {}, l) = 0 /\ Part(one, S, l) = 1
      BY <1>1, <1>6
    <2> QED BY <1>2, <2>1, <2>3, <2>4
  <1> QED BY <1>4, <1>5, <1>6

-----------------------------------------------------------------------------
(* What the handlers work on.                                              *)

States == {"free", "connecting", "connected", "disconnecting"}
Sizes  == Nat \ {0}
Blocks == [state : States, high : BOOLEAN, quota : Nat, sent : Nat, linkq : Seq(Sizes),
           chanq : Seq(Sizes), partial : BOOLEAN, timer : BOOLEAN, passed : BOOLEAN]
Fields == [window : Nat, rrquota : Nat, rrunacked : Nat, check : BOOLEAN]
Works  == [b : Fields, lcb : [Pool -> Blocks], hci : [Pool -> Nat], ctl : [Pool -> Nat]]

\* The links in round robin, as RRLinks, in the record of the handlers.
RR(s) == {l \in Pool : s.lcb[l].state # "free" /\ s.lcb[l].quota = 0}

\* One high priority link at most, and packets in the controller only of links
\* that are up, each of which has counted its own.
LinksGood(s) ==
    /\ \A l, m \in Pool : s.lcb[l].high /\ s.lcb[m].high => l = m
    /\ \A l \in Pool : s.lcb[l].state \in {"free", "connecting"} => s.ctl[l] = 0
    /\ \A l \in Pool : s.lcb[l].sent >= s.ctl[l]

\* The accounts are right: the window and the packets in the controller make up
\* k, and the communal count covers the links in round robin.
Good(s, k) ==
    /\ s \in Works /\ LinksGood(s)
    /\ s.b.window + Total(s.ctl, Pool) = k
    /\ NumBufs > 1 => s.b.rrunacked >= Total(s.ctl, RR(s))

\* From s to t link l sends n segments, or none; nothing else is counted.
Sends(s, t, l, n) ==
    /\ t \in Works /\ n \in Nat /\ n <= s.b.window
    /\ n > 0 => s.lcb[l].state = "connected"
    /\ t.b.window = s.b.window - n
    /\ t.b.rrunacked = s.b.rrunacked + (IF s.lcb[l].quota = 0 THEN n ELSE 0)
    /\ t.ctl = [s.ctl EXCEPT ![l] = @ + n]
    /\ t.lcb[l].sent = s.lcb[l].sent + n
    /\ \A m \in Pool : /\ t.lcb[m].state = s.lcb[m].state /\ t.lcb[m].quota = s.lcb[m].quota
                       /\ t.lcb[m].high = s.lcb[m].high /\ (m # l => t.lcb[m].sent = s.lcb[m].sent)

\* The parts of a record of the handlers.
LEMMA WorkParts ==
  ASSUME NEW s \in Works, NEW l \in Pool
  PROVE  /\ s.b \in Fields /\ s.lcb \in [Pool -> Blocks] /\ s.hci \in [Pool -> Nat] /\ s.ctl \in [Pool -> Nat]
         /\ s.b.window \in Nat /\ s.b.rrquota \in Nat /\ s.b.rrunacked \in Nat /\ s.b.check \in BOOLEAN
         /\ s.lcb[l] \in Blocks /\ s.ctl[l] \in Nat /\ s.hci[l] \in Nat
         /\ s.lcb[l].state \in States /\ s.lcb[l].quota \in Nat /\ s.lcb[l].sent \in Nat
         /\ s.lcb[l].linkq \in Seq(Sizes) /\ s.lcb[l].chanq \in Seq(Sizes)
         /\ s.lcb[l].high \in BOOLEAN /\ s.lcb[l].partial \in BOOLEAN
         /\ s.lcb[l].timer \in BOOLEAN /\ s.lcb[l].passed \in BOOLEAN
PROOF
  BY Zenon DEF Works, Fields, Blocks

\* Sending keeps the accounts right.
LEMMA SendsGood ==
  ASSUME NEW s, NEW t, NEW k, NEW l \in Pool, NEW n, Good(s, k), Sends(s, t, l, n)
  PROVE  Good(t, k)
PROOF
  <1>1. s \in Works /\ t \in Works /\ n \in Nat /\ LinksGood(s)
    BY DEF Good, Sends
  <1>2. s.ctl \in [Pool -> Nat] /\ t.ctl \in [Pool -> Nat] /\ s.b.window \in Nat /\ s.b.rrunacked \in Nat
    BY <1>1, WorkParts
  <1>3. s.ctl[l] \in Nat /\ t.ctl[l] = s.ctl[l] + n /\ \A m \in Pool : m # l => t.ctl[m] = s.ctl[m]
    BY <1>2 DEF Sends
  <1>4. LinksGood(t)
    <2>1. \A m \in Pool : s.lcb[m].sent \in Nat /\ s.ctl[m] \in Nat
      BY <1>1, WorkParts
    <2>2. \A m \in Pool : t.lcb[m].state = s.lcb[m].state /\ t.lcb[m].high = s.lcb[m].high
      BY DEF Sends
    <2>3. \A m \in Pool : t.lcb[m].state \in {"free", "connecting"} => t.ctl[m] = 0
      BY <1>1, <1>3, <2>2 DEF LinksGood, Sends
    <2>4. \A m \in Pool : t.lcb[m].sent >= t.ctl[m]
      BY <1>1, <1>3, <2>1 DEF LinksGood, Sends
    <2>5. \A i, m \in Pool : t.lcb[i].high /\ t.lcb[m].high => i = m
      BY <1>1, <2>2, Zenon DEF LinksGood
    <2> QED BY <2>3, <2>4, <2>5 DEF LinksGood
  <1>5. t.b.window + Total(t.ctl, Pool) = k
    <2>1. DifferAt(s.ctl, Pool, t.ctl, Pool, l)
      BY <1>3 DEF Part, DifferAt
    <2>2. /\ Total(s.ctl, Pool) \in Nat
          /\ Total(t.ctl, Pool) = Total(s.ctl, Pool) - Part(s.ctl, Pool, l) + Part(t.ctl, Pool, l)
      BY <1>2, <2>1, TotalPoint
    <2>3. Part(s.ctl, Pool, l) = s.ctl[l] /\ Part(t.ctl, Pool, l) = s.ctl[l] + n
      BY <1>3 DEF Part
    <2>4. s.b.window + Total(s.ctl, Pool) = k /\ t.b.window = s.b.window - n
      BY DEF Good, Sends
    <2> QED BY <1>1, <1>2, <1>3, <2>2, <2>3, <2>4
  <1>6. ASSUME NumBufs > 1 PROVE t.b.rrunacked >= Total(t.ctl, RR(t))
    <2>1. RR(t) = RR(s)
      BY DEF RR, Sends
    <2> DEFINE R == RR(s)
    <2>2. l \in R => s.lcb[l].quota = 0
      BY DEF RR
    <2>3. s.b.rrunacked >= Total(s.ctl, R)
      BY <1>6 DEF Good
    <2> HIDE DEF R
    <2>4. DifferAt(s.ctl, R, t.ctl, R, l)
      BY <1>3 DEF Part, DifferAt
    <2>5. /\ Total(s.ctl, R) \in Nat
          /\ Total(t.ctl, R) = Total(s.ctl, R) - Part(s.ctl, R, l) + Part(t.ctl, R, l)
      BY <1>2, <2>4, TotalPoint
    <2>6. IF l \in R THEN Part(s.ctl, R, l) = s.ctl[l] /\ Part(t.ctl, R, l) = s.ctl[l] + n
          ELSE Part(s.ctl, R, l) = 0 /\ Part(t.ctl, R, l) = 0
      BY <1>3 DEF Part
    <2>7. t.b.rrunacked = s.b.rrunacked + (IF s.lcb[l].quota = 0 THEN n ELSE 0)
      BY DEF Sends
    <2>8. t.b.rrunacked >= Total(t.ctl, R)
      BY <1>1, <1>2, <1>3, <2>2, <2>3, <2>5, <2>6, <2>7
    <2> QED BY <2>1, <2>8 DEF R
  <1> QED BY <1>1, <1>4, <1>5, <1>6 DEF Good

\* From s to t nothing is counted.
Same(s, t) ==
    /\ t \in Works /\ t.b.window = s.b.window /\ t.b.rrunacked = s.b.rrunacked /\ t.ctl = s.ctl
    /\ \A m \in Pool : /\ t.lcb[m].state = s.lcb[m].state /\ t.lcb[m].quota = s.lcb[m].quota
                       /\ t.lcb[m].high = s.lcb[m].high /\ t.lcb[m].sent = s.lcb[m].sent

\* Then the accounts stay right.
LEMMA SameGood ==
  ASSUME NEW s, NEW t, NEW k, Good(s, k), Same(s, t)
  PROVE  Good(t, k)
PROOF
  <1>1. s \in Works
    BY DEF Good
  <1>2. PICK l : l \in Pool
    BY SchedAssumption DEF Pool
  <1>3. /\ s.ctl \in [Pool -> Nat] /\ s.b.window \in Nat /\ s.b.rrunacked \in Nat
        /\ s.lcb[l].sent \in Nat /\ s.ctl[l] \in Nat
    BY <1>1, <1>2, WorkParts
  <1>4. t.ctl = [s.ctl EXCEPT ![l] = @ + 0]
    BY <1>2, <1>3 DEF Same
  <1>5. Sends(s, t, l, 0)
    BY <1>2, <1>3, <1>4 DEF Sends, Same
  <1> QED BY <1>2, <1>5, SendsGood

-----------------------------------------------------------------------------
(* Sending.                                                                *)

\* The least of three integers.
LEMMA MinOfThree ==
  ASSUME NEW a \in Int, NEW b \in Int, NEW c \in Int
  PROVE  /\ Min({a, b, c}) \in {a, b, c}
         /\ Min({a, b, c}) <= a /\ Min({a, b, c}) <= b /\ Min({a, b, c}) <= c
PROOF
  <1> DEFINE S == {a, b, c}
  <1>1. \E x \in S : \A y \in S : x <= y
    OBVIOUS
  <1>2. Min(S) \in S /\ \A y \in S : Min(S) <= y
    BY <1>1 DEF Min
  <1> QED BY <1>2

\* The segments l2c_link_send_to_lower sends: at least one, no more than the
\* packet has and the window allows.
LEMMA SegmentsBound ==
  ASSUME NEW s \in Works, NEW l \in Pool, NEW p \in Sizes, s.b.window # 0,
         s.lcb[l].quota = 0 \/ s.lcb[l].sent < s.lcb[l].quota
  PROVE  Segments(s, l, p) \in Nat /\ Segments(s, l, p) > 0
         /\ Segments(s, l, p) <= s.b.window /\ Segments(s, l, p) <= p
PROOF
  <1>1. s.b.window \in Nat /\ s.lcb[l].quota \in Nat /\ s.lcb[l].sent \in Nat
    BY WorkParts
  <1>2. p \in Nat /\ p > 0
    BY DEF Sizes
  <1> DEFINE d == s.lcb[l].quota - s.lcb[l].sent
             w == s.b.window
  <1>3. d \in Int /\ w \in Int /\ w > 0
    BY <1>1
  <1>4. s.lcb[l].quota # 0 => d > 0
    BY <1>1
  <1>5. Segments(s, l, p) = IF p = 1 \/ s.lcb[l].quota = 0 THEN 1 ELSE Min({p, w, d})
    BY DEF Segments
  <1> HIDE DEF d, w
  <1>6. Min({p, w, d}) \in {p, w, d} /\ Min({p, w, d}) <= p /\ Min({p, w, d}) <= w
    BY <1>2, <1>3, MinOfThree
  <1>7. Segments(s, l, p) \in Nat /\ Segments(s, l, p) > 0 /\ Segments(s, l, p) <= w /\ Segments(s, l, p) <= p
    BY <1>2, <1>3, <1>4, <1>5, <1>6
  <1> QED BY <1>7 DEF w

\* l2c_link_send_to_lower takes from the window what it counts.
LEMMA SendToLowerSends ==
  ASSUME NEW s \in Works, NEW l \in Pool, NEW p \in Sizes, s.b.window # 0, s.lcb[l].state = "connected",
         s.lcb[l].quota = 0 \/ s.lcb[l].sent < s.lcb[l].quota
  PROVE  \E n : Sends(s, SendToLower(s, l, p), l, n)
PROOF
  <1> DEFINE n == Segments(s, l, p)
             t == SendToLower(s, l, p)
             z == IF s.lcb[l].quota = 0 THEN s.b.rrunacked + n ELSE s.b.rrunacked
             part == s.lcb[l].partial \/ n < p
  <1>1. n \in Nat /\ n > 0 /\ n <= s.b.window /\ n <= p
    BY SegmentsBound
  <1>2. t = [s EXCEPT !.b.window = @ - n, !.b.rrunacked = z, !.lcb[l].sent = @ + n, !.lcb[l].partial = part,
                      !.ctl[l] = @ + n, !.hci[l] = p - n]
    BY DEF SendToLower
  <1>3. part \in BOOLEAN
    BY Zenon
  <1>4. p \in Nat /\ p - n \in Nat
    BY <1>1 DEF Sizes
  <1>5. z \in Nat
    BY <1>1, WorkParts
  <1>6. z = s.b.rrunacked + (IF s.lcb[l].quota = 0 THEN n ELSE 0)
    BY <1>1, WorkParts
  <1> HIDE DEF n, z, part, t
  <1>7. s.b \in Fields /\ s.lcb \in [Pool -> Blocks] /\ s.hci \in [Pool -> Nat] /\ s.ctl \in [Pool -> Nat]
    BY WorkParts
  <1> DEFINE fb == [s.b EXCEPT !.window = @ - n, !.rrunacked = z]
             fl == [s.lcb EXCEPT ![l].sent = @ + n, ![l].partial = part]
             fh == [s.hci EXCEPT ![l] = p - n]
             fc == [s.ctl EXCEPT ![l] = @ + n]
  <1>8. t.b = fb /\ t.lcb = fl /\ t.hci = fh /\ t.ctl = fc /\ t = [b |-> t.b, lcb |-> t.lcb, hci |-> t.hci, ctl |-> t.ctl]
    BY <1>2, Zenon DEF Works
  <1>9. fb \in Fields /\ fb.window = s.b.window - n /\ fb.rrunacked = z
    <2> DEFINE f == [s.b EXCEPT !.window = @ - n]
    <2>1. s.b.window - n \in Nat
      BY <1>1, WorkParts
    <2>2. f \in Fields /\ f.window = s.b.window - n
      BY <1>7, <2>1 DEF Fields
    <2>3. fb = [f EXCEPT !.rrunacked = z]
      OBVIOUS
    <2> HIDE DEF f, fb
    <2> QED BY <1>5, <2>2, <2>3 DEF Fields
  <1>10. s.lcb[l] \in Blocks
    BY <1>7
  <1> DEFINE e == [s.lcb[l] EXCEPT !.sent = @ + n, !.partial = part]
  <1>11. /\ e \in Blocks /\ e.state = s.lcb[l].state /\ e.quota = s.lcb[l].quota
         /\ e.high = s.lcb[l].high /\ e.sent = s.lcb[l].sent + n
    <2> DEFINE d == [s.lcb[l] EXCEPT !.sent = @ + n]
    <2>1. s.lcb[l].sent + n \in Nat
      BY <1>1, WorkParts
    <2>2. /\ d \in Blocks /\ d.state = s.lcb[l].state /\ d.quota = s.lcb[l].quota
          /\ d.high = s.lcb[l].high /\ d.sent = s.lcb[l].sent + n
      BY <1>10, <2>1, Zenon DEF Blocks
    <2>3. e = [d EXCEPT !.partial = part]
      OBVIOUS
    <2> HIDE DEF d, e
    <2> QED BY <1>3, <2>2, <2>3 DEF Blocks
  <1>12. fl = [s.lcb EXCEPT ![l] = e]
    BY <1>7, <1>10, Zenon DEF Blocks
  <1> HIDE DEF e
  <1>13. fl \in [Pool -> Blocks] /\ fl[l] = e /\ \A m \in Pool : m # l => fl[m] = s.lcb[m]
    BY <1>7, <1>11, <1>12
  <1>14. fh \in [Pool -> Nat]
    BY <1>4, <1>7
  <1>15. fc \in [Pool -> Nat]
    BY <1>1, <1>7
  <1> HIDE DEF fb, fl, fh, fc
  <1>16. t \in Works
    BY <1>8, <1>9, <1>13, <1>14, <1>15 DEF Works
  <1>17. t.ctl = [s.ctl EXCEPT ![l] = @ + n]
    BY <1>8 DEF fc
  <1>18. Sends(s, t, l, n)
    BY <1>1, <1>6, <1>8, <1>9, <1>11, <1>13, <1>16, <1>17 DEF Sends
  <1> QED BY <1>18 DEF t

\* Changes of a block that count nothing.
SameBlock(e, b) ==
    e \in Blocks /\ e.state = b.state /\ e.quota = b.quota /\ e.high = b.high /\ e.sent = b.sent

\* Replacing a block by one that counts the same counts nothing, and neither
\* does noting that the round robin is due.
LEMMA BlockSame ==
  ASSUME NEW s \in Works, NEW l \in Pool, NEW e, SameBlock(e, s.lcb[l]), NEW c \in BOOLEAN
  PROVE  /\ Same(s, [s EXCEPT !.lcb[l] = e])
         /\ Same(s, [s EXCEPT !.lcb[l] = e, !.b.check = c])
PROOF
  <1>1. s.b \in Fields /\ s.lcb \in [Pool -> Blocks] /\ s.hci \in [Pool -> Nat] /\ s.ctl \in [Pool -> Nat]
    BY WorkParts
  <1> DEFINE fl == [s.lcb EXCEPT ![l] = e]
             fb == [s.b EXCEPT !.check = c]
             t  == [s EXCEPT !.lcb[l] = e]
             u  == [s EXCEPT !.lcb[l] = e, !.b.check = c]
  <1>2. fl \in [Pool -> Blocks] /\ fl[l] = e /\ \A m \in Pool : m # l => fl[m] = s.lcb[m]
    BY <1>1 DEF SameBlock
  <1>3. fb \in Fields /\ fb.window = s.b.window /\ fb.rrunacked = s.b.rrunacked
    BY <1>1 DEF Fields
  <1>4. t = [b |-> s.b, lcb |-> fl, hci |-> s.hci, ctl |-> s.ctl]
    BY DEF Works
  <1>5. u = [b |-> fb, lcb |-> fl, hci |-> s.hci, ctl |-> s.ctl]
    <2>1. u = [t EXCEPT !.b = [t.b EXCEPT !.check = c]]
      OBVIOUS
    <2> HIDE DEF t
    <2> QED BY <1>4, <2>1
  <1> HIDE DEF fl, fb, t, u
  <1>6. t \in Works /\ u \in Works
    BY <1>1, <1>2, <1>3, <1>4, <1>5 DEF Works
  <1>7. \A m \in Pool : /\ fl[m].state = s.lcb[m].state /\ fl[m].quota = s.lcb[m].quota
                        /\ fl[m].high = s.lcb[m].high /\ fl[m].sent = s.lcb[m].sent
    BY <1>2 DEF SameBlock
  <1>8. Same(s, t)
    BY <1>4, <1>6, <1>7 DEF Same
  <1>9. Same(s, u)
    BY <1>3, <1>5, <1>6, <1>7 DEF Same
  <1> QED BY <1>8, <1>9 DEF t, u

\* The queues of a link.
Queues == {"linkq", "chanq"}

\* Writing a field of a block that counts nothing.
LEMMA QueueBlock ==
  ASSUME NEW b \in Blocks, NEW q \in Queues, NEW v \in Seq(Sizes)
  PROVE  SameBlock([b EXCEPT ![q] = v], b) /\ b[q] \in Seq(Sizes)
PROOF
  <1>1. CASE q = "linkq"
    BY <1>1 DEF Blocks, SameBlock
  <1>2. CASE q = "chanq"
    BY <1>2, Zenon DEF Blocks, SameBlock
  <1> QED BY <1>1, <1>2 DEF Queues

\* The flags of a block count nothing.
LEMMA FlagBlock ==
  ASSUME NEW b \in Blocks, NEW v \in BOOLEAN, NEW w \in BOOLEAN
  PROVE  /\ SameBlock([b EXCEPT !.passed = v], b)
         /\ SameBlock([b EXCEPT !.timer = v], b)
         /\ SameBlock([b EXCEPT !.timer = v, !.passed = w], b)
PROOF
  <1>1. SameBlock([b EXCEPT !.passed = v], b)
    BY DEF Blocks, SameBlock
  <1> DEFINE e == [b EXCEPT !.timer = v]
  <1>2. SameBlock(e, b)
    BY DEF Blocks, SameBlock
  <1>3. SameBlock([e EXCEPT !.passed = w], b)
    <2> HIDE DEF e
    <2> QED BY <1>2, Zenon DEF Blocks, SameBlock
  <1> QED BY <1>1, <1>2, <1>3

\* Two fields of a block written one after the other, or with the block.
Marked(b, v, w)    == [b EXCEPT !.timer = v, !.passed = w]
Put(s, l, e)       == [s EXCEPT !.lcb[l] = e]
PutMarks(s, l, v, w) == [s EXCEPT !.lcb[l].timer = v, !.lcb[l].passed = w]

\* Both ways give the same record.
LEMMA TwoFields ==
  ASSUME NEW s \in Works, NEW l \in Pool, NEW v, NEW w
  PROVE  PutMarks(s, l, v, w) = Put(s, l, Marked(s.lcb[l], v, w))
PROOF
  <1>1. s.lcb \in [Pool -> Blocks]
    BY WorkParts
  <1> DEFINE e == [s.lcb[l] EXCEPT !.timer = v]
             t == [s EXCEPT !.lcb[l] = e]
  <1>2. t.lcb[l] = e
    BY <1>1 DEF Works
  <1>3. [s EXCEPT !.lcb[l].timer = v, !.lcb[l].passed = w] = [t EXCEPT !.lcb[l].passed = w]
    OBVIOUS
  <1>4. [t EXCEPT !.lcb[l].passed = w] = [t EXCEPT !.lcb[l] = [t.lcb[l] EXCEPT !.passed = w]]
    OBVIOUS
  <1>5. \A d : [t EXCEPT !.lcb[l] = d] = [s EXCEPT !.lcb[l] = d]
    BY <1>1, Zenon DEF Works
  <1> HIDE DEF t
  <1>6. [t EXCEPT !.lcb[l].passed = w] = [s EXCEPT !.lcb[l] = [e EXCEPT !.passed = w]]
    BY <1>2, <1>4, <1>5
  <1> QED BY <1>3, <1>6 DEF PutMarks, Put, Marked

\* Looking at a link counts nothing.
LEMMA SeenGood ==
  ASSUME NEW s, NEW k, NEW l \in Pool, Good(s, k)
  PROVE  /\ Good(Seen(s, l), k) /\ Seen(s, l).b = s.b
         /\ \A q \in Queues \cup {"state", "quota", "sent"} : Seen(s, l).lcb[l][q] = s.lcb[l][q]
PROOF
  <1>1. s \in Works
    BY DEF Good
  <1>2. s.lcb[l] \in Blocks /\ s.lcb \in [Pool -> Blocks]
    BY <1>1, WorkParts
  <1> DEFINE e == [s.lcb[l] EXCEPT !.passed = FALSE]
  <1>3. SameBlock(e, s.lcb[l])
    BY <1>2, FlagBlock, Zenon
  <1>4. e.linkq = s.lcb[l].linkq /\ e.chanq = s.lcb[l].chanq
    BY <1>2 DEF Blocks
  <1>5. Seen(s, l) = [s EXCEPT !.lcb[l] = e]
    BY <1>1 DEF Seen
  <1> HIDE DEF e
  <1>6. Good(Seen(s, l), k)
    <2>1. Same(s, [s EXCEPT !.lcb[l] = e])
      BY <1>1, <1>3, BlockSame, Zenon
    <2> QED BY <1>5, <2>1, SameGood
  <1>7. Seen(s, l).b = s.b /\ Seen(s, l).lcb[l] = e
    BY <1>1, <1>2, <1>5 DEF Works
  <1> QED BY <1>3, <1>4, <1>6, <1>7 DEF SameBlock, Queues

\* The flow control timer and the ghost count nothing.
LEMMA RearmSame ==
  ASSUME NEW s \in Works, NEW l \in Pool
  PROVE  Same(s, Rearm(s, l))
PROOF
  <1>1. s.lcb[l] \in Blocks
    BY WorkParts
  <1> DEFINE b == s.lcb[l]
             room == b.sent < b.quota
             over == IF b.quota = 0 THEN ~s.b.check /\ b.linkq \o b.chanq # <<>>
                     ELSE room /\ b.linkq = <<>> /\ b.chanq # <<>>
             v == b.timer \/ (room /\ b.linkq # <<>>)
             w == b.passed \/ over
  <1>3. Rearm(s, l) = PutMarks(s, l, v, w)
    <2> DEFINE t == [s EXCEPT !.lcb[l].timer = v]
    <2>1. t.lcb[l].passed = s.lcb[l].passed
      <3> HIDE DEF v
      <3>1. s.lcb \in [Pool -> Blocks]
        BY WorkParts
      <3> QED BY <3>1 DEF Works, Blocks
    <2> QED BY <2>1, Zenon DEF Rearm, PutMarks
  <1>4. v \in BOOLEAN /\ w \in BOOLEAN
    BY Zenon
  <1> HIDE DEF v, w
  <1>5. SameBlock(Marked(s.lcb[l], v, w), s.lcb[l])
    BY <1>1, <1>4, FlagBlock, Zenon DEF Marked
  <1>6. Rearm(s, l) = Put(s, l, Marked(s.lcb[l], v, w))
    BY <1>3, TwoFields
  <1>7. Same(s, Put(s, l, Marked(s.lcb[l], v, w)))
    BY <1>5, BlockSame, Zenon DEF Put
  <1> QED BY <1>6, <1>7

\* A packet in a queue counts nothing yet.
LEMMA EnqueueGood ==
  ASSUME NEW s, NEW k, NEW l \in Pool, NEW q \in Queues, NEW p \in Sizes, Good(s, k)
  PROVE  Good(Enqueue(s, l, q, p), k)
PROOF
  <1>1. s \in Works
    BY DEF Good
  <1>2. s.lcb[l] \in Blocks
    BY <1>1, WorkParts
  <1> DEFINE v == Append(s.lcb[l][q], p)
             e == [s.lcb[l] EXCEPT ![q] = v]
             c == s.b.check \/ s.lcb[l].quota = 0
  <1>3. s.lcb[l][q] \in Seq(Sizes)
    BY <1>2 DEF Blocks, Queues
  <1>4. v \in Seq(Sizes)
    BY <1>3
  <1>5. c \in BOOLEAN
    BY Zenon
  <1>6. Enqueue(s, l, q, p) = [s EXCEPT !.lcb[l] = e, !.b.check = c]
    <2> DEFINE t == [s EXCEPT !.lcb[l] = e]
    <2>1. t.b = s.b
      <3> HIDE DEF e
      <3> QED BY <1>1 DEF Works
    <2>2. t = [s EXCEPT !.lcb[l][q] = v]
      OBVIOUS
    <2>3. Enqueue(s, l, q, p) = [[s EXCEPT !.lcb[l][q] = v] EXCEPT !.b.check = @ \/ s.lcb[l].quota = 0]
      BY DEF Enqueue
    <2> QED BY <2>1, <2>2, <2>3, Zenon
  <1> HIDE DEF v, c
  <1>7. SameBlock(e, s.lcb[l])
    BY <1>2, <1>4, QueueBlock
  <1> HIDE DEF e
  <1>8. Same(s, [s EXCEPT !.lcb[l] = e, !.b.check = c])
    BY <1>1, <1>5, <1>7, BlockSame, Zenon
  <1>9. Same(s, Enqueue(s, l, q, p))
    BY <1>6, <1>8, Zenon
  <1> QED BY <1>9, SameGood

\* Sending the packet at the head of a queue of link l.
LEMMA SendFromGood ==
  ASSUME NEW s, NEW k, NEW l \in Pool, NEW q \in Queues, Good(s, k), s.lcb[l][q] # <<>>, s.b.window # 0,
         s.lcb[l].state = "connected", s.lcb[l].quota = 0 \/ s.lcb[l].sent < s.lcb[l].quota
  PROVE  Good(SendFrom(s, l, q), k) /\ SendFrom(s, l, q).lcb[l].state = "connected"
PROOF
  <1>1. s \in Works
    BY DEF Good
  <1>2. s.lcb[l] \in Blocks /\ s.lcb \in [Pool -> Blocks]
    BY <1>1, WorkParts
  <1> DEFINE v == Tail(s.lcb[l][q])
             p == Head(s.lcb[l][q])
             e == [s.lcb[l] EXCEPT ![q] = v]
             t == [s EXCEPT !.lcb[l] = e]
  <1>3. s.lcb[l][q] \in Seq(Sizes)
    BY <1>2 DEF Blocks, Queues
  <1>4. v \in Seq(Sizes) /\ p \in Sizes
    BY <1>3
  <1>5. SendFrom(s, l, q) = SendToLower(t, l, p)
    BY DEF SendFrom
  <1> HIDE DEF v, p
  <1>6. SameBlock(e, s.lcb[l])
    BY <1>2, <1>4, QueueBlock
  <1> HIDE DEF e
  <1>7. Good(t, k)
    <2>1. Same(s, t)
      BY <1>1, <1>6, BlockSame, Zenon
    <2> QED BY <2>1, SameGood
  <1>8. t.b = s.b /\ t.lcb[l] = e
    BY <1>1, <1>2 DEF Works
  <1> HIDE DEF t
  <1>9. t \in Works
    BY <1>7 DEF Good
  <1>10. t.b.window # 0 /\ t.lcb[l].state = "connected" /\ (t.lcb[l].quota = 0 \/ t.lcb[l].sent < t.lcb[l].quota)
    BY <1>6, <1>8 DEF SameBlock
  <1>11. PICK n : Sends(t, SendToLower(t, l, p), l, n)
    BY <1>4, <1>9, <1>10, SendToLowerSends
  <1> DEFINE u == SendToLower(t, l, p)
  <1> HIDE DEF u
  <1>12. Sends(t, u, l, n)
    BY <1>11 DEF u
  <1>13. Good(u, k)
    BY <1>7, <1>12, SendsGood
  <1>14. u.lcb[l].state = "connected"
    BY <1>10, <1>12 DEF Sends
  <1> QED BY <1>5, <1>13, <1>14 DEF u

\* The records in which the accounts are right and link l is up.
UpWorks(k, l) == {s \in Works : Good(s, k) /\ s.lcb[l].state = "connected"}

\* One turn of the loop over a queue of a link that has a quota.
LEMMA SendOpenGood ==
  ASSUME NEW k, NEW l \in Pool, NEW q \in Queues, NEW s \in UpWorks(k, l)
  PROVE  SendOpen(s, l, q) \in UpWorks(k, l)
PROOF
  <1>1. s \in Works /\ Good(s, k) /\ s.lcb[l].state = "connected"
    BY DEF UpWorks
  <1>2. CASE Open(s, l) /\ s.lcb[l][q] # <<>>
    <2>1. s.b.window # 0 /\ s.lcb[l].sent < s.lcb[l].quota
      BY <1>2 DEF Open
    <2> DEFINE t == SendFrom(s, l, q)
    <2>2. Good(t, k) /\ t.lcb[l].state = "connected"
      BY <1>1, <1>2, <2>1, SendFromGood, Zenon
    <2>3. SendOpen(s, l, q) = t
      BY <1>2 DEF SendOpen
    <2> HIDE DEF t
    <2> QED BY <2>2, <2>3 DEF UpWorks, Good
  <1>3. CASE ~(Open(s, l) /\ s.lcb[l][q] # <<>>)
    BY <1>3 DEF SendOpen
  <1> QED BY <1>2, <1>3

\* The loop.
LEMMA DrainGood ==
  ASSUME NEW k, NEW l \in Pool, NEW q \in Queues, NEW s \in UpWorks(k, l)
  PROVE  Drain(s, l, q) \in UpWorks(k, l)
PROOF
  <1>1. PICK n \in Nat : n = NumBufs
    BY SchedAssumption
  <1> DEFINE V == UpWorks(k, l)
             g == [p \in (1 .. n) \X V |-> SendOpen(p[2], l, q)]
  <1>2. \A x \in V : SendOpen(x, l, q) \in V
    BY SendOpenGood
  <1>3. s \in V
    OBVIOUS
  <1> HIDE DEF V
  <1>4. g \in [(1 .. n) \X V -> V] /\ \A i \in 1 .. n, x \in V : g[<<i, x>>] = SendOpen(x, l, q)
    BY <1>2
  <1> HIDE DEF g
  <1>5. PICK h : IsRecursive(h, n, V, s, g)
    BY <1>3, <1>4, RecursiveFcn, Zenon
  <1>6. h \in [0 .. n -> V] /\ h[0] = s /\ \A i \in 1 .. n : h[i] = SendOpen(h[i - 1], l, q)
    <2>1. h \in [0 .. n -> V] /\ h[0] = s /\ \A i \in 1 .. n : h[i] = g[<<i, h[i - 1]>>]
      BY <1>5 DEF IsRecursive
    <2>2. \A i \in 1 .. n : h[i - 1] \in V
      BY <2>1
    <2> QED BY <1>4, <2>1, <2>2, Zenon
  <1> DEFINE Loop(f) == f = [i \in 0 .. n |-> IF i = 0 THEN s ELSE SendOpen(f[i - 1], l, q)]
             f == CHOOSE x : Loop(x)
  <1>7. h = [i \in 0 .. n |-> IF i = 0 THEN s ELSE SendOpen(h[i - 1], l, q)]
    BY <1>6
  <1>8. Loop(f)
    BY <1>7, Zenon
  <1>9. Drain(s, l, q) = f[n]
    BY <1>1 DEF Drain
  <1> HIDE DEF f
  <1>10. f[0] = s /\ \A i \in 1 .. n : f[i] = SendOpen(f[i - 1], l, q)
    BY <1>8
  <1>11. \A i \in 1 .. n : f[i - 1] \in V => f[i] \in V
    BY <1>2, <1>10
  <1>12. \A i \in 0 .. n : f[i] \in V
    BY <1>3, <1>10, <1>11, Iterates
  <1> QED BY <1>9, <1>12 DEF V

\* l2c_link_check_send_pkts on a link with a quota.
LEMMA DirectGood ==
  ASSUME NEW s, NEW k, NEW l \in Pool, NEW single, Good(s, k)
  PROVE  Good(Direct(s, l, single), k)
PROOF
  <1>1. CASE s.lcb[l].partial \/ s.lcb[l].state # "connected"
    BY <1>1 DEF Direct
  <1>2. CASE ~(s.lcb[l].partial \/ s.lcb[l].state # "connected")
    <2> DEFINE a == Seen(s, l)
               b == Drain(a, l, "linkq")
               c == Drain(b, l, "chanq")
    <2>1. "linkq" \in Queues /\ "chanq" \in Queues
      BY DEF Queues
    <2>2. Good(a, k) /\ a.lcb[l].state = "connected"
      BY <1>2, SeenGood
    <2>3. a \in UpWorks(k, l)
      BY <2>2 DEF UpWorks, Good
    <2>4. Direct(s, l, single) = Rearm(IF single THEN b ELSE c, l)
      BY <1>2 DEF Direct
    <2> HIDE DEF a
    <2>5. b \in UpWorks(k, l)
      BY <2>1, <2>3, DrainGood
    <2> HIDE DEF b
    <2>6. c \in UpWorks(k, l)
      BY <2>1, <2>5, DrainGood
    <2> HIDE DEF c
    <2> DEFINE d == IF single THEN b ELSE c
    <2>7. Good(d, k)
      BY <2>5, <2>6 DEF UpWorks
    <2> HIDE DEF d
    <2>8. Same(d, Rearm(d, l))
      BY <2>7, RearmSame DEF Good
    <2>9. Good(Rearm(d, l), k)
      BY <2>7, <2>8, SameGood
    <2> QED BY <2>4, <2>9 DEF d
  <1> QED BY <1>1, <1>2

\* The states of the round robin loop.
Turns(k) == {t \in [s : Works, stop : BOOLEAN] : Good(t.s, k)}

\* One turn of the round robin.
LEMMA ServeGood ==
  ASSUME NEW k, NEW l \in Pool, NEW single, NEW t \in Turns(k)
  PROVE  Serve(t, l, single) \in Turns(k)
PROOF
  <1> DEFINE s == t.s
             b == s.lcb[l]
             a == Seen(s, l)
             c == SendFrom(a, l, "linkq")
             d == SendFrom(a, l, "chanq")
             T(x, y) == [s |-> x, stop |-> y]
  <1>1. Good(s, k) /\ s \in Works
    BY DEF Turns
  <1>2. Good(a, k) /\ a.b = s.b /\ \A q \in Queues \cup {"state", "quota", "sent"} : a.lcb[l][q] = b[q]
    BY <1>1, SeenGood, Zenon
  <1>3. "linkq" \in Queues /\ "chanq" \in Queues
    BY DEF Queues
  <1>4. a.lcb[l].state = b.state /\ a.lcb[l].quota = b.quota /\ a.lcb[l].linkq = b.linkq /\ a.lcb[l].chanq = b.chanq
    BY <1>2, <1>3
  <1>5. Serve(t, l, single) =
          IF t.stop \/ RRFull(s) THEN T(s, TRUE)
          ELSE IF b.state # "connected" \/ b.partial \/ b.quota # 0 THEN t
          ELSE IF b.linkq # <<>> THEN T(c, FALSE)
          ELSE IF single THEN T(s, TRUE)
          ELSE IF b.chanq # <<>> THEN T(d, FALSE)
          ELSE t
    BY DEF Serve
  <1>6. ASSUME NEW x, Good(x, k), NEW y \in BOOLEAN PROVE T(x, y) \in Turns(k)
    BY <1>6 DEF Turns, Good
  <1> HIDE DEF T, a
  <1>7. ASSUME ~RRFull(s), b.state = "connected", b.quota = 0, b.linkq # <<>> PROVE Good(c, k)
    <2>1. a.b.window # 0 /\ a.lcb[l].quota = 0
      BY <1>2, <1>4, <1>7 DEF RRFull
    <2> QED BY <1>2, <1>3, <1>4, <1>7, <2>1, SendFromGood, Zenon
  <1>8. ASSUME ~RRFull(s), b.state = "connected", b.quota = 0, b.chanq # <<>> PROVE Good(d, k)
    <2>1. a.b.window # 0 /\ a.lcb[l].quota = 0
      BY <1>2, <1>4, <1>8 DEF RRFull
    <2> QED BY <1>2, <1>3, <1>4, <1>8, <2>1, SendFromGood, Zenon
  <1> HIDE DEF c, d, s, b
  <1>9. T(s, TRUE) \in Turns(k)
    BY <1>1, <1>6, Zenon
  <1>10. ASSUME ~RRFull(s), b.state = "connected", b.quota = 0, b.linkq # <<>> PROVE T(c, FALSE) \in Turns(k)
    BY <1>6, <1>7, <1>10, Zenon
  <1>11. ASSUME ~RRFull(s), b.state = "connected", b.quota = 0, b.chanq # <<>> PROVE T(d, FALSE) \in Turns(k)
    BY <1>6, <1>8, <1>11, Zenon
  <1> QED BY <1>5, <1>9, <1>10, <1>11, Zenon

\* The blocks in turn, from a given one on.
LEMMA TurnInPool ==
  ASSUME NEW start \in Nat, start > 0, NEW i \in Pool
  PROVE  InTurn(start, i) \in Pool
PROOF
  <1>1. MaxLinks \in Nat /\ MaxLinks > 0 /\ i \in Nat /\ i > 0
    BY SchedAssumption DEF Pool
  <1>2. start + i - 2 \in Nat
    BY <1>1
  <1>3. ((start + i - 2) % MaxLinks) \in 0 .. (MaxLinks - 1)
    BY <1>1, <1>2
  <1> QED BY <1>1, <1>3 DEF InTurn, Pool

\* The round robin loop.
LEMMA ServeAllGood ==
  ASSUME NEW s, NEW k, Good(s, k), NEW start \in Nat, start > 0, NEW single
  PROVE  Good(ServeAll(s, start, single), k)
PROOF
  <1>1. PICK n \in Nat : n = MaxLinks /\ Pool = 1 .. n
    BY SchedAssumption DEF Pool
  <1> DEFINE V == Turns(k)
             c == [s |-> s, stop |-> FALSE]
             g == [p \in (1 .. n) \X V |-> Serve(p[2], InTurn(start, p[1]), single)]
  <1>2. \A i \in 1 .. n, x \in V : Serve(x, InTurn(start, i), single) \in V
    BY <1>1, TurnInPool, ServeGood
  <1>3. c \in V
    BY DEF Turns, Good
  <1> HIDE DEF V, c
  <1>4. g \in [(1 .. n) \X V -> V] /\ \A i \in 1 .. n, x \in V : g[<<i, x>>] = Serve(x, InTurn(start, i), single)
    BY <1>2
  <1> HIDE DEF g
  <1>5. PICK h : IsRecursive(h, n, V, c, g)
    BY <1>3, <1>4, RecursiveFcn, Zenon
  <1>6. h \in [0 .. n -> V] /\ h[0] = c /\ \A i \in 1 .. n : h[i] = Serve(h[i - 1], InTurn(start, i), single)
    <2>1. h \in [0 .. n -> V] /\ h[0] = c /\ \A i \in 1 .. n : h[i] = g[<<i, h[i - 1]>>]
      BY <1>5 DEF IsRecursive
    <2>2. \A i \in 1 .. n : h[i - 1] \in V
      BY <2>1
    <2> QED BY <1>4, <2>1, <2>2, Zenon
  <1> DEFINE Loop(f) == f = [i \in 0 .. n |-> IF i = 0 THEN c ELSE Serve(f[i - 1], InTurn(start, i), single)]
             f == CHOOSE x : Loop(x)
  <1>7. h = [i \in 0 .. n |-> IF i = 0 THEN c ELSE Serve(h[i - 1], InTurn(start, i), single)]
    BY <1>6
  <1>8. Loop(f)
    BY <1>7, Zenon
  <1>9. ServeAll(s, start, single) = f[n].s
    BY <1>1 DEF ServeAll, c
  <1> HIDE DEF f
  <1>10. f[0] = c /\ \A i \in 1 .. n : f[i] = Serve(f[i - 1], InTurn(start, i), single)
    BY <1>8
  <1>11. \A i \in 1 .. n : f[i - 1] \in V => f[i] \in V
    BY <1>2, <1>10
  <1>12. \A i \in 0 .. n : f[i] \in V
    BY <1>3, <1>10, <1>11, Iterates
  <1>13. f[n] \in Turns(k)
    BY <1>12 DEF V
  <1> QED BY <1>9, <1>13 DEF Turns

\* l2c_link_check_send_pkts for links without a quota.
LEMMA RoundRobinGood ==
  ASSUME NEW s, NEW k, Good(s, k), NEW start \in Nat, start > 0, NEW single
  PROVE  Good(RoundRobin(s, start, single), k)
PROOF
  <1> DEFINE t == ServeAll(s, start, single)
             c == t.b.check /\ RRFull(t)
             u == [t EXCEPT !.b.check = c]
  <1>1. Good(t, k)
    BY ServeAllGood
  <1>2. RoundRobin(s, start, single) = u
    BY DEF RoundRobin
  <1>3. c \in BOOLEAN
    BY Zenon
  <1> HIDE DEF t, c
  <1>4. t \in Works
    BY <1>1 DEF Good
  <1>5. t.b \in Fields /\ t.lcb \in [Pool -> Blocks] /\ t.hci \in [Pool -> Nat] /\ t.ctl \in [Pool -> Nat]
    BY <1>4 DEF Works
  <1> DEFINE fb == [t.b EXCEPT !.check = c]
  <1>6. fb \in Fields /\ fb.window = t.b.window /\ fb.rrunacked = t.b.rrunacked
    BY <1>3, <1>5 DEF Fields
  <1>7. u = [b |-> fb, lcb |-> t.lcb, hci |-> t.hci, ctl |-> t.ctl]
    BY <1>4 DEF Works
  <1> HIDE DEF fb, u
  <1>8. u \in Works
    BY <1>5, <1>6, <1>7 DEF Works
  <1>9. Same(t, u)
    BY <1>6, <1>7, <1>8 DEF Same
  <1>10. Good(u, k)
    BY <1>1, <1>9, SameGood
  <1> QED BY <1>2, <1>10

\* l2c_link_check_send_pkts keeps the accounts right, for a link and for none.
LEMMA CheckSendPktsGood ==
  ASSUME NEW s, NEW k, NEW l \in Pool, NEW single \in BOOLEAN, Good(s, k)
  PROVE  Good(CheckSendPkts(s, l, single), k) /\ Good(CheckAll(s), k)
PROOF
  <1>1. l \in Nat /\ l > 0 /\ l + 1 \in Nat /\ l + 1 > 0
    BY SchedAssumption DEF Pool
  <1>2. Good(RoundRobin(s, l, single), k)
    BY <1>1, RoundRobinGood
  <1>3. Good(RoundRobin(s, l + 1, single), k)
    <2> DEFINE m == l + 1
    <2> HIDE DEF m
    <2>1. m \in Nat /\ m > 0
      BY <1>1 DEF m
    <2>2. Good(RoundRobin(s, m, single), k)
      BY <2>1, RoundRobinGood
    <2> QED BY <2>2 DEF m
  <1>4. Good(RoundRobin(s, 1, FALSE), k)
    <2> DEFINE m == 1
               none == FALSE
    <2> HIDE DEF m, none
    <2>1. m \in Nat /\ m > 0
      BY DEF m
    <2>2. Good(RoundRobin(s, m, none), k)
      BY <2>1, RoundRobinGood
    <2> QED BY <2>2, Zenon DEF m, none
  <1>5. Good(Direct(s, l, single), k)
    BY DirectGood
  <1>6. CheckSendPkts(s, l, single) =
          IF s.lcb[l].quota = 0 THEN IF single THEN RoundRobin(s, l, single) ELSE RoundRobin(s, l + 1, single)
          ELSE Direct(s, l, single)
    BY DEF CheckSendPkts
  <1> QED BY <1>2, <1>3, <1>4, <1>5, <1>6, Zenon DEF CheckAll

\* Writing to a link.
LEMMA WritesGood ==
  ASSUME NEW s, NEW k, NEW l \in Pool, NEW p \in Sizes, Good(s, k)
  PROVE  /\ Good(Signal(s, l), k) /\ Good(SingleWrite(s, l, p), k)
         /\ Good(CheckSendPkts(Enqueue(s, l, "chanq", p), l, FALSE), k)
PROOF
  <1>1. "linkq" \in Queues /\ "chanq" \in Queues /\ 1 \in Sizes
    BY DEF Queues, Sizes
  <1> DEFINE a == Enqueue(s, l, "linkq", 1)
             b == Enqueue(s, l, "linkq", p)
             c == Enqueue(s, l, "chanq", p)
  <1>2. Good(a, k)
    BY <1>1, EnqueueGood
  <1>3. Good(b, k)
    BY <1>1, EnqueueGood
  <1>4. Good(c, k)
    BY <1>1, EnqueueGood
  <1>5. Signal(s, l) = CheckSendPkts(a, l, FALSE) /\ SingleWrite(s, l, p) = CheckSendPkts(b, l, TRUE)
    BY DEF Signal, SingleWrite
  <1> HIDE DEF a, b, c
  <1>6. Good(CheckSendPkts(a, l, FALSE), k) /\ Good(CheckSendPkts(b, l, TRUE), k)
        /\ Good(CheckSendPkts(c, l, FALSE), k)
    BY <1>2, <1>3, <1>4, CheckSendPktsGood, Zenon
  <1> QED BY <1>5, <1>6, Zenon DEF c

-----------------------------------------------------------------------------
(* Quotas.                                                                 *)

\* A non-empty set of naturals with a bound has a greatest element.
LEMMA MaxOfNats ==
  ASSUME NEW S, S \subseteq Nat, S # {}, NEW n \in Nat, \A x \in S : x <= n
  PROVE  Max(S) \in S /\ \A y \in S : y <= Max(S)
PROOF
  <1> DEFINE T == {n - x : x \in S}
  <1>1. T \subseteq Nat /\ T # {}
    <2>1. \A x \in S : n - x \in Nat
      OBVIOUS
    <2> QED BY <2>1, Zenon
  <1>2. PICK d \in T : \A m \in T : d <= m
    <2> HIDE DEF T
    <2> QED BY <1>1, LeastNatural, Zenon
  <1>3. PICK x \in S : d = n - x
    OBVIOUS
  <1>4. \A y \in S : x >= y
    <2> SUFFICES ASSUME NEW y \in S PROVE x >= y
      OBVIOUS
    <2>1. n - y \in T
      OBVIOUS
    <2>2. n - x <= n - y
      BY <1>2, <1>3, <2>1
    <2>3. x \in Nat /\ y \in Nat
      OBVIOUS
    <2> QED BY <2>2, <2>3
  <1>5. Max(S) \in S /\ \A y \in S : Max(S) >= y
    BY <1>3, <1>4, Zenon DEF Max
  <1>6. Max(S) \in Nat
    BY <1>5, Zenon
  <1> QED BY <1>5, <1>6

\* What the quotas are worth: with more than one buffer the high priority link
\* has one; the others have one each, or none and there is a round robin.
QuotasGood(q, use, hi) ==
    /\ q.rr \in Nat /\ \A l \in use : q.quota[l] \in Nat
    /\ NumBufs > 1 => \A l \in hi : q.quota[l] > 0
    /\ \A l \in use \ hi : IF q.rr > 0 THEN q.quota[l] = 0 ELSE q.quota[l] > 0

\* Dividing by at least as much as there is to give.
LEMMA Shares ==
  ASSUME NEW n \in Nat, n > 0, NEW a \in Nat, n <= a, NEW c \in {0, 1}
  PROVE  (a \div n) + c \in Nat /\ (a \div n) + c > 0
PROOF
  <1>1. a \div n \in Nat
    OBVIOUS
  <1>2. a \div n > 0
    OBVIOUS
  <1> QED BY <1>1, <1>2

\* The quotas l2c_link_adjust_allocation works out, for one high priority link
\* at most.
LEMMA QuotasAreGood ==
  ASSUME NEW use \in SUBSET Pool, NEW hi \in SUBSET use, \A l, m \in hi : l = m
  PROVE  QuotasGood(Quotas(use, hi), use, hi)
PROOF
  <1>1. NumBufs \in Nat /\ NumBufs > 0 /\ HighQuota \in Nat /\ HighQuota > 0 /\ MaxLinks \in Nat
    BY SchedAssumption
  <1> DEFINE low == use \ hi
             n == Count(low)
             c == Count(hi)
             H == {0} \cup {h \in 1 .. HighQuota : c * h + Min({n, 1}) <= NumBufs}
             hq == Max(H)
             lq == Max({1, NumBufs - c * hq})
             Share(l) == IF n > lq THEN 0
                         ELSE (lq \div n) + (IF Count({m \in low : m < l}) < lq % n THEN 1 ELSE 0)
             q == Quotas(use, hi)
  <1>3. q = [quota |-> [l \in use |-> IF l \in hi THEN hq ELSE Share(l)], rr |-> IF n > lq THEN lq ELSE 0]
    BY DEF Quotas
  <1>4. low \in SUBSET Pool /\ hi \in SUBSET Pool
    OBVIOUS
  <1>5. n \in Nat /\ c \in Nat /\ \A l \in low : n > 0
    <2>1. n \in Nat /\ (low # {} => n > 0)
      BY <1>4, CountFacts
    <2>2. c \in Nat
      BY <1>4, CountFacts
    <2> QED BY <2>1, <2>2
  <1>6. \A l \in hi : c = 1
    <2> SUFFICES ASSUME NEW l \in hi PROVE c = 1
      OBVIOUS
    <2>1. hi = {l} /\ l \in Pool
      BY <1>4
    <2> QED BY <1>4, <2>1, CountFacts
  <1>7. hq \in Nat /\ \A h \in H : h <= hq
    <2>1. H \subseteq Nat /\ H # {} /\ \A x \in H : x <= HighQuota
      BY <1>1
    <2> HIDE DEF H
    <2>2. hq \in H /\ \A h \in H : h <= hq
      BY <1>1, <2>1, MaxOfNats, Zenon
    <2> QED BY <2>1, <2>2, Zenon
  <1>8. ASSUME NumBufs > 1, NEW l \in hi PROVE hq > 0
    <2>1. c = 1
      BY <1>6
    <2>2. Min({n, 1}) \in Int /\ Min({n, 1}) <= 1
      <3> HIDE DEF n
      <3>1. \E x \in {n, 1} : \A y \in {n, 1} : x <= y
        BY <1>5
      <3>2. Min({n, 1}) \in {n, 1} /\ \A y \in {n, 1} : Min({n, 1}) <= y
        BY <3>1 DEF Min
      <3> QED BY <1>5, <3>2
    <2>3. 1 * 1 + Min({n, 1}) <= NumBufs
      BY <1>1, <1>8, <2>2
    <2>4. 1 \in H
      BY <1>1, <2>1, <2>3
    <2> HIDE DEF hq, H
    <2> QED BY <1>7, <2>4
  <1> HIDE DEF hq, H, n, c
  <1>9. lq \in Nat /\ lq > 0
    <2> DEFINE r == NumBufs - c * hq
    <2>1. r \in Int
      BY <1>1, <1>5, <1>7
    <2> HIDE DEF r
    <2>2. \E x \in {1, r} : \A y \in {1, r} : x >= y
      BY <2>1
    <2>3. Max({1, r}) \in {1, r} /\ \A y \in {1, r} : Max({1, r}) >= y
      BY <2>2 DEF Max
    <2>4. Max({1, r}) \in Nat /\ Max({1, r}) > 0
      BY <2>1, <2>3
    <2> QED BY <2>4 DEF r
  <1> HIDE DEF lq
  <1>10. ASSUME NEW l \in low PROVE Share(l) \in Nat /\ IF n > lq THEN Share(l) = 0 ELSE Share(l) > 0
    <2> DEFINE one == IF Count({m \in low : m < l}) < lq % n THEN 1 ELSE 0
    <2>1. one \in {0, 1}
      OBVIOUS
    <2>2. Share(l) = IF n > lq THEN 0 ELSE (lq \div n) + one
      OBVIOUS
    <2> HIDE DEF one, Share
    <2>3. n > 0
      BY <1>5
    <2>4. n <= lq => (lq \div n) + one \in Nat /\ (lq \div n) + one > 0
      BY <1>5, <1>9, <2>1, <2>3, Shares
    <2> QED BY <1>5, <1>9, <2>2, <2>4
  <1> HIDE DEF Share
  <1>11. q.rr = (IF n > lq THEN lq ELSE 0) /\ \A l \in use : q.quota[l] = IF l \in hi THEN hq ELSE Share(l)
    BY <1>3
  <1> HIDE DEF q
  <1>12. q.rr \in Nat /\ (q.rr > 0 <=> n > lq)
    BY <1>5, <1>9, <1>11
  <1>13. \A l \in use : q.quota[l] \in Nat
    BY <1>7, <1>10, <1>11
  <1>14. NumBufs > 1 => \A l \in hi : q.quota[l] > 0
    BY <1>8, <1>11
  <1>15. \A l \in use \ hi : IF q.rr > 0 THEN q.quota[l] = 0 ELSE q.quota[l] > 0
    <2> SUFFICES ASSUME NEW l \in use \ hi PROVE IF q.rr > 0 THEN q.quota[l] = 0 ELSE q.quota[l] > 0
      OBVIOUS
    <2>1. q.quota[l] = Share(l)
      BY <1>11
    <2> QED BY <1>10, <1>12, <2>1
  <1>16. QuotasGood(q, use, hi)
    BY <1>12, <1>13, <1>14, <1>15 DEF QuotasGood
  <1> QED BY <1>16 DEF q

\* From s to t link l gets its quota, and what it has outstanding joins the
\* communal count if it loses the one it had.
Assigned(s, t, l, q) ==
    /\ t \in Works /\ t.b.window = s.b.window /\ t.ctl = s.ctl
    /\ t.b.rrunacked = s.b.rrunacked + (IF s.lcb[l].quota > 0 /\ ~s.lcb[l].high /\ q.rr > 0
                                        THEN s.lcb[l].sent ELSE 0)
    /\ t.lcb[l].quota = q.quota[l]
    /\ \A m \in Pool : /\ t.lcb[m].state = s.lcb[m].state /\ t.lcb[m].high = s.lcb[m].high
                       /\ t.lcb[m].sent = s.lcb[m].sent /\ (m # l => t.lcb[m].quota = s.lcb[m].quota)

\* One turn of the loop that assigns the quotas.
LEMMA AssignStep ==
  ASSUME NEW s \in Works, NEW l \in Pool, NEW q, s.lcb[l].state # "free" => q.quota[l] \in Nat
  PROVE  IF s.lcb[l].state = "free" THEN Assign(s, l, q) = s ELSE Assigned(s, Assign(s, l, q), l, q)
PROOF
  <1>1. CASE s.lcb[l].state = "free"
    BY <1>1 DEF Assign
  <1>2. CASE s.lcb[l].state # "free"
    <2> DEFINE x == q.quota[l]
               joins == s.lcb[l].quota > 0 /\ ~s.lcb[l].high /\ q.rr > 0
               z == IF joins THEN s.b.rrunacked + s.lcb[l].sent ELSE s.b.rrunacked
               e == [s.lcb[l] EXCEPT !.quota = x]
               t == [s EXCEPT !.lcb[l] = e]
               r == [t EXCEPT !.b.rrunacked = z]
               fl == [s.lcb EXCEPT ![l] = e]
               fb == [s.b EXCEPT !.rrunacked = z]
    <2>1. s.b \in Fields /\ s.lcb \in [Pool -> Blocks] /\ s.hci \in [Pool -> Nat] /\ s.ctl \in [Pool -> Nat]
      BY WorkParts
    <2>2. s.lcb[l] \in Blocks /\ s.lcb[l].sent \in Nat /\ s.b.rrunacked \in Nat
      BY WorkParts
    <2>3. x \in Nat
      BY <1>2
    <2>4. z \in Nat /\ z = s.b.rrunacked + (IF joins THEN s.lcb[l].sent ELSE 0)
      BY <2>2
    <2>5. t.b = s.b
      <3> HIDE DEF e
      <3> QED BY DEF Works
    <2>6. Assign(s, l, q) = IF s.lcb[l].state = "connected" THEN Rearm(r, l) ELSE r
      <3>1. [s EXCEPT !.lcb[l].quota = q.quota[l], !.b.rrunacked = IF joins THEN @ + s.lcb[l].sent ELSE @] = r
        <4>1. t = [s EXCEPT !.lcb[l].quota = q.quota[l]]
          OBVIOUS
        <4> HIDE DEF t, joins
        <4> QED BY <2>5, <4>1, Zenon DEF z
      <3> HIDE DEF r
      <3> QED BY <1>2, <3>1 DEF Assign, joins
    <2> HIDE DEF x, z
    <2>7. /\ e \in Blocks /\ e.quota = x /\ e.state = s.lcb[l].state /\ e.high = s.lcb[l].high
          /\ e.sent = s.lcb[l].sent
      BY <2>2, <2>3, Zenon DEF Blocks
    <2> HIDE DEF e
    <2>8. fl \in [Pool -> Blocks] /\ fl[l] = e /\ \A m \in Pool : m # l => fl[m] = s.lcb[m]
      BY <2>1, <2>7
    <2>9. fb \in Fields /\ fb.window = s.b.window /\ fb.rrunacked = z
      BY <2>1, <2>4 DEF Fields
    <2>10. r = [b |-> fb, lcb |-> fl, hci |-> s.hci, ctl |-> s.ctl]
      <3>1. t = [b |-> s.b, lcb |-> fl, hci |-> s.hci, ctl |-> s.ctl]
        BY DEF Works
      <3> HIDE DEF t, fl
      <3>2. r = [t EXCEPT !.b = [t.b EXCEPT !.rrunacked = z]]
        OBVIOUS
      <3> QED BY <3>1, <3>2
    <2> HIDE DEF fb, fl, t, r
    <2>11. r \in Works
      BY <2>1, <2>8, <2>9, <2>10 DEF Works
    <2> HIDE DEF joins
    <2>12. /\ r.b.window = s.b.window /\ r.ctl = s.ctl /\ r.b.rrunacked = z /\ r.lcb[l].quota = x
           /\ \A m \in Pool : /\ r.lcb[m].state = s.lcb[m].state /\ r.lcb[m].high = s.lcb[m].high
                              /\ r.lcb[m].sent = s.lcb[m].sent /\ (m # l => r.lcb[m].quota = s.lcb[m].quota)
      BY <2>7, <2>8, <2>9, <2>10, Zenon
    <2>13. Assigned(s, r, l, q)
      BY <2>4, <2>11, <2>12 DEF Assigned, x, joins
    <2>14. Same(r, Rearm(r, l))
      BY <2>11, RearmSame
    <2> DEFINE u == Rearm(r, l)
    <2> HIDE DEF u
    <2>15. Same(r, u)
      BY <2>14, Zenon DEF u
    <2>16. Assigned(s, u, l, q)
      BY <2>13, <2>15 DEF Assigned, Same
    <2>17. Assigned(s, Assign(s, l, q), l, q)
      BY <2>6, <2>13, <2>16, Zenon DEF u
    <2> QED BY <1>2, <2>17
  <1> QED BY <1>1, <1>2

\* The high priority links.
High(s) == {l \in InUse(s) : s.lcb[l].high}
QuotasFor(s, q) == QuotasGood(q, InUse(s), High(s))

\* Link l has its new quota; the other links have the quotas they had.
HasQuota(u, l, q)  == u.lcb[l].quota = q.quota[l]
OtherQuotas(t, u, l) == \A m \in Pool : m # l => u.lcb[m].quota = t.lcb[m].quota

\* What holds while the quotas are assigned, one link after the other.
Assigning(t, s, q, k) ==
    /\ t \in Works /\ LinksGood(t) /\ t.b.window + Total(t.ctl, Pool) = k
    /\ \A m \in Pool : t.lcb[m].state = s.lcb[m].state /\ t.lcb[m].high = s.lcb[m].high
    /\ NumBufs > 1 /\ q.rr > 0 => t.b.rrunacked >= Total(t.ctl, RR(t))

\* A turn of the loop keeps it.
LEMMA AssignKeeps ==
  ASSUME NEW s \in Works, NEW t, NEW q, NEW k, NEW l \in Pool, Assigning(t, s, q, k),
         QuotasFor(s, q)
  PROVE  /\ Assigning(Assign(t, l, q), s, q, k)
         /\ l \in InUse(s) => HasQuota(Assign(t, l, q), l, q)
         /\ OtherQuotas(t, Assign(t, l, q), l)
PROOF
  <1>1. t \in Works /\ LinksGood(t)
    BY DEF Assigning
  <1>2. t.lcb[l].state = s.lcb[l].state /\ t.lcb[l].high = s.lcb[l].high
    BY DEF Assigning
  <1>3. l \in InUse(s) <=> t.lcb[l].state # "free"
    BY <1>2 DEF InUse
  <1>4. l \in InUse(s) => q.quota[l] \in Nat
    BY DEF QuotasGood, QuotasFor
  <1> DEFINE u == Assign(t, l, q)
  <1>5. IF t.lcb[l].state = "free" THEN u = t ELSE Assigned(t, u, l, q)
    BY <1>1, <1>3, <1>4, AssignStep
  <1> HIDE DEF u
  <1>6. CASE t.lcb[l].state = "free"
    BY <1>3, <1>5, <1>6 DEF u, OtherQuotas
  <1>7. CASE t.lcb[l].state # "free"
    <2>1. Assigned(t, u, l, q)
      BY <1>5, <1>7
    <2>2. u \in Works /\ u.b.window = t.b.window /\ u.ctl = t.ctl
      BY <2>1 DEF Assigned
    <2>3. \A m \in Pool : u.lcb[m].state = t.lcb[m].state /\ u.lcb[m].high = t.lcb[m].high /\ u.lcb[m].sent = t.lcb[m].sent
      BY <2>1 DEF Assigned
    <2>4. LinksGood(u)
      <3>1. \A i, m \in Pool : u.lcb[i].high /\ u.lcb[m].high => i = m
        BY <1>1, <2>3, Zenon DEF LinksGood
      <3>2. \A m \in Pool : u.lcb[m].state \in {"free", "connecting"} => u.ctl[m] = 0
        BY <1>1, <2>2, <2>3, Zenon DEF LinksGood
      <3>3. \A m \in Pool : u.lcb[m].sent >= u.ctl[m]
        BY <1>1, <2>2, <2>3 DEF LinksGood
      <3> QED BY <3>1, <3>2, <3>3 DEF LinksGood
    <2>5. ASSUME NumBufs > 1, q.rr > 0 PROVE u.b.rrunacked >= Total(u.ctl, RR(u))
      <3> DEFINE R == RR(t)
                 Z == RR(u)
                 f == t.ctl
      <3>1. \A m \in Pool : m # l => (m \in Z <=> m \in R)
        BY <2>1, Zenon DEF RR, Assigned
      <3>2. l \in Z <=> q.quota[l] = 0
        BY <1>7, <2>1 DEF RR, Assigned
      <3>3. l \in R <=> t.lcb[l].quota = 0
        BY <1>7 DEF RR
      <3>4. t.b.rrunacked >= Total(f, R)
        BY <2>5 DEF Assigning
      <3>5. f \in [Pool -> Nat] /\ t.b.rrunacked \in Nat /\ t.lcb[l].sent \in Nat /\ t.lcb[l].quota \in Nat /\ f[l] \in Nat
        BY <1>1, WorkParts
      <3>6. t.lcb[l].sent >= f[l]
        BY <1>1 DEF LinksGood
      <3> HIDE DEF R, Z, f
      <3>7. DifferAt(f, R, f, Z, l)
        BY <3>1, Zenon DEF Part, DifferAt
      <3>8. Total(f, R) \in Nat /\ Total(f, Z) \in Nat /\ Total(f, Z) = Total(f, R) - Part(f, R, l) + Part(f, Z, l)
        BY <3>5, <3>7, TotalPoint, SMTT(20)
      <3>9. Part(f, R, l) = (IF t.lcb[l].quota = 0 THEN f[l] ELSE 0) /\ Part(f, Z, l) = IF q.quota[l] = 0 THEN f[l] ELSE 0
        BY <3>2, <3>3, Zenon DEF Part
      <3>10. u.b.rrunacked >= Total(f, Z)
        <4>1. CASE t.lcb[l].high
          <5>1. q.quota[l] > 0 /\ q.quota[l] \in Nat
            BY <1>2, <1>3, <1>7, <2>5, <4>1, Zenon DEF QuotasGood, High, QuotasFor
          <5>2. u.b.rrunacked = t.b.rrunacked
            BY <2>1, <3>5, <4>1, SMTT(20) DEF Assigned
          <5> QED BY <3>4, <3>5, <3>8, <3>9, <5>1, <5>2
        <4>2. CASE ~t.lcb[l].high
          <5>1. q.quota[l] = 0
            BY <1>2, <1>3, <1>7, <2>5, <4>2, Zenon DEF QuotasGood, High, QuotasFor
          <5>2. u.b.rrunacked = t.b.rrunacked + (IF t.lcb[l].quota > 0 THEN t.lcb[l].sent ELSE 0)
            BY <2>1, <2>5, <4>2 DEF Assigned
          <5> QED BY <3>4, <3>5, <3>6, <3>8, <3>9, <5>1, <5>2, SMTT(20)
        <4> QED BY <4>1, <4>2, Zenon
      <3> QED BY <2>2, <3>10, Zenon DEF f, Z
    <2>6. u.b.window + Total(u.ctl, Pool) = k
      BY <2>2 DEF Assigning
    <2>7. \A m \in Pool : u.lcb[m].state = s.lcb[m].state /\ u.lcb[m].high = s.lcb[m].high
      BY <2>3, Zenon DEF Assigning
    <2>8. Assigning(u, s, q, k)
      BY <2>2, <2>4, <2>5, <2>6, <2>7, Zenon DEF Assigning
    <2>9. HasQuota(u, l, q) /\ OtherQuotas(t, u, l)
      BY <2>1 DEF Assigned, HasQuota, OtherQuotas
    <2> QED BY <2>8, <2>9, Zenon DEF u
  <1> QED BY <1>6, <1>7

\* The loop: what holds at the end, when every link in use has its quota.
LEMMA AssignAllKeeps ==
  ASSUME NEW s \in Works, NEW t, NEW q, NEW k, Assigning(t, s, q, k),
         QuotasFor(s, q)
  PROVE  /\ Assigning(AssignAll(t, q), s, q, k)
         /\ \A m \in InUse(s) : HasQuota(AssignAll(t, q), m, q)
PROOF
  <1>1. PICK n \in Nat : n = MaxLinks /\ Pool = 1 .. n
    BY SchedAssumption DEF Pool
  <1> DEFINE V == {x \in Works : Assigning(x, s, q, k)}
             g == [p \in (1 .. n) \X V |-> Assign(p[2], p[1], q)]
  <1>2. \A i \in 1 .. n, x \in V :
          /\ Assign(x, i, q) \in V
          /\ i \in InUse(s) => HasQuota(Assign(x, i, q), i, q)
          /\ OtherQuotas(x, Assign(x, i, q), i)
    <2> SUFFICES ASSUME NEW i \in 1 .. n, NEW x \in V
                 PROVE  /\ Assign(x, i, q) \in V
                        /\ i \in InUse(s) => HasQuota(Assign(x, i, q), i, q)
                        /\ OtherQuotas(x, Assign(x, i, q), i)
      OBVIOUS
    <2>1. Assigning(x, s, q, k) /\ i \in Pool
      BY <1>1
    <2>2. /\ Assigning(Assign(x, i, q), s, q, k)
          /\ i \in InUse(s) => HasQuota(Assign(x, i, q), i, q)
          /\ OtherQuotas(x, Assign(x, i, q), i)
      BY <2>1, AssignKeeps, Zenon
    <2>3. Assign(x, i, q) \in Works
      BY <2>2 DEF Assigning
    <2> QED BY <2>2, <2>3
  <1>3. t \in V
    BY DEF Assigning
  <1>4. \A x \in V : Assigning(x, s, q, k)
    BY Zenon
  <1> HIDE DEF V
  <1>5. g \in [(1 .. n) \X V -> V] /\ \A i \in 1 .. n, x \in V : g[<<i, x>>] = Assign(x, i, q)
    BY <1>2
  <1> HIDE DEF g
  <1>6. PICK h : IsRecursive(h, n, V, t, g)
    BY <1>3, <1>5, RecursiveFcn, Zenon
  <1>7. h \in [0 .. n -> V] /\ h[0] = t /\ \A i \in 1 .. n : h[i] = Assign(h[i - 1], i, q)
    <2>1. h \in [0 .. n -> V] /\ h[0] = t /\ \A i \in 1 .. n : h[i] = g[<<i, h[i - 1]>>]
      BY <1>6 DEF IsRecursive
    <2>2. \A i \in 1 .. n : h[i - 1] \in V
      BY <2>1
    <2> QED BY <1>5, <2>1, <2>2, Zenon
  <1> DEFINE Loop(f) == f = [l \in 0 .. n |-> IF l = 0 THEN t ELSE Assign(f[l - 1], l, q)]
             f == CHOOSE x : Loop(x)
  <1>8. h = [l \in 0 .. n |-> IF l = 0 THEN t ELSE Assign(h[l - 1], l, q)]
    BY <1>7
  <1>9. Loop(f)
    BY <1>8, Zenon
  <1>10. AssignAll(t, q) = f[n]
    BY <1>1 DEF AssignAll
  <1> HIDE DEF f
  <1>11. f[0] = t /\ \A i \in 1 .. n : f[i] = Assign(f[i - 1], i, q)
    BY <1>9
  <1> DEFINE Q == {i \in Nat : i <= n => f[i] \in V /\ \A m \in InUse(s) : m <= i => HasQuota(f[i], m, q)}
  <1>12. InUse(s) \subseteq 1 .. n
    BY <1>1 DEF InUse
  <1>13. 0 \in Q
    BY <1>3, <1>11, <1>12
  <1>14. ASSUME NEW i \in Nat, i \in Q PROVE i + 1 \in Q
    <2> SUFFICES ASSUME i + 1 <= n
                 PROVE  f[i + 1] \in V /\ \A m \in InUse(s) : m <= i + 1 => HasQuota(f[i + 1], m, q)
      OBVIOUS
    <2>1. i + 1 \in 1 .. n /\ (i + 1) - 1 = i
      OBVIOUS
    <2>2. f[i + 1] = Assign(f[i], i + 1, q)
      BY <1>11, <2>1
    <2>3. f[i] \in V /\ \A m \in InUse(s) : m <= i => HasQuota(f[i], m, q)
      BY <1>14
    <2> DEFINE j == i + 1
               y == f[i]
    <2>4. j \in 1 .. n /\ y \in V /\ f[j] = Assign(y, j, q)
      BY <2>1, <2>2, <2>3
    <2>5. \A m \in InUse(s) : m # j /\ m <= j => m <= i
      BY <1>12
    <2>6. \A m \in InUse(s) : m <= i => HasQuota(y, m, q)
      BY <2>3
    <2> HIDE DEF j, y
    <2>7. /\ Assign(y, j, q) \in V
          /\ j \in InUse(s) => HasQuota(Assign(y, j, q), j, q)
          /\ OtherQuotas(y, Assign(y, j, q), j)
      BY <1>2, <2>4, Zenon
    <2>8. \A m \in InUse(s) : m # j /\ m <= j => HasQuota(f[j], m, q)
      BY <1>1, <1>12, <2>4, <2>5, <2>6, <2>7 DEF HasQuota, OtherQuotas
    <2>9. f[j] \in V /\ \A m \in InUse(s) : m <= j => HasQuota(f[j], m, q)
      BY <2>4, <2>7, <2>8
    <2> QED BY <2>9 DEF j
  <1>15. Nat \subseteq Q
    <2> HIDE DEF Q
    <2> QED BY <1>13, <1>14, NatInduct
  <1>16. f[n] \in V /\ \A m \in InUse(s) : HasQuota(f[n], m, q)
    BY <1>12, <1>15
  <1> QED BY <1>4, <1>10, <1>16

\* l2c_link_adjust_allocation keeps the accounts right.
LEMMA AdjustGood ==
  ASSUME NEW s, NEW k, Good(s, k), InUse(s) # {}
  PROVE  Good(AdjustAllocation(s), k)
PROOF
  <1> DEFINE use == InUse(s)
             hi == High(s)
             q == Quotas(use, hi)
             z == IF q.rr > 0 THEN s.b.rrunacked ELSE 0
             t == [s EXCEPT !.b.rrquota = q.rr, !.b.rrunacked = z]
             u == AssignAll(t, q)
  <1>1. s \in Works /\ LinksGood(s)
    BY DEF Good
  <1>2. use \in SUBSET Pool /\ hi \in SUBSET use /\ \A l, m \in hi : l = m
    <2>1. use \in SUBSET Pool /\ hi \in SUBSET use
      BY DEF InUse, High
    <2> QED BY <1>1, <2>1, Zenon DEF LinksGood, High
  <1>3. QuotasGood(q, use, hi)
    <2> HIDE DEF hi, use
    <2> QED BY <1>2, QuotasAreGood
  <1>4. AdjustAllocation(s) = u
    <2>1. t = [s EXCEPT !.b.rrquota = q.rr, !.b.rrunacked = IF q.rr > 0 THEN @ ELSE 0]
      <3> DEFINE v == [s EXCEPT !.b.rrquota = q.rr]
      <3>1. v.b.rrunacked = s.b.rrunacked
        <4> HIDE DEF q
        <4> QED BY <1>1 DEF Works, Fields
      <3> HIDE DEF q
      <3> QED BY <3>1, Zenon
    <2> QED BY <2>1, Zenon DEF AdjustAllocation, High
  <1> HIDE DEF q
  <1>5. q.rr \in Nat
    BY <1>3 DEF QuotasGood
  <1>6. s.b \in Fields /\ s.lcb \in [Pool -> Blocks] /\ s.hci \in [Pool -> Nat] /\ s.ctl \in [Pool -> Nat]
    BY <1>1 DEF Works
  <1>7. z \in Nat /\ s.b.rrunacked \in Nat /\ (q.rr > 0 => z = s.b.rrunacked)
    BY <1>6 DEF Fields
  <1> HIDE DEF z
  <1> DEFINE f1 == [s.b EXCEPT !.rrquota = q.rr]
             f2 == [f1 EXCEPT !.rrunacked = z]
  <1>8. t = [b |-> f2, lcb |-> s.lcb, hci |-> s.hci, ctl |-> s.ctl]
    <2> DEFINE v == [s EXCEPT !.b.rrquota = q.rr]
    <2>1. v = [b |-> f1, lcb |-> s.lcb, hci |-> s.hci, ctl |-> s.ctl]
      BY <1>1 DEF Works
    <2>2. t = [v EXCEPT !.b = [v.b EXCEPT !.rrunacked = z]]
      OBVIOUS
    <2> HIDE DEF v, t, f1
    <2> QED BY <2>1, <2>2
  <1>9. f1 \in Fields /\ f1.window = s.b.window
    BY <1>5, <1>6 DEF Fields
  <1> HIDE DEF f1
  <1>10. f2 \in Fields /\ f2.window = s.b.window /\ f2.rrunacked = z
    BY <1>7, <1>9 DEF Fields
  <1> HIDE DEF f2, t
  <1>11. t \in Works /\ t.b.window = s.b.window /\ t.b.rrunacked = z /\ t.lcb = s.lcb /\ t.ctl = s.ctl
    BY <1>6, <1>8, <1>10, Zenon DEF Works
  <1>12. Assigning(t, s, q, k)
    <2>1. LinksGood(t) /\ RR(t) = RR(s)
      BY <1>1, <1>11 DEF LinksGood, RR
    <2>2. t.b.window + Total(t.ctl, Pool) = k
      BY <1>11 DEF Good
    <2>3. NumBufs > 1 /\ q.rr > 0 => t.b.rrunacked >= Total(t.ctl, RR(t))
      BY <1>7, <1>11, <2>1 DEF Good
    <2>4. \A m \in Pool : t.lcb[m].state = s.lcb[m].state /\ t.lcb[m].high = s.lcb[m].high
      BY <1>11
    <2> QED BY <1>11, <2>1, <2>2, <2>3, <2>4, Zenon DEF Assigning
  <1>13. Assigning(u, s, q, k) /\ \A m \in use : HasQuota(u, m, q)
    BY <1>1, <1>3, <1>12, AssignAllKeeps, Zenon DEF QuotasFor
  <1> HIDE DEF u
  <1>14. u \in Works /\ LinksGood(u) /\ u.b.window + Total(u.ctl, Pool) = k
    BY <1>13 DEF Assigning
  <1>15. ASSUME NumBufs > 1 PROVE u.b.rrunacked >= Total(u.ctl, RR(u))
    <2>1. CASE q.rr > 0
      BY <1>13, <1>15, <2>1 DEF Assigning
    <2>2. CASE ~(q.rr > 0)
      <3>1. \A m \in use : q.quota[m] > 0 /\ q.quota[m] \in Nat
        BY <1>3, <1>15, <2>2 DEF QuotasGood
      <3>2. \A m \in Pool : u.lcb[m].state # "free" => m \in use
        BY <1>13 DEF Assigning, InUse
      <3>3. RR(u) = {}
        BY <1>13, <3>1, <3>2 DEF RR, HasQuota
      <3>4. \A m \in Pool : Part(u.ctl, RR(u), m) = 0
        BY <3>3 DEF Part
      <3>5. u.ctl \in [Pool -> Nat] /\ u.b.rrunacked \in Nat
        BY <1>14 DEF Works, Fields
      <3>6. Total(u.ctl, RR(u)) = 0
        BY <3>4, <3>5, TotalZero
      <3> QED BY <3>5, <3>6
    <2> QED BY <2>1, <2>2, Zenon
  <1>16. Good(u, k)
    BY <1>14, <1>15 DEF Good
  <1> QED BY <1>4, <1>16

\* With no link in use it makes the window all of the buffers.
LEMMA AdjustNone ==
  ASSUME NEW s \in Works, LinksGood(s), InUse(s) = {}
  PROVE  Good(AdjustAllocation(s), NumBufs)
PROOF
  <1> DEFINE t == [s EXCEPT !.b.window = NumBufs, !.b.rrquota = 0, !.b.rrunacked = 0]
             f1 == [s.b EXCEPT !.window = NumBufs]
             f2 == [f1 EXCEPT !.rrquota = 0]
             f3 == [f2 EXCEPT !.rrunacked = 0]
  <1>1. NumBufs \in Nat
    BY SchedAssumption
  <1>2. s.b \in Fields /\ s.lcb \in [Pool -> Blocks] /\ s.hci \in [Pool -> Nat] /\ s.ctl \in [Pool -> Nat]
    BY DEF Works
  <1>3. AdjustAllocation(s) = t
    BY DEF AdjustAllocation
  <1>4. t = [b |-> f3, lcb |-> s.lcb, hci |-> s.hci, ctl |-> s.ctl]
    <2> DEFINE v == [s EXCEPT !.b.window = NumBufs]
               w == [v EXCEPT !.b.rrquota = 0]
    <2>1. v = [b |-> f1, lcb |-> s.lcb, hci |-> s.hci, ctl |-> s.ctl]
      BY DEF Works
    <2>2. t = [w EXCEPT !.b = [w.b EXCEPT !.rrunacked = 0]]
      OBVIOUS
    <2>3. w = [v EXCEPT !.b = [v.b EXCEPT !.rrquota = 0]]
      OBVIOUS
    <2> HIDE DEF v, w, t, f1
    <2>4. w = [b |-> f2, lcb |-> s.lcb, hci |-> s.hci, ctl |-> s.ctl]
      BY <2>1, <2>3
    <2> HIDE DEF f2
    <2> QED BY <2>2, <2>4
  <1>5. f1 \in Fields /\ f1.window = NumBufs
    BY <1>1, <1>2 DEF Fields
  <1> HIDE DEF f1
  <1>6. f2 \in Fields /\ f2.window = NumBufs
    BY <1>5 DEF Fields
  <1> HIDE DEF f2
  <1>7. f3 \in Fields /\ f3.window = NumBufs /\ f3.rrunacked = 0
    BY <1>6 DEF Fields
  <1> HIDE DEF f3, t
  <1>8. t \in Works /\ t.b.window = NumBufs /\ t.b.rrunacked = 0 /\ t.lcb = s.lcb /\ t.ctl = s.ctl
    BY <1>2, <1>4, <1>7 DEF Works
  <1>9. \A m \in Pool : s.lcb[m].state = "free"
    BY DEF InUse
  <1>10. \A m \in Pool : t.ctl[m] = 0
    BY <1>8, <1>9 DEF LinksGood
  <1>11. Total(t.ctl, Pool) = 0 /\ Total(t.ctl, RR(t)) = 0
    <2>1. \A m \in Pool : Part(t.ctl, Pool, m) = 0 /\ Part(t.ctl, RR(t), m) = 0
      BY <1>10 DEF Part
    <2>2. t.ctl \in [Pool -> Nat]
      BY <1>2, <1>8
    <2> QED BY <2>1, <2>2, TotalZero
  <1>12. LinksGood(t)
    BY <1>8 DEF LinksGood
  <1>13. Good(t, NumBufs)
    BY <1>1, <1>8, <1>11, <1>12 DEF Good
  <1> QED BY <1>3, <1>13

-----------------------------------------------------------------------------
(* The steps.                                                              *)

\* The record s with another block for link l, and other packets of that link in
\* the HCI library and in the controller.
Edit(s, l, e, h, c) ==
    [b |-> s.b, lcb |-> [s.lcb EXCEPT ![l] = e], hci |-> [s.hci EXCEPT ![l] = h], ctl |-> [s.ctl EXCEPT ![l] = c]]

\* Such a change keeps the accounts right if it is no high priority link beside
\* another, counts what it has in the controller, and joins the round robin with
\* nothing there.
Fits(s, l, e, c) ==
    /\ e \in Blocks /\ c \in Nat /\ c <= s.ctl[l] /\ e.sent >= c
    /\ e.state \in {"free", "connecting"} => c = 0
    /\ e.high => \A m \in Pool : m # l => ~s.lcb[m].high
    /\ e.state # "free" /\ e.quota = 0 => c = 0 \/ l \in RR(s)

\* What the change does to the sums.
LEMMA EditGood ==
  ASSUME NEW s, NEW k, NEW l \in Pool, NEW e, NEW h \in Nat, NEW c, Good(s, k), Fits(s, l, e, c)
  PROVE  Good(Edit(s, l, e, h, c), k - s.ctl[l] + c)
PROOF
  <1> DEFINE t == Edit(s, l, e, h, c)
             f == s.ctl
             g == [s.ctl EXCEPT ![l] = c]
             fl == [s.lcb EXCEPT ![l] = e]
             fh == [s.hci EXCEPT ![l] = h]
  <1>1. s \in Works /\ LinksGood(s)
    BY DEF Good
  <1>2. s.b \in Fields /\ s.lcb \in [Pool -> Blocks] /\ s.hci \in [Pool -> Nat] /\ f \in [Pool -> Nat]
    BY <1>1 DEF Works
  <1>3. e \in Blocks /\ c \in Nat /\ c <= f[l] /\ f[l] \in Nat
    BY <1>2 DEF Fits
  <1>4. fl \in [Pool -> Blocks] /\ fl[l] = e /\ \A m \in Pool : m # l => fl[m] = s.lcb[m]
    BY <1>2, <1>3
  <1>5. g \in [Pool -> Nat] /\ g[l] = c /\ \A m \in Pool : m # l => g[m] = f[m]
    BY <1>2, <1>3
  <1>6. fh \in [Pool -> Nat]
    BY <1>2
  <1>7. t = [b |-> s.b, lcb |-> fl, hci |-> fh, ctl |-> g]
    BY DEF Edit
  <1> HIDE DEF t, f, g, fl, fh
  <1>8. t \in Works /\ t.b = s.b /\ t.lcb = fl /\ t.ctl = g
    BY <1>2, <1>4, <1>5, <1>6, <1>7, Zenon DEF Works
  <1>9. LinksGood(t)
    <2>1. \A i, m \in Pool : t.lcb[i].high /\ t.lcb[m].high => i = m
      <3>1. \A i, m \in Pool : s.lcb[i].high /\ s.lcb[m].high => i = m
        BY <1>1 DEF LinksGood
      <3>2. e.high => \A m \in Pool : m # l => ~s.lcb[m].high
        BY DEF Fits
      <3> QED BY <1>4, <1>8, <3>1, <3>2, Zenon
    <2>2. \A m \in Pool : t.lcb[m].state \in {"free", "connecting"} => t.ctl[m] = 0
      BY <1>1, <1>4, <1>5, <1>8, Zenon DEF LinksGood, Fits, f
    <2>3. \A m \in Pool : t.lcb[m].sent >= t.ctl[m]
      BY <1>1, <1>4, <1>5, <1>8, Zenon DEF LinksGood, Fits, f
    <2> QED BY <2>1, <2>2, <2>3 DEF LinksGood
  <1>10. t.b.window + Total(t.ctl, Pool) = k - f[l] + c
    <2>1. DifferAt(f, Pool, g, Pool, l)
      BY <1>5, Zenon DEF Part, DifferAt
    <2>2. Total(f, Pool) \in Nat /\ Total(g, Pool) = Total(f, Pool) - Part(f, Pool, l) + Part(g, Pool, l)
      BY <1>2, <1>5, <2>1, TotalPoint
    <2>3. Part(f, Pool, l) = f[l] /\ Part(g, Pool, l) = c
      BY <1>5 DEF Part
    <2>4. s.b.window + Total(f, Pool) = k /\ s.b.window \in Nat
      BY <1>2 DEF Good, f, Fields
    <2> QED BY <1>3, <1>8, <2>2, <2>3, <2>4
  <1>11. ASSUME NumBufs > 1 PROVE t.b.rrunacked >= Total(t.ctl, RR(t))
    <2> DEFINE R == RR(s)
               Z == RR(t)
    <2>1. \A m \in Pool : m # l => (m \in R <=> m \in Z)
      BY <1>4, <1>8 DEF RR
    <2>2. l \in Z => c = 0 \/ l \in R
      BY <1>4, <1>8 DEF RR, Fits
    <2>3. s.b.rrunacked >= Total(f, R) /\ s.b.rrunacked \in Nat
      BY <1>2, <1>11 DEF Good, f, Fields
    <2> HIDE DEF R, Z
    <2>4. DifferAt(f, R, g, Z, l)
      BY <1>5, <2>1, Zenon DEF Part, DifferAt
    <2>5. Total(f, R) \in Nat /\ Total(g, Z) \in Nat /\ Total(g, Z) = Total(f, R) - Part(f, R, l) + Part(g, Z, l)
      BY <1>2, <1>5, <2>4, TotalPoint
    <2>6. Part(f, R, l) \in Nat /\ Part(g, Z, l) \in Nat /\ Part(g, Z, l) <= Part(f, R, l)
      BY <1>3, <1>5, <2>2 DEF Part
    <2>7. s.b.rrunacked >= Total(g, Z)
      BY <2>3, <2>5, <2>6
    <2> QED BY <1>8, <2>7 DEF Z
  <1>12. Good(t, k - f[l] + c)
    BY <1>8, <1>9, <1>10, <1>11 DEF Good
  <1> QED BY <1>12 DEF t, f

\* The changes the handlers make.
PutCtl(s, l, c)       == [s EXCEPT !.ctl[l] = c]
PutHci(s, l, h)       == [s EXCEPT !.hci[l] = h]
PutBoth(s, l, e, h)   == [s EXCEPT !.lcb[l] = e, !.hci[l] = h]
PutAll(s, l, e, h, c) == [s EXCEPT !.ctl[l] = c, !.hci[l] = h, !.lcb[l] = e]

\* They are all written as Edit.
LEMMA EditForms ==
  ASSUME NEW s \in Works, NEW l \in Pool, NEW e, NEW h, NEW c
  PROVE  /\ Put(s, l, e) = Edit(s, l, e, s.hci[l], s.ctl[l])
         /\ PutCtl(s, l, c) = Edit(s, l, s.lcb[l], s.hci[l], c)
         /\ PutHci(s, l, h) = Edit(s, l, s.lcb[l], h, s.ctl[l])
         /\ PutBoth(s, l, e, h) = Edit(s, l, e, h, s.ctl[l])
         /\ PutAll(s, l, e, h, c) = Edit(s, l, e, h, c)
PROOF
  <1>1. s.b \in Fields /\ s.lcb \in [Pool -> Blocks] /\ s.hci \in [Pool -> Nat] /\ s.ctl \in [Pool -> Nat]
    BY DEF Works
  <1> DEFINE fl(x) == [s.lcb EXCEPT ![l] = x]
             fh(x) == [s.hci EXCEPT ![l] = x]
             fc(x) == [s.ctl EXCEPT ![l] = x]
             R(x, y, z) == [b |-> s.b, lcb |-> x, hci |-> y, ctl |-> z]
  <1>2. fl(s.lcb[l]) = s.lcb /\ fh(s.hci[l]) = s.hci /\ fc(s.ctl[l]) = s.ctl
    BY <1>1
  <1>3. [s EXCEPT !.lcb[l] = e] = R(fl(e), s.hci, s.ctl)
    BY DEF Works
  <1>4. [s EXCEPT !.ctl[l] = c] = R(s.lcb, s.hci, fc(c))
    BY DEF Works
  <1>5. [s EXCEPT !.hci[l] = h] = R(s.lcb, fh(h), s.ctl)
    BY DEF Works
  <1>6. [s EXCEPT !.lcb[l] = e, !.hci[l] = h] = R(fl(e), fh(h), s.ctl)
    <2> DEFINE v == [s EXCEPT !.lcb[l] = e]
    <2>1. [s EXCEPT !.lcb[l] = e, !.hci[l] = h] = [v EXCEPT !.hci = [v.hci EXCEPT ![l] = h]]
      OBVIOUS
    <2>2. v = R(fl(e), s.hci, s.ctl)
      BY <1>3
    <2> HIDE DEF v, fl
    <2> QED BY <2>1, <2>2
  <1>7. [s EXCEPT !.ctl[l] = c, !.hci[l] = h, !.lcb[l] = e] = R(fl(e), fh(h), fc(c))
    <2> DEFINE v == [s EXCEPT !.ctl[l] = c]
               w == [v EXCEPT !.hci[l] = h]
    <2>1. [s EXCEPT !.ctl[l] = c, !.hci[l] = h, !.lcb[l] = e] = [w EXCEPT !.lcb = [w.lcb EXCEPT ![l] = e]]
      OBVIOUS
    <2>2. w = [v EXCEPT !.hci = [v.hci EXCEPT ![l] = h]]
      OBVIOUS
    <2>3. v = R(s.lcb, s.hci, fc(c))
      BY <1>4
    <2> HIDE DEF v, w, fc
    <2>4. w = R(s.lcb, fh(h), fc(c))
      BY <2>2, <2>3
    <2> HIDE DEF fh
    <2> QED BY <2>1, <2>4
  <1>8. \A x, y, z : Edit(s, l, x, y, z) = R(fl(x), fh(y), fc(z))
    BY DEF Edit
  <1> HIDE DEF R, fl, fh, fc
  <1> QED BY <1>2, <1>3, <1>4, <1>5, <1>6, <1>7, <1>8 DEF Put, PutCtl, PutHci, PutBoth, PutAll

\* The accounts of the whole state.
SchedInv == orphans \in Nat /\ lost \in Int /\ Good(Now, NumBufs - orphans - lost)

\* What a handler leaves in its record is the new state.
LEMMA StoreGood ==
  ASSUME NEW s, NEW k, Good(s, k), Store(s), orphans' \in Nat, lost' \in Int, k = NumBufs - orphans' - lost'
  PROVE  SchedInv'
PROOF
  <1>1. s = [b |-> s.b, lcb |-> s.lcb, hci |-> s.hci, ctl |-> s.ctl]
    BY DEF Good, Works
  <1>2. Now' = s
    BY <1>1 DEF Store, Now
  <1>3. Good(Now', NumBufs - orphans' - lost')
    BY <1>2
  <1> QED BY <1>3 DEF SchedInv

\* The parts of the state, seen through the record of the handlers.
LEMMA NowParts ==
  ASSUME SchedInv
  PROVE  /\ Good(Now, NumBufs - orphans - lost) /\ Now \in Works /\ LinksGood(Now)
         /\ Now.b = l2cb /\ Now.lcb = lcb /\ Now.hci = hci /\ Now.ctl = ctl
         /\ lcb \in [Pool -> Blocks] /\ hci \in [Pool -> Nat] /\ ctl \in [Pool -> Nat]
         /\ orphans \in Nat /\ lost \in Int /\ NumBufs \in Nat
         /\ \A l \in Pool : lcb[l].state \in {"free", "connecting"} => ctl[l] = 0
         /\ \A l \in Pool : lcb[l].sent >= ctl[l]
         /\ \A l, m \in Pool : lcb[l].high /\ lcb[m].high => l = m
PROOF
  <1>1. Good(Now, NumBufs - orphans - lost) /\ orphans \in Nat /\ lost \in Int
    BY DEF SchedInv
  <1>2. Now \in Works /\ LinksGood(Now)
    BY <1>1 DEF Good
  <1>3. Now.b = l2cb /\ Now.lcb = lcb /\ Now.hci = hci /\ Now.ctl = ctl
    BY DEF Now
  <1>4. lcb \in [Pool -> Blocks] /\ hci \in [Pool -> Nat] /\ ctl \in [Pool -> Nat]
    BY <1>2, <1>3 DEF Works
  <1>5. /\ \A l \in Pool : lcb[l].state \in {"free", "connecting"} => ctl[l] = 0
        /\ \A l \in Pool : lcb[l].sent >= ctl[l]
    BY <1>2, <1>3 DEF LinksGood
  <1>6. \A l, m \in Pool : lcb[l].high /\ lcb[m].high => l = m
    BY <1>2, <1>3, Zenon DEF LinksGood
  <1> QED BY <1>1, <1>2, <1>3, <1>4, <1>5, <1>6, SchedAssumption

\* A block as it comes from l2cu_allocate_lcb.
LEMMA NewBlock ==
  ASSUME NEW st \in States
  PROVE  /\ NewLcb(st) \in Blocks /\ NewLcb(st).state = st /\ NewLcb(st).high = FALSE
         /\ NewLcb(st).sent = 0 /\ NewLcb(st).quota = 0
PROOF
  <1>1. <<>> \in Seq(Sizes)
    OBVIOUS
  <1> QED BY <1>1 DEF NewLcb, Blocks

\* A link is given a block.
LEMMA AllocateKeeps ==
  ASSUME SchedInv, NEW l \in Pool, AllocateLcb(l)
  PROVE  SchedInv'
PROOF
  <1> DEFINE k == NumBufs - orphans - lost
             s == Now
             e == NewLcb("connecting")
             t == Put(s, l, e)
  <1>1. lcb[l].state = "free" /\ Store(AdjustAllocation(t)) /\ orphans' = orphans /\ lost' = lost
    BY DEF AllocateLcb, Put
  <1>2. "connecting" \in States
    BY DEF States
  <1>3. e \in Blocks /\ e.state = "connecting" /\ e.high = FALSE /\ e.sent = 0
    BY <1>2, NewBlock, Zenon
  <1> HIDE DEF e
  <1>4. Good(s, k) /\ s \in Works /\ s.lcb = lcb /\ s.ctl = ctl /\ ctl[l] = 0 /\ s.hci[l] \in Nat /\ k \in Int
    BY <1>1, NowParts, SMTT(20)
  <1> HIDE DEF s, k
  <1>5. t = Edit(s, l, e, s.hci[l], s.ctl[l])
    BY <1>4, EditForms
  <1> HIDE DEF t
  <1>6. Fits(s, l, e, s.ctl[l])
    BY <1>3, <1>4 DEF Fits
  <1>7. Good(t, k - s.ctl[l] + s.ctl[l])
    BY <1>4, <1>5, <1>6, EditGood, Zenon
  <1>8. Good(t, k)
    <2>1. k - s.ctl[l] + s.ctl[l] = k
      BY <1>4
    <2> QED BY <1>7, <2>1
  <1>9. l \in InUse(t)
    <2>1. t.lcb[l] = e
      BY <1>4, <1>5, NowParts DEF Edit
    <2> QED BY <1>3, <2>1, Zenon DEF InUse
  <1>10. Good(AdjustAllocation(t), k)
    BY <1>8, <1>9, AdjustGood
  <1> QED BY <1>1, <1>10, StoreGood, NowParts DEF k

\* A connection is up.
LEMMA ConnCompKeeps ==
  ASSUME SchedInv, NEW l \in Pool, ConnComp(l)
  PROVE  SchedInv'
PROOF
  <1> DEFINE k == NumBufs - orphans - lost
             s == Now
             e == [s.lcb[l] EXCEPT !.state = "connected"]
             t == Put(s, l, e)
             u == Signal(t, l)
             w == u.lcb[l].passed \/ u.lcb[l].timer
  <1>1. s \in Works /\ s.lcb = lcb /\ s.ctl = ctl /\ Good(s, k) /\ k \in Int /\ s.hci[l] \in Nat /\ s.ctl[l] \in Nat
    BY NowParts
  <1>2. s.lcb[l] \in Blocks
    BY <1>1, WorkParts
  <1>3. /\ e \in Blocks /\ e.state = "connected" /\ e.high = s.lcb[l].high /\ e.sent = s.lcb[l].sent
        /\ e.quota = s.lcb[l].quota
    BY <1>2, Zenon DEF Blocks, States
  <1>4. /\ lcb[l].state = "connecting" /\ orphans' = orphans /\ lost' = lost
        /\ Store([u EXCEPT !.lcb[l].timer = FALSE, !.lcb[l].passed = @ \/ u.lcb[l].timer])
    BY DEF ConnComp, Put
  <1>5. Fits(s, l, e, s.ctl[l])
    <2>1. e.sent >= s.ctl[l] /\ s.ctl[l] = 0
      BY <1>1, <1>3, <1>4, NowParts
    <2>2. e.high => \A m \in Pool : m # l => ~s.lcb[m].high
      BY <1>1, <1>3, NowParts, Zenon
    <2> HIDE DEF e
    <2> QED BY <1>1, <1>3, <2>1, <2>2 DEF Fits
  <1> HIDE DEF s, k, e
  <1>6. t = Edit(s, l, e, s.hci[l], s.ctl[l])
    BY <1>1, EditForms, Zenon
  <1> HIDE DEF t
  <1>7. Good(t, k)
    <2>1. Good(t, k - s.ctl[l] + s.ctl[l])
      BY <1>1, <1>5, <1>6, EditGood
    <2>2. k - s.ctl[l] + s.ctl[l] = k
      BY <1>1
    <2> QED BY <2>1, <2>2
  <1>8. Good(u, k)
    <2>1. 1 \in Sizes
      BY DEF Sizes
    <2> QED BY <1>7, <2>1, WritesGood, Zenon
  <1> HIDE DEF u
  <1>9. u \in Works
    BY <1>8 DEF Good
  <1>10. u.lcb[l] \in Blocks /\ u.lcb \in [Pool -> Blocks]
    BY <1>9, WorkParts
  <1>11. [u EXCEPT !.lcb[l].timer = FALSE, !.lcb[l].passed = @ \/ u.lcb[l].timer] = PutMarks(u, l, FALSE, w)
    <2> DEFINE v == [u EXCEPT !.lcb[l].timer = FALSE]
    <2>1. v.lcb[l].passed = u.lcb[l].passed
      BY <1>9, <1>10 DEF Works, Blocks
    <2> QED BY <2>1, Zenon DEF PutMarks
  <1>12. w \in BOOLEAN
    BY Zenon
  <1> HIDE DEF w
  <1> DEFINE d == Marked(u.lcb[l], FALSE, w)
  <1>13. SameBlock(d, u.lcb[l])
    BY <1>10, <1>12, FlagBlock, Zenon DEF Marked
  <1>14. PutMarks(u, l, FALSE, w) = Put(u, l, d)
    BY <1>9, TwoFields, Zenon
  <1> HIDE DEF d
  <1>15. Same(u, Put(u, l, d))
    BY <1>9, <1>13, BlockSame, Zenon DEF Put
  <1>16. Good(Put(u, l, d), k)
    BY <1>8, <1>15, SameGood
  <1>17. Store(Put(u, l, d))
    BY <1>4, <1>11, <1>14, Zenon
  <1> QED BY <1>4, <1>16, <1>17, StoreGood, NowParts DEF k

\* l2cu_release_lcb, once nothing of the link is in the controller.
LEMMA ReleaseGood ==
  ASSUME NEW s, NEW k \in Int, NEW l \in Pool, Good(s, k), s.ctl[l] = 0
  PROVE  Good(ReleaseLcb(s, l), IF InUse(s) \ {l} = {} THEN NumBufs ELSE k)
PROOF
  <1> DEFINE e == NewLcb("free")
             t == PutBoth(s, l, e, 0)
  <1>1. ReleaseLcb(s, l) = AdjustAllocation(t)
    BY DEF ReleaseLcb, PutBoth
  <1>2. e \in Blocks /\ e.state = "free" /\ e.high = FALSE /\ e.sent = 0
    <2>1. "free" \in States
      BY DEF States
    <2> QED BY <2>1, NewBlock, Zenon
  <1> HIDE DEF e
  <1>3. s \in Works /\ s.lcb \in [Pool -> Blocks]
    BY DEF Good, Works
  <1>4. t = Edit(s, l, e, 0, s.ctl[l])
    BY <1>3, EditForms
  <1> HIDE DEF t
  <1>5. Fits(s, l, e, s.ctl[l])
    BY <1>2 DEF Fits
  <1>6. Good(t, k)
    <2>1. Good(t, k - s.ctl[l] + s.ctl[l])
      BY <1>4, <1>5, EditGood
    <2>2. k - s.ctl[l] + s.ctl[l] = k
      OBVIOUS
    <2> QED BY <2>1, <2>2
  <1>7. InUse(t) = InUse(s) \ {l}
    <2>1. t.lcb = [s.lcb EXCEPT ![l] = e]
      BY <1>4 DEF Edit
    <2>2. t.lcb[l] = e /\ \A m \in Pool : m # l => t.lcb[m] = s.lcb[m]
      BY <1>3, <2>1
    <2> QED BY <1>2, <2>2 DEF InUse
  <1>8. CASE InUse(t) = {}
    <2>1. Good(AdjustAllocation(t), NumBufs)
      BY <1>6, <1>8, AdjustNone DEF Good
    <2> QED BY <1>1, <1>7, <1>8, <2>1, Zenon
  <1>9. CASE InUse(t) # {}
    <2>1. Good(AdjustAllocation(t), k)
      BY <1>6, <1>9, AdjustGood
    <2> QED BY <1>1, <1>7, <1>9, <2>1
  <1> QED BY <1>8, <1>9

\* The link is the last one.
LEMMA LastIs ==
  ASSUME SchedInv, NEW l \in Pool, lcb[l].state # "free", NEW s, s.lcb = lcb
  PROVE  (InUse(s) \ {l} = {}) <=> LastLink(l)
PROOF
  <1>1. InUse(s) = InUse(Now)
    BY NowParts DEF InUse
  <1>2. l \in InUse(Now)
    BY NowParts DEF InUse
  <1> QED BY <1>1, <1>2 DEF LastLink

\* A connection fails.
LEMMA ConnFailedKeeps ==
  ASSUME SchedInv, NEW l \in Pool, ConnFailed(l)
  PROVE  SchedInv'
PROOF
  <1> DEFINE k == NumBufs - orphans - lost
  <1>1. /\ lcb[l].state = "connecting" /\ Store(ReleaseLcb(Now, l)) /\ orphans' = orphans
        /\ lost' = IF LastLink(l) THEN -orphans ELSE lost
    BY Zenon DEF ConnFailed
  <1>2. Good(Now, k) /\ k \in Int /\ Now.ctl[l] = 0 /\ Now.lcb = lcb
    BY <1>1, NowParts
  <1>3. Good(ReleaseLcb(Now, l), IF InUse(Now) \ {l} = {} THEN NumBufs ELSE k)
    <2> HIDE DEF k
    <2> QED BY <1>2, ReleaseGood
  <1>4. (InUse(Now) \ {l} = {}) <=> LastLink(l)
    BY <1>1, <1>2, LastIs, Zenon
  <1>5. orphans' \in Nat /\ lost' \in Int
    BY <1>1, NowParts, SMTT(20)
  <1>6. (IF InUse(Now) \ {l} = {} THEN NumBufs ELSE k) = NumBufs - orphans' - lost'
    BY <1>1, <1>4, NowParts
  <1> QED BY <1>1, <1>3, <1>5, <1>6, StoreGood

\* What the controller holds for the link goes, before the block does.
LEMMA DropGood ==
  ASSUME SchedInv, NEW l \in Pool
  PROVE  /\ Good(PutCtl(Now, l, 0), NumBufs - orphans - lost - ctl[l])
         /\ PutCtl(Now, l, 0).ctl[l] = 0 /\ PutCtl(Now, l, 0).lcb = lcb
PROOF
  <1> DEFINE k == NumBufs - orphans - lost
             s == Now
             t == PutCtl(s, l, 0)
  <1>1. /\ Good(s, k) /\ s \in Works /\ s.lcb = lcb /\ s.ctl = ctl /\ k \in Int /\ ctl[l] \in Nat
        /\ s.hci[l] \in Nat /\ ctl \in [Pool -> Nat]
    BY NowParts
  <1>2. s.lcb[l] \in Blocks /\ s.lcb \in [Pool -> Blocks] /\ s.lcb[l].sent \in Nat
    BY <1>1, WorkParts
  <1>3. s.lcb[l].high => \A m \in Pool : m # l => ~s.lcb[m].high
    BY <1>1, NowParts, Zenon
  <1> HIDE DEF s, k
  <1>4. t = Edit(s, l, s.lcb[l], s.hci[l], 0)
    BY <1>1, EditForms
  <1> HIDE DEF t
  <1>5. Fits(s, l, s.lcb[l], 0)
    BY <1>1, <1>2, <1>3 DEF Fits
  <1>6. Good(t, k - s.ctl[l] + 0)
    BY <1>1, <1>4, <1>5, EditGood
  <1>7. k - s.ctl[l] + 0 = k - ctl[l]
    BY <1>1
  <1>8. t.ctl[l] = 0 /\ t.lcb = lcb
    BY <1>1, <1>2, <1>4, Zenon DEF Edit
  <1> QED BY <1>6, <1>7, <1>8 DEF s, t, k

\* A connection ends.
LEMMA DiscCompKeeps ==
  ASSUME SchedInv, NEW l \in Pool, DiscComp(l)
  PROVE  SchedInv'
PROOF
  <1> DEFINE k == NumBufs - orphans - lost - ctl[l]
             s == PutCtl(Now, l, 0)
  <1>1. /\ lcb[l].state # "free" /\ Store(ReleaseLcb(s, l)) /\ orphans' = orphans
        /\ lost' = IF LastLink(l) THEN -orphans ELSE lost + ctl[l]
    BY DEF DiscComp, PutCtl
  <1>2. Good(s, k) /\ s.ctl[l] = 0 /\ s.lcb = lcb
    BY DropGood
  <1>3. k \in Int /\ ctl[l] \in Nat
    BY NowParts
  <1> HIDE DEF s
  <1>4. Good(ReleaseLcb(s, l), IF InUse(s) \ {l} = {} THEN NumBufs ELSE k)
    <2> HIDE DEF k
    <2> QED BY <1>2, <1>3, ReleaseGood, Zenon
  <1>5. (InUse(s) \ {l} = {}) <=> LastLink(l)
    BY <1>1, <1>2, LastIs, Zenon
  <1>6. orphans' \in Nat /\ lost' \in Int
    BY <1>1, <1>3, NowParts, SMTT(20)
  <1>7. (IF InUse(s) \ {l} = {} THEN NumBufs ELSE k) = NumBufs - orphans' - lost'
    BY <1>1, <1>3, <1>5, NowParts, SMTT(20)
  <1> QED BY <1>1, <1>4, <1>6, <1>7, StoreGood

\* A disconnection is given up.
LEMMA DiscTimeoutKeeps ==
  ASSUME SchedInv, NEW l \in Pool, DiscTimeout(l)
  PROVE  SchedInv'
PROOF
  <1> DEFINE k == NumBufs - orphans - lost - ctl[l]
             s == PutCtl(Now, l, 0)
  <1>1. /\ lcb[l].state # "free" /\ Store(ReleaseLcb(s, l)) /\ orphans' = orphans + ctl[l]
        /\ lost' = IF LastLink(l) THEN -orphans' ELSE lost
    BY Zenon DEF DiscTimeout, PutCtl
  <1>2. Good(s, k) /\ s.ctl[l] = 0 /\ s.lcb = lcb
    BY DropGood
  <1>3. k \in Int /\ ctl[l] \in Nat
    BY NowParts
  <1> HIDE DEF s
  <1>4. Good(ReleaseLcb(s, l), IF InUse(s) \ {l} = {} THEN NumBufs ELSE k)
    <2> HIDE DEF k
    <2> QED BY <1>2, <1>3, ReleaseGood
  <1>5. (InUse(s) \ {l} = {}) <=> LastLink(l)
    BY <1>1, <1>2, LastIs, Zenon
  <1>6. orphans' \in Nat /\ lost' \in Int
    BY <1>1, <1>3, NowParts, SMTT(20)
  <1>7. (IF InUse(s) \ {l} = {} THEN NumBufs ELSE k) = NumBufs - orphans' - lost'
    BY <1>1, <1>3, <1>5, NowParts
  <1> QED BY <1>1, <1>4, <1>6, <1>7, StoreGood

\* The block connects again.
LEMMA ReconnectKeeps ==
  ASSUME SchedInv, NEW l \in Pool, Reconnect(l)
  PROVE  SchedInv'
PROOF
  <1> DEFINE k == NumBufs - orphans - lost
             s == Now
             d == [s.lcb[l] EXCEPT !.state = "connecting"]
             e == [d EXCEPT !.chanq = <<>>]
             t == PutAll(s, l, e, 0, 0)
  <1>1. /\ Good(s, k) /\ s \in Works /\ s.lcb = lcb /\ s.ctl = ctl /\ k \in Int /\ ctl[l] \in Nat
    BY NowParts
  <1>2. s.lcb[l] \in Blocks /\ s.lcb \in [Pool -> Blocks] /\ s.lcb[l].sent \in Nat
    BY <1>1, WorkParts
  <1>3. /\ Store([Now EXCEPT !.ctl[l] = 0, !.hci[l] = 0, !.lcb[l].state = "connecting", !.lcb[l].chanq = <<>>])
        /\ lost' = lost + ctl[l] /\ orphans' = orphans
    BY DEF Reconnect
  <1>4. [Now EXCEPT !.ctl[l] = 0, !.hci[l] = 0, !.lcb[l].state = "connecting", !.lcb[l].chanq = <<>>] = t
    <2> DEFINE v == [s EXCEPT !.ctl[l] = 0, !.hci[l] = 0]
               w == [v EXCEPT !.lcb[l].state = "connecting"]
    <2>1. v.lcb = s.lcb /\ v = [v EXCEPT !.lcb = s.lcb]
      BY <1>1, Zenon DEF Works
    <2>2. t = [v EXCEPT !.lcb = [v.lcb EXCEPT ![l] = e]]
      BY DEF PutAll
    <2>3. [Now EXCEPT !.ctl[l] = 0, !.hci[l] = 0, !.lcb[l].state = "connecting", !.lcb[l].chanq = <<>>]
            = [w EXCEPT !.lcb = [w.lcb EXCEPT ![l] = [w.lcb[l] EXCEPT !.chanq = <<>>]]]
      OBVIOUS
    <2>4. w = [v EXCEPT !.lcb = [v.lcb EXCEPT ![l] = [v.lcb[l] EXCEPT !.state = "connecting"]]]
      OBVIOUS
    <2>5. "lcb" \in DOMAIN v
      BY <1>1 DEF Works
    <2> HIDE DEF v, w, t
    <2>6. w.lcb[l] = d /\ w.lcb = [v.lcb EXCEPT ![l] = d]
      BY <1>2, <2>1, <2>4, <2>5
    <2> HIDE DEF d
    <2>7. [w.lcb EXCEPT ![l] = e] = [v.lcb EXCEPT ![l] = e]
      BY <1>2, <2>1, <2>6
    <2> HIDE DEF e
    <2>8. \A x : [w EXCEPT !.lcb = x] = [v EXCEPT !.lcb = x]
      BY <2>4, <2>5, Zenon
    <2> QED BY <2>2, <2>3, <2>6, <2>7, <2>8, Zenon DEF e
  <1>5. /\ e \in Blocks /\ e.state = "connecting" /\ e.high = s.lcb[l].high /\ e.sent = s.lcb[l].sent
    <2>1. d \in Blocks /\ d.state = "connecting" /\ d.high = s.lcb[l].high /\ d.sent = s.lcb[l].sent
      BY <1>2, Zenon DEF Blocks, States
    <2>2. <<>> \in Seq(Sizes)
      OBVIOUS
    <2> HIDE DEF d
    <2> QED BY <2>1, <2>2, Zenon DEF Blocks
  <1>6. s.lcb[l].high => \A m \in Pool : m # l => ~s.lcb[m].high
    BY <1>1, NowParts, Zenon
  <1> HIDE DEF s, e, k
  <1>7. t = Edit(s, l, e, 0, 0)
    BY <1>1, EditForms, SMTT(20)
  <1>8. Fits(s, l, e, 0)
    BY <1>1, <1>2, <1>5, <1>6 DEF Fits
  <1> HIDE DEF t
  <1>9. Good(t, k - s.ctl[l] + 0)
    BY <1>1, <1>7, <1>8, EditGood
  <1>10. k - s.ctl[l] + 0 = NumBufs - orphans' - lost' /\ orphans' \in Nat /\ lost' \in Int
    BY <1>1, <1>3, NowParts, SMTT(20) DEF k
  <1> QED BY <1>3, <1>4, <1>9, <1>10, StoreGood, Zenon

\* Another block for the link, with the packets where they are.
LEMMA PutGood ==
  ASSUME NEW s, NEW k \in Int, NEW l \in Pool, NEW e, Good(s, k), Fits(s, l, e, s.ctl[l])
  PROVE  Good(Put(s, l, e), k)
PROOF
  <1>1. s \in Works
    BY DEF Good
  <1>2. s.hci[l] \in Nat /\ s.ctl[l] \in Nat
    BY <1>1, WorkParts, Zenon
  <1>3. Put(s, l, e) = Edit(s, l, e, s.hci[l], s.ctl[l])
    BY <1>1, EditForms, Zenon
  <1> DEFINE t == Put(s, l, e)
  <1> HIDE DEF t
  <1>4. Good(t, k - s.ctl[l] + s.ctl[l])
    BY <1>2, <1>3, EditGood, Zenon DEF t
  <1>5. k - s.ctl[l] + s.ctl[l] = k
    BY <1>2
  <1> QED BY <1>4, <1>5 DEF t

\* The link is going down.
LEMMA DisconnectKeeps ==
  ASSUME SchedInv, NEW l \in Pool, Disconnect(l)
  PROVE  SchedInv'
PROOF
  <1> DEFINE k == NumBufs - orphans - lost
             s == Now
             d == [s.lcb[l] EXCEPT !.state = "disconnecting"]
             e == [d EXCEPT !.timer = FALSE]
  <1>1. /\ Good(s, k) /\ s \in Works /\ s.lcb = lcb /\ s.ctl = ctl /\ s.b = l2cb /\ s.hci = hci /\ k \in Int
    BY NowParts, SMTT(20)
  <1>2. s.lcb[l] \in Blocks /\ s.lcb \in [Pool -> Blocks] /\ s.ctl[l] \in Nat
    BY <1>1, WorkParts
  <1>3. /\ lcb[l].state = "connected"
        /\ lcb' = [lcb EXCEPT ![l].state = "disconnecting", ![l].timer = FALSE]
        /\ l2cb' = l2cb /\ hci' = hci /\ ctl' = ctl /\ orphans' = orphans /\ lost' = lost
    BY DEF Disconnect
  <1>4. /\ e \in Blocks /\ e.state = "disconnecting" /\ e.high = s.lcb[l].high /\ e.sent = s.lcb[l].sent
        /\ e.quota = s.lcb[l].quota
    <2>1. /\ d \in Blocks /\ d.state = "disconnecting" /\ d.high = s.lcb[l].high /\ d.sent = s.lcb[l].sent
          /\ d.quota = s.lcb[l].quota
      BY <1>2, Zenon DEF Blocks, States
    <2> HIDE DEF d
    <2> QED BY <2>1, Zenon DEF Blocks
  <1>5. lcb' = [lcb EXCEPT ![l] = e]
    <2> DEFINE f == [lcb EXCEPT ![l].state = "disconnecting"]
    <2>1. f = [lcb EXCEPT ![l] = d]
      BY <1>1
    <2>2. lcb' = [f EXCEPT ![l] = [f[l] EXCEPT !.timer = FALSE]]
      BY <1>3
    <2> HIDE DEF f, d
    <2>3. f[l] = d
      BY <1>1, <1>2, <2>1
    <2> QED BY <1>1, <1>2, <2>1, <2>2, <2>3, Zenon
  <1>6. s.lcb[l].high => \A m \in Pool : m # l => ~s.lcb[m].high
    BY <1>1, NowParts, Zenon
  <1>7. s.lcb[l].sent >= s.ctl[l]
    BY <1>1, NowParts, Zenon
  <1>8. Store(Put(s, l, e))
    <2>1. Put(s, l, e) = Edit(s, l, e, s.hci[l], s.ctl[l])
      <3> HIDE DEF e, s
      <3> QED BY <1>1, EditForms, Zenon
    <2>2. [s.hci EXCEPT ![l] = s.hci[l]] = s.hci /\ [s.ctl EXCEPT ![l] = s.ctl[l]] = s.ctl
      BY <1>1, NowParts, Zenon
    <2> HIDE DEF e
    <2>3. Edit(s, l, e, s.hci[l], s.ctl[l]) = [b |-> l2cb, lcb |-> [lcb EXCEPT ![l] = e], hci |-> hci, ctl |-> ctl]
      BY <1>1, <2>2, Zenon DEF Edit
    <2> DEFINE t == Put(s, l, e)
    <2>4. t.b = l2cb /\ t.lcb = [lcb EXCEPT ![l] = e] /\ t.hci = hci /\ t.ctl = ctl
      BY <2>1, <2>3
    <2>5. l2cb' = l2cb /\ hci' = hci /\ ctl' = ctl
      BY <1>3
    <2> HIDE DEF t
    <2> QED BY <1>5, <2>4, <2>5, Zenon DEF Store, t
  <1> HIDE DEF s, e, k
  <1>9. Fits(s, l, e, s.ctl[l])
    BY <1>1, <1>2, <1>3, <1>4, <1>6, <1>7 DEF Fits, RR
  <1>10. Good(Put(s, l, e), k)
    BY <1>1, <1>9, PutGood, Zenon
  <1> QED BY <1>3, <1>8, <1>10, StoreGood, NowParts, Zenon DEF k

\* The priority of a link is changed.
LEMMA PriorityKeeps ==
  ASSUME SchedInv, NEW l \in Pool, SetAclPriority(l)
  PROVE  SchedInv'
PROOF
  <1> DEFINE k == NumBufs - orphans - lost
             s == Now
             v == ~s.lcb[l].high
             e == [s.lcb[l] EXCEPT !.high = v]
             t == Put(s, l, e)
  <1>1. /\ Good(s, k) /\ s \in Works /\ s.lcb = lcb /\ s.ctl = ctl /\ k \in Int
    BY NowParts, SMTT(20)
  <1>2. s.lcb[l] \in Blocks /\ s.lcb \in [Pool -> Blocks] /\ s.ctl[l] \in Nat
    BY <1>1, WorkParts
  <1>3. /\ lcb[l].state = "connected" /\ Store(AdjustAllocation(t)) /\ orphans' = orphans /\ lost' = lost
    BY DEF SetAclPriority, Put
  <1>4. ~lcb[l].high => \A m \in Pool : ~lcb[m].high
    BY DEF SetAclPriority
  <1>5. v \in BOOLEAN /\ (v => \A m \in Pool : m # l => ~s.lcb[m].high)
    BY <1>1, <1>4, Zenon
  <1> HIDE DEF v
  <1>6. /\ e \in Blocks /\ e.state = s.lcb[l].state /\ e.high = v /\ e.sent = s.lcb[l].sent
        /\ e.quota = s.lcb[l].quota
    BY <1>2, <1>5, Zenon DEF Blocks
  <1>7. s.lcb[l].sent >= s.ctl[l]
    BY <1>1, NowParts, Zenon
  <1> HIDE DEF s, e, k
  <1>8. Fits(s, l, e, s.ctl[l])
    BY <1>1, <1>2, <1>3, <1>5, <1>6, <1>7 DEF Fits, RR
  <1>9. Good(t, k)
    BY <1>1, <1>8, PutGood, Zenon
  <1>10. l \in InUse(t)
    <2>1. t.lcb[l] = e
      BY <1>1, <1>2 DEF Put, Works
    <2> QED BY <1>1, <1>3, <1>6, <2>1 DEF InUse
  <1> HIDE DEF t
  <1>11. Good(AdjustAllocation(t), k)
    BY <1>9, <1>10, AdjustGood
  <1> QED BY <1>3, <1>11, StoreGood, NowParts, Zenon DEF k

\* Data and signals are written.
LEMMA WriteKeeps ==
  ASSUME SchedInv, NEW l \in Pool, SendSignal(l) \/ \E p \in {1, 2} : DataWrite(l, p)
  PROVE  SchedInv'
PROOF
  <1> DEFINE k == NumBufs - orphans - lost
             s == Now
  <1>1. Good(s, k) /\ k \in Int
    BY NowParts, SMTT(20)
  <1> HIDE DEF s, k
  <1>2. ASSUME SendSignal(l) PROVE SchedInv'
    <2>1. Store(Signal(s, l)) /\ orphans' = orphans /\ lost' = lost
      BY <1>2 DEF SendSignal, s
    <2>2. 1 \in Sizes
      BY DEF Sizes
    <2>3. Good(Signal(s, l), k)
      BY <1>1, <2>2, WritesGood, Zenon
    <2> QED BY <2>1, <2>3, StoreGood, NowParts, Zenon DEF k
  <1>3. ASSUME NEW p \in {1, 2}, DataWrite(l, p) PROVE SchedInv'
    <2>1. Store(CheckSendPkts(Enqueue(s, l, "chanq", p), l, FALSE)) /\ orphans' = orphans /\ lost' = lost
      BY <1>3, Zenon DEF DataWrite, s
    <2>2. p \in Sizes
      BY DEF Sizes
    <2>3. Good(CheckSendPkts(Enqueue(s, l, "chanq", p), l, FALSE), k)
      BY <1>1, <2>2, WritesGood, Zenon
    <2> QED BY <2>1, <2>3, StoreGood, NowParts, Zenon DEF k
  <1> QED BY <1>2, <1>3

\* A channel is closed: its data move to the link's queue.
LEMMA SendDiscReqKeeps ==
  ASSUME SchedInv, NEW l \in Pool, SendDiscReq(l)
  PROVE  SchedInv'
PROOF
  <1> DEFINE k == NumBufs - orphans - lost
             s == Now
             e == [s.lcb[l] EXCEPT !.chanq = <<>>]
             t == Put(s, l, e)
             c == lcb[l].chanq
  <1>1. /\ Good(s, k) /\ s \in Works /\ s.lcb = lcb /\ k \in Int
    BY NowParts
  <1>2. s.lcb[l] \in Blocks /\ c \in Seq(Sizes)
    BY <1>1, WorkParts
  <1>3. PICK n \in Nat : n = Len(c) /\ \A i \in 1 .. n : c[i] \in Sizes
    BY <1>2
  <1> DEFINE V == {x \in Works : Good(x, k)}
             g == [p \in (1 .. n) \X V |-> SingleWrite(p[2], l, c[p[1]])]
             Loop(f) == f = [i \in 0 .. n |-> IF i = 0 THEN t ELSE SingleWrite(f[i - 1], l, c[i])]
             f == CHOOSE x : Loop(x)
  <1>4. Store(Signal(f[n], l)) /\ orphans' = orphans /\ lost' = lost
    BY <1>3, Zenon DEF SendDiscReq, Put
  <1>5. SameBlock(e, s.lcb[l])
    <2>1. <<>> \in Seq(Sizes)
      OBVIOUS
    <2> QED BY <1>2, <2>1, Zenon DEF Blocks, SameBlock
  <1> HIDE DEF s, k, e, c
  <1>6. Good(t, k)
    <2>1. Same(s, t)
      BY <1>1, <1>5, BlockSame, Zenon DEF Put
    <2> QED BY <1>1, <2>1, SameGood
  <1> HIDE DEF t
  <1>7. \A i \in 1 .. n, x \in V : SingleWrite(x, l, c[i]) \in V
    <2> SUFFICES ASSUME NEW i \in 1 .. n, NEW x \in V PROVE SingleWrite(x, l, c[i]) \in V
      OBVIOUS
    <2> DEFINE p == c[i]
    <2>1. Good(x, k) /\ p \in Sizes
      BY <1>3
    <2> HIDE DEF p
    <2>2. Good(SingleWrite(x, l, p), k)
      BY <2>1, WritesGood, Zenon
    <2>3. SingleWrite(x, l, p) \in V
      BY <2>2 DEF Good
    <2> QED BY <2>3 DEF p
  <1>8. t \in V
    BY <1>6 DEF Good
  <1>9. \A x \in V : Good(x, k)
    OBVIOUS
  <1> HIDE DEF V
  <1>10. g \in [(1 .. n) \X V -> V] /\ \A i \in 1 .. n, x \in V : g[<<i, x>>] = SingleWrite(x, l, c[i])
    BY <1>7
  <1> HIDE DEF g
  <1>11. PICK h : IsRecursive(h, n, V, t, g)
    BY <1>8, <1>10, RecursiveFcn, Zenon
  <1>12. h \in [0 .. n -> V] /\ h[0] = t /\ \A i \in 1 .. n : h[i] = SingleWrite(h[i - 1], l, c[i])
    <2>1. h \in [0 .. n -> V] /\ h[0] = t /\ \A i \in 1 .. n : h[i] = g[<<i, h[i - 1]>>]
      BY <1>11 DEF IsRecursive
    <2>2. \A i \in 1 .. n : h[i - 1] \in V
      BY <2>1
    <2> QED BY <1>10, <2>1, <2>2, Zenon
  <1>13. h = [i \in 0 .. n |-> IF i = 0 THEN t ELSE SingleWrite(h[i - 1], l, c[i])]
    BY <1>12
  <1>14. Loop(f)
    BY <1>13, Zenon
  <1> HIDE DEF f
  <1>15. f[0] = t /\ \A i \in 1 .. n : f[i] = SingleWrite(f[i - 1], l, c[i])
    BY <1>14
  <1>16. \A i \in 1 .. n : f[i - 1] \in V => f[i] \in V
    BY <1>7, <1>15
  <1>17. \A i \in 0 .. n : f[i] \in V
    BY <1>8, <1>15, <1>16, Iterates
  <1> DEFINE u == f[n]
  <1>18. Good(u, k)
    BY <1>9, <1>17
  <1> HIDE DEF u
  <1>19. Good(Signal(u, l), k)
    <2>1. 1 \in Sizes
      BY DEF Sizes
    <2> QED BY <1>18, <2>1, WritesGood, Zenon
  <1>20. Store(Signal(u, l))
    BY <1>4 DEF u
  <1> QED BY <1>4, <1>19, <1>20, StoreGood, NowParts, Zenon DEF k

\* What the report of n packets of link l does to the accounts, before anything
\* is sent: the four assignments of CompletedOne in their order.
Reported(s, l, n) ==
    LET u == IF s.lcb[l].quota = 0 THEN Less(s.b.rrunacked, n) ELSE s.b.rrunacked
    IN  [s EXCEPT !.b.window = s.b.window + n, !.b.rrunacked = u,
                  !.lcb[l].sent = Less(s.lcb[l].sent, n), !.ctl[l] = s.ctl[l] - n]

\* The report, field by field.
LEMMA ReportedParts ==
  ASSUME NEW s \in Works, NEW l \in Pool, NEW n \in Nat, n <= s.ctl[l]
  PROVE  LET t == Reported(s, l, n)
             r == IF s.lcb[l].quota = 0 THEN Less(s.b.rrunacked, n) ELSE s.b.rrunacked
         IN  /\ t \in Works /\ t.b.window = s.b.window + n /\ t.b.rrunacked = r
             /\ t.lcb = [s.lcb EXCEPT ![l] = [s.lcb[l] EXCEPT !.sent = Less(s.lcb[l].sent, n)]]
             /\ t.ctl = [s.ctl EXCEPT ![l] = s.ctl[l] - n]
PROOF
  <1> DEFINE w == s.b.window + n
             r == IF s.lcb[l].quota = 0 THEN Less(s.b.rrunacked, n) ELSE s.b.rrunacked
             d == Less(s.lcb[l].sent, n)
             c == s.ctl[l] - n
             R(b, x, h, y) == [b |-> b, lcb |-> x, hci |-> h, ctl |-> y]
             s1 == [s EXCEPT !.b.window = w]
             s2 == [s1 EXCEPT !.b.rrunacked = r]
             s3 == [s2 EXCEPT !.lcb[l].sent = d]
             s4 == [s3 EXCEPT !.ctl[l] = c]
             b1 == [s.b EXCEPT !.window = w]
             b2 == [b1 EXCEPT !.rrunacked = r]
             e  == [s.lcb[l] EXCEPT !.sent = d]
             x  == [s.lcb EXCEPT ![l] = e]
             y  == [s.ctl EXCEPT ![l] = c]
  <1>1. /\ s.b \in Fields /\ s.lcb \in [Pool -> Blocks] /\ s.hci \in [Pool -> Nat] /\ s.ctl \in [Pool -> Nat]
        /\ s.b.window \in Nat /\ s.b.rrunacked \in Nat /\ s.lcb[l] \in Blocks /\ s.ctl[l] \in Nat
        /\ s.lcb[l].sent \in Nat
    BY WorkParts
  <1>2. s = R(s.b, s.lcb, s.hci, s.ctl)
    BY DEF Works
  <1>3. w \in Nat /\ r \in Nat /\ d \in Nat /\ c \in Nat
    BY <1>1 DEF Less
  <1>4. s1 = R(b1, s.lcb, s.hci, s.ctl)
    BY <1>2
  <1>5. b1 \in Fields /\ b1.window = w /\ b1.rrunacked = s.b.rrunacked
    <2> HIDE DEF w
    <2> QED BY <1>1, <1>3 DEF Fields
  <1>6. s2 = R(b2, s.lcb, s.hci, s.ctl)
    <2> HIDE DEF s1, b1
    <2> QED BY <1>4, <1>5
  <1>7. b2 \in Fields /\ b2.window = w /\ b2.rrunacked = r
    <2> HIDE DEF b1, r, w
    <2> QED BY <1>3, <1>5 DEF Fields
  <1>8. s3 = R(b2, x, s.hci, s.ctl)
    <2> HIDE DEF s2, b2
    <2> QED BY <1>6
  <1>9. e \in Blocks
    <2> HIDE DEF d
    <2> QED BY <1>1, <1>3, Zenon DEF Blocks
  <1>10. x \in [Pool -> Blocks]
    <2> HIDE DEF e
    <2> QED BY <1>1, <1>9
  <1>11. s4 = R(b2, x, s.hci, y)
    <2> HIDE DEF s3, b2, x
    <2> QED BY <1>8, SMTT(20)
  <1>12. y \in [Pool -> Nat]
    <2> HIDE DEF c
    <2> QED BY <1>1, <1>3
  <1>13. Reported(s, l, n) = s4
    BY DEF Reported
  <1> HIDE DEF s4, b2, x, y
  <1>14. s4 \in Works /\ s4.b = b2 /\ s4.lcb = x /\ s4.ctl = y
    BY <1>1, <1>7, <1>10, <1>11, <1>12 DEF Works
  <1> QED BY <1>7, <1>13, <1>14, Zenon DEF x, y

\* A report of packets that the controller had keeps the accounts: what the
\* window gains, the controller loses, and so does the round robin's count when
\* the link is served in round robin.
LEMMA ReportedGood ==
  ASSUME NEW s, NEW k, NEW l \in Pool, NEW n \in Nat, n > 0, n <= s.ctl[l], Good(s, k)
  PROVE  Good(Reported(s, l, n), k)
PROOF
  <1> DEFINE t == Reported(s, l, n)
             f == s.ctl
             g == [s.ctl EXCEPT ![l] = s.ctl[l] - n]
             d == Less(s.lcb[l].sent, n)
             e == [s.lcb[l] EXCEPT !.sent = d]
  <1>1. s \in Works /\ LinksGood(s)
    BY Zenon DEF Good
  <1>2. /\ s.lcb \in [Pool -> Blocks] /\ f \in [Pool -> Nat] /\ f[l] \in Nat /\ s.b.window \in Nat
        /\ s.b.rrunacked \in Nat /\ s.lcb[l] \in Blocks /\ s.lcb[l].sent \in Nat
    BY <1>1, WorkParts
  <1>3. /\ t \in Works /\ t.b.window = s.b.window + n /\ t.lcb = [s.lcb EXCEPT ![l] = e] /\ t.ctl = g
        /\ t.b.rrunacked = IF s.lcb[l].quota = 0 THEN Less(s.b.rrunacked, n) ELSE s.b.rrunacked
    BY <1>1, ReportedParts
  <1>4. /\ e.state = s.lcb[l].state /\ e.quota = s.lcb[l].quota /\ e.high = s.lcb[l].high /\ e.sent = d
    BY <1>2 DEF Blocks
  <1>5. d \in Nat /\ d >= s.lcb[l].sent - n
    BY <1>2 DEF Less
  <1> HIDE DEF t, e, d
  <1>6. /\ t.lcb[l] = e /\ \A m \in Pool : m # l => t.lcb[m] = s.lcb[m]
    BY <1>2, <1>3, Zenon
  <1>7. g \in [Pool -> Nat] /\ g[l] = f[l] - n /\ \A m \in Pool : m # l => g[m] = f[m]
    BY <1>2, SMTT(20)
  <1> HIDE DEF f, g
  <1>8. RR(t) = RR(s)
    BY <1>4, <1>6, Zenon DEF RR
  <1>9. s.lcb[l].state # "free" /\ s.lcb[l].state # "connecting" /\ s.lcb[l].sent >= f[l]
    BY <1>1, <1>2, SMTT(20) DEF LinksGood, f
  <1>10. LinksGood(t)
    <2>1. \A m \in Pool : t.lcb[m].high = s.lcb[m].high /\ t.lcb[m].state = s.lcb[m].state
      BY <1>4, <1>6, Zenon
    <2>2. \A m, o \in Pool : t.lcb[m].high /\ t.lcb[o].high => m = o
      BY <1>1, <2>1, Zenon DEF LinksGood
    <2>3. \A m \in Pool : t.lcb[m].state \in {"free", "connecting"} => t.ctl[m] = 0
      BY <1>1, <1>3, <1>7, <1>9, <2>1, Zenon DEF LinksGood, f
    <2>4. \A m \in Pool : t.lcb[m].sent >= t.ctl[m]
      <3>1. t.lcb[l].sent >= t.ctl[l]
        BY <1>2, <1>3, <1>4, <1>5, <1>6, <1>7, <1>9, SMTT(20)
      <3>2. \A m \in Pool : m # l => t.lcb[m].sent >= t.ctl[m]
        BY <1>1, <1>3, <1>6, <1>7 DEF LinksGood, f
      <3> QED BY <3>1, <3>2, Zenon
    <2> QED BY <2>2, <2>3, <2>4 DEF LinksGood
  <1>11. \A S : DifferAt(f, S, g, S, l)
    BY <1>7, Zenon DEF DifferAt, Part
  <1>12. \A S : /\ Total(f, S) \in Nat /\ Total(g, S) \in Nat
                /\ Total(g, S) = Total(f, S) - Part(f, S, l) + Part(g, S, l)
    BY <1>2, <1>7, <1>11, TotalPoint, SMTT(20)
  <1>13. t.b.window + Total(t.ctl, Pool) = k
    <2>1. Part(f, Pool, l) = f[l] /\ Part(g, Pool, l) = g[l]
      BY DEF Part
    <2>2. Total(f, Pool) \in Nat /\ Total(g, Pool) = Total(f, Pool) - f[l] + g[l]
      BY <1>12, <2>1
    <2>3. s.b.window + Total(f, Pool) = k
      BY DEF Good, f
    <2> QED BY <1>2, <1>3, <1>7, <2>2, <2>3
  <1>14. ASSUME NumBufs > 1 PROVE t.b.rrunacked >= Total(t.ctl, RR(t))
    <2> DEFINE S == RR(s)
    <2>1. s.b.rrunacked >= Total(f, S)
      BY <1>14, Zenon DEF Good, f
    <2>2. Total(f, S) \in Nat /\ Total(g, S) \in Nat /\ Total(g, S) = Total(f, S) - Part(f, S, l) + Part(g, S, l)
      BY <1>12
    <2>3. l \in S <=> s.lcb[l].quota = 0
      BY <1>9 DEF RR
    <2> HIDE DEF S
    <2>4. Part(f, S, l) = (IF l \in S THEN f[l] ELSE 0) /\ Part(g, S, l) = (IF l \in S THEN g[l] ELSE 0)
      BY DEF Part
    <2>5. CASE l \in S
      <3>1. Total(g, S) = Total(f, S) - n
        BY <1>2, <1>7, <2>2, <2>4, <2>5, SMTT(20)
      <3>2. t.b.rrunacked >= s.b.rrunacked - n /\ t.b.rrunacked \in Nat
        BY <1>2, <1>3, <2>3, <2>5, SMTT(20) DEF Less
      <3>3. t.b.rrunacked >= Total(g, S)
        BY <1>2, <2>1, <2>2, <3>1, <3>2, SMTT(20)
      <3> QED BY <1>3, <1>8, <3>3, Zenon DEF S
    <2>6. CASE l \notin S
      <3>1. Total(g, S) = Total(f, S) /\ t.b.rrunacked = s.b.rrunacked
        BY <1>3, <2>2, <2>3, <2>4, <2>6, SMTT(20)
      <3> QED BY <1>3, <1>8, <2>1, <3>1, Zenon DEF S
    <2> QED BY <2>5, <2>6
  <1> QED BY <1>3, <1>10, <1>13, <1>14, Zenon DEF Good, t

\* The controller reports packets of a link: the sends that follow keep the
\* accounts as well.
LEMMA NumCompletedKeeps ==
  ASSUME SchedInv, NEW l \in Pool, NumCompletedPkts(l)
  PROVE  SchedInv'
PROOF
  <1> DEFINE k == NumBufs - orphans - lost
             s == Now
  <1>1. Good(s, k) /\ s.ctl = ctl /\ k \in Int /\ ctl[l] \in Nat
    BY NowParts
  <1>2. PICK n \in 1 .. ctl[l] : Store(CompletedOne(s, l, n))
    BY DEF NumCompletedPkts
  <1>3. orphans' = orphans /\ lost' = lost
    BY DEF NumCompletedPkts
  <1>4. n \in Nat /\ n > 0 /\ n <= s.ctl[l]
    BY <1>1, <1>2
  <1> HIDE DEF s, k
  <1> DEFINE r == Reported(s, l, n)
             t == CheckSendPkts(r, l, FALSE)
  <1>5. CompletedOne(s, l, n) = t \/ CompletedOne(s, l, n) = CheckAll(t)
    BY Zenon DEF CompletedOne, Reported
  <1>6. Good(r, k)
    BY <1>1, <1>4, ReportedGood, Zenon
  <1> HIDE DEF r
  <1>7. Good(t, k)
    <2> DEFINE no == FALSE
    <2>1. no \in BOOLEAN
      OBVIOUS
    <2> HIDE DEF no
    <2>2. Good(CheckSendPkts(r, l, no), k)
      BY <1>6, <2>1, CheckSendPktsGood, Zenon
    <2> QED BY <2>2, Zenon DEF no
  <1> HIDE DEF t
  <1>8. Good(CheckAll(t), k)
    <2> DEFINE no == FALSE
    <2>1. no \in BOOLEAN
      OBVIOUS
    <2> HIDE DEF no
    <2> QED BY <1>7, <2>1, CheckSendPktsGood
  <1>9. Good(CompletedOne(s, l, n), k)
    BY <1>5, <1>7, <1>8
  <1> QED BY <1>2, <1>3, <1>9, StoreGood, NowParts, Zenon DEF k

\* The controller reports a packet of a connection that has no block.
LEMMA NumCompletedUnknownKeeps ==
  ASSUME SchedInv, NumCompletedUnknown
  PROVE  SchedInv'
PROOF
  <1> DEFINE k == NumBufs - orphans - lost
             w == l2cb.window + 1
             b == [l2cb EXCEPT !.window = w]
             s == [b |-> b, lcb |-> lcb, hci |-> hci, ctl |-> ctl]
  <1>1. /\ Good(Now, k) /\ Now \in Works /\ k \in Int /\ LinksGood(Now)
        /\ Now.b = l2cb /\ Now.lcb = lcb /\ Now.hci = hci /\ Now.ctl = ctl
        /\ orphans \in Nat /\ lost \in Int /\ NumBufs \in Nat
    BY NowParts
  <1>2. /\ orphans > 0 /\ orphans' = orphans - 1 /\ lost' = lost /\ Store(s)
    BY DEF NumCompletedUnknown, Store
  <1>3. /\ l2cb \in Fields /\ lcb \in [Pool -> Blocks] /\ hci \in [Pool -> Nat] /\ ctl \in [Pool -> Nat]
    BY <1>1 DEF Works
  <1>4. b \in Fields /\ b.window = l2cb.window + 1 /\ b.rrunacked = l2cb.rrunacked
    <2>1. l2cb.window \in Nat /\ w \in Nat
      BY <1>3 DEF Fields
    <2> HIDE DEF w
    <2>2. b \in Fields /\ b.window = w /\ b.rrunacked = l2cb.rrunacked
      BY <1>3, <2>1 DEF Fields
    <2> QED BY <2>2 DEF w
  <1> HIDE DEF b
  <1>5. s \in Works /\ s.b = b /\ s.lcb = lcb /\ s.ctl = ctl
    BY <1>3, <1>4, Zenon DEF Works
  <1>6. LinksGood(s)
    <2> HIDE DEF s
    <2> QED BY <1>1, <1>5 DEF LinksGood
  <1>7. RR(s) = RR(Now)
    <2> HIDE DEF s
    <2> QED BY <1>1, <1>5 DEF RR
  <1>8. s.b.window + Total(s.ctl, Pool) = k + 1
    <2>1. l2cb.window + Total(ctl, Pool) = k
      BY <1>1 DEF Good
    <2>2. Total(ctl, Pool) \in Nat /\ l2cb.window \in Nat
      <3>1. PICK l : l \in Pool
        BY SchedAssumption DEF Pool
      <3>2. DifferAt(ctl, Pool, ctl, Pool, l)
        BY DEF DifferAt
      <3> QED BY <1>3, <3>1, <3>2, TotalPoint DEF Fields
    <2>3. s.b.window = l2cb.window + 1 /\ s.ctl = ctl
      BY <1>4, <1>5
    <2> DEFINE T == Total(ctl, Pool)
    <2>4. l2cb.window + 1 + T = k + 1
      <3> HIDE DEF T, k
      <3> QED BY <1>1, <2>1, <2>2, SMTT(20) DEF T
    <2> HIDE DEF s
    <2> QED BY <2>3, <2>4
  <1>9. NumBufs > 1 => s.b.rrunacked >= Total(s.ctl, RR(s))
    <2> HIDE DEF s
    <2> QED BY <1>1, <1>4, <1>5, <1>7 DEF Good
  <1> HIDE DEF s
  <1>10. Good(s, k + 1)
    BY <1>5, <1>6, <1>8, <1>9 DEF Good
  <1> QED BY <1>1, <1>2, <1>10, StoreGood, SMTT(20)

\* A packet is put at the head of the link's queue, as l2c_link_segments_xmitted
\* does.
Returned(s, l, p) == [s EXCEPT !.lcb[l].linkq = <<p>> \o @, !.lcb[l].partial = FALSE]

\* That counts nothing.
LEMMA ReturnedSame ==
  ASSUME NEW s \in Works, NEW l \in Pool, NEW p \in Sizes
  PROVE  Same(s, Returned(s, l, p))
PROOF
  <1> DEFINE q == <<p>> \o s.lcb[l].linkq
             d == [s.lcb[l] EXCEPT !.linkq = q]
             e == [d EXCEPT !.partial = FALSE]
             t == [s EXCEPT !.lcb[l] = d]
  <1>1. s.lcb[l] \in Blocks /\ s.lcb \in [Pool -> Blocks] /\ s.lcb[l].linkq \in Seq(Sizes)
    BY WorkParts
  <1>2. q \in Seq(Sizes)
    BY <1>1
  <1> HIDE DEF q
  <1>3. d \in Blocks /\ SameBlock(d, s.lcb[l])
    BY <1>1, <1>2, Zenon DEF Blocks, SameBlock
  <1> HIDE DEF d
  <1>4. SameBlock(e, s.lcb[l])
    BY <1>3, Zenon DEF Blocks, SameBlock
  <1>5. t.lcb[l] = d /\ t.lcb = [s.lcb EXCEPT ![l] = d] /\ \A x : [t EXCEPT !.lcb = x] = [s EXCEPT !.lcb = x]
    BY <1>1, Zenon DEF Works
  <1>6. Returned(s, l, p) = [t EXCEPT !.lcb = [t.lcb EXCEPT ![l] = [t.lcb[l] EXCEPT !.partial = FALSE]]]
    BY DEF Returned, d, q
  <1> HIDE DEF t
  <1>7. [t.lcb EXCEPT ![l] = [t.lcb[l] EXCEPT !.partial = FALSE]] = [s.lcb EXCEPT ![l] = e]
    <2> HIDE DEF e
    <2>1. [t.lcb[l] EXCEPT !.partial = FALSE] = e
      BY <1>5 DEF e
    <2> QED BY <1>1, <1>5, <2>1, Zenon
  <1> HIDE DEF e
  <1>8. Returned(s, l, p) = [s EXCEPT !.lcb[l] = e]
    BY <1>5, <1>6, <1>7
  <1> DEFINE r == [s EXCEPT !.lcb[l] = e]
             no == FALSE
  <1>9. no \in BOOLEAN
    OBVIOUS
  <1> HIDE DEF no
  <1>10. Same(s, r)
    BY <1>4, <1>9, BlockSame, Zenon
  <1> QED BY <1>8, <1>10

\* The HCI library hands back the rest of a packet.
LEMMA SegmentsXmittedKeeps ==
  ASSUME SchedInv, NEW l \in Pool, SegmentsXmitted(l)
  PROVE  SchedInv'
PROOF
  <1> DEFINE k == NumBufs - orphans - lost
             s == PutHci(Now, l, 0)
             t == Returned(s, l, hci[l])
             no == FALSE
  <1>1. /\ Good(Now, k) /\ Now \in Works /\ k \in Int /\ Now.lcb = lcb /\ Now.ctl = ctl /\ Now.hci = hci
        /\ hci[l] \in Nat /\ ctl[l] \in Nat
    BY NowParts
  <1>2. hci[l] > 0 /\ hci[l] \in Sizes /\ orphans' = orphans /\ lost' = lost
    BY <1>1 DEF SegmentsXmitted, Sizes
  <1>3. \/ Store(s)
        \/ Store(CheckSendPkts(t, l, no))
    BY Zenon DEF SegmentsXmitted, PutHci, Returned
  <1>4. Good(s, k)
    <2> DEFINE w == Now
               h == 0
    <2>1. Fits(w, l, w.lcb[l], w.ctl[l])
      <3>1. w.lcb[l] \in Blocks /\ w.ctl[l] \in Nat
        BY <1>1, WorkParts, Zenon
      <3>2. /\ w.lcb[l].sent >= w.ctl[l] /\ (w.lcb[l].state \in {"free", "connecting"} => w.ctl[l] = 0)
        BY <1>1, NowParts
      <3>3. w.lcb[l].high => \A m \in Pool : m # l => ~w.lcb[m].high
        BY <1>1, NowParts, Zenon
      <3> HIDE DEF w
      <3> QED BY <3>1, <3>2, <3>3, SMTT(20) DEF Fits, RR
    <2>2. PutHci(w, l, h) = Edit(w, l, w.lcb[l], h, w.ctl[l])
      <3> HIDE DEF w, h
      <3> QED BY <1>1, EditForms, Zenon DEF w
    <2>3. h \in Nat /\ k - w.ctl[l] + w.ctl[l] = k
      BY <1>1
    <2>4. Good(w, k)
      BY <1>1
    <2> HIDE DEF w, h, k
    <2> DEFINE u == PutHci(w, l, h)
               e == w.lcb[l]
               c == w.ctl[l]
    <2>5. Good(u, k - w.ctl[l] + c)
      <3>1. Fits(w, l, e, c) /\ u = Edit(w, l, e, h, c)
        BY <2>1, <2>2
      <3> HIDE DEF u, e, c
      <3> QED BY <2>3, <2>4, <3>1, EditGood, Zenon
    <2>6. Good(u, k)
      <3> HIDE DEF u
      <3> QED BY <2>3, <2>5
    <2> QED BY <2>6 DEF w, h
  <1> HIDE DEF s, no, k
  <1>5. Good(CheckSendPkts(t, l, no), k)
    <2>1. Same(s, t)
      BY <1>2, <1>4, ReturnedSame DEF Good
    <2> HIDE DEF t
    <2>2. Good(t, k) /\ no \in BOOLEAN
      BY <1>4, <2>1, SameGood, Zenon DEF no
    <2> QED BY <2>2, CheckSendPktsGood, Zenon
  <1>6. CASE Store(s)
    BY <1>2, <1>4, <1>6, StoreGood, NowParts, Zenon DEF k
  <1> DEFINE u == CheckSendPkts(t, l, no)
  <1>7. CASE Store(u)
    <2>1. Good(u, k)
      BY <1>5, Zenon
    <2> HIDE DEF u
    <2> QED BY <1>2, <1>7, <2>1, StoreGood, NowParts DEF k
  <1> QED BY <1>3, <1>6, <1>7, Zenon

\* The flow control timer of a link expires.
LEMMA LinkTimeoutKeeps ==
  ASSUME SchedInv, NEW l \in Pool, LinkTimeout(l)
  PROVE  SchedInv'
PROOF
  <1> DEFINE k == NumBufs - orphans - lost
             s == Now
             no == FALSE
             e == [s.lcb[l] EXCEPT !.timer = no]
             t == [s EXCEPT !.lcb[l] = e]
             u == CheckSendPkts(t, l, no)
  <1>1. Good(s, k) /\ s \in Works /\ k \in Int
    BY NowParts
  <1>2. Store(u) /\ orphans' = orphans /\ lost' = lost
    BY Zenon DEF LinkTimeout
  <1>3. no \in BOOLEAN
    OBVIOUS
  <1> HIDE DEF no, s, k
  <1>4. SameBlock(e, s.lcb[l])
    <2>1. s.lcb[l] \in Blocks
      BY <1>1, WorkParts
    <2> DEFINE b == s.lcb[l]
    <2> HIDE DEF b
    <2>2. SameBlock([b EXCEPT !.timer = no], b)
      BY <1>3, <2>1, FlagBlock, Zenon DEF b
    <2> QED BY <2>2 DEF b
  <1> HIDE DEF e
  <1>5. Same(s, t)
    BY <1>1, <1>3, <1>4, BlockSame, Zenon
  <1> HIDE DEF t
  <1>6. Good(u, k)
    BY <1>1, <1>3, <1>5, SameGood, CheckSendPktsGood
  <1> HIDE DEF u
  <1> QED BY <1>2, <1>6, StoreGood, NowParts, Zenon DEF k

-----------------------------------------------------------------------------
(* The specification.                                                      *)

\* At the start all buffers are in the window and no link is in use.
LEMMA InitGood ==
  ASSUME Init
  PROVE  SchedInv
PROOF
  <1> DEFINE z == [l \in Pool |-> 0]
             s == Now
  <1>1. NumBufs \in Nat
    BY SchedAssumption
  <1>2. /\ s.b = [window |-> NumBufs, rrquota |-> 0, rrunacked |-> 0, check |-> FALSE]
        /\ s.lcb = [l \in Pool |-> NewLcb("free")] /\ s.hci = z /\ s.ctl = z
        /\ s = [b |-> s.b, lcb |-> s.lcb, hci |-> s.hci, ctl |-> s.ctl]
    BY DEF Init, Now
  <1> HIDE DEF s
  <1>3. s.b \in Fields /\ s.b.window = NumBufs /\ s.b.rrunacked = 0
    BY <1>1, <1>2 DEF Fields
  <1>4. NewLcb("free") \in Blocks /\ NewLcb("free").high = FALSE /\ NewLcb("free").sent = 0
    BY NewBlock, Zenon DEF States
  <1>5. z \in [Pool -> Nat] /\ \A l \in Pool : z[l] = 0
    OBVIOUS
  <1>6. s.lcb \in [Pool -> Blocks] /\ \A l \in Pool : s.lcb[l] = NewLcb("free")
    BY <1>2, <1>4
  <1> HIDE DEF z
  <1>7. s \in Works
    BY <1>2, <1>3, <1>5, <1>6, Zenon DEF Works
  <1>8. LinksGood(s)
    BY <1>2, <1>4, <1>5, <1>6 DEF LinksGood
  <1>9. \A S : Total(z, S) = 0
    <2>1. \A S : \A m \in Pool : Part(z, S, m) = 0
      BY <1>5 DEF Part
    <2> QED BY <1>5, <2>1, TotalZero
  <1>10. s.b.window + Total(s.ctl, Pool) = NumBufs /\ s.b.rrunacked >= Total(s.ctl, RR(s))
    BY <1>1, <1>2, <1>3, <1>9
  <1>11. Good(s, NumBufs)
    BY <1>7, <1>8, <1>10 DEF Good
  <1>12. orphans = 0 /\ lost = 0
    BY DEF Init
  <1>13. NumBufs - orphans - lost = NumBufs
    BY <1>1, <1>12
  <1> QED BY <1>11, <1>12, <1>13 DEF SchedInv, s

\* Every event keeps the accounts.
LEMMA StepKeeps ==
  ASSUME SchedInv, [Next]_vars
  PROVE  SchedInv'
PROOF
  <1>1. CASE UNCHANGED vars
    <2>1. Now' = Now /\ orphans' = orphans /\ lost' = lost
      BY <1>1 DEF vars, Now
    <2>2. Good(Now', NumBufs - orphans' - lost')
      BY <2>1 DEF SchedInv
    <2> QED BY <2>1, <2>2 DEF SchedInv
  <1>2. CASE NumCompletedUnknown
    BY <1>2, NumCompletedUnknownKeeps
  <1>3. ASSUME NEW l \in Pool, Outside(l) PROVE SchedInv'
    <2>1. CASE AllocateLcb(l)
      BY <2>1, AllocateKeeps
    <2>2. CASE ConnComp(l)
      BY <2>2, ConnCompKeeps, Zenon
    <2>3. CASE ConnFailed(l)
      BY <2>3, ConnFailedKeeps
    <2>4. CASE Disconnect(l)
      BY <2>4, DisconnectKeeps
    <2>5. CASE DiscComp(l)
      BY <2>5, DiscCompKeeps
    <2>6. CASE Reconnect(l)
      BY <2>6, ReconnectKeeps
    <2>7. CASE DiscTimeout(l)
      BY <2>7, DiscTimeoutKeeps
    <2>8. CASE SetAclPriority(l)
      BY <2>8, PriorityKeeps
    <2>9. CASE SendSignal(l) \/ \E p \in {1, 2} : DataWrite(l, p)
      BY <2>9, WriteKeeps
    <2>10. CASE SendDiscReq(l)
      BY <2>10, SendDiscReqKeeps
    <2> QED BY <1>3, <2>1, <2>2, <2>3, <2>4, <2>5, <2>6, <2>7, <2>8, <2>9, <2>10, Zenon DEF Outside
  <1>4. ASSUME NEW l \in Pool, Served(l) PROVE SchedInv'
    <2>1. CASE NumCompletedPkts(l)
      BY <2>1, NumCompletedKeeps
    <2>2. CASE SegmentsXmitted(l)
      BY <2>2, SegmentsXmittedKeeps
    <2>3. CASE LinkTimeout(l)
      BY <2>3, LinkTimeoutKeeps
    <2> QED BY <1>4, <2>1, <2>2, <2>3, Zenon DEF Served
  <1> QED BY <1>1, <1>2, <1>3, <1>4 DEF Next

\* What the accounts say of the window.
LEMMA AccountsExact ==
  ASSUME SchedInv
  PROVE  WindowExact /\ (NumBufs > 1 => WindowAccounted)
PROOF
  <1> DEFINE k == NumBufs - orphans - lost
             T == Total(ctl, Pool)
  <1>1. /\ Good(Now, k) /\ Now \in Works /\ Now.b = l2cb /\ Now.lcb = lcb /\ Now.ctl = ctl
        /\ ctl \in [Pool -> Nat] /\ orphans \in Nat /\ lost \in Int /\ NumBufs \in Nat
    BY NowParts
  <1>2. PICK l : l \in Pool
    BY SchedAssumption, SMTT(20) DEF Pool
  <1>3. T \in Nat
    <2>1. DifferAt(ctl, Pool, ctl, Pool, l)
      BY DEF DifferAt
    <2> QED BY <1>1, <1>2, <2>1, TotalPoint
  <1>4. l2cb.window \in Nat
    BY <1>1, <1>2, WorkParts, Zenon
  <1>5. l2cb.window + T = k
    BY <1>1, Zenon DEF Good
  <1>6. WindowExact
    <2> HIDE DEF T
    <2>1. l2cb.window = NumBufs - (T + orphans) - lost /\ (T + orphans <= NumBufs \/ lost < 0)
      BY <1>1, <1>3, <1>4, <1>5
    <2>2. InController = T + orphans
      BY DEF InController, T
    <2>3. \A m \in Pool : lcb[m].sent >= ctl[m]
      BY NowParts
    <2> QED BY <2>1, <2>2, <2>3 DEF WindowExact
  <1>7. RRLinks = RR(Now)
    BY <1>1 DEF RRLinks, RR
  <1>8. NumBufs > 1 => l2cb.rrunacked >= Total(ctl, RRLinks)
    BY <1>1, <1>7 DEF Good
  <1> QED BY <1>6, <1>8, Zenon DEF WindowAccounted

\* The inductive invariant: for every number of links, of buffers and every high
\* priority quota, whatever sequence of connections, disconnections, writes,
\* priority changes and reports the scheduler of l2c_link.c is taken through, its
\* accounts are right.
THEOREM SchedInvariant == Spec => []SchedInv
PROOF
  <1>1. Init => SchedInv
    BY InitGood
  <1>2. SchedInv /\ [Next]_vars => SchedInv'
    BY StepKeeps
  <1> QED BY <1>1, <1>2, PTL DEF Spec

\* controller_xmit_window is exactly what the controller has free, up to the
\* packets of connections that ended, the controller is never sent more than it
\* can hold unless the window was refilled with such packets outstanding, and
\* every link counts the packets it has in the controller.
THEOREM WindowIsExact == Spec => []WindowExact
PROOF
  <1>1. SchedInv => WindowExact
    BY AccountsExact
  <1> QED BY <1>1, SchedInvariant, PTL

\* With two buffers or more, round_robin_unacked also covers what the links
\* without a quota of their own have in the controller.
THEOREM WindowIsAccounted ==
  ASSUME NumBufs > 1
  PROVE  Spec => []WindowAccounted
PROOF
  <1>1. SchedInv => WindowAccounted
    BY AccountsExact
  <1> QED BY <1>1, SchedInvariant, PTL
=============================================================================
