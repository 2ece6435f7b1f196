-------------------------- MODULE HciTransportFacts --------------------------
(***************************************************************************)
(* Lemmas about the parts the host/controller library is made of (module   *)
(* HciTransport): what its queues hold of a set of operations and how that *)
(* changes when a packet or an event moves, the order of the worker's      *)
(* pass, and the ring of internal commands.                                *)
(***************************************************************************)
EXTENDS HciTransport, SequenceFacts

-----------------------------------------------------------------------------
(* Filter.                                                                 *)

\* Nothing is kept of an empty sequence.
LEMMA FilterEmpty ==
  ASSUME NEW T
  PROVE  Filter(<<>>, T) = <<>>
PROOF
  <1>1. <<>> \in Seq({}) /\ Len(<<>>) = 0
    OBVIOUS
  <1>2. \E k : IsKept(k, {}, <<>>, T, Len(<<>>)) /\ Filter(<<>>, T) = k[Len(<<>>)]
    BY <1>1, FilterDef, Zenon
  <1> QED BY <1>1, <1>2 DEF IsKept

\* One more element.
LEMMA FilterAppend ==
  ASSUME NEW X, NEW s \in Seq(X), NEW x \in X, NEW T
  PROVE  Filter(Append(s, x), T) = IF x \in T THEN Append(Filter(s, T), x) ELSE Filter(s, T)
PROOF
  <1> DEFINE t == Append(s, x)
             n == Len(s)
  <1>1. /\ t \in Seq(X) /\ n \in Nat /\ Len(t) = n + 1 /\ t[n + 1] = x
        /\ \A i \in 1 .. n : t[i] = s[i]
    OBVIOUS
  <1>2. PICK k : IsKept(k, X, s, T, n) /\ Filter(s, T) = k[n]
    BY FilterDef
  <1> HIDE DEF t, n
  <1>3. PICK h : IsKept(h, X, t, T, n + 1) /\ Filter(t, T) = h[n + 1]
    BY <1>1, FilterDef
  <1>4. h[n] = k[n]
    <2> DEFINE Q == {i \in Nat : i <= n => h[i] = k[i]}
    <2>1. 0 \in Q
      BY <1>2, <1>3 DEF IsKept
    <2>2. ASSUME NEW i \in Nat, i \in Q PROVE i + 1 \in Q
      <3> SUFFICES ASSUME i + 1 <= n PROVE h[i + 1] = k[i + 1]
        OBVIOUS
      <3>1. h[i] = k[i] /\ i + 1 \in 1 .. n /\ i + 1 \in 1 .. n + 1 /\ (i + 1) - 1 = i
        BY <1>1, <2>2
      <3>2. t[i + 1] = s[i + 1]
        BY <1>1, <3>1
      <3> QED BY <1>2, <1>3, <3>1, <3>2 DEF IsKept
    <2>3. Nat \subseteq Q
      <3> HIDE DEF Q
      <3> QED BY <2>1, <2>2, NatInduct
    <2> QED BY <1>1, <2>3
  <1>5. h[n + 1] = IF x \in T THEN Append(h[n], x) ELSE h[n]
    <2>1. n + 1 \in 1 .. n + 1 /\ (n + 1) - 1 = n
      BY <1>1
    <2> QED BY <1>1, <1>3, <2>1 DEF IsKept
  <1> QED BY <1>2, <1>3, <1>4, <1>5 DEF t

\* Filtering two sequences one behind the other.
LEMMA FilterConcat ==
  ASSUME NEW X, NEW s \in Seq(X), NEW t \in Seq(X), NEW T
  PROVE  Filter(s \o t, T) = Filter(s, T) \o Filter(t, T)
PROOF
  <1> DEFINE Q == {u \in Seq(X) : Filter(s \o u, T) = Filter(s, T) \o Filter(u, T)}
  <1>0. Filter(s, T) \in Seq(X)
    BY FilterType
  <1>1. <<>> \in Q
    BY <1>0, FilterEmpty
  <1>2. ASSUME NEW u \in Seq(X), NEW x \in X, u \in Q PROVE Append(u, x) \in Q
    <2>1. s \o Append(u, x) = Append(s \o u, x) /\ s \o u \in Seq(X) /\ Append(u, x) \in Seq(X)
      OBVIOUS
    <2>2. Filter(u, T) \in Seq(X)
      BY FilterType
    <2>3. Filter(s, T) \o Append(Filter(u, T), x) = Append(Filter(s, T) \o Filter(u, T), x)
      BY <1>0, <2>2
    <2>4. Filter(s \o Append(u, x), T) =
            IF x \in T THEN Append(Filter(s \o u, T), x) ELSE Filter(s \o u, T)
      BY <2>1, FilterAppend, Zenon
    <2>5. Filter(Append(u, x), T) = IF x \in T THEN Append(Filter(u, T), x) ELSE Filter(u, T)
      BY FilterAppend
    <2> QED BY <1>2, <2>1, <2>3, <2>4, <2>5, Zenon
  <1>3. Seq(X) \subseteq Q
    <2> HIDE DEF Q
    <2> QED BY <1>1, <1>2, SeqInduct
  <1> QED BY <1>3

\* Taking the first element away.
LEMMA FilterTail ==
  ASSUME NEW X, NEW s \in Seq(X), s # <<>>, NEW T
  PROVE  Filter(s, T) = IF Head(s) \in T THEN <<Head(s)>> \o Filter(Tail(s), T)
                                         ELSE Filter(Tail(s), T)
PROOF
  <1> DEFINE x == Head(s)
             y == <<x>>
             t == Tail(s)
  <1>1. x \in X /\ t \in Seq(X)
    OBVIOUS
  <1>2. s = y \o t
    BY <1>1
  <1>3. y \in Seq(X)
    BY <1>1
  <1>4. Filter(y, T) = IF x \in T THEN y ELSE <<>>
    <2> HIDE DEF x
    <2>1. y = Append(<<>>, x)
      OBVIOUS
    <2>2. <<>> \in Seq(X)
      OBVIOUS
    <2>3. Filter(Append(<<>>, x), T) = IF x \in T THEN Append(Filter(<<>>, T), x) ELSE Filter(<<>>, T)
      BY <1>1, <2>2, FilterAppend, Zenon
    <2> HIDE DEF y
    <2> QED BY <2>1, <2>3, FilterEmpty, Zenon
  <1> HIDE DEF x, y, t
  <1>5. Filter(y \o t, T) = Filter(y, T) \o Filter(t, T)
    BY <1>1, <1>3, FilterConcat
  <1>6. Filter(s, T) = Filter(y, T) \o Filter(t, T)
    BY <1>2, <1>5, Zenon
  <1>7. <<>> \o Filter(t, T) = Filter(t, T)
    <2>1. Filter(t, T) \in Seq(X)
      BY <1>1, FilterType
    <2> QED BY <2>1
  <1> QED BY <1>4, <1>6, <1>7, Zenon DEF x, y, t

\* What a filter keeps is in its set.
LEMMA FilterKeeps ==
  ASSUME NEW X, NEW s \in Seq(X), NEW T
  PROVE  Filter(s, T) \in Seq(X \cap T)
PROOF
  <1> DEFINE Q == {u \in Seq(X) : Filter(u, T) \in Seq(X \cap T)}
  <1>1. <<>> \in Q
    <2>1. <<>> \in Seq(X) /\ <<>> \in Seq(X \cap T)
      OBVIOUS
    <2> QED BY <2>1, FilterEmpty, Zenon
  <1>2. ASSUME NEW u \in Seq(X), NEW x \in X, u \in Q PROVE Append(u, x) \in Q
    <2>1. CASE x \in T
      <3>1. Append(Filter(u, T), x) \in Seq(X \cap T)
        BY <1>2, <2>1
      <3>2. Append(u, x) \in Seq(X)
        OBVIOUS
      <3>3. Filter(Append(u, x), T) = Append(Filter(u, T), x)
        <4> HIDE DEF Q
        <4> QED BY <2>1, FilterAppend
      <3> QED BY <3>1, <3>2, <3>3, Zenon
    <2>2. CASE x \notin T
      <3>1. Append(u, x) \in Seq(X)
        OBVIOUS
      <3>2. Filter(Append(u, x), T) = Filter(u, T)
        BY <2>2, FilterAppend, Zenon
      <3> QED BY <1>2, <3>1, <3>2, Zenon
    <2> QED BY <2>1, <2>2
  <1>3. Seq(X) \subseteq Q
    <2> HIDE DEF Q
    <2> QED BY <1>1, <1>2, SeqInduct
  <1> QED BY <1>3

\* It keeps no more elements than there are.
LEMMA FilterLength ==
  ASSUME NEW X, NEW s \in Seq(X), NEW T
  PROVE  Len(Filter(s, T)) <= Len(s)
PROOF
  <1> DEFINE Q == {u \in Seq(X) : Len(Filter(u, T)) <= Len(u)}
  <1>1. <<>> \in Q
    BY FilterEmpty
  <1>2. ASSUME NEW u \in Seq(X), NEW x \in X, u \in Q PROVE Append(u, x) \in Q
    <2>1. Filter(u, T) \in Seq(X)
      BY FilterType
    <2>2. Filter(Append(u, x), T) = IF x \in T THEN Append(Filter(u, T), x) ELSE Filter(u, T)
      BY FilterAppend
    <2> QED BY <1>2, <2>1, <2>2
  <1>3. Seq(X) \subseteq Q
    <2> HIDE DEF Q
    <2> QED BY <1>1, <1>2, SeqInduct
  <1> QED BY <1>3

\* Two disjoint sets divide what their union keeps.
LEMMA FilterSplit ==
  ASSUME NEW X, NEW s \in Seq(X), NEW T, NEW U, T \cap U = {}
  PROVE  /\ Len(Filter(s, T \cup U)) = Len(Filter(s, T)) + Len(Filter(s, U))
         /\ Len(Filter(s, T)) \in Nat /\ Len(Filter(s, U)) \in Nat
PROOF
  <1> DEFINE Q == {u \in Seq(X) : Len(Filter(u, T \cup U)) = Len(Filter(u, T)) + Len(Filter(u, U))}
  <1>1. <<>> \in Q
    BY FilterEmpty
  <1>2. ASSUME NEW u \in Seq(X), NEW x \in X, u \in Q PROVE Append(u, x) \in Q
    <2>1. \A V : /\ Len(Filter(u, V)) \in Nat
                 /\ Len(Filter(Append(u, x), V)) =
                       IF x \in V THEN Len(Filter(u, V)) + 1 ELSE Len(Filter(u, V))
      BY FilterAppend, FilterType
    <2>2. Append(u, x) \in Seq(X)
      OBVIOUS
    <2>3. CASE x \in T
      BY <1>2, <2>1, <2>2, <2>3
    <2>4. CASE x \in U
      BY <1>2, <2>1, <2>2, <2>4
    <2>5. CASE x \notin T \cup U
      BY <1>2, <2>1, <2>2, <2>5
    <2> QED BY <2>3, <2>4, <2>5
  <1>3. Seq(X) \subseteq Q
    <2> HIDE DEF Q
    <2> QED BY <1>1, <1>2, SeqInduct
  <1>4. Filter(s, T) \in Seq(X) /\ Filter(s, U) \in Seq(X)
    BY FilterType
  <1>5. Len(Filter(s, T \cup U)) = Len(Filter(s, T)) + Len(Filter(s, U))
    BY <1>3, Zenon
  <1> QED BY <1>4, <1>5

\* Joining sequences, and an element put in front of one or at its end.  (Named,
\* so that the provers treat them as a whole.)
Cat(s, t)   == s \o t
Ahead(e, s) == <<e>> \o s
Back(s, e)  == Append(s, e)
First(s)    == Head(s)
Rest(s)     == Tail(s)

\* Joined sequences: their elements in order.
LEMMA CatProperties ==
  ASSUME NEW Y, NEW s \in Seq(Y), NEW t \in Seq(Y)
  PROVE  /\ Cat(s, t) \in Seq(Y) /\ Len(Cat(s, t)) = Len(s) + Len(t)
         /\ \A i \in 1 .. Len(s) + Len(t) : Cat(s, t)[i] = IF i <= Len(s) THEN s[i] ELSE t[i - Len(s)]
PROOF
  BY Joined DEF Cat

\* An element added to the last of two, handed over from one to the next, or put
\* in front of the first.
LEMMA CatMoves ==
  ASSUME NEW Y, NEW s \in Seq(Y), NEW t \in Seq(Y), NEW e \in Y
  PROVE  /\ Cat(s, Back(t, e)) = Back(Cat(s, t), e)
         /\ Cat(Back(s, e), t) = Cat(s, Ahead(e, t))
         /\ Ahead(e, Cat(s, t)) = Cat(Ahead(e, s), t)
PROOF
  <1> DEFINE o == <<e>>
             st == s \o t
  <1>1. o \in Seq(Y)
    OBVIOUS
  <1>2. st \in Seq(Y)
    OBVIOUS
  <1>3. Append(s, e) = s \o o /\ Append(t, e) = t \o o
    OBVIOUS
  <1> HIDE DEF o, st
  <1>4. Append(st, e) = st \o o
    BY <1>2 DEF o
  <1>5. (s \o t) \o o = s \o (t \o o)
    BY <1>1
  <1>6. (s \o o) \o t = s \o (o \o t)
    BY <1>1
  <1>7. o \o (s \o t) = (o \o s) \o t
    BY <1>1
  <1>8. Cat(s, Back(t, e)) = Back(Cat(s, t), e)
    BY <1>3, <1>4, <1>5, Zenon DEF Cat, Back, st
  <1>9. Cat(Back(s, e), t) = Cat(s, Ahead(e, t))
    BY <1>3, <1>6, Zenon DEF Cat, Back, Ahead, o
  <1>10. Ahead(e, Cat(s, t)) = Cat(Ahead(e, s), t)
    BY <1>7, Zenon DEF Cat, Ahead, o
  <1> QED BY <1>8, <1>9, <1>10, Zenon

\* Joining is associative, and the empty sequence is neutral.
LEMMA CatLaws ==
  ASSUME NEW Y, NEW s \in Seq(Y), NEW t \in Seq(Y), NEW u \in Seq(Y)
  PROVE  /\ Cat(Cat(s, t), u) = Cat(s, Cat(t, u))
         /\ Cat(s, <<>>) = s /\ Cat(<<>>, s) = s
PROOF
  <1>1. (s \o t) \o u = s \o (t \o u)
    OBVIOUS
  <1>2. s \o <<>> = s /\ <<>> \o s = s
    OBVIOUS
  <1> QED BY <1>1, <1>2, Zenon DEF Cat

\* The head and the tail of a sequence with an element put in front.
LEMMA FrontProperties ==
  ASSUME NEW Y, NEW s \in Seq(Y), NEW e \in Y
  PROVE  /\ Ahead(e, s) \in Seq(Y) /\ Len(Ahead(e, s)) = Len(s) + 1 /\ Ahead(e, s) # <<>>
         /\ Head(Ahead(e, s)) = e /\ Tail(Ahead(e, s)) = s /\ Ahead(e, s)[1] = e
PROOF
  <1> DEFINE o == <<e>>
  <1>1. o \in Seq(Y) /\ Len(o) = 1 /\ o[1] = e
    OBVIOUS
  <1>t. o \in Seq(Y)
    BY <1>1
  <1> HIDE DEF o
  <1> DEFINE v == o \o s
  <1>5. Len(s) \in Nat
    OBVIOUS
  <1>4. v \in Seq(Y) /\ Len(v) = Len(s) + 1 /\ \A i \in 1 .. Len(s) + 1 : v[i] = IF i <= 1 THEN o[i] ELSE s[i - 1]
    <2>1. /\ v \in Seq(Y) /\ Len(v) = Len(o) + Len(s)
          /\ \A i \in 1 .. Len(o) + Len(s) : v[i] = IF i <= Len(o) THEN o[i] ELSE s[i - Len(o)]
      BY <1>t
    <2> HIDE DEF v
    <2> QED BY <1>1, <1>5, <2>1
  <1> HIDE DEF v
  <1>6. v # <<>> /\ Head(v) = e /\ v[1] = e
    BY <1>1, <1>4, <1>5
  <1>7. Tail(v) \in Seq(Y) /\ Len(Tail(v)) = Len(s) /\ \A i \in 1 .. Len(s) : Tail(v)[i] = v[i + 1]
    BY <1>4, <1>5, <1>6
  <1>8. \A i \in 1 .. Len(s) : v[i + 1] = s[i]
    BY <1>4, <1>5
  <1>9. Tail(v) = s
    BY <1>7, <1>8
  <1> QED BY <1>4, <1>6, <1>9, Zenon DEF v, o, Ahead

\* And of one with an element put at its end.
LEMMA BackProperties ==
  ASSUME NEW Y, NEW s \in Seq(Y), NEW e \in Y
  PROVE  /\ Back(s, e) \in Seq(Y) /\ Len(Back(s, e)) = Len(s) + 1 /\ Back(s, e)[Len(s) + 1] = e
         /\ \A i \in 1 .. Len(s) : Back(s, e)[i] = s[i]
PROOF
  BY DEF Back

-----------------------------------------------------------------------------
Ops == Commands \cup {NoOp}

-----------------------------------------------------------------------------
(* Arithmetic of the ring's indices.                                       *)

\* An index that has gone round the ring at most once.
LEMMA ModOnce ==
  ASSUME NEW N \in Nat, N > 0, NEW a \in 0 .. 2 * N - 1
  PROVE  a % N = IF a < N THEN a ELSE a - N
PROOF
  OBVIOUS

-----------------------------------------------------------------------------
(* The operations packets and controller events carry.                     *)

\* A queue of packets or of events: whatever carries an operation.
Carriers == Packets \cup CtrlEvents

\* Whatever is queued carries a command or none (bt_hci_bdroid.c, hci_h4.c).
LEMMA CarriersCarry ==
  \A m \in Carriers : m.op \in Ops
PROOF
  BY DEF Carriers, Packets, CtrlEvents, Ops, Commands, IntOps, StackOps, NoOp

\* The operations of a queue, place by place.
LEMMA OpsOfType ==
  ASSUME NEW q \in Seq(Carriers)
  PROVE  OpsOf(q) \in Seq(Ops) /\ Len(OpsOf(q)) = Len(q) /\ \A i \in 1 .. Len(q) : OpsOf(q)[i] = q[i].op
PROOF
  <1>1. Len(q) \in Nat /\ \A i \in 1 .. Len(q) : q[i].op \in Ops
    BY CarriersCarry
  <1> QED BY <1>1 DEF OpsOf

\* An empty queue carries nothing.
LEMMA OpsOfEmpty == OpsOf(<<>>) = <<>>
PROOF
  BY DEF OpsOf

\* A packet or event put behind a queue puts its operation behind.
LEMMA OpsOfAppend ==
  ASSUME NEW q \in Seq(Carriers), NEW m \in Carriers
  PROVE  OpsOf(Append(q, m)) = Append(OpsOf(q), m.op)
PROOF
  <1>1. /\ Append(q, m) \in Seq(Carriers) /\ Len(Append(q, m)) = Len(q) + 1 /\ Len(q) \in Nat
        /\ Append(q, m)[Len(q) + 1] = m /\ \A i \in 1 .. Len(q) : Append(q, m)[i] = q[i]
    OBVIOUS
  <1>2. /\ Append(OpsOf(q), m.op) \in Seq(Ops) /\ Len(Append(OpsOf(q), m.op)) = Len(q) + 1
        /\ Append(OpsOf(q), m.op)[Len(q) + 1] = m.op
        /\ \A i \in 1 .. Len(q) : Append(OpsOf(q), m.op)[i] = q[i].op
    BY OpsOfType, CarriersCarry
  <1>3. /\ OpsOf(Append(q, m)) \in Seq(Ops) /\ Len(OpsOf(Append(q, m))) = Len(q) + 1
        /\ \A i \in 1 .. Len(q) + 1 : OpsOf(Append(q, m))[i] = Append(q, m)[i].op
    BY <1>1, OpsOfType, Zenon
  <1>4. \A i \in 1 .. Len(q) + 1 : OpsOf(Append(q, m))[i] = Append(OpsOf(q), m.op)[i]
    BY <1>1, <1>2, <1>3
  <1> QED BY <1>2, <1>3, <1>4

\* What is in flight of a queue, as it grows and shrinks.
LEMMA CarriedAppend ==
  ASSUME NEW q \in Seq(Carriers), NEW m \in Carriers, NEW T
  PROVE  Filter(OpsOf(Append(q, m)), T) =
            IF m.op \in T THEN Append(Filter(OpsOf(q), T), m.op) ELSE Filter(OpsOf(q), T)
PROOF
  <1> DEFINE o == m.op
             u == OpsOf(q)
  <1>1. u \in Seq(Ops) /\ o \in Ops
    BY OpsOfType, CarriersCarry
  <1> HIDE DEF o, u
  <1>2. Filter(Append(u, o), T) = IF o \in T THEN Append(Filter(u, T), o) ELSE Filter(u, T)
    BY <1>1, FilterAppend
  <1>3. OpsOf(Append(q, m)) = Append(u, o)
    BY OpsOfAppend DEF o, u
  <1> QED BY <1>2, <1>3, Zenon DEF o, u

\* The first of a queue carries the first operation.
LEMMA OpsOfHeadTail ==
  ASSUME NEW q \in Seq(Carriers), q # <<>>
  PROVE  /\ OpsOf(q) # <<>> /\ Head(OpsOf(q)) = Head(q).op /\ Tail(OpsOf(q)) = OpsOf(Tail(q))
         /\ Head(q) \in Carriers /\ Tail(q) \in Seq(Carriers)
PROOF
  <1>1. Head(q) \in Carriers /\ Tail(q) \in Seq(Carriers) /\ Len(Tail(q)) = Len(q) - 1 /\ Len(q) \in Nat \ {0}
    OBVIOUS
  <1>2. OpsOf(q) # <<>> /\ OpsOf(q) \in Seq(Ops) /\ Len(OpsOf(q)) = Len(q)
    BY <1>1, OpsOfType
  <1>3. Head(OpsOf(q)) = Head(q).op
    BY <1>1, <1>2, OpsOfType
  <1>4. Tail(OpsOf(q)) = OpsOf(Tail(q))
    <2>1. Tail(OpsOf(q)) \in Seq(Ops) /\ Len(Tail(OpsOf(q))) = Len(q) - 1
      BY <1>1, <1>2
    <2>2. OpsOf(Tail(q)) \in Seq(Ops) /\ Len(OpsOf(Tail(q))) = Len(q) - 1
      BY <1>1, OpsOfType, Zenon
    <2>3. ASSUME NEW i \in 1 .. Len(q) - 1 PROVE Tail(OpsOf(q))[i] = OpsOf(Tail(q))[i]
      <3>1. Tail(OpsOf(q))[i] = OpsOf(q)[i + 1] /\ Tail(q)[i] = q[i + 1]
        BY <1>1, <1>2
      <3>2. OpsOf(Tail(q))[i] = Tail(q)[i].op
        BY <1>1, OpsOfType, Zenon
      <3>3. OpsOf(q)[i + 1] = q[i + 1].op
        BY <1>1, OpsOfType
      <3> QED BY <3>1, <3>2, <3>3, Zenon
    <2> QED BY <2>1, <2>2, <2>3
  <1> QED BY <1>1, <1>2, <1>3, <1>4

\* What a queue carries of T, when its first packet or event is taken.
LEMMA CarriedTail ==
  ASSUME NEW q \in Seq(Carriers), q # <<>>, NEW T
  PROVE  Filter(OpsOf(q), T) = IF Head(q).op \in T THEN <<Head(q).op>> \o Filter(OpsOf(Tail(q)), T)
                                                   ELSE Filter(OpsOf(Tail(q)), T)
PROOF
  <1> DEFINE u == OpsOf(q)
  <1>1. u \in Seq(Ops) /\ u # <<>>
    BY OpsOfType, OpsOfHeadTail
  <1>2. Head(u) = Head(q).op /\ Tail(u) = OpsOf(Tail(q))
    BY OpsOfHeadTail
  <1> HIDE DEF u
  <1>3. Filter(u, T) = IF Head(u) \in T THEN <<Head(u)>> \o Filter(Tail(u), T) ELSE Filter(Tail(u), T)
    BY <1>1, FilterTail
  <1> QED BY <1>2, <1>3, Zenon DEF u

\* What two queues one behind the other carry of T.
LEMMA CarriedConcat ==
  ASSUME NEW q \in Seq(Carriers), NEW r \in Seq(Carriers), NEW T
  PROVE  Filter(OpsOf(q \o r), T) = Filter(OpsOf(q), T) \o Filter(OpsOf(r), T)
PROOF
  <1>1. q \o r \in Seq(Carriers) /\ Len(q \o r) = Len(q) + Len(r) /\ Len(q) \in Nat /\ Len(r) \in Nat
    OBVIOUS
  <1> DEFINE u == OpsOf(q)
             v == OpsOf(r)
             w == OpsOf(q \o r)
  <1>2. u \in Seq(Ops) /\ v \in Seq(Ops) /\ w \in Seq(Ops)
    BY <1>1, OpsOfType, Zenon
  <1>3. Len(u) = Len(q) /\ Len(v) = Len(r) /\ Len(w) = Len(q) + Len(r)
    BY <1>1, OpsOfType, Zenon
  <1>4. /\ \A i \in 1 .. Len(q) : u[i] = q[i].op
        /\ \A i \in 1 .. Len(r) : v[i] = r[i].op
        /\ \A i \in 1 .. Len(q) + Len(r) : w[i] = (q \o r)[i].op
    BY <1>1, OpsOfType, Zenon
  <1> HIDE DEF u, v, w
  <1>5. u \o v \in Seq(Ops) /\ Len(u \o v) = Len(w)
    BY <1>2, <1>3, Joined
  <1>6. ASSUME NEW i \in 1 .. Len(q) + Len(r) PROVE w[i] = (u \o v)[i]
    <2>1. (u \o v)[i] = IF i <= Len(q) THEN u[i] ELSE v[i - Len(q)]
      BY <1>2, <1>3
    <2>2. (q \o r)[i] = IF i <= Len(q) THEN q[i] ELSE r[i - Len(q)]
      OBVIOUS
    <2>3. w[i] = (q \o r)[i].op
      BY <1>4
    <2>4. CASE i <= Len(q)
      BY <1>1, <1>4, <2>1, <2>2, <2>3, <2>4
    <2>5. CASE i > Len(q)
      <3>1. i - Len(q) \in 1 .. Len(r)
        BY <1>1, <2>5
      <3> QED BY <1>1, <1>4, <2>1, <2>2, <2>3, <2>5, <3>1
    <2>6. i <= Len(q) \/ i > Len(q)
      BY <1>1
    <2> QED BY <2>4, <2>5, <2>6, Zenon
  <1>7. w = u \o v
    BY <1>2, <1>3, <1>5, <1>6
  <1>8. Filter(u \o v, T) = Filter(u, T) \o Filter(v, T)
    BY <1>2, FilterConcat
  <1> QED BY <1>7, <1>8, Zenon DEF u, v, w

-----------------------------------------------------------------------------
(* The pipeline, as the concatenation of what its four queues hold.        *)

Pipe(r, c, s, x) == OpsOf(r) \o c \o OpsOf(s) \o OpsOf(x)
QueueTypes(r, c, s, x) ==
    r \in Seq(CtrlEvents) /\ c \in Seq(Commands) /\ s \in Seq(Packets) /\ x \in Seq(Packets)

\* What a queue, and all four, hold of T, oldest answer first.
Part(q, T) == Filter(OpsOf(q), T)
Flow(r, c, s, x, T) == Filter(Pipe(r, c, s, x), T)
Join(a, b, c, d) == a \o b \o c \o d

\* The four queues are queues of carriers.
LEMMA QueuesCarry ==
  ASSUME NEW r, NEW c, NEW s, NEW x, QueueTypes(r, c, s, x)
  PROVE  /\ r \in Seq(Carriers) /\ c \in Seq(Ops) /\ s \in Seq(Carriers) /\ x \in Seq(Carriers)
         /\ OpsOf(r) \in Seq(Ops) /\ OpsOf(s) \in Seq(Ops) /\ OpsOf(x) \in Seq(Ops)
PROOF
  <1>1. CtrlEvents \subseteq Carriers /\ Packets \subseteq Carriers /\ Commands \subseteq Ops
    BY DEF Carriers, Ops
  <1>2. r \in Seq(Carriers) /\ c \in Seq(Ops) /\ s \in Seq(Carriers) /\ x \in Seq(Carriers)
    BY <1>1 DEF QueueTypes
  <1> QED BY <1>2, OpsOfType

\* The pipeline is a sequence of operations.
LEMMA PipeType ==
  ASSUME NEW r, NEW c, NEW s, NEW x, QueueTypes(r, c, s, x)
  PROVE  Pipe(r, c, s, x) \in Seq(Ops)
PROOF
  <1> DEFINE u == OpsOf(r)
             v == OpsOf(s)
             w == OpsOf(x)
             uc == u \o c
             ucv == uc \o v
  <1>1. u \in Seq(Ops) /\ c \in Seq(Ops) /\ v \in Seq(Ops) /\ w \in Seq(Ops)
    BY QueuesCarry
  <1> HIDE DEF u, v, w
  <1>2. uc \in Seq(Ops)
    BY <1>1
  <1> HIDE DEF uc
  <1>3. ucv \in Seq(Ops)
    BY <1>1, <1>2
  <1> HIDE DEF ucv
  <1>4. ucv \o w \in Seq(Ops)
    BY <1>1, <1>3
  <1> QED BY <1>4, Zenon DEF Pipe, u, v, w, uc, ucv

\* What it holds of T is a sequence over T.
LEMMA FlowType ==
  ASSUME NEW r, NEW c, NEW s, NEW x, QueueTypes(r, c, s, x), NEW T
  PROVE  Flow(r, c, s, x, T) \in Seq(Ops \cap T)
PROOF
  <1>1. Pipe(r, c, s, x) \in Seq(Ops)
    BY PipeType
  <1> HIDE DEF Pipe
  <1> QED BY <1>1, FilterKeeps DEF Flow

\* What each of the four queues holds of T is one too.
LEMMA PartsType ==
  ASSUME NEW r, NEW c, NEW s, NEW x, QueueTypes(r, c, s, x), NEW T
  PROVE  /\ Part(r, T) \in Seq(Ops \cap T) /\ Filter(c, T) \in Seq(Ops \cap T)
         /\ Part(s, T) \in Seq(Ops \cap T) /\ Part(x, T) \in Seq(Ops \cap T)
PROOF
  BY QueuesCarry, FilterKeeps DEF Part

\* The pipeline holds of T what the four queues hold, in their order.
LEMMA FlowParts ==
  ASSUME NEW r, NEW c, NEW s, NEW x, QueueTypes(r, c, s, x), NEW T
  PROVE  Flow(r, c, s, x, T) = Join(Part(r, T), Filter(c, T), Part(s, T), Part(x, T))
PROOF
  <1> DEFINE u == OpsOf(r)
             v == OpsOf(s)
             w == OpsOf(x)
             uc == u \o c
             ucv == uc \o v
             all == ucv \o w
  <1>1. u \in Seq(Ops) /\ c \in Seq(Ops) /\ v \in Seq(Ops) /\ w \in Seq(Ops)
    BY QueuesCarry
  <1>2. Pipe(r, c, s, x) = all
    BY DEF Pipe
  <1> HIDE DEF u, v, w
  <1>3. /\ uc \in Seq(Ops)
        /\ Filter(uc, T) = Filter(u, T) \o Filter(c, T)
    BY <1>1, FilterConcat, SMTT(20)
  <1> HIDE DEF uc
  <1>4. /\ ucv \in Seq(Ops)
        /\ Filter(ucv, T) = Filter(uc, T) \o Filter(v, T)
    <2>1. uc \in Seq(Ops) /\ v \in Seq(Ops)
      BY <1>1, <1>3, Zenon
    <2>2. ucv \in Seq(Ops)
      BY <2>1
    <2>3. Filter(ucv, T) = Filter(uc, T) \o Filter(v, T)
      BY <2>1, FilterConcat
    <2> QED BY <2>2, <2>3
  <1> HIDE DEF ucv
  <1>5. /\ all \in Seq(Ops)
        /\ Filter(all, T) = Filter(ucv, T) \o Filter(w, T)
    <2>1. ucv \in Seq(Ops) /\ w \in Seq(Ops)
      BY <1>1, <1>4, Zenon
    <2>2. all \in Seq(Ops)
      BY <2>1
    <2>3. Filter(all, T) = Filter(ucv, T) \o Filter(w, T)
      BY <2>1, FilterConcat
    <2> QED BY <2>2, <2>3
  <1> HIDE DEF all
  <1>6. Filter(all, T) = Filter(u, T) \o Filter(c, T) \o Filter(v, T) \o Filter(w, T)
    BY <1>3, <1>4, <1>5, Zenon
  <1> QED BY <1>2, <1>6, Zenon DEF u, v, w, Flow, Join, Part

\* Four sequences one behind the other.
LEMMA JoinType ==
  ASSUME NEW Y, NEW a \in Seq(Y), NEW b \in Seq(Y), NEW c \in Seq(Y), NEW d \in Seq(Y)
  PROVE  Join(a, b, c, d) \in Seq(Y) /\ Len(Join(a, b, c, d)) = Len(a) + Len(b) + Len(c) + Len(d)
PROOF
  <1>1. Join(a, b, c, d) = Cat(Cat(Cat(a, b), c), d)
    BY Zenon DEF Join, Cat
  <1>2. Cat(a, b) \in Seq(Y) /\ Len(Cat(a, b)) = Len(a) + Len(b)
    BY CatProperties
  <1>3. Cat(Cat(a, b), c) \in Seq(Y) /\ Len(Cat(Cat(a, b), c)) = Len(Cat(a, b)) + Len(c)
    BY <1>2, CatProperties, Zenon
  <1>4. /\ Cat(Cat(Cat(a, b), c), d) \in Seq(Y)
        /\ Len(Cat(Cat(Cat(a, b), c), d)) = Len(Cat(Cat(a, b), c)) + Len(d)
    BY <1>3, CatProperties, Zenon
  <1> QED BY <1>1, <1>2, <1>3, <1>4

\* Adding to the last, handing on from one to the next, taking from the first.
LEMMA JoinMoves ==
  ASSUME NEW Y, NEW a \in Seq(Y), NEW b \in Seq(Y), NEW c \in Seq(Y), NEW d \in Seq(Y), NEW e \in Y
  PROVE  /\ Join(a, b, c, Back(d, e)) = Back(Join(a, b, c, d), e)
         /\ Join(a, Back(b, e), c, d) = Join(a, b, Ahead(e, c), d)
         /\ Join(Back(a, e), b, c, d) = Join(a, Ahead(e, b), c, d)
         /\ Join(Ahead(e, a), b, c, d) = Ahead(e, Join(a, b, c, d))
PROOF
  <1> DEFINE ab == Cat(a, b)
             abc == Cat(ab, c)
  <1>1. ab \in Seq(Y)
    BY CatProperties
  <1>2. abc \in Seq(Y)
    BY <1>1, CatProperties
  <1>3. /\ Cat(a, Back(b, e)) = Back(ab, e) /\ Cat(Back(a, e), b) = Cat(a, Ahead(e, b))
        /\ Ahead(e, ab) = Cat(Ahead(e, a), b)
    BY CatMoves
  <1>4. Cat(Back(ab, e), c) = Cat(ab, Ahead(e, c)) /\ Ahead(e, abc) = Cat(Ahead(e, ab), c)
    BY <1>1, CatMoves
  <1>5. Cat(abc, Back(d, e)) = Back(Cat(abc, d), e) /\ Ahead(e, Cat(abc, d)) = Cat(Ahead(e, abc), d)
    BY <1>2, CatMoves
  <1>6. \A w, x, y, z : Join(w, x, y, z) = Cat(Cat(Cat(w, x), y), z)
    BY Zenon DEF Join, Cat
  <1> QED BY <1>3, <1>4, <1>5, <1>6

\* How what one queue holds of T changes at its ends.
LEMMA PartEnds ==
  ASSUME NEW q \in Seq(Carriers), NEW T
  PROVE  /\ \A m \in Carriers : Part(Append(q, m), T) = IF m.op \in T THEN Back(Part(q, T), m.op) ELSE Part(q, T)
         /\ q # <<>> => Part(q, T) = IF Head(q).op \in T THEN Ahead(Head(q).op, Part(Tail(q), T))
                                                        ELSE Part(Tail(q), T)
PROOF
  <1>1. \A m \in Carriers : Part(Append(q, m), T) = IF m.op \in T THEN Back(Part(q, T), m.op) ELSE Part(q, T)
    BY CarriedAppend, Zenon DEF Part, Back
  <1>2. q # <<>> => Part(q, T) = IF Head(q).op \in T THEN Ahead(Head(q).op, Part(Tail(q), T))
                                                     ELSE Part(Tail(q), T)
    BY CarriedTail, Zenon DEF Part, Ahead
  <1> QED BY <1>1, <1>2, Zenon

\* What the controller's queue holds of T, when a command is added or the first one taken.
LEMMA FilterEnds ==
  ASSUME NEW c \in Seq(Ops), NEW T
  PROVE  /\ \A o \in Ops : Filter(Append(c, o), T) = IF o \in T THEN Back(Filter(c, T), o) ELSE Filter(c, T)
         /\ c # <<>> => Filter(c, T) = IF Head(c) \in T THEN Ahead(Head(c), Filter(Tail(c), T))
                                                       ELSE Filter(Tail(c), T)
PROOF
  <1>1. \A o \in Ops : Filter(Append(c, o), T) = IF o \in T THEN Back(Filter(c, T), o) ELSE Filter(c, T)
    BY FilterAppend, Zenon DEF Back
  <1>2. c # <<>> => Filter(c, T) = IF Head(c) \in T THEN Ahead(Head(c), Filter(Tail(c), T))
                                                   ELSE Filter(Tail(c), T)
    BY FilterTail, Zenon DEF Ahead
  <1> QED BY <1>1, <1>2, Zenon

\* A packet joins tx_q.
LEMMA FlowQueue ==
  ASSUME NEW r, NEW c, NEW s, NEW x, QueueTypes(r, c, s, x), NEW m \in Packets, NEW T
  PROVE  /\ QueueTypes(r, c, s, Append(x, m))
         /\ Flow(r, c, s, Append(x, m), T) =
               IF m.op \in T THEN Back(Flow(r, c, s, x, T), m.op) ELSE Flow(r, c, s, x, T)
PROOF
  <1> DEFINE y == Append(x, m)
             o == m.op
             Y == Ops \cap T
  <1>1. QueueTypes(r, c, s, y)
    BY DEF QueueTypes
  <1>2. x \in Seq(Carriers) /\ m \in Carriers /\ o \in Ops
    BY QueuesCarry, CarriersCarry DEF Carriers
  <1>3. Part(y, T) = IF o \in T THEN Back(Part(x, T), o) ELSE Part(x, T)
    BY <1>2, PartEnds
  <1>4. o \in T => o \in Y
    BY <1>2
  <1> HIDE DEF y, o
  <1>5. Part(r, T) \in Seq(Y) /\ Filter(c, T) \in Seq(Y) /\ Part(s, T) \in Seq(Y) /\ Part(x, T) \in Seq(Y)
    BY PartsType
  <1>6. /\ Flow(r, c, s, x, T) = Join(Part(r, T), Filter(c, T), Part(s, T), Part(x, T))
        /\ Flow(r, c, s, y, T) = Join(Part(r, T), Filter(c, T), Part(s, T), Part(y, T))
    BY <1>1, FlowParts
  <1> HIDE DEF Y
  <1>7. Flow(r, c, s, y, T) = IF o \in T THEN Back(Flow(r, c, s, x, T), o) ELSE Flow(r, c, s, x, T)
    BY <1>3, <1>4, <1>5, <1>6, JoinMoves
  <1> QED BY <1>1, <1>7, Zenon DEF o, y

\* A packet is written: a command goes to the controller, and a data packet
\* carries no operation of T.
FirstOp(s) == First(s).op
SendKeeps(r, c, s, x, T) ==
    /\ Flow(r, Back(c, FirstOp(s)), Rest(s), x, T) = Flow(r, c, s, x, T)
    /\ FirstOp(s) \notin T => Flow(r, c, Rest(s), x, T) = Flow(r, c, s, x, T)

\* The worker hands its oldest packet to the controller: a command stays in flight.
LEMMA FlowSend ==
  ASSUME NEW r, NEW c, NEW s, NEW x, QueueTypes(r, c, s, x), s # <<>>, NEW T
  PROVE  /\ First(s) \in Packets
         /\ QueueTypes(r, c, Rest(s), x) /\ QueueTypes(r, Back(c, FirstOp(s)), Rest(s), x)
         /\ SendKeeps(r, c, s, x, T)
PROOF
  <1> DEFINE m == Head(s)
             o == m.op
             t == Tail(s)
             d == Append(c, o)
             Y == Ops \cap T
  <1>1. m \in Packets /\ t \in Seq(Packets) /\ o \in Commands
    BY DEF QueueTypes, Packets, Commands
  <1>2. QueueTypes(r, c, t, x) /\ QueueTypes(r, d, t, x)
    BY <1>1 DEF QueueTypes
  <1>3. s \in Seq(Carriers) /\ c \in Seq(Ops) /\ o \in Ops
    BY <1>1, QueuesCarry DEF Ops
  <1>4. Part(s, T) = IF o \in T THEN Ahead(o, Part(t, T)) ELSE Part(t, T)
    BY <1>3, PartEnds
  <1>5. Filter(d, T) = IF o \in T THEN Back(Filter(c, T), o) ELSE Filter(c, T)
    BY <1>3, FilterEnds
  <1>6. o \in T => o \in Y
    BY <1>3
  <1> HIDE DEF m, o, t, d
  <1>7. Part(r, T) \in Seq(Y) /\ Filter(c, T) \in Seq(Y) /\ Part(t, T) \in Seq(Y) /\ Part(x, T) \in Seq(Y)
    BY <1>2, PartsType
  <1>8. /\ Flow(r, c, s, x, T) = Join(Part(r, T), Filter(c, T), Part(s, T), Part(x, T))
        /\ Flow(r, c, t, x, T) = Join(Part(r, T), Filter(c, T), Part(t, T), Part(x, T))
        /\ Flow(r, d, t, x, T) = Join(Part(r, T), Filter(d, T), Part(t, T), Part(x, T))
    BY <1>2, FlowParts
  <1> HIDE DEF Y
  <1>9. Flow(r, d, t, x, T) = Flow(r, c, s, x, T)
    BY <1>4, <1>5, <1>6, <1>7, <1>8, JoinMoves
  <1>10. o \notin T => Flow(r, c, t, x, T) = Flow(r, c, s, x, T)
    BY <1>4, <1>8
  <1> QED BY <1>1, <1>2, <1>9, <1>10, Zenon DEF m, o, t, d, First, Rest, Back, FirstOp, SendKeeps

\* The controller answers its oldest command.
LEMMA FlowAnswer ==
  ASSUME NEW r, NEW c, NEW s, NEW x, QueueTypes(r, c, s, x), c # <<>>, NEW T,
         NEW ev \in CtrlEvents, ev.op = Head(c)
  PROVE  /\ QueueTypes(Append(r, ev), Tail(c), s, x)
         /\ Flow(Append(r, ev), Tail(c), s, x, T) = Flow(r, c, s, x, T)
PROOF
  <1> DEFINE o == ev.op
             q == Append(r, ev)
             d == Tail(c)
             Y == Ops \cap T
  <1>1. QueueTypes(q, d, s, x)
    BY DEF QueueTypes
  <1>2. r \in Seq(Carriers) /\ ev \in Carriers /\ c \in Seq(Ops) /\ o \in Ops
    BY QueuesCarry, CarriersCarry DEF Carriers
  <1>3. Part(q, T) = IF o \in T THEN Back(Part(r, T), o) ELSE Part(r, T)
    BY <1>2, PartEnds
  <1>4. Filter(c, T) = IF o \in T THEN Ahead(o, Filter(d, T)) ELSE Filter(d, T)
    BY <1>2, FilterEnds
  <1>5. o \in T => o \in Y
    BY <1>2
  <1> HIDE DEF o, q, d
  <1>6. Part(r, T) \in Seq(Y) /\ Part(s, T) \in Seq(Y) /\ Part(x, T) \in Seq(Y)
    BY PartsType
  <1>7. Filter(d, T) \in Seq(Y)
    BY <1>1, PartsType
  <1>8. /\ Flow(r, c, s, x, T) = Join(Part(r, T), Filter(c, T), Part(s, T), Part(x, T))
        /\ Flow(q, d, s, x, T) = Join(Part(q, T), Filter(d, T), Part(s, T), Part(x, T))
    BY <1>1, FlowParts
  <1> HIDE DEF Y
  <1>9. Flow(q, d, s, x, T) = Flow(r, c, s, x, T)
    BY <1>3, <1>4, <1>5, <1>6, <1>7, <1>8, JoinMoves
  <1> QED BY <1>1, <1>9, Zenon DEF q, d

\* An event that answers no command of T is queued.
LEMMA FlowNop ==
  ASSUME NEW r, NEW c, NEW s, NEW x, QueueTypes(r, c, s, x), NEW T,
         NEW ev \in CtrlEvents, ev.op \notin T
  PROVE  /\ QueueTypes(Append(r, ev), c, s, x)
         /\ Flow(Append(r, ev), c, s, x, T) = Flow(r, c, s, x, T)
PROOF
  <1> DEFINE q == Append(r, ev)
  <1>1. QueueTypes(q, c, s, x)
    BY DEF QueueTypes
  <1>2. r \in Seq(Carriers) /\ ev \in Carriers
    BY QueuesCarry DEF Carriers
  <1>3. Part(q, T) = Part(r, T)
    BY <1>2, PartEnds
  <1> HIDE DEF q
  <1>4. /\ Flow(r, c, s, x, T) = Join(Part(r, T), Filter(c, T), Part(s, T), Part(x, T))
        /\ Flow(q, c, s, x, T) = Join(Part(q, T), Filter(c, T), Part(s, T), Part(x, T))
    BY <1>1, FlowParts
  <1> QED BY <1>1, <1>3, <1>4, Zenon DEF q

\* The operation of the oldest event, if of T, was in front of the others.
ReceiveKeeps(r, c, s, x, T) ==
    Flow(r, c, s, x, T) = IF FirstOp(r) \in T THEN Ahead(FirstOp(r), Flow(Rest(r), c, s, x, T))
                                               ELSE Flow(Rest(r), c, s, x, T)

\* The worker reads the oldest event: what it answers was the oldest in flight.
LEMMA FlowReceive ==
  ASSUME NEW r, NEW c, NEW s, NEW x, QueueTypes(r, c, s, x), r # <<>>, NEW T
  PROVE  /\ First(r) \in CtrlEvents /\ QueueTypes(Rest(r), c, s, x)
         /\ ReceiveKeeps(r, c, s, x, T)
PROOF
  <1> DEFINE ev == Head(r)
             o == ev.op
             q == Tail(r)
             Y == Ops \cap T
  <1>1. ev \in CtrlEvents /\ QueueTypes(q, c, s, x)
    BY DEF QueueTypes
  <1>2. r \in Seq(Carriers) /\ ev \in Carriers /\ o \in Ops
    BY <1>1, QueuesCarry, CarriersCarry DEF Carriers
  <1>3. Part(r, T) = IF o \in T THEN Ahead(o, Part(q, T)) ELSE Part(q, T)
    BY <1>2, PartEnds
  <1>4. o \in T => o \in Y
    BY <1>2
  <1> HIDE DEF ev, o, q
  <1>5. Part(q, T) \in Seq(Y) /\ Filter(c, T) \in Seq(Y) /\ Part(s, T) \in Seq(Y) /\ Part(x, T) \in Seq(Y)
    BY <1>1, PartsType
  <1>6. /\ Flow(r, c, s, x, T) = Join(Part(r, T), Filter(c, T), Part(s, T), Part(x, T))
        /\ Flow(q, c, s, x, T) = Join(Part(q, T), Filter(c, T), Part(s, T), Part(x, T))
    BY <1>1, FlowParts
  <1> HIDE DEF Y
  <1>7. Flow(r, c, s, x, T) = IF o \in T THEN Ahead(o, Flow(q, c, s, x, T)) ELSE Flow(q, c, s, x, T)
    BY <1>3, <1>4, <1>5, <1>6, JoinMoves
  <1>8. ReceiveKeeps(r, c, s, x, T)
    BY <1>7, Zenon DEF ReceiveKeeps, ev, o, q, FirstOp, First, Rest
  <1> QED BY <1>1, <1>8, Zenon DEF ev, q, First, Rest

\* The worker collects: what it has seen of tx_q is divided into what it sends
\* and what it passes over, one of which holds all that is of T.
LEMMA FlowCollect ==
  ASSUME NEW r, NEW c, NEW x, QueueTypes(r, c, <<>>, x), NEW T,
         NEW seen \in Seq(Packets), NEW rest \in Seq(Packets), x = Cat(seen, rest),
         NEW s \in Seq(Packets), NEW h \in Seq(Packets),
         \/ Part(s, T) = Part(seen, T) /\ Part(h, T) = <<>>
         \/ Part(s, T) = <<>> /\ Part(h, T) = Part(seen, T)
  PROVE  /\ QueueTypes(r, c, s, Cat(h, rest))
         /\ Flow(r, c, s, Cat(h, rest), T) = Flow(r, c, <<>>, x, T)
PROOF
  <1> DEFINE y == Cat(h, rest)
             Y == Ops \cap T
  <1>1. QueueTypes(r, c, s, y)
    BY CatProperties DEF QueueTypes
  <1>2. seen \in Seq(Carriers) /\ rest \in Seq(Carriers) /\ h \in Seq(Carriers)
    BY DEF Carriers
  <1>3. Part(x, T) = Cat(Part(seen, T), Part(rest, T)) /\ Part(y, T) = Cat(Part(h, T), Part(rest, T))
    BY <1>2, CarriedConcat, Zenon DEF Part, Cat
  <1>4. Part(<<>>, T) = <<>>
    BY OpsOfEmpty, FilterEmpty DEF Part
  <1> HIDE DEF y
  <1>5. Part(r, T) \in Seq(Y) /\ Filter(c, T) \in Seq(Y)
    BY PartsType, SMTT(20)
  <1>6. Part(seen, T) \in Seq(Y) /\ Part(rest, T) \in Seq(Y)
    BY <1>2, OpsOfType, FilterKeeps DEF Part
  <1>7. /\ Flow(r, c, <<>>, x, T) = Join(Part(r, T), Filter(c, T), Part(<<>>, T), Part(x, T))
        /\ Flow(r, c, s, y, T) = Join(Part(r, T), Filter(c, T), Part(s, T), Part(y, T))
    BY <1>1, FlowParts
  <1> DEFINE a == Part(r, T)
             b == Filter(c, T)
             d == Part(seen, T)
             e == Part(rest, T)
             ab == Cat(a, b)
  <1>8. ab \in Seq(Y)
    BY <1>5, CatProperties
  <1>9. Cat(ab, <<>>) = ab /\ Cat(<<>>, e) = e /\ Cat(Cat(ab, d), e) = Cat(ab, Cat(d, e))
    <2> HIDE DEF ab, d, e, Y
    <2> QED BY <1>6, <1>8, CatLaws DEF d, e
  <1>10. \A w, u, v, z : Join(w, u, v, z) = Cat(Cat(Cat(w, u), v), z)
    BY Zenon DEF Join, Cat
  <1>11. Flow(r, c, s, y, T) = Flow(r, c, <<>>, x, T)
    BY <1>3, <1>4, <1>7, <1>9, <1>10
  <1> QED BY <1>1, <1>11, Zenon DEF y

\* The packets the worker collects or passes over: of the operations in T, one
\* of the two holds all and the other none.
LEMMA PartFilter ==
  ASSUME NEW X, X \subseteq Carriers, NEW q \in Seq(X), NEW T, NEW K
  PROVE  /\ (\A m \in X : m \notin K => m.op \notin T) => Part(Filter(q, K), T) = Part(q, T)
         /\ (\A m \in X : m \in K => m.op \notin T) => Part(Filter(q, K), T) = <<>>
PROOF
  <1> DEFINE G(u) == Part(u, T)
             Q == {u \in Seq(X) : /\ (\A m \in X : m \notin K => m.op \notin T) => G(Filter(u, K)) = G(u)
                                  /\ (\A m \in X : m \in K => m.op \notin T) => G(Filter(u, K)) = <<>>}
  <1>1. <<>> \in Q
    BY FilterEmpty, OpsOfEmpty DEF Part
  <1>2. ASSUME NEW u \in Seq(X), NEW m \in X, u \in Q PROVE Append(u, m) \in Q
    <2>1. /\ u \in Seq(Carriers) /\ m \in Carriers /\ Filter(u, K) \in Seq(Carriers)
          /\ Append(u, m) \in Seq(X)
      BY FilterType
    <2>2. G(Append(u, m)) = IF m.op \in T THEN Append(G(u), m.op) ELSE G(u)
      BY <2>1, CarriedAppend DEF Part
    <2>3. Filter(Append(u, m), K) = IF m \in K THEN Append(Filter(u, K), m) ELSE Filter(u, K)
      BY FilterAppend
    <2>4. G(Append(Filter(u, K), m)) = IF m.op \in T THEN Append(G(Filter(u, K)), m.op) ELSE G(Filter(u, K))
      BY <2>1, CarriedAppend DEF Part
    <2>5. CASE m \in K
      BY <1>2, <2>1, <2>2, <2>3, <2>4, <2>5, Zenon
    <2>6. CASE m \notin K
      BY <1>2, <2>1, <2>2, <2>3, <2>6
    <2> QED BY <2>5, <2>6
  <1>3. Seq(X) \subseteq Q
    <2> HIDE DEF Q
    <2> QED BY <1>1, <1>2, SeqInduct
  <1> QED BY <1>3

Divides(X, K, L) ==
    \/ \A m \in X : m \in K /\ m \notin L
    \/ \A m \in X : (m \in K => ~IsCmd(m)) /\ (m \notin L => ~IsCmd(m))

\* Of two filters that divide a run of tx_q, one takes all the commands of T in it.
LEMMA CollectSplits ==
  ASSUME NEW X, X \subseteq Packets, NEW q \in Seq(X), NEW T, T \subseteq IntOps,
         NEW K, NEW L, Divides(X, K, L)
  PROVE  \/ Part(Filter(q, K), T) = Part(q, T) /\ Part(Filter(q, L), T) = <<>>
         \/ Part(Filter(q, K), T) = <<>> /\ Part(Filter(q, L), T) = Part(q, T)
PROOF
  <1>1. X \subseteq Carriers
    BY DEF Carriers
  <1>2. ASSUME NEW m \in X, ~IsCmd(m) PROVE m.op \notin T
    BY <1>2 DEF Packets, IsCmd, IntOps, StackOps, Procedures
  <1>3. \/ \A m \in X : m \in K /\ m \notin L
        \/ \A m \in X : (m \in K => m.op \notin T) /\ (m \notin L => m.op \notin T)
    BY <1>2 DEF Divides
  <1>4. CASE \A m \in X : m \in K /\ m \notin L
    BY <1>1, <1>4, PartFilter
  <1>5. CASE \A m \in X : (m \in K => m.op \notin T) /\ (m \notin L => m.op \notin T)
    BY <1>1, <1>5, PartFilter
  <1> QED BY <1>3, <1>4, <1>5
-----------------------------------------------------------------------------
(* The worker's pass over its snapshot.                                    *)

\* The order in which the worker tests the bits.
LEMMA Ranks ==
  /\ Len(Handlers) = 9
  /\ HandlerSet = {"RX", "PRELOAD", "POSTLOAD", "TX", "LPM_ENABLE", "LPM_DISABLE", "IDLE", "SLEEP", "EXIT"}
  /\ Rank("RX") = 1 /\ Rank("PRELOAD") = 2 /\ Rank("POSTLOAD") = 3 /\ Rank("TX") = 4
  /\ Rank("LPM_ENABLE") = 5 /\ Rank("LPM_DISABLE") = 6 /\ Rank("IDLE") = 7 /\ Rank("SLEEP") = 8
  /\ Rank("EXIT") = 9 /\ Rank("wait") = 0
PROOF
  <1>1. /\ Len(Handlers) = 9
        /\ Handlers[1] = "RX" /\ Handlers[2] = "PRELOAD" /\ Handlers[3] = "POSTLOAD" /\ Handlers[4] = "TX"
        /\ Handlers[5] = "LPM_ENABLE" /\ Handlers[6] = "LPM_DISABLE" /\ Handlers[7] = "IDLE"
        /\ Handlers[8] = "SLEEP" /\ Handlers[9] = "EXIT"
    BY DEF Handlers
  <1>2. HandlerSet = {"RX", "PRELOAD", "POSTLOAD", "TX", "LPM_ENABLE", "LPM_DISABLE", "IDLE", "SLEEP", "EXIT"}
    <2>1. 1 .. 9 = {1, 2, 3, 4, 5, 6, 7, 8, 9}
      OBVIOUS
    <2> QED BY <1>1, <2>1 DEF HandlerSet
  <1>3. ASSUME NEW i \in 1 .. 9 PROVE Rank(Handlers[i]) = i
    <2>1. \A j \in 1 .. 9 : Handlers[j] = Handlers[i] => j = i
      BY <1>1
    <2>2. Handlers[i] # "wait"
      BY <1>1
    <2> QED BY <1>1, <2>1, <2>2 DEF Rank
  <1>4. Rank("wait") = 0
    BY DEF Rank
  <1> QED BY <1>1, <1>2, <1>3, <1>4

\* The worker goes to the first bit left, or back to the head of its loop.
LEMMA FirstLeft ==
  ASSUME NEW evs, evs \subseteq HandlerSet, NEW k \in Nat
  PROVE  /\ Later(evs, k) \subseteq evs
         /\ \/ /\ Later(evs, k) = {}
               /\ NextHandler(evs, k) = IF api = "up" THEN "wait" ELSE "exited"
            \/ /\ NextHandler(evs, k) \in Later(evs, k)
               /\ \A e \in Later(evs, k) : Rank(e) >= Rank(NextHandler(evs, k))
PROOF
  <1> DEFINE later == {i \in k + 1 .. Len(Handlers) : Handlers[i] \in evs}
             least == CHOOSE i \in later : \A j \in later : i <= j
  <1>1. \A i \in 1 .. 9 : Rank(Handlers[i]) = i
    <2>1. /\ Handlers[1] = "RX" /\ Handlers[2] = "PRELOAD" /\ Handlers[3] = "POSTLOAD" /\ Handlers[4] = "TX"
          /\ Handlers[5] = "LPM_ENABLE" /\ Handlers[6] = "LPM_DISABLE" /\ Handlers[7] = "IDLE"
          /\ Handlers[8] = "SLEEP" /\ Handlers[9] = "EXIT"
      BY DEF Handlers
    <2> QED BY <2>1, Ranks
  <1>2. \A e \in Later(evs, k) : \E i \in later : e = Handlers[i]
    <2> SUFFICES ASSUME NEW e \in evs, Rank(e) > k PROVE \E i \in later : e = Handlers[i]
      BY DEF Later
    <2>1. PICK i \in 1 .. 9 : e = Handlers[i]
      BY Ranks DEF HandlerSet
    <2>2. i \in later
      BY <1>1, <2>1, Ranks
    <2> QED BY <2>1, <2>2
  <1>3. \A i \in later : Handlers[i] \in Later(evs, k) /\ Rank(Handlers[i]) = i
    BY <1>1, Ranks DEF Later
  <1>4. later \subseteq Nat
    BY Ranks
  <1>5. CASE later = {}
    <2>1. Later(evs, k) = {}
      BY <1>2, <1>5
    <2>2. NextHandler(evs, k) = IF api = "up" THEN "wait" ELSE "exited"
      BY <1>5 DEF NextHandler
    <2> QED BY <2>1, <2>2
  <1>6. CASE later # {}
    <2>1. NextHandler(evs, k) = Handlers[least]
      BY <1>6 DEF NextHandler
    <2> HIDE DEF later
    <2>2. \E i \in later : \A j \in later : i <= j
      BY <1>4, <1>6, LeastNatural, Zenon
    <2>3. least \in later /\ \A j \in later : least <= j
      BY <2>2
    <2> HIDE DEF least
    <2>4. \A e \in Later(evs, k) : Rank(e) >= least
      BY <1>2, <1>3, <1>4, <2>3
    <2>5. Handlers[least] \in Later(evs, k) /\ Rank(Handlers[least]) = least
      BY <1>3, <2>3
    <2>6. Later(evs, k) \subseteq evs
      BY DEF Later
    <2> QED BY <2>1, <2>4, <2>5, <2>6
  <1>7. Later(evs, k) \subseteq evs
    BY DEF Later
  <1> QED BY <1>5, <1>6, <1>7
-----------------------------------------------------------------------------
(* The ring of internal commands.                                          *)

Rings == [cmd : [0 .. IntMax - 1 -> IntOps \cup {NoOp}], rd : 0 .. IntMax - 1,
          wrt : 0 .. IntMax - 1, count : Nat]
RingOK(h) == h \in Rings /\ h.wrt = (h.rd + h.count) % IntMax /\ h.count <= IntMax
RingOf(h) == [i \in 1 .. h.count |-> h.cmd[(h.rd + i - 1) % IntMax]]

\* Going round: an index between the read index and one round further.
LEMMA Round ==
  ASSUME NEW a \in 0 .. IntMax - 1, NEW j \in 0 .. IntMax
  PROVE  /\ (a + j) % IntMax = IF a + j < IntMax THEN a + j ELSE a + j - IntMax
         /\ (a + j) % IntMax \in 0 .. IntMax - 1
PROOF
  <1>1. IntMax \in Nat /\ IntMax > 0
    BY TransportAssumption
  <1>2. a + j \in 0 .. 2 * IntMax - 1
    BY <1>1
  <1>3. (a + j) % IntMax = IF a + j < IntMax THEN a + j ELSE a + j - IntMax
    BY <1>1, <1>2, ModOnce
  <1> QED BY <1>1, <1>3

\* What the ring lists is a sequence.
LEMMA RingType ==
  ASSUME NEW h, RingOK(h)
  PROVE  RingOf(h) \in Seq(IntOps \cup {NoOp}) /\ Len(RingOf(h)) = h.count
PROOF
  <1>1. \A i \in 1 .. h.count : h.cmd[(h.rd + i - 1) % IntMax] \in IntOps \cup {NoOp}
    <2> SUFFICES ASSUME NEW i \in 1 .. h.count PROVE h.cmd[(h.rd + i - 1) % IntMax] \in IntOps \cup {NoOp}
      OBVIOUS
    <2>1. h.rd \in 0 .. IntMax - 1 /\ i - 1 \in 0 .. IntMax /\ h.rd + i - 1 = h.rd + (i - 1)
      BY TransportAssumption DEF RingOK, Rings
    <2>2. (h.rd + (i - 1)) % IntMax \in 0 .. IntMax - 1
      BY <2>1, Round
    <2> QED BY <2>1, <2>2, Zenon DEF RingOK, Rings
  <1>2. h.count \in Nat
    BY DEF RingOK, Rings
  <1> QED BY <1>1, <1>2 DEF RingOf

\* Its elements, counted from the read index.
LEMMA RingAt ==
  ASSUME NEW h, RingOK(h), NEW i \in 1 .. h.count
  PROVE  /\ RingOf(h)[i] = h.cmd[IF h.rd + i - 1 < IntMax THEN h.rd + i - 1 ELSE h.rd + i - 1 - IntMax]
         /\ i \in 1 .. IntMax /\ h.rd \in 0 .. IntMax - 1 /\ IntMax \in Nat
PROOF
  <1>1. h.rd \in 0 .. IntMax - 1 /\ i \in 1 .. IntMax /\ i - 1 \in 0 .. IntMax /\ h.rd + i - 1 = h.rd + (i - 1)
    BY TransportAssumption DEF RingOK, Rings
  <1>2. (h.rd + (i - 1)) % IntMax = IF h.rd + (i - 1) < IntMax THEN h.rd + (i - 1) ELSE h.rd + (i - 1) - IntMax
    BY <1>1, Round
  <1>3. RingOf(h)[i] = h.cmd[(h.rd + i - 1) % IntMax]
    BY DEF RingOf
  <1> QED BY <1>1, <1>2, <1>3, TransportAssumption

\* The fields of the ring after hci_h4_send_int_cmd and after a release.
LEMMA RingFields ==
  ASSUME NEW h \in Rings, NEW op \in IntOps
  PROVE  /\ PutIntCmd(h, op) \in Rings /\ PutIntCmd(h, op).cmd = [h.cmd EXCEPT ![h.wrt] = op]
         /\ PutIntCmd(h, op).rd = h.rd /\ PutIntCmd(h, op).wrt = (h.wrt + 1) % IntMax
         /\ PutIntCmd(h, op).count = h.count + 1
         /\ h.count > 0 => ReleaseIntCmd(h) \in Rings
         /\ ReleaseIntCmd(h).cmd = h.cmd /\ ReleaseIntCmd(h).rd = (h.rd + 1) % IntMax
         /\ ReleaseIntCmd(h).wrt = h.wrt /\ ReleaseIntCmd(h).count = h.count - 1
PROOF
  <1>1. h.wrt \in 0 .. IntMax - 1 /\ h.rd \in 0 .. IntMax - 1 /\ 1 \in 0 .. IntMax
    BY TransportAssumption DEF Rings
  <1>2. (h.wrt + 1) % IntMax \in 0 .. IntMax - 1 /\ (h.rd + 1) % IntMax \in 0 .. IntMax - 1
    BY <1>1, Round
  <1>3. PutIntCmd(h, op) \in Rings
    <2> DEFINE w == (h.wrt + 1) % IntMax
               d == [h.cmd EXCEPT ![h.wrt] = op]
               v == h.count + 1
    <2>1. PutIntCmd(h, op) = [h EXCEPT !.cmd = d, !.wrt = w, !.count = v]
      BY DEF PutIntCmd, Rings
    <2>2. w \in 0 .. IntMax - 1
      BY <1>2
    <2>3. d \in [0 .. IntMax - 1 -> IntOps \cup {NoOp}] /\ v \in Nat
      BY DEF Rings
    <2> HIDE DEF w, d, v
    <2>4. [h EXCEPT !.cmd = d, !.wrt = w, !.count = v] \in Rings
      BY <2>2, <2>3, Zenon DEF Rings
    <2> QED BY <2>1, <2>4
  <1>4. /\ PutIntCmd(h, op).cmd = [h.cmd EXCEPT ![h.wrt] = op]
        /\ PutIntCmd(h, op).rd = h.rd /\ PutIntCmd(h, op).wrt = (h.wrt + 1) % IntMax
        /\ PutIntCmd(h, op).count = h.count + 1
    BY DEF PutIntCmd, Rings
  <1>5. h.count > 0 => ReleaseIntCmd(h) \in Rings
    <2> DEFINE w == (h.rd + 1) % IntMax
               v == h.count - 1
    <2>1. ReleaseIntCmd(h) = [h EXCEPT !.rd = w, !.count = v]
      BY DEF ReleaseIntCmd
    <2>2. w \in 0 .. IntMax - 1 /\ (h.count > 0 => v \in Nat)
      BY <1>2 DEF Rings
    <2> HIDE DEF w, v
    <2>3. v \in Nat => [h EXCEPT !.rd = w, !.count = v] \in Rings
      BY <2>2, Zenon DEF Rings
    <2> QED BY <2>1, <2>2, <2>3
  <1>6. /\ ReleaseIntCmd(h).cmd = h.cmd /\ ReleaseIntCmd(h).rd = (h.rd + 1) % IntMax
        /\ ReleaseIntCmd(h).wrt = h.wrt /\ ReleaseIntCmd(h).count = h.count - 1
    BY DEF ReleaseIntCmd, Rings
  <1> QED BY <1>3, <1>4, <1>5, <1>6

\* hci_h4_send_int_cmd, with a free slot.
LEMMA RingPut ==
  ASSUME NEW h, RingOK(h), h.count < IntMax, NEW op \in IntOps
  PROVE  RingOK(PutIntCmd(h, op)) /\ RingOf(PutIntCmd(h, op)) = Back(RingOf(h), op)
PROOF
  <1> DEFINE g == PutIntCmd(h, op)
  <1>1. h \in Rings /\ IntMax \in Nat /\ IntMax > 0
    BY TransportAssumption DEF RingOK
  <1>2. /\ g \in Rings /\ g.cmd = [h.cmd EXCEPT ![h.wrt] = op] /\ g.rd = h.rd
        /\ g.wrt = (h.wrt + 1) % IntMax /\ g.count = h.count + 1
    BY <1>1, RingFields
  <1> HIDE DEF g
  <1>3. /\ h.wrt = (h.rd + h.count) % IntMax /\ h.rd \in 0 .. IntMax - 1
        /\ h.count \in 0 .. IntMax - 1 /\ h.wrt \in 0 .. IntMax - 1
    BY <1>1 DEF RingOK, Rings
  <1>4. h.wrt = IF h.rd + h.count < IntMax THEN h.rd + h.count ELSE h.rd + h.count - IntMax
    <2>1. h.count \in 0 .. IntMax
      BY <1>1, <1>3
    <2>2. (h.rd + h.count) % IntMax = IF h.rd + h.count < IntMax THEN h.rd + h.count ELSE h.rd + h.count - IntMax
      BY <1>3, <2>1, Round
    <2> QED BY <1>3, <2>2
  <1>5. /\ (h.wrt + 1) % IntMax = IF h.wrt + 1 < IntMax THEN h.wrt + 1 ELSE h.wrt + 1 - IntMax
        /\ (h.wrt + 1) % IntMax \in 0 .. IntMax - 1
    BY <1>1, <1>3, Round
  <1>6. (h.rd + (h.count + 1)) % IntMax = IF h.rd + (h.count + 1) < IntMax THEN h.rd + (h.count + 1)
                                          ELSE h.rd + (h.count + 1) - IntMax
    <2>1. h.count + 1 \in 0 .. IntMax
      BY <1>1, <1>3
    <2> QED BY <1>3, <2>1, Round
  <1>7. RingOK(g)
    <2>1. g.wrt = (g.rd + g.count) % IntMax
      BY <1>1, <1>2, <1>3, <1>4, <1>5, <1>6
    <2>2. g.count <= IntMax
      BY <1>1, <1>2, <1>3
    <2> QED BY <1>2, <2>1, <2>2 DEF RingOK
  <1>8. RingOf(h) \in Seq(IntOps \cup {NoOp}) /\ Len(RingOf(h)) = h.count
    BY RingType
  <1>9. RingOf(g) \in Seq(IntOps \cup {NoOp}) /\ Len(RingOf(g)) = h.count + 1
    BY <1>2, <1>7, RingType
  <1>10. /\ Back(RingOf(h), op) \in Seq(IntOps \cup {NoOp}) /\ Len(Back(RingOf(h), op)) = h.count + 1
         /\ Back(RingOf(h), op)[h.count + 1] = op
         /\ \A i \in 1 .. h.count : Back(RingOf(h), op)[i] = RingOf(h)[i]
    <2> DEFINE u == RingOf(h)
               Y == IntOps \cup {NoOp}
    <2>1. u \in Seq(Y) /\ op \in Y
      BY <1>8
    <2>3. Len(u) = h.count
      BY <1>8
    <2> HIDE DEF u, Y
    <2>2. Back(u, op) \in Seq(Y) /\ Len(Back(u, op)) = Len(u) + 1
      BY <2>1, BackProperties
    <2>4. Back(u, op)[Len(u) + 1] = op
      BY <2>1, BackProperties
    <2>5. ASSUME NEW i \in 1 .. Len(u) PROVE Back(u, op)[i] = u[i]
      BY <2>1, BackProperties
    <2> QED BY <2>2, <2>3, <2>4, <2>5 DEF u, Y
  <1>11. ASSUME NEW i \in 1 .. h.count + 1 PROVE RingOf(g)[i] = Back(RingOf(h), op)[i]
    <2> DEFINE k == IF h.rd + i - 1 < IntMax THEN h.rd + i - 1 ELSE h.rd + i - 1 - IntMax
    <2>1. RingOf(g)[i] = g.cmd[k]
      <3>1. i \in 1 .. g.count
        BY <1>2
      <3>2. RingOf(g)[i] = g.cmd[IF g.rd + i - 1 < IntMax THEN g.rd + i - 1 ELSE g.rd + i - 1 - IntMax]
        BY <1>7, <3>1, RingAt
      <3> QED BY <1>2, <3>2
    <2>2. k \in 0 .. IntMax - 1 /\ (k = h.wrt <=> i = h.count + 1)
      BY <1>1, <1>3, <1>4
    <2>3. g.cmd[k] = IF i = h.count + 1 THEN op ELSE h.cmd[k]
      BY <1>1, <1>2, <1>3, <2>2, SMTT(20) DEF Rings
    <2>4. i # h.count + 1 => i \in 1 .. h.count /\ RingOf(h)[i] = h.cmd[k]
      BY <1>3, RingAt
    <2> QED BY <1>10, <2>1, <2>3, <2>4
  <1>12. RingOf(g) = Back(RingOf(h), op)
    BY <1>9, <1>10, <1>11
  <1> QED BY <1>7, <1>12 DEF g
\* The ring entry is released: it was the oldest.
LEMMA RingRelease ==
  ASSUME NEW h, RingOK(h), h.count > 0
  PROVE  /\ RingOK(ReleaseIntCmd(h)) /\ RingOf(h)[1] = h.cmd[h.rd]
         /\ RingOf(ReleaseIntCmd(h)) = Tail(RingOf(h))
PROOF
  <1> DEFINE g == ReleaseIntCmd(h)
             N == IntMax
  <1>1. h \in Rings /\ N \in Nat /\ N > 0 /\ h.count \in 1 .. N /\ h.rd \in 0 .. N - 1
    BY TransportAssumption DEF RingOK, Rings
  <1>2. IntOp("fw", 1) \in IntOps
    BY DEF IntOp, IntOps, Procedures
  <1>3. g \in Rings /\ g.cmd = h.cmd /\ g.rd = (h.rd + 1) % N /\ g.wrt = h.wrt /\ g.count = h.count - 1
    BY <1>1, <1>2, RingFields, Zenon
  <1> HIDE DEF g
  <1>4. (h.rd + 1) % N = IF h.rd + 1 < N THEN h.rd + 1 ELSE h.rd + 1 - N
    <2>1. 1 \in 0 .. N
      BY <1>1
    <2> QED BY <1>1, <2>1, Round
  <1>5. RingOK(g)
    <2>1. (h.rd + h.count) % N = IF h.rd + h.count < N THEN h.rd + h.count ELSE h.rd + h.count - N
      <3>1. h.count \in 0 .. N
        BY <1>1
      <3> QED BY <1>1, <3>1, Round, Zenon
    <2>2. g.rd \in 0 .. N - 1 /\ g.count \in 0 .. N
      BY <1>1, <1>3, <1>4
    <2>3. (g.rd + g.count) % N = IF g.rd + g.count < N THEN g.rd + g.count ELSE g.rd + g.count - N
      BY <2>2, Round
    <2>4. h.wrt = (h.rd + h.count) % N
      BY DEF RingOK
    <2>5. g.wrt = (g.rd + g.count) % N
      BY <1>1, <1>3, <1>4, <2>1, <2>2, <2>3, <2>4
    <2> QED BY <1>3, <2>2, <2>5 DEF RingOK
  <1>6. RingOf(h)[1] = h.cmd[h.rd]
    BY <1>1, RingAt
  <1>7. RingOf(h) \in Seq(IntOps \cup {NoOp}) /\ Len(RingOf(h)) = h.count
    BY RingType
  <1>8. RingOf(g) \in Seq(IntOps \cup {NoOp}) /\ Len(RingOf(g)) = h.count - 1
    BY <1>3, <1>5, RingType
  <1> DEFINE u == RingOf(h)
             Y == IntOps \cup {NoOp}
  <1>9. u \in Seq(Y) /\ u # <<>>
    BY <1>1, <1>7
  <1>10. Tail(u) \in Seq(Y) /\ Len(Tail(u)) = Len(u) - 1
    <2> HIDE DEF u, Y
    <2> QED BY <1>9
  <1>11. ASSUME NEW i \in 1 .. h.count - 1 PROVE RingOf(g)[i] = Tail(u)[i]
    <2>1. Tail(u)[i] = u[i + 1]
      <3>1. i \in 1 .. Len(Tail(u))
        BY <1>7, <1>10
      <3> HIDE DEF u, Y
      <3> QED BY <1>9, <3>1
    <2>2. i + 1 \in 1 .. h.count /\ i \in 1 .. g.count
      BY <1>1, <1>3
    <2>3. u[i + 1] = h.cmd[IF h.rd + (i + 1) - 1 < N THEN h.rd + (i + 1) - 1 ELSE h.rd + (i + 1) - 1 - N]
      BY <2>2, RingAt
    <2>4. RingOf(g)[i] = g.cmd[IF g.rd + i - 1 < N THEN g.rd + i - 1 ELSE g.rd + i - 1 - N]
      BY <1>5, <2>2, RingAt
    <2>5. (IF g.rd + i - 1 < N THEN g.rd + i - 1 ELSE g.rd + i - 1 - N) =
          (IF h.rd + (i + 1) - 1 < N THEN h.rd + (i + 1) - 1 ELSE h.rd + (i + 1) - 1 - N)
      BY <1>1, <1>3, <1>4
    <2> QED BY <1>3, <2>1, <2>3, <2>4, <2>5, Zenon
  <1>12. RingOf(g) = Tail(u)
    BY <1>7, <1>8, <1>10, <1>11
  <1> QED BY <1>5, <1>6, <1>12 DEF g, u

\* The callback puts its next command before the entry is released: with a full
\* ring it lands in the slot that is about to be released.
LEMMA RingPutRelease ==
  ASSUME NEW h, RingOK(h), h.count > 0, NEW op \in IntOps
  PROVE  /\ RingOK(ReleaseIntCmd(PutIntCmd(h, op)))
         /\ RingOf(ReleaseIntCmd(PutIntCmd(h, op))) = Back(RingOf(ReleaseIntCmd(h)), op)
PROOF
  <1> DEFINE g == ReleaseIntCmd(h)
             p == PutIntCmd(h, op)
             f == ReleaseIntCmd(p)
             k == PutIntCmd(g, op)
             N == IntMax
  <1>1. h \in Rings /\ N \in Nat /\ N > 0 /\ h.count \in 1 .. N
    BY TransportAssumption DEF RingOK, Rings
  <1>2. g \in Rings /\ g.cmd = h.cmd /\ g.rd = (h.rd + 1) % N /\ g.wrt = h.wrt /\ g.count = h.count - 1
    BY <1>1, RingFields, Zenon
  <1>3. /\ p \in Rings /\ p.cmd = [h.cmd EXCEPT ![h.wrt] = op] /\ p.rd = h.rd
        /\ p.wrt = (h.wrt + 1) % N /\ p.count = h.count + 1
    BY <1>1, RingFields
  <1>4. RingOK(g)
    BY RingRelease
  <1> HIDE DEF g, p
  <1>5. /\ k \in Rings /\ k.cmd = [g.cmd EXCEPT ![g.wrt] = op] /\ k.rd = g.rd
        /\ k.wrt = (g.wrt + 1) % N /\ k.count = g.count + 1
    BY <1>2, RingFields
  <1>6. p.count > 0
    BY <1>1, <1>3
  <1>7. f \in Rings /\ f.cmd = p.cmd /\ f.rd = (p.rd + 1) % N /\ f.wrt = p.wrt /\ f.count = p.count - 1
    BY <1>3, <1>6, RingFields, Zenon
  <1>8. RingOK(k) /\ RingOf(k) = Back(RingOf(g), op)
    <2>1. g.count < IntMax
      BY <1>1, <1>2
    <2> QED BY <1>4, <2>1, RingPut
  <1> HIDE DEF k, f
  <1>9. f.cmd = k.cmd /\ f.rd = k.rd /\ f.wrt = k.wrt /\ f.count = k.count
    BY <1>1, <1>2, <1>3, <1>5, <1>7
  <1>10. f = k
    BY <1>5, <1>7, <1>9 DEF Rings
  <1> QED BY <1>8, <1>10, Zenon DEF f, g, p
=============================================================================
