----------------------------- MODULE SequenceFacts -----------------------------
(***************************************************************************)
(* Induction over the naturals and over sequences, stated for sets: where  *)
(* the induction theorems of the library take an operator as a parameter,  *)
(* these take the set of the values for which the claim holds.  Recursive  *)
(* definitions are justified the same way, their step given as a function. *)
(***************************************************************************)
EXTENDS Subsequence, WellFoundedInduction, TLAPS

\* Every non-empty set of naturals has a least element.
LEMMA LeastNatural ==
  ASSUME NEW T, T \subseteq Nat, T # {}
  PROVE  \E n \in T : \A m \in T : n <= m
PROOF
  <1>1. PICK n \in T : \A m \in T : ~(<<m, n>> \in OpToRel(<, Nat))
    BY NatLessThanWellFounded, WFMin, Zenon
  <1>2. ASSUME NEW m \in T PROVE n <= m
    <2>1. m \in Nat /\ n \in Nat
      OBVIOUS
    <2>2. ~(m < n)
      BY <1>1, <2>1, Zenon DEF OpToRel
    <2> QED BY <2>1, <2>2
  <1> QED BY <1>2

\* Induction over the naturals.
LEMMA NatInduct ==
  ASSUME NEW Q, 0 \in Q, \A n \in Nat : n \in Q => n + 1 \in Q
  PROVE  Nat \subseteq Q
PROOF
  <1> SUFFICES ASSUME NEW k \in Nat, k \notin Q PROVE FALSE
    OBVIOUS
  <1> DEFINE T == {n \in Nat : n \notin Q}
  <1>1. PICK n \in T : \A m \in T : n <= m
    BY LeastNatural
  <1>2. n # 0
    OBVIOUS
  <1>3. n - 1 \in Nat /\ n - 1 \in Q
    BY <1>1, <1>2
  <1> QED BY <1>3

\* Induction over sequences, one element appended at a time.
LEMMA SeqInduct ==
  ASSUME NEW X, NEW Q, <<>> \in Q,
         \A s \in Seq(X), x \in X : s \in Q => Append(s, x) \in Q
  PROVE  Seq(X) \subseteq Q
PROOF
  <1> DEFINE P == {n \in Nat : \A s \in Seq(X) : Len(s) = n => s \in Q}
  <1>1. 0 \in P
    OBVIOUS
  <1>2. ASSUME NEW n \in Nat, n \in P PROVE n + 1 \in P
    <2> SUFFICES ASSUME NEW s \in Seq(X), Len(s) = n + 1 PROVE s \in Q
      OBVIOUS
    <2>1. SubSeq(s, 1, n) \in Seq(X) /\ s[n + 1] \in X /\ Len(SubSeq(s, 1, n)) = n
      OBVIOUS
    <2>2. s = Append(SubSeq(s, 1, n), s[n + 1])
      BY <2>1
    <2> QED BY <2>1, <2>2, <1>2
  <1>3. Nat \subseteq P
    <2> HIDE DEF P
    <2> QED BY <1>1, <1>2, NatInduct
  <1> QED BY <1>3

\* Two sequences one behind the other.
LEMMA Joined ==
  ASSUME NEW X, NEW s \in Seq(X), NEW t \in Seq(X)
  PROVE  /\ s \o t \in Seq(X) /\ Len(s \o t) = Len(s) + Len(t)
         /\ \A i \in 1 .. Len(s) + Len(t) : (s \o t)[i] = IF i <= Len(s) THEN s[i] ELSE t[i - Len(s)]
PROOF
  OBVIOUS

\* A function may be defined by recursion over 0 .. n: its value at 0 and, as a
\* function of the index and of the value before, each of the others.
IsRecursive(f, n, S, b, g) ==
    f \in [0 .. n -> S] /\ f[0] = b /\ \A i \in 1 .. n : f[i] = g[<<i, f[i - 1]>>]

\* Such a function exists.
LEMMA RecursiveFcn ==
  ASSUME NEW S, NEW b \in S, NEW n \in Nat, NEW g \in [(1 .. n) \X S -> S]
  PROVE  \E f : IsRecursive(f, n, S, b, g)
PROOF
  <1> DEFINE Upto(m, f) == f[0] = b /\ \A i \in 1 .. m : f[i] = g[<<i, f[i - 1]>>]
             Q == {m \in Nat : m <= n => \E f \in [0 .. m -> S] : Upto(m, f)}
  <1>1. 0 \in Q
    <2>1. [i \in 0 .. 0 |-> b] \in [0 .. 0 -> S]
      OBVIOUS
    <2>2. Upto(0, [i \in 0 .. 0 |-> b])
      OBVIOUS
    <2> QED BY <2>1, <2>2
  <1>2. ASSUME NEW m \in Nat, m \in Q PROVE m + 1 \in Q
    <2> SUFFICES ASSUME m + 1 <= n PROVE \E f \in [0 .. m + 1 -> S] : Upto(m + 1, f)
      OBVIOUS
    <2>1. PICK f \in [0 .. m -> S] : Upto(m, f)
      BY <1>2
    <2> DEFINE h == [i \in 0 .. m + 1 |-> IF i <= m THEN f[i] ELSE g[<<m + 1, f[m]>>]]
    <2>2. <<m + 1, f[m]>> \in (1 .. n) \X S
      OBVIOUS
    <2>3. g[<<m + 1, f[m]>>] \in S
      BY <2>2
    <2>4. h \in [0 .. m + 1 -> S]
      BY <2>3
    <2>5. h[0] = b
      BY <2>1
    <2>6. ASSUME NEW i \in 1 .. m + 1 PROVE h[i] = g[<<i, h[i - 1]>>]
      <3>1. CASE i <= m
        BY <3>1, <2>1
      <3>2. CASE i = m + 1
        <4>1. h[i - 1] = f[m]
          BY <3>2
        <4>2. h[i] = g[<<m + 1, f[m]>>]
          BY <3>2
        <4> QED BY <3>2, <4>1, <4>2
      <3> QED BY <3>1, <3>2
    <2> QED BY <2>4, <2>5, <2>6
  <1>3. n \in Q
    <2> HIDE DEF Q
    <2> QED BY <1>1, <1>2, NatInduct
  <1> QED BY <1>3 DEF IsRecursive

\* The recursion of Filter has a solution, and all its values are sequences.
IsKept(k, X, s, T, n) ==
    /\ k \in [0 .. n -> Seq(X)] /\ k[0] = <<>>
    /\ \A i \in 1 .. n : k[i] = IF s[i] \in T THEN Append(k[i - 1], s[i]) ELSE k[i - 1]

\* Filter is the last value of that recursion.
LEMMA FilterDef ==
  ASSUME NEW X, NEW s \in Seq(X), NEW T
  PROVE  \E k : IsKept(k, X, s, T, Len(s)) /\ Filter(s, T) = k[Len(s)]
PROOF
  <1> DEFINE SX == Seq(X)
  <1>1. PICK n \in Nat : n = Len(s) /\ \A i \in 1 .. n : s[i] \in X
    OBVIOUS
  <1>2. <<>> \in SX /\ \A u \in SX, x \in X : Append(u, x) \in SX
    OBVIOUS
  <1> DEFINE Add(i, u) == IF s[i] \in T THEN Append(u, s[i]) ELSE u
             g == [p \in (1 .. n) \X SX |-> Add(p[1], p[2])]
  <1> HIDE DEF SX
  <1>3. \A i \in 1 .. n, u \in SX : Add(i, u) \in SX
    BY <1>1, <1>2
  <1> HIDE DEF Add
  <1>4. g \in [(1 .. n) \X SX -> SX]
    BY <1>3
  <1>5. \A i \in 1 .. n, u \in SX : g[<<i, u>>] = Add(i, u)
    OBVIOUS
  <1> HIDE DEF g
  <1>6. PICK f : IsRecursive(f, n, SX, <<>>, g)
    BY <1>2, <1>4, RecursiveFcn, Zenon
  <1>7. f \in [0 .. n -> SX] /\ f[0] = <<>> /\ \A i \in 1 .. n : f[i] = g[<<i, f[i - 1]>>]
    BY <1>6 DEF IsRecursive
  <1>8. \A i \in 1 .. n : f[i] = Add(i, f[i - 1])
    <2> SUFFICES ASSUME NEW i \in 1 .. n PROVE f[i] = Add(i, f[i - 1])
      OBVIOUS
    <2>1. f[i - 1] \in SX
      BY <1>7
    <2> QED BY <1>5, <1>7, <2>1
  <1>9. f = [i \in 0 .. n |-> IF i = 0 THEN <<>> ELSE Add(i, f[i - 1])]
    BY <1>7, <1>8
  <1> DEFINE Kept(h) == h = [i \in 0 .. n |-> IF i = 0 THEN <<>> ELSE Add(i, h[i - 1])]
             k == CHOOSE h : Kept(h)
  <1>10. Kept(k)
    BY <1>9, Zenon
  <1>11. Filter(s, T) = k[n]
    BY <1>1 DEF Filter, Add
  <1> HIDE DEF k
  <1>12. k[0] = <<>> /\ \A i \in 1 .. n : k[i] = Add(i, k[i - 1])
    BY <1>10
  <1>13. \A i \in 0 .. n : k[i] = f[i]
    <2> DEFINE Q == {i \in Nat : i <= n => k[i] = f[i]}
    <2>1. 0 \in Q
      BY <1>7, <1>12
    <2>2. ASSUME NEW i \in Nat, i \in Q PROVE i + 1 \in Q
      <3> SUFFICES ASSUME i + 1 <= n PROVE k[i + 1] = f[i + 1]
        OBVIOUS
      <3>1. k[i] = f[i] /\ i + 1 \in 1 .. n /\ (i + 1) - 1 = i
        BY <2>2
      <3> QED BY <1>8, <1>12, <3>1
    <2>3. Nat \subseteq Q
      <3> HIDE DEF Q
      <3> QED BY <2>1, <2>2, NatInduct
    <2> QED BY <2>3
  <1>14. k \in [0 .. n -> SX]
    <2>1. k = [i \in 0 .. n |-> k[i]]
      BY <1>10
    <2> QED BY <1>13, <2>1
  <1> QED BY <1>1, <1>11, <1>12, <1>14 DEF SX, Add, IsKept

\* A filtered sequence has elements of the sequence.
LEMMA FilterType ==
  ASSUME NEW X, NEW s \in Seq(X), NEW T
  PROVE  Filter(s, T) \in Seq(X)
PROOF
  <1>1. PICK k : IsKept(k, X, s, T, Len(s)) /\ Filter(s, T) = k[Len(s)]
    BY FilterDef
  <1>2. Len(s) \in 0 .. Len(s)
    OBVIOUS
  <1> QED BY <1>1, <1>2, Zenon DEF IsKept
=============================================================================
