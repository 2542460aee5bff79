------------------------------ MODULE FoldLemmas ------------------------------
(***************************************************************************)
(* Induction and recursion over the natural numbers and over sequences,    *)
(* stated of sets and functions so that the provers can use them, and what *)
(* they show of the folds of FirstOrderFolds.                              *)
(***************************************************************************)
EXTENDS FirstOrderFolds, WellFoundedInduction, TLAPS

-----------------------------------------------------------------------------
(* Induction *)

\* A nonempty set of numbers has a least one.
LEMMA LeastNumber ==
  ASSUME NEW T, T \subseteq Nat, T # {}
  PROVE  \E m \in T : \A n \in T : m <= n
<1> DEFINE R == OpToRel(<, Nat)
<1>1. IsWellFoundedOn(R, Nat)
  BY NatLessThanWellFounded
<1>2. PICK m \in T : \A n \in T : <<n, m>> \notin R
  <2> HIDE DEF R
  <2> QED BY <1>1, WFMin
<1>3. \A n \in T : m <= n
  <2> TAKE n \in T
  <2>1. m \in Nat /\ n \in Nat /\ <<n, m>> \in Nat \X Nat
    OBVIOUS
  <2>2. ~(n < m)
    BY <1>2, <2>1 DEF OpToRel
  <2> QED BY <2>1, <2>2
<1> QED BY <1>3

\* Induction over the natural numbers, for a property given by its extension.
LEMMA Induct ==
  ASSUME NEW T, 0 \in T, \A n \in Nat : n \in T => n + 1 \in T
  PROVE  \A n \in Nat : n \in T
<1> SUFFICES ASSUME NEW k \in Nat, k \notin T
             PROVE  FALSE
  OBVIOUS
<1>1. PICK m \in Nat \ T : \A n \in Nat \ T : m <= n
  BY LeastNumber
<1>2. m # 0 /\ m - 1 \in Nat
  OBVIOUS
<1>3. m - 1 \in T
  BY <1>1, <1>2
<1> QED BY <1>2, <1>3

\* f is the recursion that starts from base and follows step for n steps.
Starts(f, n, S, base, step) ==
  /\ f \in [0..n -> S]
  /\ f[0] = base
  /\ \A i \in 1..n : f[i] = step[i][f[i - 1]]

\* A recursion over 1..N exists.
LEMMA Recursion ==
  ASSUME NEW N \in Nat, NEW S, NEW base \in S, NEW step \in [1..N -> [S -> S]]
  PROVE  \E f : Starts(f, N, S, base, step)
<1> USE DEF Starts
<1> DEFINE T == {n \in Nat : n <= N => \E f : Starts(f, n, S, base, step)}
<1>1. 0 \in T
  <2>1. Starts([i \in 0..0 |-> base], 0, S, base, step)
    OBVIOUS
  <2> QED BY <2>1
<1>2. ASSUME NEW n \in Nat, n \in T
      PROVE  n + 1 \in T
  <2> SUFFICES ASSUME n + 1 <= N
               PROVE  \E f : Starts(f, n + 1, S, base, step)
    OBVIOUS
  <2>1. PICK f : Starts(f, n, S, base, step)
    BY <1>2
  <2>2. step[n + 1][f[n]] \in S
    BY <2>1
  <2> DEFINE g == [i \in 0..(n + 1) |-> IF i <= n THEN f[i] ELSE step[n + 1][f[n]]]
  <2>3. g \in [0..(n + 1) -> S] /\ g[0] = base
    BY <2>1, <2>2
  <2>4. ASSUME NEW i \in 1..(n + 1)
        PROVE  g[i] = step[i][g[i - 1]]
    <3>1. CASE i <= n
      BY <2>1, <3>1
    <3>2. CASE i = n + 1
      BY <3>2
    <3> QED BY <3>1, <3>2
  <2>5. Starts(g, n + 1, S, base, step)
    BY <2>3, <2>4
  <2> QED BY <2>5
<1>3. N \in T
  <2> HIDE DEF T
  <2> QED BY <1>1, <1>2, Induct
<1> QED BY <1>3

\* Induction over the sequences of S, one element appended at a time.
LEMMA SeqInduct ==
  ASSUME NEW S, NEW T, <<>> \in T,
         \A s \in Seq(S), e \in S : s \in T => Append(s, e) \in T
  PROVE  \A s \in Seq(S) : s \in T
<1> DEFINE U == {n \in Nat : \A s \in Seq(S) : Len(s) = n => s \in T}
<1>1. 0 \in U
  OBVIOUS
<1>2. ASSUME NEW n \in Nat, n \in U
      PROVE  n + 1 \in U
  <2> SUFFICES ASSUME NEW s \in Seq(S), Len(s) = n + 1
               PROVE  s \in T
    OBVIOUS
  <2> DEFINE t == SubSeq(s, 1, n)
             e == s[n + 1]
  <2>1. t \in Seq(S) /\ Len(t) = n /\ e \in S
    OBVIOUS
  <2>2. s = Append(t, e)
    OBVIOUS
  <2>3. t \in T
    BY <1>2, <2>1
  <2> HIDE DEF t, e
  <2> QED BY <2>1, <2>2, <2>3
<1>3. \A n \in Nat : n \in U
  <2> HIDE DEF U
  <2> QED BY <1>1, <1>2, Induct
<1> QED BY <1>3

-----------------------------------------------------------------------------
(* The filter *)

\* kept is the recursion behind Kept(s, A).
Filters(kept, s, A, S) ==
  /\ kept \in [0..Len(s) -> Seq(S)]
  /\ kept[0] = <<>>
  /\ \A i \in 1..Len(s) :
       kept[i] = IF s[i] \in A THEN Append(kept[i - 1], s[i]) ELSE kept[i - 1]
  /\ Kept(s, A) = kept[Len(s)]

\* The recursion behind Kept exists.
LEMMA KeptRecurses ==
  ASSUME NEW S, NEW s \in Seq(S), NEW A
  PROVE  \E kept : Filters(kept, s, A, S)
<1> DEFINE N == Len(s)
           Is(kept) == kept = [i \in 0..N |-> IF i = 0 THEN <<>>
                           ELSE IF s[i] \in A THEN Append(kept[i - 1], s[i]) ELSE kept[i - 1]]
           step == [i \in 1..N |-> [k \in Seq(S) |-> IF s[i] \in A THEN Append(k, s[i]) ELSE k]]
<1>1. N \in Nat /\ <<>> \in Seq(S) /\ step \in [1..N -> [Seq(S) -> Seq(S)]]
  OBVIOUS
<1>2. \A i \in 1..N, k \in Seq(S) :
        step[i][k] = IF s[i] \in A THEN Append(k, s[i]) ELSE k
  OBVIOUS
<1>3. N = Len(s)
  OBVIOUS
<1> HIDE DEF N, step
<1>4. PICK f : Starts(f, N, Seq(S), <<>>, step)
  BY <1>1, Recursion
<1>5. f \in [0..N -> Seq(S)] /\ f[0] = <<>> /\ \A i \in 1..N : f[i] = step[i][f[i - 1]]
  BY <1>4 DEF Starts
<1>6. \A i \in 0..N : f[i] = IF i = 0 THEN <<>>
                           ELSE IF s[i] \in A THEN Append(f[i - 1], s[i]) ELSE f[i - 1]
  <2> SUFFICES ASSUME NEW i \in 0..N
               PROVE  f[i] = IF i = 0 THEN <<>>
                             ELSE IF s[i] \in A THEN Append(f[i - 1], s[i]) ELSE f[i - 1]
    OBVIOUS
  <2>1. CASE i = 0
    BY <1>5, <2>1
  <2>2. CASE i # 0
    <3>1. i \in 1..N
      BY <1>1, <2>2
    <3>2. i - 1 \in 0..N
      BY <1>1, <3>1
    <3>3. f[i - 1] \in Seq(S) /\ f[i] = step[i][f[i - 1]]
      BY <1>5, <3>1, <3>2
    <3> QED BY <3>1, <3>3, <1>2, <2>2
  <2> QED BY <2>1, <2>2
<1>7. Is(f)
  BY <1>5, <1>6
<1> DEFINE g == CHOOSE kept : Is(kept)
<1>8. Is(g)
  BY <1>7
<1>9. Kept(s, A) = g[N]
  BY <1>3 DEF Kept
<1>10. \A i \in 0..N : g[i] = IF i = 0 THEN <<>>
                           ELSE IF s[i] \in A THEN Append(g[i - 1], s[i]) ELSE g[i - 1]
  <2> HIDE DEF g
  <2> QED BY <1>8
<1>11. \A i \in 0..N : g[i] \in Seq(S)
  <2> DEFINE T == {n \in Nat : n \in 0..N => g[n] \in Seq(S)}
  <2> HIDE DEF g
  <2>1. 0 \in T
    BY <1>1, <1>10
  <2>2. ASSUME NEW n \in Nat, n \in T
        PROVE  n + 1 \in T
    <3> SUFFICES ASSUME n + 1 \in 0..N PROVE g[n + 1] \in Seq(S)
      OBVIOUS
    <3>1. g[n] \in Seq(S) /\ s[n + 1] \in S
      BY <2>2, <1>1, <1>3
    <3>2. g[n + 1] = IF s[n + 1] \in A THEN Append(g[n], s[n + 1]) ELSE g[n]
      BY <1>10
    <3> QED BY <3>1, <3>2
  <2> HIDE DEF T
  <2>3. \A n \in Nat : n \in T
    BY <2>1, <2>2, Induct
  <2> QED BY <2>3 DEF T
<1>12. g \in [0..N -> Seq(S)]
  <2> HIDE DEF g
  <2> QED BY <1>8, <1>11
<1> HIDE DEF g
<1>13. g[0] = <<>>
  BY <1>1, <1>10
<1>14. \A i \in 1..N : g[i] = IF s[i] \in A THEN Append(g[i - 1], s[i]) ELSE g[i - 1]
  BY <1>1, <1>10
<1> QED BY <1>3, <1>9, <1>12, <1>13, <1>14 DEF Filters

\* Nothing is kept of nothing.
LEMMA KeptEmpty == \A A : Kept(<<>>, A) = <<>>
<1> TAKE A
<1>1. <<>> \in Seq({}) /\ Len(<<>>) = 0
  OBVIOUS
<1>2. PICK kept : Filters(kept, <<>>, A, {})
  BY <1>1, KeptRecurses
<1> QED BY <1>1, <1>2 DEF Filters

\* One element more is kept or not.
LEMMA KeptAppend ==
  ASSUME NEW S, NEW s \in Seq(S), NEW e \in S, NEW A
  PROVE  Kept(Append(s, e), A) =
           IF e \in A THEN Append(Kept(s, A), e) ELSE Kept(s, A)
<1> DEFINE t == Append(s, e)
<1>1. t \in Seq(S) /\ Len(t) = Len(s) + 1 /\ t[Len(t)] = e /\ Len(s) \in Nat
  OBVIOUS
<1>2. \A i \in 1..Len(s) : t[i] = s[i]
  OBVIOUS
<1> HIDE DEF t
<1>3. PICK k : Filters(k, s, A, S)
  BY KeptRecurses
<1>4. PICK l : Filters(l, t, A, S)
  BY <1>1, KeptRecurses
<1> DEFINE T == {n \in Nat : n <= Len(s) => l[n] = k[n]}
<1>5. 0 \in T
  BY <1>3, <1>4 DEF Filters
<1>6. ASSUME NEW n \in Nat, n \in T
      PROVE  n + 1 \in T
  <2> SUFFICES ASSUME n + 1 <= Len(s)
               PROVE  l[n + 1] = k[n + 1]
    OBVIOUS
  <2>1. n + 1 \in 1..Len(s) /\ n + 1 \in 1..Len(t) /\ (n + 1) - 1 = n
    BY <1>1
  <2>2. t[n + 1] = s[n + 1] /\ l[n] = k[n]
    BY <1>1, <1>2, <1>6, <2>1
  <2>3. k[n + 1] = IF s[n + 1] \in A THEN Append(k[n], s[n + 1]) ELSE k[n]
    BY <1>3, <2>1 DEF Filters
  <2>4. l[n + 1] = IF t[n + 1] \in A THEN Append(l[n], t[n + 1]) ELSE l[n]
    BY <1>4, <2>1 DEF Filters
  <2> QED BY <2>2, <2>3, <2>4
<1>7. l[Len(s)] = k[Len(s)]
  <2>1. \A n \in Nat : n \in T
    <3> HIDE DEF T
    <3> QED BY <1>5, <1>6, Induct
  <2> QED BY <1>1, <2>1
<1>8. Len(t) \in 1..Len(t) /\ Len(t) - 1 = Len(s)
  BY <1>1
<1>9. l[Len(t)] = IF e \in A THEN Append(l[Len(s)], e) ELSE l[Len(s)]
  BY <1>1, <1>4, <1>8 DEF Filters
<1>10. Kept(t, A) = l[Len(t)] /\ Kept(s, A) = k[Len(s)]
  BY <1>3, <1>4 DEF Filters
<1> QED BY <1>7, <1>9, <1>10 DEF t

\* What is kept is a sequence of the same elements.
LEMMA KeptSeq ==
  ASSUME NEW S, NEW s \in Seq(S), NEW A
  PROVE  Kept(s, A) \in Seq(S)
<1>1. PICK kept : Filters(kept, s, A, S)
  BY KeptRecurses
<1>2. Len(s) \in 0..Len(s)
  OBVIOUS
<1> QED BY <1>1, <1>2 DEF Filters

\* The filter of two sequences in a row is the two filtered in a row.
LEMMA KeptConcat ==
  ASSUME NEW S, NEW A, NEW s \in Seq(S)
  PROVE  \A t \in Seq(S) : Kept(s \o t, A) = Kept(s, A) \o Kept(t, A)
<1> DEFINE T == {t \in Seq(S) : Kept(s \o t, A) = Kept(s, A) \o Kept(t, A)}
<1>1. Kept(s, A) \in Seq(S)
  BY KeptSeq
<1>2. <<>> \in T
  <2>1. s \o <<>> = s /\ Kept(s, A) \o <<>> = Kept(s, A) /\ <<>> \in Seq(S)
    BY <1>1
  <2>2. Kept(<<>>, A) = <<>>
    BY KeptEmpty
  <2> QED BY <2>1, <2>2
<1>3. ASSUME NEW t \in Seq(S), NEW e \in S, t \in T
      PROVE  Append(t, e) \in T
  <2>1. Append(t, e) \in Seq(S) /\ s \o t \in Seq(S)
        /\ s \o Append(t, e) = Append(s \o t, e)
    OBVIOUS
  <2>2. Kept(t, A) \in Seq(S) /\ Kept(s \o t, A) = Kept(s, A) \o Kept(t, A)
    BY <1>3, KeptSeq
  <2>3. Kept(Append(t, e), A) =
          IF e \in A THEN Append(Kept(t, A), e) ELSE Kept(t, A)
    BY KeptAppend
  <2>4. Kept(Append(s \o t, e), A) =
          IF e \in A THEN Append(Kept(s \o t, A), e) ELSE Kept(s \o t, A)
    BY <2>1, KeptAppend
  <2>5. Kept(s, A) \o Append(Kept(t, A), e)
          = Append(Kept(s, A) \o Kept(t, A), e)
    BY <1>1, <2>2
  <2> QED BY <2>1, <2>2, <2>3, <2>4, <2>5
<1> HIDE DEF T
<1>4. \A t \in Seq(S) : t \in T
  BY <1>2, <1>3, SeqInduct
<1> QED BY <1>4 DEF T

\* at is where the elements of k are found in s, in order; the others are not
\* in A.
Places(at, k, s, A) ==
  /\ at \in [1..Len(k) -> 1..Len(s)]
  /\ \A i, j \in 1..Len(k) : i < j => at[i] < at[j]
  /\ \A i \in 1..Len(k) : k[i] = s[at[i]] /\ k[i] \in A
  /\ \A m \in 1..Len(s) : s[m] \in A => \E i \in 1..Len(k) : at[i] = m

\* The filter is the subsequence of the elements in A.
LEMMA KeptPlaces ==
  ASSUME NEW S, NEW A
  PROVE  \A s \in Seq(S) : \E at : Places(at, Kept(s, A), s, A)
<1> DEFINE T == {s \in Seq(S) : \E at : Places(at, Kept(s, A), s, A)}
<1>1. <<>> \in T
  <2>1. Kept(<<>>, A) = <<>>
    BY KeptEmpty
  <2>2. Places([i \in 1..0 |-> 0], <<>>, <<>>, A)
    BY DEF Places
  <2> QED BY <2>1, <2>2
<1>2. ASSUME NEW s \in Seq(S), NEW e \in S, s \in T
      PROVE  Append(s, e) \in T
  <2> DEFINE k == Kept(s, A)
             t == Append(s, e)
             n == Len(s)
  <2> SUFFICES \E to : Places(to, Kept(t, A), t, A)
    OBVIOUS
  <2>1. PICK at : Places(at, k, s, A)
    BY <1>2
  <2>2. k \in Seq(S) /\ Len(k) \in Nat /\ n \in Nat
    BY KeptSeq
  <2>3. Kept(t, A) = IF e \in A THEN Append(k, e) ELSE k
    BY KeptAppend
  <2>4. /\ t \in Seq(S) /\ Len(t) = n + 1 /\ t[n + 1] = e
        /\ \A m \in 1..n : t[m] = s[m]
    OBVIOUS
  <2> HIDE DEF k, t, n
  <2>5. /\ at \in [1..Len(k) -> 1..n]
        /\ \A i, j \in 1..Len(k) : i < j => at[i] < at[j]
        /\ \A i \in 1..Len(k) : k[i] = s[at[i]] /\ k[i] \in A
        /\ \A m \in 1..n : s[m] \in A => \E i \in 1..Len(k) : at[i] = m
    BY <2>1 DEF Places, n
  <2>6. CASE e \notin A
    <3>1. at \in [1..Len(k) -> 1..Len(t)]
      BY <2>2, <2>4, <2>5
    <3>2. \A i \in 1..Len(k) : k[i] = t[at[i]]
      BY <2>4, <2>5
    <3>3. \A m \in 1..Len(t) : t[m] \in A => \E i \in 1..Len(k) : at[i] = m
      <4> SUFFICES ASSUME NEW m \in 1..Len(t), t[m] \in A
                   PROVE  \E i \in 1..Len(k) : at[i] = m
        OBVIOUS
      <4>1. m \in 1..n
        BY <2>2, <2>4, <2>6
      <4> QED BY <2>4, <2>5, <4>1
    <3>4. Places(at, k, t, A)
      BY <2>5, <3>1, <3>2, <3>3 DEF Places
    <3> QED BY <2>3, <2>6, <3>4
  <2>7. CASE e \in A
    <3> DEFINE l == Append(k, e)
               to == [i \in 1..(Len(k) + 1) |-> IF i = Len(k) + 1 THEN n + 1 ELSE at[i]]
    <3>1. /\ Len(l) = Len(k) + 1 /\ l[Len(k) + 1] = e
          /\ \A i \in 1..Len(k) : l[i] = k[i]
      BY <2>2
    <3> HIDE DEF l
    <3>2. Len(k) + 1 \in 1..Len(l)
      BY <2>2, <3>1
    <3>3. \A i \in 1..Len(l) : i \in 1..Len(k) \/ i = Len(k) + 1
      BY <2>2, <3>1
    <3>4. \A i \in 1..Len(k) : i \in 1..Len(l) /\ i < Len(k) + 1
      BY <2>2, <3>1
    <3>5. \A i \in 1..Len(k) : at[i] \in 1..n
      BY <2>5
    <3>6. to[Len(k) + 1] = n + 1
      BY <3>1, <3>2
    <3>7. ASSUME NEW i \in 1..Len(k)
          PROVE  to[i] = at[i]
      <4>1. i \in 1..(Len(k) + 1) /\ i # Len(k) + 1
        BY <2>2
      <4> QED BY <4>1
    <3>8. to \in [1..Len(l) -> 1..Len(t)]
      <4>1. n + 1 \in 1..Len(t) /\ \A m \in 1..n : m \in 1..Len(t)
        BY <2>2, <2>4
      <4> QED BY <3>1, <3>3, <3>5, <4>1
    <3> HIDE DEF to
    <3>9. ASSUME NEW i \in 1..Len(l), NEW j \in 1..Len(l), i < j
          PROVE  to[i] < to[j]
      <4>1. i \in 1..Len(k)
        BY <2>2, <3>1, <3>3, <3>9
      <4>2. to[i] = at[i] /\ at[i] \in 1..n
        BY <3>5, <3>7, <4>1
      <4>3. CASE j \in 1..Len(k)
        <5>1. to[j] = at[j] /\ at[i] < at[j]
          BY <2>5, <3>7, <3>9, <4>1, <4>3
        <5> QED BY <4>2, <5>1
      <4>4. CASE j = Len(k) + 1
        BY <2>2, <3>6, <4>2, <4>4
      <4> QED BY <3>3, <4>3, <4>4
    <3>10. ASSUME NEW i \in 1..Len(l)
           PROVE  l[i] = t[to[i]] /\ l[i] \in A
      <4>1. CASE i \in 1..Len(k)
        <5>1. to[i] = at[i] /\ at[i] \in 1..n /\ l[i] = k[i]
          BY <3>1, <3>5, <3>7, <4>1
        <5>2. k[i] = s[at[i]] /\ k[i] \in A /\ t[at[i]] = s[at[i]]
          BY <2>4, <2>5, <4>1, <5>1
        <5> QED BY <5>1, <5>2
      <4>2. CASE i = Len(k) + 1
        BY <2>4, <2>7, <3>1, <3>6, <4>2
      <4> QED BY <3>3, <4>1, <4>2
    <3>11. \A m \in 1..Len(t) : t[m] \in A => \E i \in 1..Len(l) : to[i] = m
      <4> SUFFICES ASSUME NEW m \in 1..Len(t), t[m] \in A
                   PROVE  \E i \in 1..Len(l) : to[i] = m
        OBVIOUS
      <4>1. CASE m = n + 1
        BY <3>2, <3>6, <4>1
      <4>2. CASE m \in 1..n
        <5>1. PICK i \in 1..Len(k) : at[i] = m
          BY <2>4, <2>5, <4>2
        <5>2. i \in 1..Len(l) /\ to[i] = at[i]
          BY <3>4, <3>7
        <5> QED BY <5>1, <5>2
      <4> QED BY <2>2, <2>4, <4>1, <4>2
    <3>12. Places(to, l, t, A)
      BY <3>8, <3>9, <3>10, <3>11 DEF Places
    <3>13. Kept(t, A) = l
      BY <2>3, <2>7 DEF l
    <3> QED BY <3>12, <3>13
  <2> QED BY <2>6, <2>7
<1> HIDE DEF T
<1>3. \A s \in Seq(S) : s \in T
  BY <1>1, <1>2, SeqInduct
<1> QED BY <1>3 DEF T

\* What is kept is in the set.
LEMMA KeptIn ==
  ASSUME NEW S, NEW A
  PROVE  \A s \in Seq(S) : Kept(s, A) \in Seq(S \cap A)
<1> DEFINE T == {s \in Seq(S) : Kept(s, A) \in Seq(S \cap A)}
<1>1. <<>> \in T
  <2>1. <<>> \in Seq(S \cap A) /\ <<>> \in Seq(S)
    OBVIOUS
  <2> QED BY <2>1, KeptEmpty
<1>2. ASSUME NEW s \in Seq(S), NEW e \in S, s \in T
      PROVE  Append(s, e) \in T
  <2>1. Kept(Append(s, e), A) = IF e \in A THEN Append(Kept(s, A), e) ELSE Kept(s, A)
    BY KeptAppend
  <2>2. Kept(s, A) \in Seq(S \cap A) /\ Append(s, e) \in Seq(S)
    BY <1>2
  <2>3. e \in A => Append(Kept(s, A), e) \in Seq(S \cap A)
    BY <2>2
  <2> QED BY <2>1, <2>2, <2>3
<1> HIDE DEF T
<1>3. \A s \in Seq(S) : s \in T
  BY <1>1, <1>2, SeqInduct
<1> QED BY <1>3 DEF T

\* What is kept is no longer than what it is kept from.
LEMMA KeptShorter ==
  ASSUME NEW S, NEW A
  PROVE  \A s \in Seq(S) : Len(Kept(s, A)) <= Len(s)
<1> DEFINE T == {s \in Seq(S) : Len(Kept(s, A)) <= Len(s)}
<1>1. <<>> \in T
  BY KeptEmpty
<1>2. ASSUME NEW s \in Seq(S), NEW e \in S, s \in T
      PROVE  Append(s, e) \in T
  <2>1. Kept(s, A) \in Seq(S)
    BY KeptSeq
  <2>2. Kept(Append(s, e), A) = IF e \in A THEN Append(Kept(s, A), e) ELSE Kept(s, A)
    BY KeptAppend
  <2>3. Len(Kept(Append(s, e), A)) <= Len(Kept(s, A)) + 1
    BY <2>1, <2>2
  <2>4. Len(Append(s, e)) = Len(s) + 1 /\ Append(s, e) \in Seq(S)
    OBVIOUS
  <2>5. Len(Kept(Append(s, e), A)) \in Nat /\ Len(Kept(s, A)) \in Nat /\ Len(s) \in Nat
    BY <2>1, <2>4, KeptSeq
  <2> QED BY <1>2, <2>3, <2>4, <2>5
<1> HIDE DEF T
<1>3. \A s \in Seq(S) : s \in T
  BY <1>1, <1>2, SeqInduct
<1> QED BY <1>3 DEF T

\* A filter that every element passes changes nothing.
LEMMA KeptAll ==
  ASSUME NEW S, NEW A
  PROVE  \A s \in Seq(S) : (\A i \in 1..Len(s) : s[i] \in A) => Kept(s, A) = s
<1> DEFINE T == {s \in Seq(S) : (\A i \in 1..Len(s) : s[i] \in A) => Kept(s, A) = s}
<1>1. <<>> \in T
  BY KeptEmpty
<1>2. ASSUME NEW s \in Seq(S), NEW e \in S, s \in T
      PROVE  Append(s, e) \in T
  <2>1. Kept(Append(s, e), A) = IF e \in A THEN Append(Kept(s, A), e) ELSE Kept(s, A)
    BY KeptAppend
  <2>2. /\ Append(s, e) \in Seq(S) /\ Len(Append(s, e)) = Len(s) + 1
        /\ Append(s, e)[Len(s) + 1] = e /\ Len(s) \in Nat
        /\ \A i \in 1..Len(s) : Append(s, e)[i] = s[i]
    OBVIOUS
  <2>3. SUFFICES ASSUME \A i \in 1..Len(Append(s, e)) : Append(s, e)[i] \in A
                 PROVE  Kept(Append(s, e), A) = Append(s, e)
    BY <2>2
  <2>4. e \in A /\ \A i \in 1..Len(s) : s[i] \in A
    BY <2>2, <2>3
  <2> QED BY <1>2, <2>1, <2>4
<1> HIDE DEF T
<1>3. \A s \in Seq(S) : s \in T
  BY <1>1, <1>2, SeqInduct
<1> QED BY <1>3 DEF T

\* A filter that no element passes leaves nothing.
LEMMA KeptNone ==
  ASSUME NEW S, NEW A
  PROVE  \A s \in Seq(S) : (\A i \in 1..Len(s) : s[i] \notin A) => Kept(s, A) = <<>>
<1> DEFINE T == {s \in Seq(S) : (\A i \in 1..Len(s) : s[i] \notin A) => Kept(s, A) = <<>>}
<1>1. <<>> \in T
  BY KeptEmpty
<1>2. ASSUME NEW s \in Seq(S), NEW e \in S, s \in T
      PROVE  Append(s, e) \in T
  <2>1. Kept(Append(s, e), A) = IF e \in A THEN Append(Kept(s, A), e) ELSE Kept(s, A)
    BY KeptAppend
  <2>2. /\ Append(s, e) \in Seq(S) /\ Len(Append(s, e)) = Len(s) + 1
        /\ Append(s, e)[Len(s) + 1] = e /\ Len(s) \in Nat
        /\ \A i \in 1..Len(s) : Append(s, e)[i] = s[i]
    OBVIOUS
  <2>3. SUFFICES ASSUME \A i \in 1..Len(Append(s, e)) : Append(s, e)[i] \notin A
                 PROVE  Kept(Append(s, e), A) = <<>>
    BY <2>2
  <2>4. e \notin A /\ \A i \in 1..Len(s) : s[i] \notin A
    BY <2>2, <2>3
  <2> QED BY <1>2, <2>1, <2>4
<1> HIDE DEF T
<1>3. \A s \in Seq(S) : s \in T
  BY <1>1, <1>2, SeqInduct
<1> QED BY <1>3 DEF T

-----------------------------------------------------------------------------
(* The sum *)

\* total is the recursion behind Total(f, n).
Sums(total, f, n) ==
  /\ total \in [0..n -> Int]
  /\ total[0] = 0
  /\ \A i \in 1..n : total[i] = total[i - 1] + f[i]
  /\ Total(f, n) = total[n]

\* The recursion behind Total exists.
LEMMA TotalRecurses ==
  ASSUME NEW n \in Nat, NEW f \in [1..n -> Int]
  PROVE  \E total : Sums(total, f, n)
<1> DEFINE Is(total) ==
             total = [i \in 0..n |-> IF i = 0 THEN 0 ELSE total[i - 1] + f[i]]
           step == [i \in 1..n |-> [k \in Int |-> k + f[i]]]
<1>1. step \in [1..n -> [Int -> Int]] /\ 0 \in Int
  OBVIOUS
<1>2. \A i \in 1..n, k \in Int : step[i][k] = k + f[i]
  OBVIOUS
<1> HIDE DEF step
<1>3. PICK t : Starts(t, n, Int, 0, step)
  BY <1>1, Recursion
<1>4. /\ t \in [0..n -> Int] /\ t[0] = 0
      /\ \A i \in 1..n : t[i] = step[i][t[i - 1]]
  BY <1>3 DEF Starts
<1>5. ASSUME NEW i \in 1..n
      PROVE  t[i] = t[i - 1] + f[i]
  <2>1. i - 1 \in 0..n
    OBVIOUS
  <2>2. t[i - 1] \in Int
    BY <1>4, <2>1
  <2> QED BY <1>2, <1>4, <2>2
<1>6. Is(t)
  BY <1>4, <1>5
<1> DEFINE g == CHOOSE total : Is(total)
<1>7. Is(g)
  BY <1>6
<1>8. Total(f, n) = g[n]
  BY DEF Total
<1>9. \A i \in 0..n : g[i] = IF i = 0 THEN 0 ELSE g[i - 1] + f[i]
  <2> HIDE DEF g
  <2> QED BY <1>7
<1>10. \A i \in 0..n : g[i] \in Int
  <2> HIDE DEF g
  <2> DEFINE T == {m \in Nat : m \in 0..n => g[m] \in Int}
  <2>1. 0 \in T
    BY <1>9
  <2>2. ASSUME NEW m \in Nat, m \in T
        PROVE  m + 1 \in T
    <3> SUFFICES ASSUME m + 1 \in 0..n PROVE g[m + 1] \in Int
      OBVIOUS
    <3>1. g[m] \in Int /\ f[m + 1] \in Int
      BY <2>2
    <3>2. g[m + 1] = g[m] + f[m + 1]
      BY <1>9
    <3> QED BY <3>1, <3>2
  <2> HIDE DEF T
  <2>3. \A m \in Nat : m \in T
    BY <2>1, <2>2, Induct
  <2> QED BY <2>3 DEF T
<1>11. g \in [0..n -> Int]
  <2> HIDE DEF g
  <2> QED BY <1>7, <1>10
<1> HIDE DEF g
<1>12. g[0] = 0 /\ \A i \in 1..n : g[i] = g[i - 1] + f[i]
  BY <1>9
<1> QED BY <1>8, <1>11, <1>12 DEF Sums

\* A sum of integers is one.
LEMMA TotalInt ==
  ASSUME NEW n \in Nat, NEW f \in [1..n -> Int]
  PROVE  Total(f, n) \in Int
<1>1. PICK t : Sums(t, f, n)
  BY TotalRecurses
<1> QED BY <1>1 DEF Sums

\* Larger summands, larger sum; equal ones, equal sum.
LEMMA TotalMonotone ==
  ASSUME NEW n \in Nat, NEW f \in [1..n -> Int], NEW g \in [1..n -> Int],
         \A i \in 1..n : f[i] <= g[i]
  PROVE  Total(f, n) <= Total(g, n)
<1>1. PICK t : Sums(t, f, n)
  BY TotalRecurses
<1>2. PICK u : Sums(u, g, n)
  BY TotalRecurses
<1> DEFINE T == {m \in Nat : m <= n => t[m] <= u[m]}
<1>3. 0 \in T
  BY <1>1, <1>2 DEF Sums
<1>4. ASSUME NEW m \in Nat, m \in T
      PROVE  m + 1 \in T
  <2> SUFFICES ASSUME m + 1 <= n
               PROVE  t[m + 1] <= u[m + 1]
    OBVIOUS
  <2>1. m + 1 \in 1..n /\ (m + 1) - 1 = m /\ m \in 0..n
    OBVIOUS
  <2>2. t[m + 1] = t[m] + f[m + 1] /\ u[m + 1] = u[m] + g[m + 1]
        /\ t[m] \in Int /\ u[m] \in Int
    BY <1>1, <1>2, <2>1 DEF Sums
  <2>3. t[m] <= u[m] /\ f[m + 1] <= g[m + 1] /\ f[m + 1] \in Int /\ g[m + 1] \in Int
    BY <1>4, <2>1
  <2> QED BY <2>2, <2>3
<1> HIDE DEF T
<1>5. n \in T
  BY <1>3, <1>4, Induct
<1> QED BY <1>1, <1>2, <1>5 DEF T, Sums

\* When one summand changes, the sum changes by as much.
LEMMA TotalChange ==
  ASSUME NEW n \in Nat, NEW f \in [1..n -> Int], NEW g \in [1..n -> Int],
         NEW j \in 1..n, \A i \in 1..n : i # j => g[i] = f[i]
  PROVE  Total(g, n) = Total(f, n) + (g[j] - f[j])
<1>1. PICK t : Sums(t, f, n)
  BY TotalRecurses
<1>2. PICK u : Sums(u, g, n)
  BY TotalRecurses
<1> DEFINE d == g[j] - f[j]
           T == {m \in Nat : m <= n => u[m] = t[m] + IF j <= m THEN d ELSE 0}
<1>3. 0 \in T
  BY <1>1, <1>2 DEF Sums
<1>4. ASSUME NEW m \in Nat, m \in T
      PROVE  m + 1 \in T
  <2> SUFFICES ASSUME m + 1 <= n
               PROVE  u[m + 1] = t[m + 1] + IF j <= m + 1 THEN d ELSE 0
    OBVIOUS
  <2>1. m + 1 \in 1..n /\ (m + 1) - 1 = m /\ m \in 0..n
    OBVIOUS
  <2>2. t[m + 1] = t[m] + f[m + 1] /\ u[m + 1] = u[m] + g[m + 1]
        /\ t[m] \in Int /\ u[m] \in Int
    BY <1>1, <1>2, <2>1 DEF Sums
  <2>3. u[m] = t[m] + IF j <= m THEN d ELSE 0
    BY <1>4, <2>1
  <2>4. f[m + 1] \in Int /\ g[m + 1] \in Int /\ (m + 1 # j => g[m + 1] = f[m + 1])
    BY <2>1
  <2>5. CASE m + 1 = j
    <3>1. ~(j <= m) /\ j <= m + 1 /\ d = g[m + 1] - f[m + 1]
      BY <2>5
    <3> HIDE DEF d
    <3> QED BY <3>1, <2>2, <2>3, <2>4
  <2>6. CASE m + 1 # j
    BY <2>2, <2>3, <2>4, <2>6
  <2> QED BY <2>5, <2>6
<1>5. n \in T
  <2> HIDE DEF T
  <2> QED BY <1>3, <1>4, Induct
<1> QED BY <1>1, <1>2, <1>5 DEF Sums

\* The sum of sums.
LEMMA TotalAdd ==
  ASSUME NEW n \in Nat, NEW f \in [1..n -> Int], NEW g \in [1..n -> Int],
         NEW h \in [1..n -> Int], \A i \in 1..n : h[i] = f[i] + g[i]
  PROVE  Total(h, n) = Total(f, n) + Total(g, n)
<1>1. PICK t : Sums(t, f, n)
  BY TotalRecurses
<1>2. PICK u : Sums(u, g, n)
  BY TotalRecurses
<1>3. PICK v : Sums(v, h, n)
  BY TotalRecurses
<1> DEFINE T == {m \in Nat : m <= n => v[m] = t[m] + u[m]}
<1>4. 0 \in T
  BY <1>1, <1>2, <1>3 DEF Sums
<1>5. ASSUME NEW m \in Nat, m \in T
      PROVE  m + 1 \in T
  <2> SUFFICES ASSUME m + 1 <= n
               PROVE  v[m + 1] = t[m + 1] + u[m + 1]
    OBVIOUS
  <2>1. m + 1 \in 1..n /\ (m + 1) - 1 = m /\ m \in 0..n
    OBVIOUS
  <2>2. /\ t[m + 1] = t[m] + f[m + 1] /\ u[m + 1] = u[m] + g[m + 1]
        /\ v[m + 1] = v[m] + h[m + 1]
        /\ t[m] \in Int /\ u[m] \in Int
    BY <1>1, <1>2, <1>3, <2>1 DEF Sums
  <2>3. v[m] = t[m] + u[m] /\ h[m + 1] = f[m + 1] + g[m + 1]
        /\ f[m + 1] \in Int /\ g[m + 1] \in Int
    BY <1>5, <2>1
  <2> QED BY <2>2, <2>3
<1> HIDE DEF T
<1>6. n \in T
  BY <1>4, <1>5, Induct
<1> QED BY <1>1, <1>2, <1>3, <1>6 DEF T, Sums

\* Nothing adds up to nothing.
LEMMA TotalZero ==
  ASSUME NEW n \in Nat, NEW f \in [1..n -> Int], \A i \in 1..n : f[i] = 0
  PROVE  Total(f, n) = 0
<1>1. Total(f, n) = Total(f, n) + Total(f, n)
  BY TotalAdd
<1> QED BY <1>1, TotalInt

===============================================================================
