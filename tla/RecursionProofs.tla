-------------------------- MODULE RecursionProofs --------------------------
(***************************************************************************)
(* Induction and recursion on numbers and on sequences, stated with sets   *)
(* and functions: the set of the arguments a claim holds of takes the      *)
(* place of a predicate, and the step of a recursion is a function.  That  *)
(* makes them first-order facts, which the provers can use.                *)
(***************************************************************************)
EXTENDS Integers, SequenceTheorems, WellFoundedInduction, TLAPS

-----------------------------------------------------------------------------
(* Induction.                                                              *)

LEMMA LeastElement ==
    ASSUME NEW T \in SUBSET Nat, T # {}
    PROVE  \E n \in T : \A m \in T : n <= m
<1>1. PICK n \in T : \A m \in T : ~(<<m, n>> \in OpToRel(<, Nat))
  BY NatLessThanWellFounded, WFMin
<1>2. \A m \in T : m < n => <<m, n>> \in OpToRel(<, Nat)
  BY DEF OpToRel
<1>3. \A m \in T : ~(m < n)
  BY <1>1, <1>2
<1> QED
  BY <1>3

LEMMA NaturalInduction ==
    ASSUME NEW T \in SUBSET Nat, 0 \in T, \A n \in T : n + 1 \in T
    PROVE  Nat \subseteq T
<1> SUFFICES ASSUME Nat \ T # {} PROVE FALSE
  OBVIOUS
<1>1. PICK n \in Nat \ T : \A m \in Nat \ T : n <= m
  <2>1. Nat \ T \in SUBSET Nat
    OBVIOUS
  <2> QED
    BY <2>1, LeastElement
<1>2. n # 0 /\ n - 1 \in Nat
  BY <1>1
<1>3. n - 1 \in T
  BY <1>1, <1>2
<1> QED
  BY <1>1, <1>3

LEMMA SequenceInduction ==
    ASSUME NEW S, NEW T \in SUBSET Seq(S),
           <<>> \in T, \A s \in T, e \in S : Append(s, e) \in T
    PROVE  Seq(S) \subseteq T
<1> DEFINE N == {n \in Nat : \A s \in Seq(S) : Len(s) = n => s \in T}
<1>1. 0 \in N
  BY EmptySeq
<1>2. ASSUME NEW n \in N PROVE n + 1 \in N
  <2> SUFFICES ASSUME NEW s \in Seq(S), Len(s) = n + 1 PROVE s \in T
    OBVIOUS
  <2>1. s # <<>>
    OBVIOUS
  <2>2. PICK t \in Seq(S), e \in S : s = Append(t, e)
    BY <2>1, SequenceEmptyOrAppend
  <2>3. Len(t) = n
    BY <2>2
  <2> QED
    BY <2>2, <2>3
<1>3. Nat \subseteq N
  <2> HIDE DEF N
  <2>1. N \in SUBSET Nat
    BY DEF N
  <2> QED
    BY <1>1, <1>2, <2>1, NaturalInduction
<1> QED
  BY <1>3

-----------------------------------------------------------------------------
(* Recursion.                                                              *)

\* f runs through the first N steps of a recursion from z.
Runs(f, N, z, step) ==
    f[0] = z /\ \A n \in 1 .. N : f[n] = step[<<n, f[n - 1]>>]

LEMMA NaturalRecursion ==
    ASSUME NEW R, NEW z \in R, NEW N \in Nat, NEW step \in [(1 .. N) \X R -> R]
    PROVE  \E f \in [0 .. N -> R] : Runs(f, N, z, step)
<1> DEFINE T == {n \in Nat : n <= N => \E f \in [0 .. n -> R] : Runs(f, n, z, step)}
<1>1. 0 \in T
  <2> DEFINE f == [i \in 0 .. 0 |-> z]
  <2>1. f \in [0 .. 0 -> R] /\ Runs(f, 0, z, step)
    BY DEF Runs
  <2> QED
    BY <2>1
<1>2. ASSUME NEW n \in T PROVE n + 1 \in T
  <2> SUFFICES ASSUME n + 1 <= N
               PROVE  \E g \in [0 .. n + 1 -> R] : Runs(g, n + 1, z, step)
    OBVIOUS
  <2>1. n \in Nat
    OBVIOUS
  <2>2. PICK f \in [0 .. n -> R] : Runs(f, n, z, step)
    BY <2>1
  <2> DEFINE e == step[<<n + 1, f[n]>>]
             g == [i \in 0 .. n + 1 |-> IF i = n + 1 THEN e ELSE f[i]]
  <2>3. f[n] \in R /\ n + 1 \in 1 .. N
    BY <2>1
  <2>4. e \in R
    BY <2>3
  <2> HIDE DEF e
  <2>5. \A i \in 0 .. n : f[i] \in R
    OBVIOUS
  <2>6. \A i \in 0 .. n + 1 : g[i] \in R
    BY <2>1, <2>4, <2>5
  <2>7. g \in [0 .. n + 1 -> R]
    BY <2>6
  <2>8. g[0] = z
    BY <2>1, <2>2 DEF Runs
  <2>9. ASSUME NEW i \in 1 .. n + 1 PROVE g[i] = step[<<i, g[i - 1]>>]
    <3>1. CASE i = n + 1
      <4>1. g[i] = e
        BY <2>1, <3>1
      <4>2. i - 1 = n /\ i - 1 # n + 1 /\ i - 1 \in 0 .. n + 1
        BY <2>1, <3>1
      <4>3. g[i - 1] = f[n]
        BY <4>2
      <4> HIDE DEF g
      <4> QED
        BY <3>1, <4>1, <4>3 DEF e
    <3>2. CASE i # n + 1
      <4>1. i \in 1 .. n /\ i - 1 # n + 1 /\ {i, i - 1} \subseteq 0 .. n + 1
        BY <2>1, <3>2
      <4>2. g[i] = f[i] /\ g[i - 1] = f[i - 1]
        BY <4>1, <3>2
      <4>3. f[i] = step[<<i, f[i - 1]>>]
        BY <2>2, <4>1 DEF Runs
      <4> QED
        BY <4>2, <4>3
    <3> QED
      BY <3>1, <3>2
  <2> HIDE DEF g
  <2> QED
    BY <2>7, <2>8, <2>9 DEF Runs
<1>3. Nat \subseteq T
  <2> HIDE DEF T
  <2>1. T \in SUBSET Nat
    BY DEF T
  <2> QED
    BY <1>1, <1>2, <2>1, NaturalInduction
<1>4. N \in T
  BY <1>3
<1> QED
  BY <1>4

\* f is what step makes of a sequence, element by element, from z.
Folds(f, S, z, step) ==
    f[<<>>] = z /\ \A s \in Seq(S), e \in S : f[Append(s, e)] = step[<<f[s], e>>]

LEMMA SequenceRecursion ==
    ASSUME NEW S, NEW R, NEW z \in R, NEW step \in [R \X S -> R]
    PROVE  \E f \in [Seq(S) -> R] : Folds(f, S, z, step)
<1> DEFINE along(s) == [x \in (1 .. Len(s)) \X R |-> step[<<x[2], s[x[1]]>>]]
           Trace(s, g) == g \in [0 .. Len(s) -> R] /\ Runs(g, Len(s), z, along(s))
           trace(s) == CHOOSE g : Trace(s, g)
           f == [s \in Seq(S) |-> trace(s)[Len(s)]]
<1>1. ASSUME NEW s \in Seq(S) PROVE Trace(s, trace(s))
  <2>1. Len(s) \in Nat
    OBVIOUS
  <2>2. ASSUME NEW x \in (1 .. Len(s)) \X R PROVE step[<<x[2], s[x[1]]>>] \in R
    <3>1. x[1] \in 1 .. Len(s) /\ x[2] \in R
      OBVIOUS
    <3>2. s[x[1]] \in S
      BY <3>1, ElementOfSeq
    <3> QED
      BY <3>1, <3>2
  <2>3. along(s) \in [(1 .. Len(s)) \X R -> R]
    BY <2>2
  <2>4. \E g \in [0 .. Len(s) -> R] : Runs(g, Len(s), z, along(s))
    <3> HIDE DEF along
    <3> QED
      BY <2>1, <2>3, NaturalRecursion
  <2>5. \E g : Trace(s, g)
    BY <2>4
  <2> HIDE DEF Trace
  <2> QED
    BY <2>5
<1>2. ASSUME NEW s \in Seq(S), NEW g, Trace(s, g), NEW i \in 1 .. Len(s)
      PROVE  g[i] = step[<<g[i - 1], s[i]>>] /\ g[i - 1] \in R
  <2>1. g[i - 1] \in R
    BY <1>2
  <2>2. g[i] = along(s)[<<i, g[i - 1]>>]
    <3> HIDE DEF along
    <3> QED
      BY <1>2 DEF Runs
  <2>3. <<i, g[i - 1]>> \in (1 .. Len(s)) \X R
    BY <2>1
  <2> QED
    BY <2>1, <2>2, <2>3
<1>3. ASSUME NEW s \in Seq(S), NEW g, NEW h, NEW t \in Seq(S), Trace(s, g), Trace(t, h),
             Len(s) <= Len(t), \A i \in 1 .. Len(s) : t[i] = s[i]
      PROVE  g[Len(s)] = h[Len(s)]
  <2> DEFINE T == {n \in Nat : n <= Len(s) => g[n] = h[n]}
  <2>1. 0 \in T
    BY <1>3 DEF Runs
  <2>2. ASSUME NEW n \in T PROVE n + 1 \in T
    <3> SUFFICES ASSUME n + 1 <= Len(s) PROVE g[n + 1] = h[n + 1]
      OBVIOUS
    <3>1. n \in Nat /\ g[n] = h[n]
      OBVIOUS
    <3>2. n + 1 \in 1 .. Len(s) /\ n + 1 \in 1 .. Len(t) /\ (n + 1) - 1 = n
      BY <3>1, <1>3
    <3> HIDE DEF T, Trace
    <3>3. g[n + 1] = step[<<g[(n + 1) - 1], s[n + 1]>>]
      BY <3>2, <1>2, <1>3
    <3>4. h[n + 1] = step[<<h[(n + 1) - 1], t[n + 1]>>]
      BY <3>2, <1>2, <1>3
    <3> QED
      BY <3>1, <3>2, <3>3, <3>4, <1>3
  <2>3. Nat \subseteq T
    <3> HIDE DEF T
    <3>1. T \in SUBSET Nat
      BY DEF T
    <3> QED
      BY <2>1, <2>2, <3>1, NaturalInduction
  <2> QED
    BY <2>3
<1> HIDE DEF trace
<1>4. f \in [Seq(S) -> R]
  <2>1. ASSUME NEW s \in Seq(S) PROVE trace(s)[Len(s)] \in R
    <3>1. trace(s) \in [0 .. Len(s) -> R]
      BY <1>1
    <3>2. Len(s) \in 0 .. Len(s)
      OBVIOUS
    <3> QED
      BY <3>1, <3>2
  <2> QED
    BY <2>1
<1>5. f[<<>>] = z
  <2>1. Trace(<<>>, trace(<<>>)) /\ <<>> \in Seq(S) /\ Len(<<>>) = 0
    BY <1>1, EmptySeq
  <2>2. trace(<<>>)[0] = z
    BY <2>1 DEF Runs
  <2> QED
    BY <2>1, <2>2
<1>6. ASSUME NEW s \in Seq(S), NEW e \in S PROVE f[Append(s, e)] = step[<<f[s], e>>]
  <2> DEFINE t == Append(s, e)
  <2>1. t \in Seq(S) /\ Len(t) = Len(s) + 1 /\ t[Len(s) + 1] = e
        /\ (\A i \in 1 .. Len(s) : t[i] = s[i])
    BY AppendProperties
  <2> HIDE DEF t, Trace
  <2>2. trace(s)[Len(s)] = trace(t)[Len(s)]
    BY <1>1, <1>3, <2>1
  <2>3. trace(t)[Len(t)] = step[<<trace(t)[Len(t) - 1], t[Len(t)]>>]
    BY <1>1, <1>2, <2>1
  <2>4. Len(t) - 1 = Len(s)
    BY <2>1
  <2> QED
    BY <2>1, <2>2, <2>3, <2>4 DEF t
<1> HIDE DEF f
<1> QED
  BY <1>4, <1>5, <1>6 DEF Folds

\* A sequence that is not empty is its front and its last element.
LEMMA FrontAndLast ==
    ASSUME NEW S, NEW s \in Seq(S), s # <<>>
    PROVE  /\ SubSeq(s, 1, Len(s) - 1) \in Seq(S) /\ s[Len(s)] \in S
           /\ s = Append(SubSeq(s, 1, Len(s) - 1), s[Len(s)])
<1>1. PICK t \in Seq(S), e \in S : s = Append(t, e)
  BY SequenceEmptyOrAppend
<1>2. Len(s) = Len(t) + 1 /\ Len(t) \in Nat /\ s[Len(s)] = e /\ \A i \in 1 .. Len(t) : s[i] = t[i]
  BY <1>1, AppendProperties, LenProperties
<1>3. \A i \in 1 .. Len(t) : s[i] \in S
  BY <1>2, ElementOfSeq
<1> DEFINE u == SubSeq(s, 1, Len(s) - 1)
<1>4. /\ u \in Seq(S) /\ Len(u) = Len(t) /\ \A i \in 1 .. Len(t) : u[i] = t[i]
  BY <1>2, <1>3, SubSeqProperties
<1> HIDE DEF u
<1>5. u = t
  BY <1>4, SeqEqual
<1> QED
  BY <1>1, <1>2, <1>5 DEF u

LEMMA FrontOfAppend ==
    ASSUME NEW S, NEW s \in Seq(S), NEW e \in S
    PROVE  LET t == Append(s, e)
           IN  t # <<>> /\ t \in Seq(S) /\ SubSeq(t, 1, Len(t) - 1) = s /\ t[Len(t)] = e
<1> DEFINE t == Append(s, e)
<1>1. t # <<>> /\ t \in Seq(S) /\ Len(t) = Len(s) + 1 /\ t[Len(s) + 1] = e
  BY AppendProperties
<1> HIDE DEF t
<1>2. t = Append(SubSeq(t, 1, Len(t) - 1), t[Len(t)]) /\ SubSeq(t, 1, Len(t) - 1) \in Seq(S) /\ t[Len(t)] \in S
  BY <1>1, FrontAndLast
<1>3. SubSeq(t, 1, Len(t) - 1) = s
  BY <1>2, AppendInjective DEF t
<1> QED
  BY <1>1, <1>3 DEF t

LEMMA ConcatAppend ==
    ASSUME NEW S, NEW s \in Seq(S), NEW t \in Seq(S), NEW e \in S
    PROVE  s \o Append(t, e) = Append(s \o t, e)
<1>1. Append(t, e) = t \o <<e>> /\ <<e>> \in Seq(S) /\ s \o t \in Seq(S)
  BY AppendIsConcat, ConcatProperties
<1>2. Append(s \o t, e) = (s \o t) \o <<e>>
  BY <1>1, AppendIsConcat
<1> QED
  BY <1>1, <1>2, ConcatAssociative

LEMMA AppendConcat ==
    ASSUME NEW S, NEW s \in Seq(S), NEW t \in Seq(S), t # <<>>
    PROVE  Append(s, Head(t)) \o Tail(t) = s \o t
<1>1. Head(t) \in S /\ Tail(t) \in Seq(S) /\ <<Head(t)>> \in Seq(S) /\ t = <<Head(t)>> \o Tail(t)
  OBVIOUS
<1>2. Append(s, Head(t)) = s \o <<Head(t)>>
  BY <1>1, AppendIsConcat
<1> QED
  BY <1>1, <1>2, ConcatAssociative

\* The two parts of a concatenation.
LEMMA ConcatParts ==
    ASSUME NEW S, NEW s \in Seq(S), NEW t \in Seq(S)
    PROVE  /\ SubSeq(s \o t, 1, Len(s)) = s
           /\ SubSeq(s \o t, Len(s) + 1, Len(s \o t)) = t
<1>1. /\ s \o t \in Seq(S) /\ Len(s \o t) = Len(s) + Len(t)
      /\ Len(s) \in Nat /\ Len(t) \in Nat
      /\ \A i \in 1 .. Len(s) + Len(t) : (s \o t)[i] = IF i <= Len(s) THEN s[i] ELSE t[i - Len(s)]
  BY ConcatProperties, LenProperties
<1> DEFINE c == s \o t
           a == SubSeq(c, 1, Len(s))
           b == SubSeq(c, Len(s) + 1, Len(c))
<1> HIDE DEF c
<1>2. \A i \in 1 .. Len(c) : c[i] \in S
  BY <1>1, ElementOfSeq DEF c
<1>3. a \in Seq(S) /\ Len(a) = Len(s) /\ \A i \in 1 .. Len(s) : a[i] = c[i]
  BY <1>1, <1>2, SubSeqProperties DEF c
<1>4. b \in Seq(S) /\ Len(b) = Len(t) /\ \A i \in 1 .. Len(t) : b[i] = c[Len(s) + i]
  BY <1>1, <1>2, SubSeqProperties DEF c
<1> HIDE DEF a, b
<1>5. a = s
  BY <1>1, <1>3, SeqEqual DEF c
<1>6. b = t
  <2>1. \A i \in 1 .. Len(t) : b[i] = t[i]
    BY <1>1, <1>4 DEF c
  <2> QED
    BY <1>4, <2>1, SeqEqual
<1> QED
  BY <1>5, <1>6 DEF a, b, c

\* A sequence is what precedes a place and what follows it.
LEMMA CutInTwo ==
    ASSUME NEW S, NEW s \in Seq(S), NEW n \in 0 .. Len(s)
    PROVE  /\ SubSeq(s, 1, n) \in Seq(S) /\ SubSeq(s, n + 1, Len(s)) \in Seq(S)
           /\ SubSeq(s, 1, n) \o SubSeq(s, n + 1, Len(s)) = s
<1>1. Len(s) \in Nat /\ \A i \in 1 .. Len(s) : s[i] \in S
  BY LenProperties, ElementOfSeq
<1>2. SubSeq(s, 1, n) \in Seq(S) /\ SubSeq(s, n + 1, Len(s)) \in Seq(S)
  BY <1>1, SubSeqProperties
<1>3. SubSeq(s, 1, n) \o SubSeq(s, n + 1, Len(s)) = SubSeq(s, 1, Len(s))
  <2>1. 1 \in 1 .. Len(s) + 1 /\ n \in 1 - 1 .. Len(s) /\ Len(s) \in n .. Len(s)
    BY <1>1
  <2> QED
    BY <2>1, ConcatAdjacentSubSeq
<1> QED
  BY <1>2, <1>3, SubSeqFull
=============================================================================
